# A verification project for the INNOVA backend

INNOVA is a corporate academy and human resources platform: a NestJS
application over PostgreSQL (Prisma), with Redis for caches, session marks and
scheduled-job locks.  It runs as several identical replicas behind a load
balancer.  This directory holds TLA+ modules that model parts of it, the TLC
configurations that check them, and proofs checked by TLAPS.  Paths below are
relative to the repository; `leave-management.service.ts:549` is a line of
`src/leave-management/leave-management.service.ts`.

## 1. Inventory

The platform is some seventy Nest modules.  Most are CRUD, listings, dashboards
and exports: one statement per call, with nothing to interleave.  The parts
with a protocol of their own, where the order of awaited statements matters:

| part | state | operations | what is hard | what makes it correct |
|---|---|---|---|---|
| **leave requests** (`leave-management`) | `LeaveRequest.status`, `LeaveApproval` steps, one `LeaveBalance` row per employee and type (balance, used, reserved), its history | create, approve / reject / escalate / delegate, reassign, remind, cancel, accrue, update, carry over | a handler is a sequence of awaited statements; only the ledger transactions lock the row; decisions are read and written without condition | reservations are exact and covered; each request is charged and refunded once; steps are sequential; final statuses stay final; a decision reaches the balance |
| **invoices** (`billing`) | `BillingInvoice`, `BillingPayment`, a sequence per year, a hash chain | issue, register payment, failed payment, void, fiscal reference, verify chain | several replicas with their own clocks; reads before the transaction | numbers without gaps, an intact chain, no voided invoice with payments |
| **subscriptions** (`billing`) | `BillingSubscription.status`, period, cancellation flag | trial, subscribe, change plan, cancel; daily renewals, trial end, dunning, cancellations | the daily job works on a list read at its start | one renewal per period; unpaid means read-only after the grace period, and only then |
| **payroll** | run and its totals, payslips, payments, closure | process, correct, submit, approve, publish, pay, close | reads before transactions, totals and payslips in separate statements, publication in chunks | what was approved is what is paid, once; nothing changes after approval; a closure is final |
| **processes** (`process-standard`) | instance, one row per step, approvals in rounds | start, complete, return, reopen, decide, suspend, resume, cancel; timers, events, retries; the engine that advances the instance | every call is a list of statements followed by a loop of reads and writes; a step can be sent back while later ones are open | steps are open in their order; the instance ends when its steps do; a review waits for somebody and is approved by whom the template asks |
| **sessions** (`auth`) | `RefreshToken` rows, revocation marks in Redis | login, rotate, logout, revoke all, change password | rotation is a claim and a later insertion; marks have seconds granularity and a TTL | a token is exchanged once |
| **instructor invitations** | invitation, codes, attempts, device | create, accept, resend, revoke, verify | attempts at their limit, expiry racing acceptance | an invitation is accepted at most once |
| **scheduled jobs** (`cluster-cron-lock`) | a Redis key per job, 30 s | tick | replicas whose clocks differ; Redis unavailable | one replica runs a tick |
| **audit chain** (`audit-chain`) | `AuditLog` hash chain | append | concurrent appends | the chain verifies |

How they interact: an approved leave request pauses the employee's enrolments
and writes attendance records (and a cancellation undoes both); the daily
billing job issues invoices through the same service as a subscription; every
part appends to the audit chain; scheduled jobs run under the cluster lock.
`PROJECT.json` lists every other part with the reason it is not modelled, and
under `hazards` the places where this code is hard to test.

## 2. Plan

In order of importance; a module is done when its component's row above is.

1. `LeaveRequests` (done): requests, steps and the ledger, refining
   `LeaveAccount`; `LeaveRequests_proofs`, `LeaveSerial_proofs`.
2. `InvoiceChain` (done): numbering and hash chain over replicas with clocks,
   refining `InvoiceBook`; `InvoiceChain_proofs`.
3. `BillingCycle` (done): subscriptions, payments, voiding, and the daily job
   against the administrators' calls; `BillingCycle_proofs`.
4. `PayrollRun` (done): calculation, approval, publication, payments and
   closure of a run; `PayrollRun_proofs`, `PayrollSerial_proofs`.
5. `ProcessEngine` (done): an instance of a process, the engine that advances
   it, its tasks and approvals; `ProcessEngine_proofs`, `ProcessSerial_proofs`.
6. `RefreshTokens`: rotation, logout and revoke-all as separate statements;
   theorem: a token is exchanged at most once.
7. `InstructorInvites`, then `CronLock` composed with the daily job.
8. Proofs (done): every invariant, action property and refinement the runs check
   is stated by a theorem; liveness stays with TLC.

## 3. Leave requests

`LeaveRequests.tla` models one balance row and the requests that charge it:
rows never meet in one statement of the code, so one row is the whole
concurrency problem.

* **State.** `status` is `LeaveRequest.status` (`NONE` before the row exists);
  `approvals[r][l]` is the `LeaveApproval` row of level `l` with its approver,
  decision (`OPEN` is `decidedAt = null`) and escalation mark; `row` is
  `LeaveBalance`; `usage` and `reversal` count the request's USAGE and
  REVERSAL entries in `LeaveBalanceHistory`, `carries` the CARRY_OVER entries
  of the year; `onLeave` and `paused` are the effects on attendance and
  enrolments; `proc` holds the handlers in flight.
* **Actions.** A handler is a record with a program counter, and each action is
  the code between two awaits that matter.  `create` is `CreateCheckBalance`,
  `CreateCheckConflict`, `CreateInsert` (the transaction with the reservation
  under `FOR UPDATE`), then `FlowManager`, `FlowHR` (the steps are inserted one
  by one) or `DeductBalance`.  `processApproval` is `ProcessRead`,
  `ProcessFindStep`, then `Delegate`, or `Decide` followed by `RejectStatus`,
  `EscalateStatus` or `CountRemaining`; `finalizeApproval` is `Finalize`,
  `DeductBalance`, `ApplyEffects`.  `cancel` is `CancelRead`, `CancelStatus`,
  then `ReturnBalance`, `UndoEffects` or `ReleaseReservation`, and
  `CloseSteps`.  `Reassign`, `EscalateToHR`, `Carry*`, `Accrue` and
  `UpdateBalance` are the rest.  What a handler read is in its record and may
  be stale when it is used.
* **Abstractions.** Working days and overlaps of periods are constants
  (`Days`, `Overlaps`): calendars, hours and holidays are arithmetic with no
  state.  Rules that only refuse a submission by its dates (notice, maximum,
  blackout, required document) are left out: they remove behaviours.
  A deadline that passed is any open step not yet escalated.  `prisma.read` is
  the latest committed row: replica lag is not modelled.
* **Parameters.** `Serial` says a request has at most one handler at a time;
  `Crashes` lets a handler stop between two statements; `EffectsFail` lets the
  effects on other modules fail, which the code logs and ignores.  `Ops` are
  the operations the environment calls, each with the request it is about.
* **Left out.** `deductBalance` and `returnBalance` create the row if there is
  none, which happens only to a type without an annual limit; `Init` has the row.

`LeaveAccount.tla` is what the row promises: a request holds days, spends or
releases what it holds, and is refunded what it spent, once each.  A type that
is approved at submission is charged without a hold (`Take`), and may take its
days out of what others hold; from then on a settled hold finds fewer days.

### Runs

| run | instance | what it shows |
|---|---|---|
| `leave_ledger` | a two-level request of 2 days with every call on it, one of 1 day that shares the days with it, one of 2 days approved at submission, limit 3, 2 handlers, no overlapping calls on one request, fair | reservations are exact (`ReservationExact`) and covered (`NoOverdraft`), each request is charged and refunded once (`ChargedOnce`), the row implements `LeaveAccount`; somebody can decide (`PendingHasDecider`), decisions are sequential and complete, final statuses stay, the decision reaches the balance (`EventuallySettled`) |
| `leave_races` | 1 request, 2 handlers that overlap and crash, effects that fail, administration | what the row lock alone guarantees: `ReservedNonNegative`, `UsedMatchesHistory`, `HandlersConserveDays` |
| `leave_charged_twice` | 1 two-level request, 2 overlapping approvals | finding: the balance is charged twice |
| `leave_reserved_pending` | 1 two-level request | finding: `reserved` is about pending requests, where the document says approved ones |

An automatic approval (`leave-management.service.ts:1121`) checks the days
without a lock and is charged days it never reserved.  The properties say
exactly what that spoils: `reserved` may then be less than what pending requests
hold, never more; the balance may become negative, and nothing else makes it so;
and the days an account misses are those of the charge (`Unreserved`).

What `reserved` means is a disagreement between the documentation and the code.
`docs/Modulo_Leave.md:69` and `:102` define it as the days of approved requests
not yet taken; the code reserves the days of a pending request and empties the
reservation at approval.  `ReservationExact` is about the column the code keeps;
`leave-overview.service.ts:271` computes the document's figure for display only.

Two more things the model reaches are what the code does and are not stated as
properties: a step may be delegated to the requester
(`leave-management.service.ts:1302`), and a row can be carried over twice when
two administrators do it at once (`:787`).

Four properties need that the calls on one request do not overlap, since no
update is conditional on what was read: an approval may overwrite a
cancellation (`FinalStatuses`), a delegation reopen a step just decided
(`SequentialDecisions`), a manager decide before the HR step is inserted
(`ApprovedByAllSteps`), and two approvals charge twice (`ChargedOnce`, the
first finding).

Bounds.  In `leave_ledger` two requests can hold all the days together, so that
what one releases or spends must not touch the other's; the third, approved at
submission on a stale check, takes days from under them, and then a reservation
that passed its first check is refused under the lock.  The request with every
call has two levels, the manager and HR, which gives each order of delegation,
escalation, reassignment and cancellation (429 000 states).  Two handlers
give every pairwise race, and the statements of a third only repeat them.  A
request that finds no approver at all is in the proofs only.  Effects that fail
are in `leave_races`: they come after the charge and change no other statement.
`MaxBalance` caps administration, the only unbounded counter of a call; the
history is bounded because each request is created once.  Deadlock is not
checked: when every request is final nothing is left to call.

Fairness.  `FairSpec` has weak fairness of each handler's next statement: an
await resolves or the handler stops, and runs with liveness have no crashes.
No fairness is assumed of callers.

### Proofs

`LeaveRequests_proofs` proves, for any set of requests, handlers, people and
days, with overlapping calls, crashes and administration: `TypeOK`,
`ReservedNonNegative`, `UsedMatchesHistory` and `HandlersConserveDays`.  The
invariant adds `InFlight`: past its first statement a handler has a request,
and only a real decision reaches `Decide`.  Without it the type of a step's
decision is not inductive (`DELEGATE` is an action but no decision).

`LeaveSerial_proofs` assumes `Serial`.  Its invariant says a request has one
handler (`Alone`), which statement fits which status (`Fits`), and what the
history owes at each statement (`Charged`); from them `ChargedOnce` (without
crashes) and `FinalStatuses` (with crashes) follow for any number of requests
that compete for the row.  For the approval steps it adds what the statuses of
the steps say at each statement of a decision (`Stepped`: the level in turn is
open, those before it are decided, none is opened later): a pending request has
a step to decide or was escalated (`PendingHasDecider`), and an approved one was
approved or escalated at every step (`ApprovedByAllSteps`), both without crashes, and steps are decided in
turn (`SequentialDecisions`), with crashes.

Four results speak of sums over the requests.  The lemmas about the fold that
computes a sum (it is nothing over no request, and one more request adds its
days) come from two induction principles stated for sets instead of predicates,
which are proved from well-foundedness; they need `RequestsAssumption`, that
the requests are finitely many.  `UsedMatchesHistory` then holds with
overlapping calls, crashes and administration: whoever writes `used` writes the
history in the same transaction.  The others hold under `Settings`, those of the
run `leave_ledger`: `Serial`, no crash, a type with a limit (`Limited`, without
it nothing is reserved), with any set of types approved at submission.  The argument is the one of an
account.  What a request has of it (`Claim`) is decided by its status and by the
statement of its handler (`Stage`), so a step moves the claim of at most one
request, and moves `reserved`, `used` and the balance by the days of that request
(`Posting`); the sum over the claims that are held moves with it
(`ReservationExact`); once a charge without a hold has been posted it only bounds
`reserved` from above.  Where nothing overwrites the row (`NoOverwrite`: neither
the carry-over nor `updateBalance`, which set the balance to what they computed)
each posting is a step of `LeaveAccount` (`ImplementsAccount`), and no step of
the account takes more than is available (`NoOverdraft`).

Only the liveness property `EventuallySettled` stays with TLC.

## 4. Invoices: numbers and chain

`InvoiceChain.tla` models `BillingInvoicesService.issue` on several replicas,
and `verifyChain` as the invariant `ChainValid`.

* **State.** `invoices` holds the committed rows of `billing_invoices`;
  `sequence` is `billing_invoice_sequences`, the last number of each series;
  `lock` is the holder of `pg_advisory_xact_lock`; `flight` holds the local
  variables of each call; `now` is true time, and `Offset` says how far ahead
  of it the clock of a replica is.
* **Actions.** `Begin` takes the date before the lock is waited for
  (`billing-invoices.service.ts:51`); `Lock`, `TakeNumber`, `ReadPrevious` and
  `Create` are the statements of the transaction, and `Create` also commits and
  frees the lock.  `Abort` rolls a call back at any statement before.
* **Abstractions.** A hash is its payload, the hash of the invoice before
  included, so equal hashes mean equal contents; dates are cut to the day and
  the stamp to the second, as the code does.  Amounts, tax and the customer are
  left out.  Taking the lock is a round trip to the database, at least one tick
  of the clock: two commits in the same millisecond are excluded, and with them
  a tie in `ORDER BY createdAt`.

`InvoiceBook.tla` is what the service promises: a book written by appending one
invoice at a time, each with the next number of its yearly series.

| run | instance | what it shows |
|---|---|---|
| `invoice_chain` | 3 issues on clocks that agree (replicas then differ in nothing), a change of year, rollbacks, fair | `NumbersGapFree`, `ChainValid`, the refinement `BookKept`, and that every call ends (`IssueEnds`) |
| `invoice_clock_skew` | 2 replicas whose clocks differ by one tick | finding: the invoice issued second is stamped earlier and the chain breaks |

Bounds.  Three issues give a first, a next, and one that waits while another
commits; two years put the change of series between a date and its commit.
Fairness (`FairSpec`): weak for each call's own statements, because a Postgres
session answers or its transaction is rolled back, and strong for the lock,
which Postgres grants to those who wait in turn.  Rollbacks are not fair.

`InvoiceChain_proofs` proves `TypeOK` and `NumbersGapFree` for any number of calls and
replicas, any clocks and any rollbacks.  The invariant adds that only the holder
of the lock is inside the transaction (`Exclusive`) and that a number taken is
the one after the last committed (`Numbered`).  `ChainIntact` adds
`ClocksAgree` as an assumption: then what the holder read as the latest invoice
still is, and no stamp is later than its own.  Under it `OneBook` proves the
refinement `BookKept`.  The book is `Ordered`, the invoices by their stamps,
defined by how many come before each so that no sort is needed: a new invoice
has all the others before it and the places of those do not move, hence the
book is appended to.  That the number appended is the next of its series needs
one more fact in the invariant, that the counter of a series is the number of
its entries (`Counted`).  Only the liveness property `IssueEnds` stays with TLC.

## 5. Subscriptions, payments and the daily job

`BillingCycle.tla` models the subscriptions of the customer (an installation
has one), their invoices, and the job of six o'clock.

* **State.** `subs` is `billing_subscriptions` in the order of `createdAt`, so
  `Latest` is `latest()`; `invoices` is `billing_invoices` with the sum of their
  confirmed payments; `renewal` marks those the job issued and is read by
  properties only; `proc` holds the administrators' calls in flight and `cron`
  the job, with the list it is working through.
* **Actions.** A call is a read (`SubscribeRead`, `PayRead`, `VoidRead`, ...)
  and a write (`SubscribeCreate`, `SubscribeIssue`, `Pay`, `VoidInvoice`, ...);
  a `$transaction` is one action.  The job is `RenewList`, `RenewCheck`,
  `RenewIssue`; `TrialList`, `TrialCount`, `TrialExpire`; `OverdueList`,
  `OverdueTake`, `MarkOverdue`, `MarkPastDue`, `GraceOver`; and
  `FinishCancellations`, in the order of `daily`.  `PhaseThrows` is its
  `catch`; `AdminDies` and `CronDies` are a replica that goes down.
* **Abstractions.** A tick of `today` is about a week, and calls and the job end
  within the day; the job has its chance every day.  Plans, prices, limits,
  reminders and audit entries change nothing the properties speak of.  Rows the
  job lists in an unspecified order are taken in any order.
* **Parameters.** `Serial`: one call or job at a time.  `Failures`: deaths and
  phases that throw.

| run | instance | what it shows |
|---|---|---|
| `billing_serial` | nothing overlaps; all calls but a failed payment; five days, three invoices, half payments | a paying subscription is in a period that was paid (`PaidPeriod`); payments settle invoices (`PaymentsSettle`); nobody expires without cause (`ExpiredForCause`), keeps the service unpaid (`NoFreeRide`), or owes beyond the grace and keeps it (`DebtEndsService`) |
| `billing_races` | one call against the job at every await, deaths, phases that throw | `PaidCoversTotal`, `RenewedOnce`, `ReopenedByPayment` |
| `billing_period_back` | two contracts before the first payment | finding: a late payment takes a PAST_DUE subscription back to an earlier period |

What does not survive overlapping calls, and so is checked with `Serial` only:
two partial payments can both be taken before the total is reached
(`billing-invoices.service.ts:140`); a void can follow a payment (`:236`); the
job can set OVERDUE on an invoice just paid (`billing-scheduler.service.ts:135`)
and EXPIRED on a customer just converted (`:115`).  `RenewedOnce` holds for one
call against the job; with two administrators a payment read before a void
brings the void invoice back after its replacement.

Bounds.  In `billing_serial` a period is one tick, so that five days hold a
trial, a first invoice, its renewal and the end of the grace; in
`billing_races` three days suffice for a renewal and its check on the next day.
At the bound of invoices nothing is renewed, and `NoFreeRide` says so.  One
subscription row is enough there, because the job treats rows one by one;
`billing_period_back` has two.  Deadlock is not checked: time ends at `MaxDay`.
No run of this module has liveness properties, hence no fairness: what must
happen is stated of the job's last step of the day.

`BillingCycle_proofs` proves, for any number of administrators' calls, rows,
amounts and days, with failures: `TypeOK`, `PaidCoversTotal` and
`ReopenedByPayment`.  The invariant says that what a call or the job remembers
still holds of the tables (`CallsOK`, `CronOK`): rows are never removed
(`Grown`), and the sum of payments only grows, so a call that found the total
reached before its transaction still finds it so.

Under `Serial` the same module proves `PaidPeriod`, `PaymentsSettle`,
`RenewedOnce` and `ExpiredForCause`, with deaths and phases that throw, and
`DebtEndsService` if nothing fails and the grace is at least a day.  The
invariant says that only one call or the job is under way (`Lone`), so that what
it read is still so when it writes (`Seen` for calls, `JobSeen` for the item the
job works on); `Books` are the first three properties with the state of unused
rows (`Blank`), inductive together because a payment moves the period and the
invoice in one transaction.  For `DebtEndsService`, `Handled` says that every
invoice beyond the grace is still on the job's list, is its current item, or
belongs to a closed subscription.

`NoFreeRide` has the same assumptions, and two more facts.  `Renewed` says that
once the job has its list, a subscription to renew is on it, is being renewed or
has an invoice for its next period (or there is no room for one); `Dated` says
that an invoice covers one period and is due at most a payment term after the
period starts, which holds because a contract issued in a call starts no earlier
than the day of the call.  So whoever is that late has an open invoice beyond
the grace, and `Handled` applies.

## 6. Payroll

`PayrollRun.tla` models one run, the payslips of its employees, its payments
and the closure of its month.

* **State.** `run` is the `PayrollRun` row with the totals it shows; `slips` is
  the payslip of each employee, with whether it belongs to the run, is a draft
  or locked, and its net salary; `payments` is `PayrollPayment`, with what its
  bank file, if any, lists; `closure` is the row of the month.  `clerk` holds the calls on the
  run, `payer` those on payments and closure.
* **Actions.** A call is a read and a write (`SubmitRead` is `DecideRead`, then
  `Decide`), as in `PayrollWorkflowService`: `ProcessRead`, `Process`,
  `Calculate` or `CalculateFails`, `FinishProcess`; `CorrectRead`, `Recalc` or
  `Exclude`, and `RefreshRead`, `RefreshWrite` for the totals; `PublishRead`,
  `PublishList`, `IssueChunk` for each chunk, `Publish`; `CancelRead`,
  `CancelCheck`, `Cancel`.  `CreateRead`, `CreateCount`, `CreateSum`, `Create`
  make a payment; `FileRead`, `FileSum`, `BankFile` its file; `CloseRead`,
  `CloseCheck`, `Close` the closure.  `CreateSlip`, `IssueSlip`, `EditRead` and
  `Edit` are the desk that works on single payslips.
* **Abstractions.** A net salary is any of `Nets`: components, taxes and
  attendance are arithmetic.  An employee without a bank account
  (`NoNib`) has no line in the bank file.  Who may approve, notifications, PDFs
  and the dispute of a payslip are left out.

| run | instance | what it shows |
|---|---|---|
| `payroll` | 2 employees with nets 1 or 2, one of them without a bank account, one call on the run and one on its payments at a time, the desk between them, 2 payments, chunks of 1, deaths | an approved run stands still (`ApprovedRunFrozen`), its totals are those of the payslips (`SubmittedAsShown`), a published run has no draft (`PublishedIsIssued`), one live payment (`OneLivePayment`) for what the payslips say, and a bank file for the same of those with an account (`PaymentsAgree`), and a closed run is settled (`ClosedIsSettled`) |
| `payroll_edited` | the desk may edit payslips of the run | finding: a draft payslip of an approved run changes what it pays |

Bounds.  Two employees let one payslip be excluded, in error or outside while the other
is paid; two payments give a failed one and its successor; with chunks of one a
publication is cut short between payslips.  Two calls on the run at once break
most of these properties (a correction that was allowed in review writes after
the approval; a closure and a cancellation cross): nothing in the code but the
habit of one officer prevents it, so the run says one call at a time.  There is
no fairness: nothing is promised to happen.

`PayrollRun_proofs` proves `TypeOK` for any employees, nets and calls in
flight.  `PayrollSerial_proofs` assumes what the run does, calls on the run that
do not overlap (`OneClerk`), where needed payments that do not (`OnePayer`) and
no edition of payslips of the run, and proves the other six.  The argument: what
a call remembers still holds, because nobody else writes it; outside `DRAFT` and
its reviews every write is refused, and `RefreshWrite` is the only statement
that may be missing when a call dies, which `SubmittedAsShown` excepts.

## 7. Processes

`ProcessEngine.tla` models one instance of a template: the engine that advances
it and every call that writes its steps, its approvals or its status.

* **State.** `flow` is the template; `inst` the status of `process_instances`;
  `row` is `step_progress`; `approvals` is `process_approvals` in order of
  insertion, with round, sequence and code; `due` are the timers that have
  elapsed; `clerk` the calls in flight.  `synced`, `byHand` and `crashes` are
  read by properties only; so is `cut`, the reviews whose last round was cut
  short by a failed insertion.
* **Actions.** A call checks its guards in one action (`CompleteStep`,
  `Approve`, `Reject`, `Reopen`, ...) and leaves the statements it will execute
  in `todo`; each statement is an action (`WriteSteps`, `WriteReturn`,
  `WriteInst`, `WriteStamp`, `WriteClose`, ...).  Most calls end in `advance`:
  `SyncRead` and `Plan` are `syncStepActivation`, `Load` to `PassEnds` a pass of
  `processSpecials` over the rows in memory (`Skip`, `RunStep`, `StepFails`,
  `StartTimer`, `ElapseTimer`, `CountOpen`), `LastRound`, `CountAll` and
  `OpenApproval` are `ensureApprovals`, `StepFails` and `RoundFails` the `catch`
  around a step of any kind, which blocks it and runs its failure actions, and
  `Cleanup` withdraws the approvals
  of steps that are not active any more.  `Crash` ends a call at any statement.
* **Abstractions.** Who may act and the data, evidence and documents a step
  requires only refuse calls; a delegated or escalated approval is still a
  pending one.  An entry condition is about the result of another step; an
  effect cancels or suspends the instance, or does nothing to it.  Comments,
  the audit log and notifications are left out.

| run | instance | what it shows |
|---|---|---|
| `process` | four templates of three steps, one call at a time, one return, steps that fail at any statement, one crash | open steps are those whose predecessors are done (`InOrder`), an instance is completed exactly when no step is left (`ClosedWhenDone`), a pending review waits for somebody and nothing inactive waits (`ReviewsOpen`), an approved review has its whole round, or all it asked when an insertion failed (`ApprovedByRound`) |

Bounds.  The four templates use between them every kind of step, approval mode,
rejection rule, branch and effect; three steps are a step, what it depends on
and what depends on it.  `MaxReturns` bounds what can repeat for ever; two
returns without a crash were checked as well, before failures of every kind of
step were added (12 million states).  `MaxCrashes` lets one call die in the two
templates without parallel approvers; those where two decide in any order have
none, to keep the run short (2.5 million states).  `Answers` is the result a
person may give with a step: here none, so that an earlier one stays.
`MaxPasses` is the code's 30 and is not reached.  One call at a time: two that
advance at once can open two rounds of approvals
(`process-engine.service.ts:603`), and whatever one writes the other does not
see in its memory.  Deadlock is not checked: a cancelled instance stops.  There
is no fairness: people need not act.

What the run does not promise: `unblock` leaves the instance as it is until the
next call advances it (`process-tasks.service.ts:414`), so `InOrder` waits for
it (`synced`); `rejectStep` checks neither status, and puts a finished instance
on hold (`process-standard.service.ts:1319`); a review that was escalated and
then returned has no open approval and can be completed by hand, though
`process-standard.service.ts:1163` says reviews are not: `ApprovedByRound` is
about the others (`byHand`).  A step that is escalated or blocked is not sent
back to wait when one before it is returned (`process-workflow.ts:490`), so
`InOrder` speaks of pending, started and waiting steps only.

One more exception of `ApprovedByRound` is a failure.  The approvals of a round
are inserted one by one; if an insertion fails, the step is blocked with those
already there (`process-engine.service.ts:651`, `:246`).  After `unblock` and the
next advance, or a retry, `:576` finds them open and asks nobody else, so one
approver of two can complete the review.  No comment or document of the
repository promises otherwise, hence no finding; the property asks such a step
(`cut`) only for the consent of everybody who was asked, and any other for as
many as the template has.

`ProcessEngine_proofs` proves `TypeOK` for every template, any number of steps
and calls in flight, and crashes anywhere.  The argument is one lemma per kind
of statement and per call: a list of statements keeps its type under
concatenation, a call is about a step or an approval, and approvals are never
removed.

`ProcessSerial_proofs` assumes one call at a time on the instance (`OneClerk`)
and first proves `InOrder` and `ClosedWhenDone` for every template and number of
steps, wherever calls die.  The properties speak of quiet states, so the
invariant (`Sound`) says what a call knows between any two of its statements: a
call that does not advance the instance either suspends or cancels it
(`Leaving`) or opens and finishes nothing (`Settled`); in an advance the rows in
memory are those the table will have once the list is executed (`Tracks`), they
are in order after `Plan` (`PlannedFacts`), and a pass that settles no step
keeps them so (`Passing`, with `HeldIsGood` and `FailureSound` for a step that
fails).  `Sound` was
checked by TLC on the instance of `process` before it was proved.

It then proves `ReviewsOpen` and `ApprovedByRound`, for every template, number of
steps and number of approvals; what they say with `crashes = 0` they say until a
call dies.  The invariant (`Reviewed`) has three parts:

* `Tidy`, with crashes too: approvals are numbered by their place, and open only
  in the last round of a review; a step pending in memory is pending in the
  table; the approvals of the round being opened are the last ones; the list of
  a call has at most one decision, on an approval that is open, and what follows
  it is what the decision entails.
* `Decided`, until a call dies: a step out of reach of its approvers loses its
  open approvals (`Withdrawn`); a step with open approvals has one somebody can
  decide (`Called`); in an open round everybody who decided approved (`Agreed`);
  a last round has as many approvals as the template asks, unless it is being
  inserted or its insertion failed (`Complete`); a review
  approved, or that the list will approve, has their consent (`Granted`).
* `Waited`: once the instance is advanced every pending review has been asked for.

The obstacle is size: about thirty kinds of step against a dozen facts.  So a
statement, whichever it is, is reduced once to a relation between the values
before and after it (`BookWritten`, `TableWritten`, `CallWritten`), and a call
to the shape of the list it leaves (`Plain`, where nothing is decided, and
`Follows`, what comes after a decision); each fact is then carried over a
relation and not over an action.  The statements of an advance (a round that is
opened, an approval added to it, a round that fails, the end of a pass) are done one by one.  TLC
checks `Reviewed` on the instance of `process`.

## 8. What is not modelled

`PROJECT.json` says it part by part.  Most of the repository is listings,
dashboards, reports, exports, forms and their controllers, DTOs and test mocks:
single statements or reads, with nothing to interleave and no state between
calls.  They make up most of its 216 000 lines, so the modules cover a small
share of them; what has a protocol is where the modules are.  Sessions,
invitations and the cluster lock are next in the plan.  Postgres is taken at
read committed with rows visible at once on commit; replica lag, and Redis, are
not in any module yet.
