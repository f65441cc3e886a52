---------------------------- MODULE BillingCycle ----------------------------
(***************************************************************************)
(* The life of the customer's subscriptions and of their invoices:         *)
(* BillingSubscriptionsService, the payments of BillingInvoicesService and *)
(* the daily job of BillingSchedulerService.                               *)
(*                                                                         *)
(* An administrator's call reads a row, decides, and writes in a later     *)
(* statement; the daily job reads a list and then works through it, one    *)
(* awaited statement after another.  Each action is the code between two   *)
(* such statements, and what was read before is in `proc' or `cron'.  A    *)
(* prisma.$transaction is one action.                                      *)
(*                                                                         *)
(* Time is in units of a week, roughly the renewal lead and the due date.  *)
(* Left out: plans, prices and limits (changePlan and syncTenant change    *)
(* nothing else), tax, numbering and hashing of invoices (InvoiceChain),   *)
(* reminders, e-mails and audit entries.                                   *)
(***************************************************************************)
EXTENDS Integers, FiniteSets, FiniteSetsExt

CONSTANTS
    Admins,        \* calls of administrators that may be in flight at once
    Ops,           \* operations the administrators call
    Amounts,       \* amounts of a payment
    Total,         \* total of an invoice
    Period,        \* length of a paid period
    TrialDays,     \* length of a trial
    Lead,          \* RENEWAL_LEAD_DAYS
    DueDays,       \* INVOICE_DUE_DAYS
    Grace,         \* GRACE_DAYS
    MaxSubs, MaxInvoices, MaxDay, \* bounds: subscriptions, invoices, last day
    Serial,        \* TRUE: one call or daily job at a time
    Failures       \* TRUE: a call or job may die, or one of its phases throw

ASSUME AmountAssumption ==
    Total \in Nat \ {0} /\ Amounts \subseteq Nat \ {0}
ASSUME CalendarAssumption ==
    /\ Period \in Nat \ {0} /\ TrialDays \in Nat /\ Lead \in Nat
    /\ DueDays \in Nat /\ Grace \in Nat
ASSUME BoundAssumption ==
    MaxSubs \in Nat \ {0} /\ MaxInvoices \in Nat \ {0} /\ MaxDay \in Nat
ASSUME FlagAssumption == Serial \in BOOLEAN /\ Failures \in BOOLEAN

VARIABLES
    today,
    subs,          \* billing_subscriptions, in the order of createdAt
    invoices,      \* billing_invoices, with the sum of their CONFIRMED payments
    proc,          \* calls in flight
    cron           \* the daily job

vars == <<today, subs, invoices, proc, cron>>

SubIds == 1 .. MaxSubs
InvIds == 1 .. MaxInvoices

\* A call that has read: it works on a subscription, or on an invoice.
OnSub(pc, s, start) ==
    [pc |-> pc, sub |-> s, start |-> start, inv |-> 0, amount |-> 0, full |-> FALSE]
OnInvoice(pc, i, amount, full) ==
    [pc |-> pc, sub |-> 0, start |-> 0, inv |-> i, amount |-> amount, full |-> full]
Idle == OnSub("idle", 0, 0)

\* The job: what is left to do of its list, the row it is at, the last day it ran.
Job(pc, todo, item, ran) == [pc |-> pc, todo |-> todo, item |-> item, ran |-> ran]
Resting(day) == Job("idle", {}, <<0, 0>>, day)

Init ==
    /\ today = 0
    /\ subs = [s \in SubIds |->
          [status |-> "NONE", start |-> 0, end |-> 0, trialEnd |-> 0, cancelling |-> FALSE]]
    /\ invoices = [i \in InvIds |->
          [status |-> "NONE", sub |-> 0, start |-> 0, end |-> 0, due |-> 0,
           paid |-> 0, fiscal |-> FALSE, renewal |-> FALSE]]
    /\ proc = [a \in Admins |-> Idle]
    /\ cron = Resting(-1)

-----------------------------------------------------------------------------
Existing == {s \in SubIds : subs[s].status # "NONE"}
Issued   == {i \in InvIds : invoices[i].status # "NONE"}
Open(i)  == invoices[i].status \in {"ISSUED", "OVERDUE"}

\* latest(): by createdAt; 0 if the customer has none.
Latest  == IF Existing = {} THEN 0 ELSE Max(Existing)
Standing == IF Latest = 0 THEN "NONE" ELSE subs[Latest].status
NextSub == Cardinality(Existing) + 1
NextInv == Cardinality(Issued) + 1
RoomForInvoice == NextInv \in InvIds

NewSub(status, start, end, trialEnd) ==
    subs' = [subs EXCEPT ![NextSub] =
        [status |-> status, start |-> start, end |-> end, trialEnd |-> trialEnd,
         cancelling |-> FALSE]]

\* BillingInvoicesService.issue, as far as the subscription is concerned.
Issue(s, start, end, due, renewal) ==
    invoices' = [invoices EXCEPT ![NextInv] =
        [status |-> "ISSUED", sub |-> s, start |-> start, end |-> end, due |-> due,
         paid |-> 0, fiscal |-> FALSE, renewal |-> renewal]]

SetStatus(s, status) == subs' = [subs EXCEPT ![s].status = status]

\* updateMany where id = s and the status is one of `from'.
MoveStatus(s, from, to) ==
    IF subs[s].status \in from THEN SetStatus(s, to) ELSE UNCHANGED subs

Quiet == cron.pc = "idle" /\ \A a \in Admins : proc[a].pc = "idle"

-----------------------------------------------------------------------------
(* Calls of an administrator.                                              *)

Call(a, op) == op \in Ops /\ proc[a].pc = "idle" /\ (Serial => Quiet)
At(a, pc)   == proc[a].pc = pc
Return(a)   == proc' = [proc EXCEPT ![a] = Idle]

StartTrialRead(a) ==
    /\ Call(a, "trial")
    /\ Existing = {}
    /\ proc' = [proc EXCEPT ![a] = OnSub("trial", 0, 0)]
    /\ UNCHANGED <<today, subs, invoices, cron>>

StartTrial(a) ==
    /\ At(a, "trial")
    /\ NextSub \in SubIds
    /\ NewSub("TRIALING", today, today + TrialDays, today + TrialDays)
    /\ Return(a)
    /\ UNCHANGED <<today, invoices, cron>>

\* During the trial the first paid period starts when the trial ends.
SubscribeRead(a) ==
    /\ Call(a, "subscribe")
    /\ RoomForInvoice
    /\ Standing \notin {"ACTIVE", "PAST_DUE"}
    /\ LET trial == Standing = "TRIALING" /\ subs[Latest].trialEnd > today
           start == IF trial THEN subs[Latest].trialEnd ELSE today
       IN  \/ /\ Standing \in {"TRIALING", "PENDING"}
              /\ proc' = [proc EXCEPT ![a] = OnSub("issue", Latest, start)]
           \/ /\ Standing \in {"NONE", "CANCELED", "EXPIRED"}
              /\ NextSub \in SubIds
              /\ proc' = [proc EXCEPT ![a] = OnSub("contract", 0, start)]
    /\ UNCHANGED <<today, subs, invoices, cron>>

SubscribeCreate(a) ==
    /\ At(a, "contract")
    /\ NextSub \in SubIds
    /\ NewSub("PENDING", proc[a].start, proc[a].start + Period, 0)
    /\ proc' = [proc EXCEPT ![a] = OnSub("issue", NextSub, proc[a].start)]
    /\ UNCHANGED <<today, invoices, cron>>

SubscribeIssue(a) ==
    /\ At(a, "issue")
    /\ RoomForInvoice
    /\ LET start == proc[a].start
       IN  Issue(proc[a].sub, start, start + Period, Max({today, start}) + DueDays, FALSE)
    /\ Return(a)
    /\ UNCHANGED <<today, subs, cron>>

CancelRead(a, pc) ==
    /\ Call(a, "cancel")
    /\ pc \in {"cancelAtEnd", "cancelNow"}
    /\ Standing \notin {"NONE", "CANCELED", "EXPIRED"}
    /\ proc' = [proc EXCEPT ![a] = OnSub(pc, Latest, 0)]
    /\ UNCHANGED <<today, subs, invoices, cron>>

Cancel(a) ==
    /\ LET s == proc[a].sub
       IN  \/ /\ At(a, "cancelAtEnd")
              /\ subs' = [subs EXCEPT ![s].cancelling = TRUE]
           \/ /\ At(a, "cancelNow")
              /\ subs' = [subs EXCEPT ![s].status = "CANCELED", ![s].end = today]
    /\ Return(a)
    /\ UNCHANGED <<today, invoices, cron>>

\* Wrong variant: a payment up to the total is not yet in full.
PayReadStrict(a, i, amount) ==
    /\ Call(a, "pay")
    /\ invoices[i].status \notin {"NONE", "VOID", "PAID"}
    /\ proc' = [proc EXCEPT ![a] =
          OnInvoice("pay", i, amount, invoices[i].paid + amount > Total)]
    /\ UNCHANGED <<today, subs, invoices, cron>>

\* Wrong variant: a rounding of one in the comparison with the total.
PayReadTolerant(a, i, amount) ==
    /\ Call(a, "pay")
    /\ invoices[i].status \notin {"NONE", "VOID", "PAID"}
    /\ proc' = [proc EXCEPT ![a] =
          OnInvoice("pay", i, amount, invoices[i].paid + amount >= Total - 1)]
    /\ UNCHANGED <<today, subs, invoices, cron>>

\* The payments confirmed so far are summed here, before the transaction.
PayRead(a, i, amount) ==
    /\ Call(a, "pay")
    /\ invoices[i].status \notin {"NONE", "VOID", "PAID"}
    /\ proc' = [proc EXCEPT ![a] =
          OnInvoice("pay", i, amount, invoices[i].paid + amount >= Total)]
    /\ UNCHANGED <<today, subs, invoices, cron>>

\* Wrong variant: the period only moves forward, even to restart a service.
AdvancesForwardOnly(i, s) == invoices[i].end > subs[s].end

Advances(i, s) == invoices[i].end > subs[s].end \/ subs[s].status # "ACTIVE"

Pay(a) ==
    /\ At(a, "pay")
    /\ LET i == proc[a].inv
           s == invoices[i].sub
           sum == invoices[i].paid + proc[a].amount
       IN  \/ /\ proc[a].full
              /\ invoices' = [invoices EXCEPT ![i].paid = sum, ![i].status = "PAID"]
              /\ IF Advances(i, s)
                 THEN subs' = [subs EXCEPT ![s].status = "ACTIVE",
                                           ![s].start = invoices[i].start,
                                           ![s].end = invoices[i].end]
                 ELSE SetStatus(s, "ACTIVE")
           \/ /\ ~proc[a].full
              /\ invoices' = [invoices EXCEPT ![i].paid = sum]
              /\ UNCHANGED subs
    /\ Return(a)
    /\ UNCHANGED <<today, cron>>

FailRead(a, i) ==
    /\ Call(a, "fail")
    /\ invoices[i].status \notin {"NONE", "VOID", "PAID"}
    /\ proc' = [proc EXCEPT ![a] = OnInvoice("fail", i, 0, FALSE)]
    /\ UNCHANGED <<today, subs, invoices, cron>>

\* Wrong variant: update by id, whatever the status.
RecordFailedPaymentById(a) ==
    /\ At(a, "fail")
    /\ SetStatus(invoices[proc[a].inv].sub, "PAST_DUE")
    /\ Return(a)
    /\ UNCHANGED <<today, invoices, cron>>

RecordFailedPayment(a) ==
    /\ At(a, "fail")
    /\ MoveStatus(invoices[proc[a].inv].sub, {"ACTIVE"}, "PAST_DUE")
    /\ Return(a)
    /\ UNCHANGED <<today, invoices, cron>>

VoidRead(a, i) ==
    /\ Call(a, "void")
    /\ Open(i) /\ invoices[i].paid = 0 /\ ~invoices[i].fiscal
    /\ proc' = [proc EXCEPT ![a] = OnInvoice("void", i, 0, FALSE)]
    /\ UNCHANGED <<today, subs, invoices, cron>>

VoidInvoice(a) ==
    /\ At(a, "void")
    /\ invoices' = [invoices EXCEPT ![proc[a].inv].status = "VOID"]
    /\ Return(a)
    /\ UNCHANGED <<today, subs, cron>>

\* SUBMITTED or CERTIFIED: the code tells both only from NOT_SUBMITTED.
SetFiscal(a, i) ==
    /\ Call(a, "fiscal")
    /\ i \in Issued
    /\ invoices' = [invoices EXCEPT ![i].fiscal = TRUE]
    /\ UNCHANGED <<today, subs, proc, cron>>

\* The replica dies between two statements of the call.
AdminDies(a) ==
    /\ Failures
    /\ proc[a].pc # "idle"
    /\ Return(a)
    /\ UNCHANGED <<today, subs, invoices, cron>>

-----------------------------------------------------------------------------
(* The daily job.                                                          *)

Goto(pc)      == cron' = Job(pc, cron.todo, cron.item, cron.ran)
Listed(pc, S) == cron' = Job(pc, S, cron.item, cron.ran)
Skip(x)       == cron' = Job(cron.pc, cron.todo \ {x}, cron.item, cron.ran)
Work(pc, x)   == cron' = Job(pc, cron.todo \ {x}, x, cron.ran)
Item          == cron.item[1]

CronStart ==
    /\ cron.pc = "idle" /\ cron.ran < today /\ (Serial => Quiet)
    /\ Goto("renewList")
    /\ UNCHANGED <<today, subs, invoices, proc>>

\* Wrong variant: a subscription in debt is not renewed.
RenewListActive ==
    /\ cron.pc = "renewList"
    /\ Listed("renew", {<<s, subs[s].end>> : s \in {x \in SubIds :
          /\ subs[x].status = "ACTIVE"
          /\ ~subs[x].cancelling
          /\ subs[x].end <= today + Lead}})
    /\ UNCHANGED <<today, subs, invoices, proc>>

\* issueRenewals: each subscription is taken with the period end it then had.
RenewList ==
    /\ cron.pc = "renewList"
    /\ Listed("renew", {<<s, subs[s].end>> : s \in {x \in SubIds :
          /\ subs[x].status \in {"ACTIVE", "PAST_DUE"}
          /\ ~subs[x].cancelling
          /\ subs[x].end <= today + Lead}})
    /\ UNCHANGED <<today, subs, invoices, proc>>

\* Wrong variant: only a paid invoice counts.
AlreadyPaid(s, start) ==
    \E i \in Issued : /\ invoices[i].sub = s /\ invoices[i].start = start
                      /\ invoices[i].status = "PAID"

Already(s, start) ==
    \E i \in Issued : /\ invoices[i].sub = s /\ invoices[i].start = start
                      /\ invoices[i].status # "VOID"

\* At the bound of invoices nothing more is renewed.
RenewCheck(x) ==
    /\ cron.pc = "renew" /\ x \in cron.todo
    /\ \/ (Already(x[1], x[2]) \/ ~RoomForInvoice) /\ Skip(x)
       \/ ~Already(x[1], x[2]) /\ RoomForInvoice /\ Work("renewIssue", x)
    /\ UNCHANGED <<today, subs, invoices, proc>>

RenewIssue ==
    /\ cron.pc = "renewIssue"
    /\ RoomForInvoice
    /\ LET start == cron.item[2]
       IN  Issue(Item, start, start + Period, start, TRUE)
    /\ Goto("renew")
    /\ UNCHANGED <<today, subs, proc>>

\* expireTrials
TrialList ==
    /\ cron.pc = "renew" /\ cron.todo = {}
    /\ Listed("trial", {<<s, 0>> : s \in {x \in SubIds :
          subs[x].status = "TRIALING" /\ subs[x].trialEnd <= today}})
    /\ UNCHANGED <<today, subs, invoices, proc>>

\* Wrong variant: no check for an open invoice.
TrialTake(x) ==
    /\ cron.pc = "trial" /\ x \in cron.todo
    /\ Work("trialExpire", x)
    /\ UNCHANGED <<today, subs, invoices, proc>>

\* With an open invoice the decision is left to dunning.
TrialCount(x) ==
    /\ cron.pc = "trial" /\ x \in cron.todo
    /\ LET unpaid == {i \in InvIds : Open(i) /\ invoices[i].sub = x[1]}
       IN  \/ unpaid # {} /\ Skip(x)
           \/ unpaid = {} /\ Work("trialExpire", x)
    /\ UNCHANGED <<today, subs, invoices, proc>>

TrialExpire ==
    /\ cron.pc = "trialExpire"
    /\ SetStatus(Item, "EXPIRED")
    /\ Goto("trial")
    /\ UNCHANGED <<today, invoices, proc>>

\* markOverdueAndDun: each invoice is taken with the status it then had (1 for
\* ISSUED); what is done with it takes up to three statements.
OverdueList ==
    /\ cron.pc = "trial" /\ cron.todo = {}
    /\ Listed("overdue",
          {<<i, IF invoices[i].status = "ISSUED" THEN 1 ELSE 0>> :
              i \in {x \in InvIds : Open(x) /\ invoices[x].due < today}})
    /\ UNCHANGED <<today, subs, invoices, proc>>

OverdueTake(x) ==
    /\ cron.pc = "overdue" /\ x \in cron.todo
    /\ Work(IF x[2] = 1 THEN "mark" ELSE "grace", x)
    /\ UNCHANGED <<today, subs, invoices, proc>>

\* Wrong variant: the status of the subscription is written to the invoice.
MarkInvoicePastDue ==
    /\ cron.pc = "mark"
    /\ invoices' = [invoices EXCEPT ![Item].status = "PAST_DUE"]
    /\ Goto("pastDue")
    /\ UNCHANGED <<today, subs, proc>>

MarkOverdue ==
    /\ cron.pc = "mark"
    /\ invoices' = [invoices EXCEPT ![Item].status = "OVERDUE"]
    /\ Goto("pastDue")
    /\ UNCHANGED <<today, subs, proc>>

MarkPastDue ==
    /\ cron.pc = "pastDue"
    /\ MoveStatus(invoices[Item].sub, {"ACTIVE"}, "PAST_DUE")
    /\ Goto("grace")
    /\ UNCHANGED <<today, invoices, proc>>

\* Wrong variant: a customer who never paid is forgotten.
GraceOverPaying ==
    /\ cron.pc = "grace"
    /\ IF today - invoices[Item].due >= Grace
       THEN MoveStatus(invoices[Item].sub, {"PAST_DUE", "ACTIVE"}, "EXPIRED")
       ELSE UNCHANGED subs
    /\ Goto("overdue")
    /\ UNCHANGED <<today, invoices, proc>>

GraceOver ==
    /\ cron.pc = "grace"
    /\ IF today - invoices[Item].due >= Grace
       THEN MoveStatus(invoices[Item].sub,
                       {"PAST_DUE", "PENDING", "TRIALING", "ACTIVE"}, "EXPIRED")
       ELSE UNCHANGED subs
    /\ Goto("overdue")
    /\ UNCHANGED <<today, invoices, proc>>

Ended(s) ==
    /\ subs[s].cancelling /\ subs[s].end <= today
    /\ subs[s].status \notin {"NONE", "CANCELED", "EXPIRED"}

FinishCancellations ==
    /\ cron.pc = "overdue" /\ cron.todo = {}
    /\ subs' = [s \in SubIds |->
          [subs[s] EXCEPT !.status = IF Ended(s) THEN "CANCELED" ELSE @]]
    /\ cron' = Resting(today)
    /\ UNCHANGED <<today, invoices, proc>>

\* A phase that throws is logged, and the job goes on with the next.
PhaseThrows ==
    /\ Failures
    /\ \/ cron.pc \in {"renewList", "renew", "renewIssue"} /\ Listed("renew", {})
       \/ cron.pc \in {"trial", "trialExpire"} /\ Listed("trial", {})
       \/ cron.pc \in {"overdue", "mark", "pastDue", "grace"} /\ Listed("overdue", {})
    /\ UNCHANGED <<today, subs, invoices, proc>>

\* The replica dies during the job, or no replica is up at six.
CronDies ==
    /\ Failures
    /\ cron.ran < today
    /\ cron' = Resting(today)
    /\ UNCHANGED <<today, subs, invoices, proc>>

\* Calls and the job end within the day, and the job has its chance every day.
NextDay ==
    /\ today < MaxDay
    /\ Quiet /\ cron.ran = today
    /\ today' = today + 1
    /\ UNCHANGED <<subs, invoices, proc, cron>>

-----------------------------------------------------------------------------
AdminStep(a) ==
    \/ StartTrial(a) \/ SubscribeCreate(a) \/ SubscribeIssue(a) \/ Cancel(a)
    \/ Pay(a) \/ RecordFailedPayment(a) \/ VoidInvoice(a)

AdminCall(a) ==
    \/ StartTrialRead(a) \/ SubscribeRead(a)
    \/ \E pc \in {"cancelAtEnd", "cancelNow"} : CancelRead(a, pc)
    \/ \E i \in InvIds :
          \/ \E amount \in Amounts : PayRead(a, i, amount)
          \/ FailRead(a, i) \/ VoidRead(a, i) \/ SetFiscal(a, i)

CronStep ==
    \/ CronStart \/ RenewList \/ RenewIssue \/ TrialList \/ TrialExpire
    \/ OverdueList \/ MarkOverdue \/ MarkPastDue \/ GraceOver \/ FinishCancellations
    \/ \E x \in cron.todo : RenewCheck(x) \/ TrialCount(x) \/ OverdueTake(x)

Next ==
    \/ \E a \in Admins : AdminCall(a) \/ AdminStep(a) \/ AdminDies(a)
    \/ CronStep \/ PhaseThrows \/ CronDies
    \/ NextDay

Spec == Init /\ [][Next]_vars

-----------------------------------------------------------------------------
Statuses ==
    {"NONE", "TRIALING", "PENDING", "ACTIVE", "PAST_DUE", "CANCELED", "EXPIRED"}

\* Rows are filled in order and hold values of their kind; an invoice belongs
\* to a subscription that exists.
TypeOK ==
    /\ today \in 0 .. MaxDay
    /\ subs \in [SubIds -> [status : Statuses, start : Nat, end : Nat,
                            trialEnd : Nat, cancelling : BOOLEAN]]
    /\ invoices \in [InvIds ->
          [status : {"NONE", "ISSUED", "OVERDUE", "PAID", "VOID"}, sub : 0 .. MaxSubs,
           start : Nat, end : Nat, due : Nat, paid : Nat, fiscal : BOOLEAN,
           renewal : BOOLEAN]]
    /\ Existing = 1 .. Cardinality(Existing) /\ Issued = 1 .. Cardinality(Issued)
    /\ \A i \in Issued : invoices[i].sub \in Existing

Closed == {"CANCELED", "EXPIRED"}
Paying == {"ACTIVE", "PAST_DUE"}

\* What makes a subscription expire: a trial that is over with nothing owed, or
\* an invoice still open when its grace is over.
Cause(s) ==
    \/ /\ subs[s].status = "TRIALING" /\ subs[s].trialEnd <= today
       /\ \A i \in InvIds : Open(i) => invoices[i].sub # s
    \/ \E i \in InvIds : Open(i) /\ invoices[i].sub = s /\ today - invoices[i].due >= Grace

\* No customer is put in read-only mode without cause (expireTrials,
\* markOverdueAndDun).
ExpiredForCause ==
    [][\A s \in SubIds :
          subs[s].status # "EXPIRED" /\ subs'[s].status = "EXPIRED" => Cause(s)]_vars

\* A paying subscription is in a period that one of its paid invoices covers:
\* "o acesso pago comeca quando for paga" (subscribe).
PaidPeriod ==
    \A s \in SubIds : subs[s].status \in Paying =>
        \E i \in InvIds : /\ invoices[i].status = "PAID" /\ invoices[i].sub = s
                         /\ invoices[i].start = subs[s].start
                         /\ invoices[i].end = subs[s].end

\* An invoice is PAID once its confirmed payments reach the total, and one with
\* a confirmed payment is never voided (registerPayment, voidInvoice).
PaymentsSettle ==
    \A i \in Issued :
        /\ invoices[i].status = "PAID" <=> invoices[i].paid >= Total
        /\ invoices[i].paid > 0 => invoices[i].status # "VOID"

\* The end of the last period paid for is where the subscription stands.
UpToDate(s) ==
    \A i \in InvIds : invoices[i].status = "PAID" /\ invoices[i].sub = s =>
        invoices[i].end <= subs[s].end

\* Without interruptions nobody keeps the service longer, beyond what is paid
\* for, than the time to pay and the grace: the daily job leaves no subscription
\* in such a state (issueRenewals, markOverdueAndDun, finishCancellations).  Not
\* so for one that a late payment took back to a closed period, whose renewal
\* is already issued (PeriodOnlyAdvances), nor where the bound stops renewals.
NoFreeRide ==
    [][cron.pc # "idle" /\ cron'.pc = "idle" /\ RoomForInvoice =>
          \A s \in SubIds : subs'[s].status \in Paying /\ UpToDate(s) =>
              today - subs'[s].end < DueDays + Grace]_vars

\* "passados 14 dias, EXPIRED": the day an open invoice has been due for the
\* grace, the job leaves its subscription expired or cancelled.
DebtEndsService ==
    [][cron.pc # "idle" /\ cron'.pc = "idle" =>
          \A i \in InvIds : Open(i) /\ today - invoices[i].due >= Grace =>
              subs'[invoices[i].sub].status \in Closed]_vars

\* An invoice marked PAID has been paid in full, whatever ran at once.
PaidCoversTotal ==
    \A i \in InvIds : invoices[i].status = "PAID" => invoices[i].paid >= Total

\* "emite a fatura do periodo seguinte uma unica vez": a period is renewed with
\* one valid invoice.
RenewedOnce ==
    \A i, j \in InvIds :
        /\ invoices[i].renewal /\ invoices[j].renewal
        /\ invoices[i].status # "VOID" /\ invoices[j].status # "VOID"
        /\ invoices[i].sub = invoices[j].sub /\ invoices[i].start = invoices[j].start
        => i = j

\* Only a payment in full reopens an expired or cancelled subscription.
ReopenedByPayment ==
    [][\A s \in SubIds :
          subs[s].status \in Closed /\ subs'[s].status \notin Closed =>
              \E i \in InvIds : /\ invoices[i].sub = s
                               /\ invoices'[i].status = "PAID"
                               /\ invoices'[i].paid > invoices[i].paid]_vars

-----------------------------------------------------------------------------
\* "So avanca o periodo se a fatura e do periodo corrente ou posterior (nao de
\* um periodo ja fechado)" (registerPayment): a payment never moves a paying
\* subscription to an earlier period.
PeriodOnlyAdvances ==
    [][\A s \in SubIds :
          subs[s].status \in Paying /\ subs'[s].status \in Paying =>
              subs'[s].end >= subs[s].end]_vars
=============================================================================
