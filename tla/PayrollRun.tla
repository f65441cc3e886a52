----------------------------- MODULE PayrollRun -----------------------------
(***************************************************************************)
(* One payroll run from calculation to closure: PayrollWorkflowService,    *)
(* the part of PayslipsService and PayrollCalculationService that writes   *)
(* payslips, and PayrollPaymentsService.                                   *)
(*                                                                         *)
(* Every operation loads a row, checks its status, and writes by id in a   *)
(* later statement.  Each action is the code between two awaits; what was  *)
(* read before is in `clerk' (calls on the run) or `payer' (calls on       *)
(* payments and closure).  A prisma.$transaction is one action.            *)
(*                                                                         *)
(* A payslip is ISSUED here once it has left DRAFT: issued, acknowledged   *)
(* and disputed payslips are locked alike.  A total stands here for the    *)
(* list of what it adds up: equal lists have equal totals.  Left out: how  *)
(* a salary is computed (any net, with or without an exception of severity *)
(* ERROR), dates on payslips, PDFs, notifications and audit entries.       *)
(***************************************************************************)
EXTENDS Integers, FiniteSets

CONSTANTS
    Employees,     \* in the scope of the run; one payslip each for the period
    NoNib,         \* those of them without a bank account
    Nets,          \* net salaries that a calculation may return
    Clerks,        \* calls on the run and its payslips that may be in flight
    Payers,        \* calls on payments and closure that may be in flight
    MaxPayments,   \* bound: payments of the run
    Chunk,         \* payslips that publish issues in one statement
    EditsInRun,    \* TRUE: payslips of the run are edited by hand too
    Failures       \* TRUE: a call may die, or the calculation throw

ASSUME NetAssumption == Nets \subseteq Nat
ASSUME NibAssumption == NoNib \subseteq Employees
ASSUME BoundAssumption == MaxPayments \in Nat \ {0} /\ Chunk \in Nat \ {0}
ASSUME FlagAssumption == EditsInRun \in BOOLEAN /\ Failures \in BOOLEAN

VARIABLES
    run,           \* payroll_runs: status and the snapshot of its payslips
    slips,         \* payslips of the period, one row per employee
    payments,      \* payroll_payments of the run
    closure,       \* payroll_closures of the run
    clerk, payer,  \* calls in flight
    interrupted    \* a call died between its payslip and the snapshot; only
                   \* properties read it

vars == <<run, slips, payments, closure, clerk, payer, interrupted>>

RunStatuses == {"DRAFT", "PROCESSING", "SIMULATED", "PENDING_APPROVAL",
                "APPROVED", "PUBLISHED", "CANCELLED"}
EditLocked == {"APPROVED", "PUBLISHED", "CANCELLED"}
Payable    == {"APPROVED", "PUBLISHED"}
PayIds     == 1 .. MaxPayments

\* What each employee of the run is paid: the headcount and the totals.
NotPaid == -1
Nothing == [e \in Employees |-> NotPaid]
Snap(net, errors) == [net |-> net, errors |-> errors]
Empty == Snap(Nothing, {})
Run(status, snap) == [status |-> status, snap |-> snap]
Slip(status, inRun, net, error) ==
    [status |-> status, inRun |-> inRun, net |-> net, error |-> error]
\* What a payslip outside the run pays is left out.
Outside(status) == Slip(status, FALSE, 0, FALSE)
NoSlip == Outside("NONE")
Issued(slip) == Slip("ISSUED", slip.inRun, slip.net, slip.error)

\* The payment, and the bank file generated last, if any: what it lists.
Payment(status, amount, file) == [status |-> status, amount |-> amount, file |-> file]

\* A call on the run: the payslips it is to write, the snapshot it will write.
OnRun(pc, es, snap) == [pc |-> pc, slips |-> es, snap |-> snap]
Free == OnRun("idle", {}, Empty)
\* A call on a payment: the row, the status it is to get, the sum it has read.
OnPayment(pc, i, to, sum) == [pc |-> pc, pay |-> i, to |-> to, sum |-> sum]
Away == OnPayment("idle", 0, "NONE", Nothing)

Init ==
    /\ run = Run("DRAFT", Empty)
    /\ slips = [e \in Employees |-> NoSlip]
    /\ payments = [i \in PayIds |-> Payment("NONE", Nothing, {})]
    /\ closure = {}
    /\ clerk = [c \in Clerks |-> Free]
    /\ payer = [p \in Payers |-> Away]
    /\ interrupted = FALSE

-----------------------------------------------------------------------------
InRun  == {e \in Employees : slips[e].status # "NONE" /\ slips[e].inRun}
Drafts == {e \in InRun : slips[e].status = "DRAFT"}
Errors == {e \in InRun : slips[e].error}
PayOf(S) == [e \in Employees |-> IF e \in S THEN slips[e].net ELSE NotPaid]
Net    == PayOf(InRun)

\* refreshRunSnapshot
Snapshot == Snap(Net, Errors)

\* Rows the calculation cannot create again: (user, period) is unique and only
\* drafts of the run are deleted first.
Taken == {e \in Employees : slips[e].status # "NONE"} \ Drafts

Live(i) == payments[i].status \notin {"NONE", "CANCELLED"}
LivePayments == {i \in PayIds : Live(i)}
Closed == "closed" \in closure

At(c, pc)     == clerk[c].pc = pc
Goto(c, pc, es, snap) == clerk' = [clerk EXCEPT ![c] = OnRun(pc, es, snap)]
Done(c)       == clerk' = [clerk EXCEPT ![c] = Free]
Slot(c)       == clerk[c].slips
SetRun(status) == run' = Run(status, run.snap)

-----------------------------------------------------------------------------
(* Calculation: process and processRun.                                    *)

ProcessRead(c) ==
    /\ At(c, "idle")
    /\ run.status \in {"DRAFT", "SIMULATED"}
    /\ Goto(c, "process", {}, Empty)
    /\ UNCHANGED <<run, slips, payments, closure, payer, interrupted>>

Process(c) ==
    /\ At(c, "process")
    /\ SetRun("PROCESSING")
    /\ Goto(c, "calculate", {}, Empty)
    /\ UNCHANGED <<slips, payments, closure, payer, interrupted>>

\* The drafts are deleted and every employee gets a new row: a call that holds
\* a deleted row finds nothing to update and throws; publish passes over it.
Calculate(c, net, errors) ==
    /\ At(c, "calculate")
    /\ Taken = {}
    /\ slips' = [e \in Employees |->
          IF e \in errors THEN Slip("DRAFT", TRUE, net[e], TRUE)
          ELSE Slip("DRAFT", TRUE, net[e], FALSE)]
    /\ LET snap == Snap(net, errors)
       IN  /\ run' = Run(run.status, snap)
           /\ clerk' = [d \in Clerks |->
                 IF d = c THEN OnRun("calculated", {}, snap)
                 ELSE IF clerk[d].pc \in {"recalc", "exclude", "edit"} THEN Free
                 ELSE IF clerk[d].pc = "issue" THEN OnRun("issue", {}, Empty)
                 ELSE clerk[d]]
    /\ interrupted' = FALSE
    /\ UNCHANGED <<payments, closure, payer>>

\* A row that exists violates the unique index; the handler of P2002 goes on,
\* but Postgres refuses every later statement of the transaction, so it is
\* rolled back and the run returns to DRAFT, as when the calculation throws.
CalculateFails(c) ==
    /\ At(c, "calculate")
    /\ Taken # {} \/ Failures
    /\ SetRun("DRAFT")
    /\ Done(c)
    /\ UNCHANGED <<slips, payments, closure, payer, interrupted>>

FinishProcess(c) ==
    /\ At(c, "calculated")
    /\ run' = Run("SIMULATED", clerk[c].snap)
    /\ Done(c)
    /\ UNCHANGED <<slips, payments, closure, payer, interrupted>>

-----------------------------------------------------------------------------
(* Payslips of a simulated run: recalcPayslip, excludePayslip.             *)

\* Wrong variant: the state of the run is not checked.
CorrectReadAlways(c, pc, e) ==
    /\ At(c, "idle")
    /\ pc \in {"recalc", "exclude"}
    /\ e \in Drafts
    /\ Goto(c, pc, {e}, Empty)
    /\ UNCHANGED <<run, slips, payments, closure, payer, interrupted>>

\* The run and the payslip are read one after the other; neither changes state.
CorrectRead(c, pc, e) ==
    /\ At(c, "idle")
    /\ pc \in {"recalc", "exclude"}
    /\ run.status = "SIMULATED"
    /\ e \in Drafts
    /\ Goto(c, pc, {e}, Empty)
    /\ UNCHANGED <<run, slips, payments, closure, payer, interrupted>>

Recalc(c, net, error) ==
    /\ At(c, "recalc")
    /\ slips' = [e \in Employees |->
          IF e \in Slot(c) THEN Slip("DRAFT", TRUE, net, error) ELSE slips[e]]
    /\ Goto(c, "refresh", {}, Empty)
    /\ UNCHANGED <<run, payments, closure, payer, interrupted>>

\* Wrong variant: the snapshot is left as it was.
ExcludeOnly(c) ==
    /\ At(c, "exclude")
    /\ slips' = [e \in Employees |->
          IF e \in Slot(c) THEN Outside(slips[e].status) ELSE slips[e]]
    /\ Done(c)
    /\ UNCHANGED <<run, payments, closure, payer, interrupted>>

Exclude(c) ==
    /\ At(c, "exclude")
    /\ slips' = [e \in Employees |->
          IF e \in Slot(c) THEN Outside(slips[e].status) ELSE slips[e]]
    /\ Goto(c, "refresh", {}, Empty)
    /\ UNCHANGED <<run, payments, closure, payer, interrupted>>

RefreshRead(c) ==
    /\ At(c, "refresh")
    /\ Goto(c, "snapshot", {}, Snapshot)
    /\ UNCHANGED <<run, slips, payments, closure, payer, interrupted>>

RefreshWrite(c) ==
    /\ At(c, "snapshot")
    /\ run' = Run(run.status, clerk[c].snap)
    /\ interrupted' = FALSE
    /\ Done(c)
    /\ UNCHANGED <<slips, payments, closure, payer>>

-----------------------------------------------------------------------------
(* Decisions: submit, approve, reject; publication; cancellation.          *)

\* Wrong variant: a rejected run gets a status of its own.
TargetRejected == [submit |-> "PENDING_APPROVAL", approve |-> "APPROVED", reject |-> "REJECTED"]

Target == [submit |-> "PENDING_APPROVAL", approve |-> "APPROVED", reject |-> "SIMULATED"]

DecideRead(c, op) ==
    /\ At(c, "idle")
    /\ \/ op = "submit" /\ run.status = "SIMULATED" /\ run.snap.errors = {}
       \/ op \in {"approve", "reject"} /\ run.status = "PENDING_APPROVAL"
    /\ Goto(c, op, {}, Empty)
    /\ UNCHANGED <<run, slips, payments, closure, payer, interrupted>>

Decide(c) ==
    /\ clerk[c].pc \in DOMAIN Target
    /\ SetRun(Target[clerk[c].pc])
    /\ Done(c)
    /\ UNCHANGED <<slips, payments, closure, payer, interrupted>>

PublishRead(c) ==
    /\ At(c, "idle")
    /\ run.status = "APPROVED"
    /\ Goto(c, "list", {}, Empty)
    /\ UNCHANGED <<run, slips, payments, closure, payer, interrupted>>

PublishList(c) ==
    /\ At(c, "list")
    /\ Goto(c, "issue", Drafts, Empty)
    /\ UNCHANGED <<run, slips, payments, closure, payer, interrupted>>

\* Wrong variant: only the first chunk is issued.
IssueFirstChunk(c, ids) ==
    /\ At(c, "issue")
    /\ ids \subseteq Slot(c) /\ ids # {} /\ Cardinality(ids) <= Chunk
    /\ slips' = [e \in Employees |->
          IF e \in ids \cap Drafts THEN Issued(slips[e]) ELSE slips[e]]
    /\ Goto(c, "issue", {}, Empty)
    /\ UNCHANGED <<run, payments, closure, payer, interrupted>>

IssueChunk(c, ids) ==
    /\ At(c, "issue")
    /\ ids \subseteq Slot(c) /\ ids # {} /\ Cardinality(ids) <= Chunk
    /\ slips' = [e \in Employees |->
          IF e \in ids \cap Drafts THEN Issued(slips[e]) ELSE slips[e]]
    /\ Goto(c, "issue", Slot(c) \ ids, Empty)
    /\ UNCHANGED <<run, payments, closure, payer, interrupted>>

Publish(c) ==
    /\ At(c, "issue") /\ Slot(c) = {}
    /\ SetRun("PUBLISHED")
    /\ Done(c)
    /\ UNCHANGED <<slips, payments, closure, payer, interrupted>>

\* The run is loaded, then the closure, and only then refused.
CancelRead(c) ==
    /\ At(c, "idle")
    /\ run.status # "PUBLISHED"
    /\ Goto(c, "cancelCheck", {}, Empty)
    /\ UNCHANGED <<run, slips, payments, closure, payer, interrupted>>

CancelCheck(c) ==
    /\ At(c, "cancelCheck")
    /\ \/ Closed /\ Done(c)
       \/ ~Closed /\ Goto(c, "cancel", {}, Empty)
    /\ UNCHANGED <<run, slips, payments, closure, payer, interrupted>>

Cancel(c) ==
    /\ At(c, "cancel")
    /\ SetRun("CANCELLED")
    /\ Done(c)
    /\ UNCHANGED <<slips, payments, closure, payer, interrupted>>

-----------------------------------------------------------------------------
(* Payslips on their own: create, issue and its successors, update.        *)

CreateSlip(e) ==
    /\ slips[e].status = "NONE"
    /\ slips' = [slips EXCEPT ![e] = Outside("DRAFT")]
    /\ UNCHANGED <<run, payments, closure, clerk, payer, interrupted>>

\* Read and written by id with no condition: when the row was read is the same.
IssueSlip(e) ==
    /\ slips[e].status = "DRAFT"
    /\ slips' = [slips EXCEPT ![e] = Issued(slips[e])]
    /\ UNCHANGED <<run, payments, closure, clerk, payer, interrupted>>

EditRead(c, e) ==
    /\ At(c, "idle")
    /\ slips[e].status = "DRAFT"
    /\ slips[e].inRun => EditsInRun /\ run.status # "PUBLISHED"
    /\ Goto(c, "edit", {e}, Empty)
    /\ UNCHANGED <<run, slips, payments, closure, payer, interrupted>>

Edit(c, net) ==
    /\ At(c, "edit")
    /\ slips' = [e \in Employees |->
          IF e \notin Slot(c) THEN slips[e]
          ELSE IF slips[e].inRun THEN Slip("DRAFT", TRUE, net, slips[e].error)
          ELSE Outside("DRAFT")]
    /\ Done(c)
    /\ UNCHANGED <<run, payments, closure, payer, interrupted>>

\* The process dies between two statements.
ClerkDies(c) ==
    /\ Failures
    /\ ~At(c, "idle")
    /\ interrupted' = (interrupted \/ clerk[c].pc \in {"refresh", "snapshot"})
    /\ Done(c)
    /\ UNCHANGED <<run, slips, payments, closure, payer>>

-----------------------------------------------------------------------------
(* Payments.                                                               *)

AtP(p, pc) == payer[p].pc = pc
GotoP(p, pc, i, to, sum) == payer' = [payer EXCEPT ![p] = OnPayment(pc, i, to, sum)]
DoneP(p)   == payer' = [payer EXCEPT ![p] = Away]

CreateRead(p) ==
    /\ AtP(p, "idle")
    /\ run.status \in Payable /\ ~Closed
    /\ GotoP(p, "count", 0, "NONE", Nothing)
    /\ UNCHANGED <<run, slips, payments, closure, clerk, interrupted>>

\* Wrong variant: a failed payment does not count.
CreateCountNotFailed(p) ==
    /\ AtP(p, "count")
    /\ \A i \in LivePayments : payments[i].status = "FAILED"
    /\ GotoP(p, "sum", 0, "NONE", Nothing)
    /\ UNCHANGED <<run, slips, payments, closure, clerk, interrupted>>

CreateCount(p) ==
    /\ AtP(p, "count")
    /\ IF LivePayments = {} THEN GotoP(p, "sum", 0, "NONE", Nothing) ELSE DoneP(p)
    /\ UNCHANGED <<run, slips, payments, closure, clerk, interrupted>>

\* Wrong variant: only what has been issued is summed.
CreateSumIssued(p) ==
    /\ AtP(p, "sum")
    /\ InRun # {}
    /\ GotoP(p, "create", 0, "NONE", PayOf(InRun \ Drafts))
    /\ UNCHANGED <<run, slips, payments, closure, clerk, interrupted>>

CreateSum(p) ==
    /\ AtP(p, "sum")
    /\ IF InRun # {} THEN GotoP(p, "create", 0, "NONE", Net) ELSE DoneP(p)
    /\ UNCHANGED <<run, slips, payments, closure, clerk, interrupted>>

NewPayment(i) == \A j \in PayIds : payments[j].status = "NONE" <=> j >= i

Create(p, i) ==
    /\ AtP(p, "create")
    /\ NewPayment(i)
    /\ payments' = [payments EXCEPT ![i] =
          Payment("PENDING", payer[p].sum, {})]
    /\ DoneP(p)
    /\ UNCHANGED <<run, slips, closure, clerk, interrupted>>

TRANSITIONS == [
    NONE         |-> {},
    PENDING      |-> {"PREPARED", "CANCELLED"},
    PREPARED     |-> {"SENT_TO_BANK", "FAILED", "CANCELLED"},
    SENT_TO_BANK |-> {"PROCESSED", "FAILED", "CANCELLED"},
    PROCESSED    |-> {"PAID", "FAILED"},
    PAID         |-> {},
    FAILED       |-> {"PENDING", "CANCELLED"},
    CANCELLED    |-> {}]

StatusRead(p, i, to) ==
    /\ AtP(p, "idle")
    /\ to \in TRANSITIONS[payments[i].status]
    /\ to = "PREPARED" => payments[i].file # {}
    /\ GotoP(p, "status", i, to, Nothing)
    /\ UNCHANGED <<run, slips, payments, closure, clerk, interrupted>>

UpdateStatus(p) ==
    /\ AtP(p, "status")
    /\ payments' = [payments EXCEPT ![payer[p].pay] = Payment(payer[p].to, @.amount, @.file)]
    /\ DoneP(p)
    /\ UNCHANGED <<run, slips, closure, clerk, interrupted>>

FileRead(p, i) ==
    /\ AtP(p, "idle")
    /\ payments[i].status \notin {"NONE", "CANCELLED", "FAILED"}
    /\ GotoP(p, "fileSum", i, "NONE", Nothing)
    /\ UNCHANGED <<run, slips, payments, closure, clerk, interrupted>>

FileSum(p) ==
    /\ AtP(p, "fileSum")
    /\ GotoP(p, "file", payer[p].pay, "NONE", Net)
    /\ UNCHANGED <<run, slips, payments, closure, clerk, interrupted>>

\* The file has a line per payslip whose employee has a bank account.
Listed(net) == [e \in Employees |-> IF e \in NoNib THEN NotPaid ELSE net[e]]

BankFile(p) ==
    /\ AtP(p, "file")
    /\ payments' = [payments EXCEPT ![payer[p].pay] =
          Payment(@.status, @.amount, {Listed(payer[p].sum)})]
    /\ DoneP(p)
    /\ UNCHANGED <<run, slips, closure, clerk, interrupted>>

-----------------------------------------------------------------------------
(* Closure.                                                                *)

ValidateRead(p, kind) ==
    /\ AtP(p, "idle")
    /\ kind \in {"hr", "finance"}
    /\ ~Closed /\ run.status \in Payable
    /\ GotoP(p, kind, 0, "NONE", Nothing)
    /\ UNCHANGED <<run, slips, payments, closure, clerk, interrupted>>

Validate(p) ==
    /\ payer[p].pc \in {"hr", "finance"}
    /\ closure' = closure \union {payer[p].pc}
    /\ DoneP(p)
    /\ UNCHANGED <<run, slips, payments, clerk, interrupted>>

\* Wrong variant: one payment done is enough.
CloseReadAnyPaid(p) ==
    /\ AtP(p, "idle")
    /\ ~Closed /\ {"hr", "finance"} \subseteq closure
    /\ run.status \in Payable /\ run.snap.errors = {}
    /\ \A i \in LivePayments : payments[i].status # "PENDING"
    /\ LivePayments # {}
    /\ GotoP(p, "checkSlips", 0, "NONE", Nothing)
    /\ UNCHANGED <<run, slips, payments, closure, clerk, interrupted>>

\* closureOverview reads the run with its payments, then the payslips.
CloseRead(p) ==
    /\ AtP(p, "idle")
    /\ ~Closed /\ {"hr", "finance"} \subseteq closure
    /\ run.status \in Payable /\ run.snap.errors = {}
    /\ LivePayments # {} /\ \A i \in LivePayments : payments[i].status = "PAID"
    /\ GotoP(p, "checkSlips", 0, "NONE", Nothing)
    /\ UNCHANGED <<run, slips, payments, closure, clerk, interrupted>>

CloseCheck(p) ==
    /\ AtP(p, "checkSlips")
    /\ IF InRun # {} /\ Drafts = {} /\ Errors = {}
       THEN GotoP(p, "close", 0, "NONE", Nothing) ELSE DoneP(p)
    /\ UNCHANGED <<run, slips, payments, closure, clerk, interrupted>>

Close(p) ==
    /\ AtP(p, "close")
    /\ closure' = closure \union {"closed"}
    /\ DoneP(p)
    /\ UNCHANGED <<run, slips, payments, clerk, interrupted>>

PayerDies(p) ==
    /\ Failures
    /\ ~AtP(p, "idle")
    /\ DoneP(p)
    /\ UNCHANGED <<run, slips, payments, closure, clerk, interrupted>>

-----------------------------------------------------------------------------
ClerkNext(c) ==
    \/ ProcessRead(c) \/ Process(c) \/ CalculateFails(c) \/ FinishProcess(c)
    \/ \E net \in [Employees -> Nets], errors \in SUBSET Employees :
          Calculate(c, net, errors)
    \/ \E e \in Employees, pc \in {"recalc", "exclude"} : CorrectRead(c, pc, e)
    \/ \E net \in Nets, error \in BOOLEAN : Recalc(c, net, error)
    \/ Exclude(c) \/ RefreshRead(c) \/ RefreshWrite(c)
    \/ \E op \in DOMAIN Target : DecideRead(c, op)
    \/ Decide(c)
    \/ PublishRead(c) \/ PublishList(c) \/ Publish(c)
    \/ \E ids \in SUBSET Slot(c) : IssueChunk(c, ids)
    \/ CancelRead(c) \/ CancelCheck(c) \/ Cancel(c)
    \/ \E e \in Employees : EditRead(c, e)
    \/ \E net \in Nets : Edit(c, net)
    \/ ClerkDies(c)

PayerNext(p) ==
    \/ CreateRead(p) \/ CreateCount(p) \/ CreateSum(p)
    \/ \E i \in PayIds : Create(p, i) \/ FileRead(p, i)
    \/ \E i \in PayIds : \E to \in TRANSITIONS[payments[i].status] : StatusRead(p, i, to)
    \/ UpdateStatus(p) \/ FileSum(p) \/ BankFile(p)
    \/ \E kind \in {"hr", "finance"} : ValidateRead(p, kind)
    \/ Validate(p)
    \/ CloseRead(p) \/ CloseCheck(p) \/ Close(p)
    \/ PayerDies(p)

DeskNext ==
    \E e \in Employees : IssueSlip(e) \/ CreateSlip(e)

Next ==
    \/ \E c \in Clerks : ClerkNext(c)
    \/ \E p \in Payers : PayerNext(p)
    \/ DeskNext

Spec == Init /\ [][Next]_vars

-----------------------------------------------------------------------------
PayStatuses == DOMAIN TRANSITIONS
ClerkPcs == {"idle", "process", "calculate", "calculated", "recalc", "exclude",
             "refresh", "snapshot", "submit", "approve", "reject", "list", "issue",
             "cancelCheck", "cancel", "edit"}
PayerPcs == {"idle", "count", "sum", "create", "status", "fileSum", "file", "hr",
             "finance", "checkSlips", "close"}
Pays  == [Employees -> Nat \union {NotPaid}]
Snaps == [net : Pays, errors : SUBSET Employees]

\* Rows hold values of their kind, and a call that writes a payment has one.
TypeOK ==
    /\ run \in [status : RunStatuses, snap : Snaps]
    /\ slips \in [Employees -> [status : {"NONE", "DRAFT", "ISSUED"}, inRun : BOOLEAN,
                                net : Nat, error : BOOLEAN]]
    /\ payments \in [PayIds -> [status : PayStatuses, amount : Pays, file : SUBSET Pays]]
    /\ closure \subseteq {"hr", "finance", "closed"}
    /\ clerk \in [Clerks -> [pc : ClerkPcs, slips : SUBSET Employees, snap : Snaps]]
    /\ payer \in [Payers -> [pc : PayerPcs, pay : 0 .. MaxPayments, to : PayStatuses, sum : Pays]]
    /\ interrupted \in BOOLEAN

\* "um run APPROVED/PUBLISHED/CANCELLED e imutavel" (process, recalcPayslip,
\* excludePayslip): which payslips such a run has, and what they pay, is fixed.
ApprovedRunFrozen ==
    [][run.status \in EditLocked => Net' = Net]_vars

\* From submission on, the totals the approver sees are those of the payslips
\* and none of them is in error, unless a call died before refreshing them.
SubmittedAsShown ==
    run.status \in {"PENDING_APPROVAL", "APPROVED", "PUBLISHED"} /\ ~interrupted =>
        run.snap = Snapshot /\ run.snap.errors = {}

\* A payment is for what the payslips of the run add up to, and its bank file for
\* the same without who has no bank account, whenever they were made (create,
\* bankFile).
PaymentsAgree ==
    \A i \in LivePayments :
        /\ payments[i].amount = Net
        /\ payments[i].file \subseteq {Listed(Net)}

\* Publication is resumed after it was cut short: no payslip stays in draft.
PublishedIsIssued == run.status = "PUBLISHED" => Drafts = {}

\* "Ja existe um pagamento activo para este run" (create).
OneLivePayment == \A i, j \in LivePayments : i = j

\* A closed run was validated twice, its payslips are issued without error, and
\* it is paid (close): what the checklist saw still holds, for ever.
ClosedIsSettled ==
    Closed =>
        /\ {"hr", "finance"} \subseteq closure
        /\ InRun # {} /\ Drafts = {} /\ Errors = {}
        /\ LivePayments # {} /\ \A i \in LivePayments : payments[i].status = "PAID"
=============================================================================
