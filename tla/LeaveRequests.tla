--------------------------- MODULE LeaveRequests ---------------------------
(***************************************************************************)
(* Leave requests of one employee for one leave type: the requests, their  *)
(* approval steps and the LeaveBalance row (userId, leaveTypeCode) they    *)
(* all charge.  Rows of other employees and types never meet in one        *)
(* statement of the code, so one row is the whole concurrency problem.     *)
(*                                                                         *)
(* A handler of LeaveManagementService is not a transaction: it is a       *)
(* sequence of awaited statements, and only the statements that share a    *)
(* prisma.$transaction commit together.  Each handler in flight is a       *)
(* record of `proc' with a program counter, and each action below is the   *)
(* code between two awaits that matter: what a handler read before an      *)
(* await is in its record, and may be stale when it is used.               *)
(*                                                                         *)
(* Left out: notifications, audit entries, documents, the arithmetic of    *)
(* dates (Days and Overlaps are given), and replica lag: prisma.read is    *)
(* the latest committed row.                                               *)
(***************************************************************************)
EXTENDS Integers, FiniteSets, FiniteSetsExt

CONSTANTS
    Requests,      \* request ids
    Handlers,      \* handlers that may be in flight at once (and cron passes)
    Owner,         \* the employee
    Approvers,     \* users with role ADMIN, RH or GESTOR
    HRs,           \* the Approvers with role RH
    Manager,       \* the employee's manager, or NoOne
    Substitute,    \* active delegation of an approver (a person or NoOne)
    NoOne, NoRequest,
    Days,          \* workDays of a request
    Overlaps,      \* pairs of requests whose periods intersect
    TwoLevels,     \* requests that also need the HR step
    AutoApproved,  \* requests their type approves at submission
    Limited,       \* the type has an annualLimit, so requests reserve days
    AnnualLimit,   \* the annualLimit, and the balance the row starts with
    CarryCap,      \* the smallest of the carry-over limits
    MaxBalance,    \* bound: admin credits stop at this balance
    EmployeeCanCancelApproved, \* setting employeeCanCancelApproved
    Ops,           \* calls the environment makes, <<operation, request>>
    EffectsFail,   \* TRUE: effects on other modules may fail (logged, not raised)
    Serial,        \* TRUE: a request has at most one handler at a time
    Crashes        \* TRUE: a handler may die between two of its steps

ASSUME RequestsAssumption == IsFiniteSet(Requests)
ASSUME DaysAssumption == Days \in [Requests -> Nat]
ASSUME LimitAssumption ==
    AnnualLimit \in Nat /\ CarryCap \in Nat /\ MaxBalance \in Nat
ASSUME NullAssumption ==
    NoOne \notin Approvers \cup {Owner} /\ NoRequest \notin Requests
ASSUME PeopleAssumption ==
    /\ HRs \subseteq Approvers
    /\ Manager \in Approvers \cup {NoOne}
    /\ Substitute \in [Approvers -> Approvers \cup {Owner, NoOne}]
ASSUME FlagAssumption ==
    /\ Limited \in BOOLEAN /\ Serial \in BOOLEAN /\ Crashes \in BOOLEAN
    /\ EmployeeCanCancelApproved \in BOOLEAN /\ EffectsFail \in BOOLEAN
    /\ AutoApproved \subseteq Requests /\ TwoLevels \subseteq Requests

VARIABLES
    status,     \* LeaveRequest.status, "NONE" before the row exists
    approvals,  \* LeaveApproval of a request, per level
    row,        \* the LeaveBalance row
    usage,      \* LeaveBalanceHistory rows of kind USAGE of a request
    reversal,   \* ... of kind REVERSAL
    carries,    \* ... of kind CARRY_OVER with this year's marker
    onLeave,    \* the request's ON_LEAVE attendance records exist
    paused,     \* the employee's enrolments are paused
    proc        \* the handlers in flight

vars == <<status, approvals, row, usage, reversal, carries, onLeave, paused, proc>>

Levels    == {1, 2}
Users     == Approvers \cup {Owner}
Statuses  == {"NONE", "DRAFT", "PENDING", "APPROVED", "REJECTED", "CANCELLED"}
Actions   == {"APPROVE", "REJECT", "ESCALATE", "DELEGATE"}
\* "OPEN" is decidedAt = null; "ABSENT" is no row.
Decisions == {"ABSENT", "OPEN", "APPROVE", "REJECT", "ESCALATE", "CANCELLED"}
\* A handler's program counter names the statement it runs next.
PCs == {"idle", "conflict", "insert", "flow", "mine", "decide", "rejectStatus",
        "escalateStatus", "count", "finalize", "deduct", "effects", "release",
        "closeSteps", "delegate", "reassign", "escalate", "cancelStatus",
        "return", "undoEffects", "marker", "carry"}

Idle == [pc |-> "idle", req |-> NoRequest, who |-> NoOne, act |-> "APPROVE",
         level |-> 1, was |-> "NONE", amount |-> 0]

Approval == [approver: Users \cup {NoOne}, decision: Decisions, escalated: BOOLEAN]
Balance  == [balance: Int, used: Int, reserved: Int]
Flight   == [pc: PCs, req: Requests \cup {NoRequest}, who: Users \cup {NoOne},
             act: Actions, level: Levels, was: Statuses, amount: Int]

\* The states the tables and the handlers' variables can be in.
TypeOK ==
    /\ status \in [Requests -> Statuses]
    /\ approvals \in [Requests -> [Levels -> Approval]]
    /\ row \in Balance
    /\ usage \in [Requests -> Nat] /\ reversal \in [Requests -> Nat]
    /\ carries \in Nat
    /\ onLeave \in [Requests -> BOOLEAN] /\ paused \in BOOLEAN
    /\ proc \in [Handlers -> Flight]

\* initializeUserBalances has created the row, as it does for every type with a
\* limit; there is no request yet.
Init ==
    /\ status = [r \in Requests |-> "NONE"]
    /\ approvals = [r \in Requests |-> [l \in Levels |->
           [approver |-> NoOne, decision |-> "ABSENT", escalated |-> FALSE]]]
    /\ row = [balance |-> AnnualLimit, used |-> 0, reserved |-> 0]
    /\ usage = [r \in Requests |-> 0] /\ reversal = [r \in Requests |-> 0]
    /\ carries = 0
    /\ onLeave = [r \in Requests |-> FALSE] /\ paused = FALSE
    /\ proc = [h \in Handlers |-> Idle]

-----------------------------------------------------------------------------
(* Handlers in flight.                                                     *)

At(h, pc)   == proc[h].pc = pc
Busy(r)     == \E h \in Handlers : proc[h].req = r
Goto(h, pc) == proc' = [proc EXCEPT ![h].pc = pc]
Return(h)   == proc' = [proc EXCEPT ![h] = Idle]

\* A call on request r arrives: handler h runs up to its first await.
Call(h, op, r, rec) ==
    /\ <<op, r>> \in Ops /\ At(h, "idle")
    /\ Serial => r = NoRequest \/ ~Busy(r)
    /\ proc' = [proc EXCEPT ![h] = rec]

Smaller(a, b) == IF a < b THEN a ELSE b
Larger(a, b)  == IF a > b THEN a ELSE b
Available     == row.balance - row.reserved
Open(r, l)    == approvals[r][l].decision = "OPEN"
EarlierOpen(r, l) == \E k \in Levels : k < l /\ Open(r, k)

\* updateMany({ requestId, decidedAt: null }, CANCELLED)
ClosedSteps(r) == [l \in Levels |-> IF Open(r, l)
                       THEN [approvals[r][l] EXCEPT !.decision = "CANCELLED"]
                       ELSE approvals[r][l]]
-----------------------------------------------------------------------------
(* create: two reads that validate, then the transaction that inserts the  *)
(* request and, for a PENDING one, reserves its days under the row lock.   *)

InitialStatus(r, asDraft) ==
    IF asDraft THEN "DRAFT" ELSE IF r \in AutoApproved THEN "APPROVED" ELSE "PENDING"

CreateCheckBalance(h, r, asDraft) ==
    /\ status[r] = "NONE" /\ ~Busy(r)
    /\ Limited => Days[r] <= Available
    /\ Call(h, IF asDraft THEN "draft" ELSE "create", r,
            [Idle EXCEPT !.pc = "conflict", !.req = r, !.who = Owner,
                         !.was = InitialStatus(r, asDraft)])
    /\ UNCHANGED <<status, approvals, row, usage, reversal, carries, onLeave, paused>>

SelfConflict(r) == \E s \in Requests : /\ <<r, s>> \in Overlaps
                                       /\ status[s] \in {"PENDING", "APPROVED"}

CreateCheckConflict(h) ==
    /\ At(h, "conflict")
    /\ IF SelfConflict(proc[h].req) THEN Return(h) ELSE Goto(h, "insert")
    /\ UNCHANGED <<status, approvals, row, usage, reversal, carries, onLeave, paused>>

\* Wrong variant: the days are not checked again under the lock.
InsertUnchecked(h) ==
    LET r == proc[h].req
    IN /\ At(h, "insert")
       /\ status' = [status EXCEPT ![r] = proc[h].was]
       /\ row' = IF proc[h].was = "PENDING" /\ Limited
                   THEN [row EXCEPT !.reserved = @ + Days[r]] ELSE row
       /\ CASE proc[h].was = "PENDING"  -> Goto(h, "flow")
            [] proc[h].was = "APPROVED" -> Goto(h, "deduct")
            [] OTHER                    -> Return(h)
       /\ UNCHANGED <<approvals, usage, reversal, carries, onLeave, paused>>

\* reserveBalance checks the available days again, with the row locked, and
\* rolls the insertion back when they are gone.
CreateInsert(h) ==
    LET r == proc[h].req
        reserves == proc[h].was = "PENDING" /\ Limited
    IN /\ At(h, "insert")
       /\ IF reserves /\ Days[r] > Available
            THEN Return(h) /\ UNCHANGED <<status, row>>
            ELSE /\ status' = [status EXCEPT ![r] = proc[h].was]
                 /\ row' = IF reserves THEN [row EXCEPT !.reserved = @ + Days[r]] ELSE row
                 /\ CASE proc[h].was = "PENDING"  -> Goto(h, "flow")
                      [] proc[h].was = "APPROVED" -> Goto(h, "deduct")
                      [] OTHER                    -> Return(h)
       /\ UNCHANGED <<approvals, usage, reversal, carries, onLeave, paused>>

\* createApprovalFlow: the steps are rows of their own, inserted one by one.
ManagerStep == Manager \notin {NoOne, Owner}

StepFor(approver) ==
    LET s == Substitute[approver]
    IN [approver |-> IF s \notin {NoOne, Owner} THEN s ELSE approver,
        decision |-> "OPEN", escalated |-> FALSE]

FlowManager(h) ==
    LET r == proc[h].req
    IN /\ At(h, "flow") /\ proc[h].level = 1
       /\ approvals' = IF ManagerStep
                         THEN [approvals EXCEPT ![r][1] = StepFor(Manager)]
                         ELSE approvals
       /\ proc' = [proc EXCEPT ![h].level = 2]
       /\ UNCHANGED <<status, row, usage, reversal, carries, onLeave, paused>>

FlowHR(h) ==
    LET r == proc[h].req
    IN /\ At(h, "flow") /\ proc[h].level = 2
       /\ \/ \E hr \in HRs \ {Owner} :      \* findFirst, in no given order
               /\ r \in TwoLevels /\ ~(ManagerStep /\ hr = Manager)
               /\ approvals' = [approvals EXCEPT ![r][2] = StepFor(hr)]
               /\ Return(h)
          \/ /\ r \in TwoLevels => \/ HRs \subseteq {Owner}
                                   \/ ManagerStep /\ Manager \in HRs
             /\ IF ManagerStep THEN Return(h) ELSE Goto(h, "finalize")
             /\ UNCHANGED approvals
       /\ UNCHANGED <<status, row, usage, reversal, carries, onLeave, paused>>

-----------------------------------------------------------------------------
(* processApproval.                                                        *)

ProcessRead(h, r, who, act) ==
    /\ status[r] = "PENDING"
    /\ Call(h, act, r, [Idle EXCEPT !.pc = "mine", !.req = r, !.who = who, !.act = act])
    /\ UNCHANGED <<status, approvals, row, usage, reversal, carries, onLeave, paused>>

\* Wrong variant: the steps before the approver's own are not looked at.
FindAnyStep(h) ==
    LET r    == proc[h].req
        mine == {l \in Levels : Open(r, l) /\ approvals[r][l].approver = proc[h].who}
    IN /\ At(h, "mine")
       /\ \/ mine = {} /\ Return(h)
          \/ \E l \in mine : proc' = [proc EXCEPT ![h].level = l, ![h].pc =
                      IF proc[h].act = "DELEGATE" THEN "delegate" ELSE "decide"]
       /\ UNCHANGED <<status, approvals, row, usage, reversal, carries, onLeave, paused>>

\* The approver's own undecided step, and no undecided step before it.
ProcessFindStep(h) ==
    LET r    == proc[h].req
        mine == {l \in Levels : Open(r, l) /\ approvals[r][l].approver = proc[h].who}
    IN /\ At(h, "mine")
       /\ \/ /\ \/ mine = {}
                \/ \E l \in mine : EarlierOpen(r, l)
             /\ Return(h)
          \/ \E l \in mine :
               /\ ~EarlierOpen(r, l)
               /\ proc' = [proc EXCEPT ![h].level = l, ![h].pc =
                      IF proc[h].act = "DELEGATE" THEN "delegate" ELSE "decide"]
       /\ UNCHANGED <<status, approvals, row, usage, reversal, carries, onLeave, paused>>

\* delegateApproval: any other user; the step is undecided again.
Delegate(h) ==
    LET r == proc[h].req
    IN /\ At(h, "delegate")
       /\ \E to \in Users \ {proc[h].who} :
            approvals' = [approvals EXCEPT ![r][proc[h].level] =
                              [@ EXCEPT !.approver = to, !.decision = "OPEN"]]
       /\ Return(h)
       /\ UNCHANGED <<status, row, usage, reversal, carries, onLeave, paused>>

Decide(h) ==
    LET r == proc[h].req
    IN /\ At(h, "decide")
       /\ approvals' = [approvals EXCEPT ![r][proc[h].level].decision = proc[h].act]
       /\ Goto(h, CASE proc[h].act = "REJECT"   -> "rejectStatus"
                    [] proc[h].act = "ESCALATE" -> "escalateStatus"
                    [] OTHER                    -> "count")
       /\ UNCHANGED <<status, row, usage, reversal, carries, onLeave, paused>>

\* Wrong variant: the decision is stored where the status belongs.
RejectStatusByDecision(h) ==
    /\ At(h, "rejectStatus")
    /\ status' = [status EXCEPT ![proc[h].req] = proc[h].act]
    /\ Goto(h, "release")
    /\ UNCHANGED <<approvals, row, usage, reversal, carries, onLeave, paused>>

RejectStatus(h) ==
    /\ At(h, "rejectStatus")
    /\ status' = [status EXCEPT ![proc[h].req] = "REJECTED"]
    /\ Goto(h, "release")
    /\ UNCHANGED <<approvals, row, usage, reversal, carries, onLeave, paused>>

\* ESCALATE only notifies the next undecided step, if there is one.
EscalateStatus(h) ==
    /\ At(h, "escalateStatus")
    /\ status' = [status EXCEPT ![proc[h].req] = "PENDING"]
    /\ Return(h)
    /\ UNCHANGED <<approvals, row, usage, reversal, carries, onLeave, paused>>

\* Wrong variant: the first approval is taken for the last.
CountNothing(h) ==
    /\ At(h, "count")
    /\ Goto(h, "finalize")
    /\ UNCHANGED <<status, approvals, row, usage, reversal, carries, onLeave, paused>>

\* Wrong variant: waits for every step to be decided APPROVE.
CountUnapproved(h) ==
    /\ At(h, "count")
    /\ IF \E l \in Levels : approvals[proc[h].req][l].decision \notin {"ABSENT", "APPROVE"}
         THEN Return(h) ELSE Goto(h, "finalize")
    /\ UNCHANGED <<status, approvals, row, usage, reversal, carries, onLeave, paused>>

CountRemaining(h) ==
    /\ At(h, "count")
    /\ IF \E l \in Levels : Open(proc[h].req, l) THEN Return(h) ELSE Goto(h, "finalize")
    /\ UNCHANGED <<status, approvals, row, usage, reversal, carries, onLeave, paused>>

-----------------------------------------------------------------------------
(* finalizeApproval and the ledger transactions, each under FOR UPDATE.    *)

Finalize(h) ==
    /\ At(h, "finalize")
    /\ status' = [status EXCEPT ![proc[h].req] = "APPROVED"]
    /\ Goto(h, "deduct")
    /\ UNCHANGED <<approvals, row, usage, reversal, carries, onLeave, paused>>

\* Wrong variant: the charge leaves the reservation where it is.
DeductKeepsReservation(h) ==
    LET r == proc[h].req
    IN /\ At(h, "deduct")
       /\ row' = [row EXCEPT !.balance = @ - Days[r], !.used = @ + Days[r]]
       /\ usage' = [usage EXCEPT ![r] = @ + 1]
       /\ Goto(h, "effects")
       /\ UNCHANGED <<status, approvals, reversal, carries, onLeave, paused>>

\* Wrong variant: the days a charge found reserved are not taken from the balance.
DeductUnreservedOnly(h) ==
    LET r == proc[h].req
        taken == Smaller(row.reserved, Days[r])
    IN /\ At(h, "deduct")
       /\ row' = [balance  |-> row.balance - (Days[r] - taken),
                  used     |-> row.used + Days[r],
                  reserved |-> row.reserved - taken]
       /\ usage' = [usage EXCEPT ![r] = @ + 1]
       /\ Goto(h, "effects")
       /\ UNCHANGED <<status, approvals, reversal, carries, onLeave, paused>>

\* The upsert: the row is there (Init).  For a type without limit, whose row
\* may be missing, the "create" branch is this update of a row of zeros.
DeductBalance(h) ==
    LET r == proc[h].req
    IN /\ At(h, "deduct")
       /\ row' = [balance  |-> row.balance - Days[r],
                  used     |-> row.used + Days[r],
                  reserved |-> row.reserved - Smaller(row.reserved, Days[r])]
       /\ usage' = [usage EXCEPT ![r] = @ + 1]
       /\ Goto(h, "effects")
       /\ UNCHANGED <<status, approvals, reversal, carries, onLeave, paused>>

Done == IF EffectsFail THEN BOOLEAN ELSE {TRUE}

\* Effects on other modules; each may fail, and a failure is only logged.
\* Only finalizeApproval pauses the enrolments, not the automatic approval.
ApplyEffects(h) ==
    LET r == proc[h].req
    IN /\ At(h, "effects")
       /\ \E synced, pausing \in Done :
            /\ onLeave' = [onLeave EXCEPT ![r] = @ \/ synced]
            /\ paused' = (paused \/ (pausing /\ proc[h].was # "APPROVED"))
       /\ Return(h)
       /\ UNCHANGED <<status, approvals, row, usage, reversal, carries>>

\* Wrong variant: releases what the request asked for, reserved or not.
ReleaseUnbounded(h) ==
    LET r == proc[h].req
    IN /\ At(h, "release")
       /\ row' = [row EXCEPT !.reserved = @ - Days[r]]
       /\ Goto(h, "closeSteps")
       /\ UNCHANGED <<status, approvals, usage, reversal, carries, onLeave, paused>>

\* Wrong variant: releases the row's reservations, not the request's.
ReleaseAll(h) ==
    /\ At(h, "release")
    /\ row' = [row EXCEPT !.reserved = 0]
    /\ Goto(h, "closeSteps")
    /\ UNCHANGED <<status, approvals, usage, reversal, carries, onLeave, paused>>

ReleaseReservation(h) ==
    LET r == proc[h].req
    IN /\ At(h, "release")
       /\ row' = [row EXCEPT !.reserved = @ - Smaller(@, Days[r])]
       /\ Goto(h, "closeSteps")
       /\ UNCHANGED <<status, approvals, usage, reversal, carries, onLeave, paused>>

CloseSteps(h) ==
    LET r == proc[h].req
    IN /\ At(h, "closeSteps")
       /\ approvals' = [approvals EXCEPT ![r] = ClosedSteps(r)]
       /\ Return(h)
       /\ UNCHANGED <<status, row, usage, reversal, carries, onLeave, paused>>

-----------------------------------------------------------------------------
(* cancel, by the owner or by ADMIN/RH.                                    *)

\* Wrong variant: a refused request can be cancelled.
CancelAny(h, r, who) ==
    /\ who = Owner \/ who \in HRs
    /\ status[r] \notin {"NONE", "CANCELLED"}
    /\ Call(h, "cancel", r, [Idle EXCEPT !.pc = "cancelStatus", !.req = r,
                                         !.was = status[r]])
    /\ UNCHANGED <<status, approvals, row, usage, reversal, carries, onLeave, paused>>

CancelRead(h, r, who) ==
    /\ who = Owner \/ who \in HRs
    /\ status[r] \in {"PENDING", "DRAFT", "APPROVED"}
    /\ status[r] = "APPROVED" => who \in HRs \/ EmployeeCanCancelApproved
    /\ Call(h, "cancel", r, [Idle EXCEPT !.pc = "cancelStatus", !.req = r,
                                         !.was = status[r]])
    /\ UNCHANGED <<status, approvals, row, usage, reversal, carries, onLeave, paused>>

\* Wrong variant: cancelling an approved request does not return its days.
CancelWithoutRefund(h) ==
    /\ At(h, "cancelStatus")
    /\ status' = [status EXCEPT ![proc[h].req] = "CANCELLED"]
    /\ Goto(h, IF proc[h].was = "PENDING" THEN "release" ELSE "closeSteps")
    /\ UNCHANGED <<approvals, row, usage, reversal, carries, onLeave, paused>>

CancelStatus(h) ==
    /\ At(h, "cancelStatus")
    /\ status' = [status EXCEPT ![proc[h].req] = "CANCELLED"]
    /\ Goto(h, CASE proc[h].was = "APPROVED" -> "return"
                 [] proc[h].was = "PENDING"  -> "release"
                 [] OTHER                    -> "closeSteps")
    /\ UNCHANGED <<approvals, row, usage, reversal, carries, onLeave, paused>>

\* Wrong variant: the days come back and stay used.
ReturnKeepsUsed(h) ==
    LET r == proc[h].req
    IN /\ At(h, "return")
       /\ row' = [row EXCEPT !.balance = @ + Days[r]]
       /\ reversal' = [reversal EXCEPT ![r] = @ + 1]
       /\ Goto(h, "undoEffects")
       /\ UNCHANGED <<status, approvals, usage, carries, onLeave, paused>>

\* The upsert's "create" branch, for a row that is missing, is left out: an
\* approved request of a type with a limit has reserved its days in the row.
ReturnBalance(h) ==
    LET r == proc[h].req
    IN /\ At(h, "return")
       /\ row' = [balance  |-> row.balance + Days[r],
                  used     |-> row.used - Days[r],
                  reserved |-> row.reserved]
       /\ reversal' = [reversal EXCEPT ![r] = @ + 1]
       /\ Goto(h, "undoEffects")
       /\ UNCHANGED <<status, approvals, usage, carries, onLeave, paused>>

UndoEffects(h) ==
    LET r == proc[h].req
    IN /\ At(h, "undoEffects")
       /\ \E removed, resumed \in Done :
            /\ onLeave' = [onLeave EXCEPT ![r] = @ /\ ~removed]
            /\ paused' = (paused /\ ~resumed)
       /\ Goto(h, "closeSteps")
       /\ UNCHANGED <<status, approvals, row, usage, reversal, carries>>

-----------------------------------------------------------------------------
(* Reassignment by hand, and the daily escalation to HR.                   *)

ReassignRead(h, r, l, viewer) ==
    /\ viewer \in HRs \/ viewer = approvals[r][l].approver
    /\ Open(r, l) /\ status[r] = "PENDING"
    /\ Call(h, "reassign", r, [Idle EXCEPT !.pc = "reassign", !.req = r, !.level = l,
                                           !.who = approvals[r][l].approver])
    /\ UNCHANGED <<status, approvals, row, usage, reversal, carries, onLeave, paused>>

Reassign(h) ==
    LET r == proc[h].req
    IN /\ At(h, "reassign")
       /\ \E to \in Approvers \ {proc[h].who, Owner} :
            approvals' = [approvals EXCEPT ![r][proc[h].level].approver = to]
       /\ Return(h)
       /\ UNCHANGED <<status, row, usage, reversal, carries, onLeave, paused>>

\* remindOverdueApprovals: a step whose deadline passed, taken as any open
\* step that was not escalated before.
RemindRead(h, r, l) ==
    /\ Open(r, l) /\ status[r] = "PENDING"
    /\ ~approvals[r][l].escalated /\ ~EarlierOpen(r, l)
    /\ HRs \ {Owner, approvals[r][l].approver} # {}
    /\ Call(h, "remind", r, [Idle EXCEPT !.pc = "escalate", !.req = r, !.level = l,
                                         !.who = approvals[r][l].approver])
    /\ UNCHANGED <<status, approvals, row, usage, reversal, carries, onLeave, paused>>

EscalateToHR(h) ==
    LET r == proc[h].req
    IN /\ At(h, "escalate")
       /\ \E hr \in HRs \ {Owner, proc[h].who} :
            approvals' = [approvals EXCEPT ![r][proc[h].level] =
                              [@ EXCEPT !.approver = hr, !.escalated = TRUE]]
       /\ Return(h)
       /\ UNCHANGED <<status, row, usage, reversal, carries, onLeave, paused>>

-----------------------------------------------------------------------------
(* Administration of the row.                                              *)

\* processCarryOver lists the rows, then looks for the year's marker, then
\* writes, under the lock, the balance it computed from the list.
CarryRead(h) ==
    LET carry == Larger(0, Smaller(Available, CarryCap))
    IN /\ Call(h, "carry", NoRequest, [Idle EXCEPT !.pc = "marker",
                                                   !.amount = AnnualLimit + carry])
       /\ UNCHANGED <<status, approvals, row, usage, reversal, carries, onLeave, paused>>

CarryMarker(h) ==
    /\ At(h, "marker")
    /\ IF carries > 0 THEN Return(h) ELSE Goto(h, "carry")
    /\ UNCHANGED <<status, approvals, row, usage, reversal, carries, onLeave, paused>>

CarryWrite(h) ==
    /\ At(h, "carry")
    /\ row' = [balance |-> proc[h].amount, used |-> 0, reserved |-> row.reserved]
    /\ carries' = carries + 1
    /\ Return(h)
    /\ UNCHANGED <<status, approvals, usage, reversal, onLeave, paused>>

\* accrueBalance and updateBalance are single statements, with no lock.
Accrue(d) ==
    /\ <<"accrue", NoRequest>> \in Ops /\ row.balance + d <= MaxBalance
    /\ row' = [row EXCEPT !.balance = @ + d]
    /\ UNCHANGED <<status, approvals, usage, reversal, carries, onLeave, paused, proc>>

UpdateBalance(b) ==
    /\ <<"update", NoRequest>> \in Ops
    /\ row' = [row EXCEPT !.balance = b]
    /\ UNCHANGED <<status, approvals, usage, reversal, carries, onLeave, paused, proc>>

-----------------------------------------------------------------------------

\* The process dies, or a statement fails: the handler stops where it is.
Crash(h) ==
    /\ Crashes /\ ~At(h, "idle")
    /\ Return(h)
    /\ UNCHANGED <<status, approvals, row, usage, reversal, carries, onLeave, paused>>

\* The next statement of a handler in flight.
Step(h) ==
    \/ CreateCheckConflict(h) \/ CreateInsert(h) \/ FlowManager(h) \/ FlowHR(h)
    \/ ProcessFindStep(h) \/ Delegate(h) \/ Decide(h) \/ RejectStatus(h)
    \/ EscalateStatus(h) \/ CountRemaining(h)
    \/ Finalize(h) \/ DeductBalance(h) \/ ApplyEffects(h)
    \/ ReleaseReservation(h) \/ CloseSteps(h)
    \/ CancelStatus(h) \/ ReturnBalance(h) \/ UndoEffects(h)
    \/ Reassign(h) \/ EscalateToHR(h) \/ CarryMarker(h) \/ CarryWrite(h)

\* A call arrives.
Arrive(h) ==
    \/ \E r \in Requests :
         \/ \E asDraft \in BOOLEAN : CreateCheckBalance(h, r, asDraft)
         \/ \E who \in Users, act \in Actions : ProcessRead(h, r, who, act)
         \/ \E who \in Users : CancelRead(h, r, who)
         \/ \E l \in Levels, viewer \in Approvers : ReassignRead(h, r, l, viewer)
         \/ \E l \in Levels : RemindRead(h, r, l)
    \/ CarryRead(h)

Administer ==
    \/ \E d \in 1..MaxBalance : Accrue(d)
    \/ \E b \in 0..MaxBalance : UpdateBalance(b)

Next == Administer \/ \E h \in Handlers : Arrive(h) \/ Step(h) \/ Crash(h)

Spec == Init /\ [][Next]_vars

\* A handler runs to its end once called: each await resolves.
FairSpec == Spec /\ \A h \in Handlers : WF_vars(Step(h))
-----------------------------------------------------------------------------
(* Properties that hold however handlers interleave, and with crashes.     *)

\* Releasing and charging take days out of "reserved" under the row lock and
\* never more than it has (releaseReservation, deductBalance).
ReservedNonNegative == row.reserved >= 0

\* Days only move between balance and used, except by the administration of
\* the row: no interleaving of handlers creates or loses a day.
HandlersConserveDays ==
    [][proc' # proc /\ carries' = carries =>
           row'.balance + row'.used = row.balance + row.used]_vars

Net(r) == usage[r] - reversal[r]
Total(f, S) == MapThenSumSet(LAMBDA r : f[r], S)

\* The row and its history agree, until the year's carry-over resets the row:
\* the days used are those of the USAGE entries less the REVERSAL ones, for
\* each pair is written by one transaction.
UsedMatchesHistory ==
    carries = 0 =>
        row.used = Total([r \in Requests |-> Net(r) * Days[r]], Requests)

-----------------------------------------------------------------------------
(* Properties of a request whose calls do not overlap (Serial), whatever   *)
(* the calls on the other requests of the row do.                          *)

Running(r, pcs) == \E h \in Handlers : proc[h].req = r /\ proc[h].pc \in pcs

\* The requests whose days are reserved: pending ones, and those whose handler
\* has changed the status and not yet the row.
Held == {r \in Requests : \/ status[r] = "PENDING"
                          \/ Running(r, {"release"})
                          \/ r \notin AutoApproved /\ Running(r, {"deduct"})}

\* The automatically approved requests charged so far: their days were never
\* reserved, and the charge takes them out of what others have reserved.
Unreserved == {r \in AutoApproved : usage[r] > 0}

\* "reserved" is exactly the days of the requests that hold a reservation; once
\* a request was charged without one it can be less, and never more.
ReservationExact ==
    /\ row.reserved <= Total(Days, Held)
    /\ Unreserved = {} => row.reserved = Total(Days, Held)

\* The reservations never exceed the balance: two submissions that both passed
\* the first validation do not both get the days.  The balance itself can only
\* be overdrawn by a request charged without a reservation.
NoOverdraft ==
    /\ row.reserved > 0 => row.reserved <= row.balance
    /\ Unreserved = {} => row.reserved <= row.balance

\* A request is charged once, refunded once, and both agree with its status
\* up to the handler that is about to write the row.
ChargedOnce ==
    \A r \in Requests :
        /\ Net(r) \in {0, 1}
        /\ Net(r) = 1 <=> \/ status[r] = "APPROVED" /\ ~Running(r, {"deduct"})
                          \/ Running(r, {"return"})

\* A pending request that nobody is working on has a step somebody can decide,
\* unless its last step was escalated.
PendingHasDecider ==
    \A r \in Requests : status[r] = "PENDING" =>
        \/ Busy(r)
        \/ \E l \in Levels : Open(r, l)
        \/ \E l \in Levels : /\ approvals[r][l].decision = "ESCALATE"
                             /\ \A k \in Levels : k > l => approvals[r][k].decision = "ABSENT"

\* An approved request was approved or escalated at every step it has.
ApprovedByAllSteps ==
    \A r \in Requests : status[r] = "APPROVED" =>
        \A l \in Levels : approvals[r][l].decision \in {"ABSENT", "APPROVE", "ESCALATE"}

\* Steps are sequential: HR decides after the manager.
SequentialDecisions ==
    [][\A r \in Requests, l \in Levels :
           approvals'[r][l] # approvals[r][l]
             /\ approvals'[r][l].decision \in {"APPROVE", "REJECT", "ESCALATE"}
             /\ Open(r, l)
           => ~EarlierOpen(r, l)]_vars

\* Refused and cancelled requests stay so, and an approved one can only be
\* cancelled.
FinalStatuses ==
    [][\A r \in Requests : status'[r] # status[r] =>
           /\ status[r] \notin {"REJECTED", "CANCELLED"}
           /\ status[r] = "APPROVED" => status'[r] = "CANCELLED"]_vars

\* Every final status reaches the row: whatever has been decided, there comes a
\* moment when each approved request is charged and each refused or cancelled
\* one has its days back.
Settled(r) ==
    status[r] \in {"APPROVED", "REJECTED", "CANCELLED"} =>
        Net(r) = IF status[r] = "APPROVED" THEN 1 ELSE 0
EventuallySettled == []<>(\A r \in Requests : Settled(r))

\* The account the row implements.  An automatically approved request holds
\* nothing until its charge.
Account == INSTANCE LeaveAccount WITH
    available <- row.balance - row.reserved,
    taken     <- Unreserved,
    claim     <- [r \in Requests |->
                     CASE r \in Held  -> "held"
                       [] Net(r) = 1  -> "spent"
                       [] Net(r) # 1 /\ r \notin Held
                            /\ (status[r] \in {"NONE", "DRAFT"} \/ Running(r, {"deduct"}))
                            -> "free"
                       [] OTHER -> "closed"]

\* One request, one hold, settled once: the row implements LeaveAccount.
ImplementsAccount == Account!Spec

-----------------------------------------------------------------------------
(* What the documentation says and the code does not keep.                 *)

\* "O saldo nao deve ser reduzido duas vezes" (docs/Modulo_Leave.md).
\* Overlapping approvals of one request do reduce it twice.
BalanceReducedOnce == \A r \in Requests : Net(r) <= 1

\* "Dias reservados: dias de pedidos aprovados ainda nao gozados" and "Reservar
\* os dias apos aprovacao" (docs/Modulo_Leave.md): the days reserved are those
\* of approved requests.  create reserves for PENDING ones.
ReservedAfterApproval ==
    row.reserved <= Total(Days, {r \in Requests : status[r] = "APPROVED"})
=============================================================================
