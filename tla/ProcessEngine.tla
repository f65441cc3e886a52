---------------------------- MODULE ProcessEngine ----------------------------
(***************************************************************************)
(* One instance of a process: the engine that advances it                  *)
(* (ProcessEngineService, syncStepActivation), and the calls on its tasks, *)
(* its approvals and the instance itself.                                  *)
(*                                                                         *)
(* A call checks its guards in a first action, which stands for its        *)
(* consecutive reads, and leaves in `todo' the statements it will execute; *)
(* each statement is an action, and a call may die between any two.  Most  *)
(* calls end by advancing the instance, a loop of reads and statements.    *)
(*                                                                         *)
(* A delegated or escalated approval is PENDING here: who may decide, the  *)
(* data a step requires and the responsible persons are left out, and so   *)
(* are notifications, the audit log, the rules that events trigger (their  *)
(* calls on the instance are included), and the pointers to the current    *)
(* step and its responsible, which are recomputed from the rows.           *)
(***************************************************************************)
EXTENDS Integers, Sequences, FiniteSets

CONSTANTS
    Steps,         \* steps of the template, named by their order
    Flows,         \* templates: one is chosen initially
    Clerks,        \* calls that may be in flight
    Answers,       \* results a call of completeStep may bring
    MaxPasses,     \* passes of the engine in one advance (30 in the code)
    MaxReturns,    \* bound: steps returned, reopened or retried, in all; a call
                   \* that died counts as one
    MaxCrashes     \* bound: calls that die, for each template

Kinds   == {"TASK", "REVIEW", "EVENT", "TIMER", "AUTO"}
Results == {"NONE", "DONE", "APPROVED", "REJECTED", "AUTO", "EVENT", "ELAPSED",
            "TIMER_SET", "SKIPPED"}
Effects == {"NONE", "SUSPEND", "CANCEL"}

\* A template.  A step depends on `after', or on nothing if it is parallel, or
\* on the previous one; it is entered if each step of `entry' has that result.
Templates ==
    [kind      : [Steps -> Kinds],
     parallel  : SUBSET Steps,
     after     : [Steps -> SUBSET Steps],
     entry     : [Steps -> SUBSET (Steps \X Results)],
     approvers : [Steps -> Nat \ {0}],
     mode      : [Steps -> {"SEQUENTIAL", "PARALLEL", "ANY"}],
     onReject  : [Steps -> {"CANCEL", "RETURN", "BRANCH", "HOLD"}],
     act       : [Steps -> Effects],    \* what an automatic step does
     success   : [Steps -> Effects],    \* once the step is completed
     failure   : [Steps -> Effects]]    \* once it is rejected or has failed

ASSUME StepAssumption  == Steps \subseteq Nat \ {0} /\ IsFiniteSet(Steps)
ASSUME FlowAssumption  == Flows \subseteq Templates
ASSUME AnswerAssumption == Answers \subseteq Results \cup {"KEEP"}
ASSUME BoundAssumption == /\ MaxPasses \in Nat \ {0}
                          /\ MaxReturns \in Nat /\ MaxCrashes \in [Flows -> Nat]

VARIABLES
    flow,          \* the template; it never changes
    inst,          \* status of the process instance
    row,           \* step_progress: one row per step
    approvals,     \* process_approvals of the instance, oldest first
    due,           \* timers whose deadline has passed
    clerk,         \* calls in flight
    synced,        \* the last advance ended with nothing left to do, and no
                   \* call has since moved a step without advancing
    byHand,        \* reviews completed by completeStep
    cut,           \* reviews whose last round a failed insertion cut short
    crashes        \* calls that died; only properties read these last four

vars == <<flow, inst, row, approvals, due, clerk, synced, byHand, cut, crashes>>

StepStatuses == {"WAITING", "PENDING", "IN_PROGRESS", "BLOCKED", "ESCALATED",
                 "REJECTED", "COMPLETED", "SKIPPED", "CANCELLED"}
InstStatuses == {"NONE", "IN_PROGRESS", "ON_HOLD", "COMPLETED", "CANCELLED"}
DoneStatuses == {"COMPLETED", "SKIPPED", "CANCELLED"}
Completable  == {"PENDING", "IN_PROGRESS", "ESCALATED"}
OpenStatuses == {"WAITING", "PENDING", "INFO_REQUESTED"}
ApprovalStatuses ==
    OpenStatuses \cup {"APPROVED", "REJECTED", "RETURNED", "CANCELLED"}

Row(status, result, returns) ==
    [status |-> status, result |-> result, returns |-> returns]
Approval(s, round, seq, code, status) ==
    [step |-> s, round |-> round, seq |-> seq, code |-> code, status |-> status]
Moved(a, status) == Approval(a.step, a.round, a.seq, a.code, status)

\* A statement: what it does, the steps or the approval it is for, and what it
\* writes ("KEEP": the result stays).
Statement(op, on, id, status, result) ==
    [op |-> op, on |-> on, id |-> id, status |-> status, result |-> result]
SetSteps(S, status, result) == Statement("steps", S, 0, status, result)
ByHand(s, result)  == Statement("byHand", {s}, 0, "COMPLETED", result)
SetTimer(s)        == Statement("timer", {s}, 0, "PENDING", "TIMER_SET")
ReturnEach(S)      == Statement("returnEach", S, 0, "PENDING", "KEEP")
ReturnAll(S)       == Statement("returnAll", S, 0, "PENDING", "KEEP")
ReturnRejected     == Statement("returnRejected", {}, 0, "PENDING", "KEEP")
DropSteps          == Statement("drop", {}, 0, "CANCELLED", "KEEP")
SetInst(status)    == Statement("inst", {}, 0, status, "KEEP")
Stamp(a, status)   == Statement("stamp", {}, a, status, "KEEP")
CloseOf(S)         == Statement("closeOf", S, 0, "CANCELLED", "KEEP")
CloseOthers(a)     == Statement("closeOthers", {}, a, "CANCELLED", "KEEP")

\* The next approval to insert.
Draft(round, code, seq) == [round |-> round, code |-> code, seq |-> seq]
NoDraft == Draft(0, 0, 0)

\* A call: where it is once `todo' is empty, the step or approval it is at, and
\* in an advance the rows in memory, the pass and whether it changed anything.
Call(pc, todo, at, rows, pass, changed, draft) ==
    [pc |-> pc, todo |-> todo, at |-> at, rows |-> rows, pass |-> pass,
     changed |-> changed, draft |-> draft]
NoRows == [s \in Steps |-> Row("WAITING", "NONE", 0)]
Idle   == Call("idle", <<>>, 0, NoRows, 0, FALSE, NoDraft)

Init ==
    /\ flow \in Flows
    /\ inst = "NONE"
    /\ row = NoRows
    /\ approvals = <<>>
    /\ due = {}
    /\ clerk = [c \in Clerks |-> Idle]
    /\ synced = TRUE
    /\ byHand = {}
    /\ cut = {}
    /\ crashes = 0

-----------------------------------------------------------------------------
(* effectiveDependencies and planActivation.                               *)

Previous(s) == {t \in Steps : t < s /\ \A u \in Steps : u < s => u <= t}

Needs(s) ==
    IF flow.after[s] \ {s} # {} THEN flow.after[s] \ {s}
    ELSE IF s \in flow.parallel THEN {}
    ELSE Previous(s)

Done(rows, s)   == rows[s].status \in DoneStatuses
Ready(rows, s)  == \A t \in Needs(s) : Done(rows, t)
Unfinished(rows) == {s \in Steps : ~Done(rows, s)}

Activate(rows) == {s \in Steps : rows[s].status = "WAITING" /\ Ready(rows, s)}
\* Wrong variant: a step somebody has started is not sent back to wait.
DemotePending(rows) ==
    {s \in Steps : rows[s].status = "PENDING" /\ ~Ready(rows, s)}

Demote(rows) ==
    {s \in Steps : /\ rows[s].status \in {"PENDING", "IN_PROGRESS"}
                   /\ ~Ready(rows, s)}

SetStatus(rows, S, status) ==
    [s \in Steps |-> IF s \in S THEN Row(status, rows[s].result, rows[s].returns)
                     ELSE rows[s]]
Planned(rows) ==
    SetStatus(SetStatus(rows, Activate(rows), "PENDING"), Demote(rows), "WAITING")

\* conditionsPass: a step that was returned does not check its entry again.
Skips(rows, s) ==
    /\ rows[s].returns = 0
    /\ \E e \in flow.entry[s] : rows[e[1]].result # e[2]

-----------------------------------------------------------------------------
(* Approvals.                                                              *)

Ids         == DOMAIN approvals
IsOpen(a)   == approvals[a].status \in OpenStatuses
OfStep(s)   == {a \in Ids : approvals[a].step = s}
OpenOf(s)   == {a \in OfStep(s) : IsOpen(a)}
SameRound(a) == {b \in OfStep(approvals[a].step) : approvals[b].round = approvals[a].round}

\* Wrong variant: approvers who have not been called yet are passed over.
LeftCalled(a) == {b \in SameRound(a) : approvals[b].status \in {"PENDING", "INFO_REQUESTED"}}

\* The approvers of the round who have not decided.
Left(a) == {b \in SameRound(a) : IsOpen(b)}

CloseAll(S) == [a \in Ids |-> IF a \in S /\ IsOpen(a) THEN Moved(approvals[a], "CANCELLED")
                              ELSE approvals[a]]

\* isLive and DECIDABLE
Live(a) == /\ inst = "IN_PROGRESS"
           /\ row[approvals[a].step].status \in Completable
Decidable(a) == Live(a) /\ approvals[a].status = "PENDING"

\* previousSteps
ToReturn(a) == {s \in Needs(approvals[a].step) : row[s].status \in {"COMPLETED", "REJECTED"}}

\* The bound on returns; no template sets a limit of its own.
Returned == {e \in Steps \X (1 .. MaxReturns) : e[2] <= row[e[1]].returns}
CanReturn(S) == Cardinality(Returned) + Cardinality(S) + crashes <= MaxReturns

-----------------------------------------------------------------------------
(* Statements.                                                             *)

\* cancelByEngine and cancelInstance
Cancellation == <<SetInst("CANCELLED"), DropSteps, CloseOf(Steps)>>

\* runActions
Effect(e) == IF e = "CANCEL" THEN Cancellation
             ELSE IF e = "SUSPEND" THEN <<SetInst("ON_HOLD")>>
             ELSE <<>>

Free(c)   == clerk[c] = Idle
At(c, pc) == clerk[c].pc = pc /\ clerk[c].todo = <<>>
Doing(c, op) == clerk[c].todo # <<>> /\ Head(clerk[c].todo).op = op
Writes(c) == Head(clerk[c].todo)
Todo(c, todo) ==
    LET k == clerk[c]
    IN  clerk' = [clerk EXCEPT ![c] =
            Call(k.pc, todo, k.at, k.rows, k.pass, k.changed, k.draft)]
Go(c, pc, todo) ==
    clerk' = [clerk EXCEPT ![c] = Call(pc, todo, 0, NoRows, 0, FALSE, NoDraft)]
\* A call that has checked its guards.
Begin(c, todo, pc) ==
    /\ Free(c)
    /\ Go(c, pc, todo)
    /\ UNCHANGED <<flow, inst, row, approvals, due, synced, byHand, cut, crashes>>

WriteSteps(c, op) ==
    /\ op \in {"steps", "byHand"}
    /\ Doing(c, op)
    /\ LET w == Writes(c)
       IN  /\ row' = [s \in Steps |->
                 IF s \notin w.on THEN row[s]
                 ELSE IF w.result = "KEEP" THEN Row(w.status, row[s].result, row[s].returns)
                 ELSE Row(w.status, w.result, row[s].returns)]
           /\ byHand' = IF op = "byHand" THEN byHand \cup {s \in w.on : flow.kind[s] = "REVIEW"}
                        ELSE byHand \ w.on
    /\ Todo(c, Tail(clerk[c].todo))
    /\ UNCHANGED <<flow, inst, approvals, due, synced, cut, crashes>>

WriteTimer(c) ==
    /\ Doing(c, "timer")
    /\ row' = [s \in Steps |-> IF s \in Writes(c).on
                               THEN Row(row[s].status, "TIMER_SET", row[s].returns)
                               ELSE row[s]]
    /\ due' = due \ Writes(c).on
    /\ Todo(c, Tail(clerk[c].todo))
    /\ UNCHANGED <<flow, inst, approvals, synced, byHand, cut, crashes>>

WriteReturns(S) ==
    /\ row' = [s \in Steps |-> IF s \in S
                               THEN Row("PENDING", row[s].result, row[s].returns + 1)
                               ELSE row[s]]
    /\ byHand' = byHand \ S
    /\ UNCHANGED <<flow, inst, approvals, due, synced, cut, crashes>>

WriteReturn(c, s) ==
    /\ Doing(c, "returnEach")
    /\ s \in Writes(c).on
    /\ WriteReturns({s})
    /\ LET left == Writes(c).on \ {s}
           rest == Tail(clerk[c].todo)
       IN  Todo(c, IF left = {} THEN rest ELSE <<ReturnEach(left)>> \o rest)

WriteReturnAll(c) ==
    /\ Doing(c, "returnAll")
    /\ WriteReturns(Writes(c).on)
    /\ Todo(c, Tail(clerk[c].todo))

WriteReturnRejected(c) ==
    /\ Doing(c, "returnRejected")
    /\ WriteReturns({s \in Steps : row[s].status = "REJECTED"})
    /\ Todo(c, Tail(clerk[c].todo))

WriteDrop(c) ==
    /\ Doing(c, "drop")
    /\ row' = SetStatus(row, Unfinished(row), "CANCELLED")
    /\ Todo(c, Tail(clerk[c].todo))
    /\ UNCHANGED <<flow, inst, approvals, due, synced, byHand, cut, crashes>>

WriteInst(c) ==
    /\ Doing(c, "inst")
    /\ inst' = Writes(c).status
    /\ Todo(c, Tail(clerk[c].todo))
    /\ UNCHANGED <<flow, row, approvals, due, synced, byHand, cut, crashes>>

WriteStamp(c) ==
    /\ Doing(c, "stamp")
    /\ approvals' = [approvals EXCEPT ![Writes(c).id] = Moved(@, Writes(c).status)]
    /\ Todo(c, Tail(clerk[c].todo))
    /\ UNCHANGED <<flow, inst, row, due, synced, byHand, cut, crashes>>

WriteClose(c) ==
    /\ \/ /\ Doing(c, "closeOf")
          /\ approvals' = CloseAll({a \in Ids : approvals[a].step \in Writes(c).on})
       \/ /\ Doing(c, "closeOthers")
          /\ approvals' = CloseAll(SameRound(Writes(c).id) \ {Writes(c).id})
    /\ Todo(c, Tail(clerk[c].todo))
    /\ UNCHANGED <<flow, inst, row, due, synced, byHand, cut, crashes>>

Execute(c) ==
    \/ \E op \in {"steps", "byHand"} : WriteSteps(c, op)
    \/ WriteTimer(c)
    \/ \E s \in Steps : WriteReturn(c, s)
    \/ WriteReturnAll(c)
    \/ WriteReturnRejected(c)
    \/ WriteDrop(c)
    \/ WriteInst(c)
    \/ WriteStamp(c)
    \/ WriteClose(c)

-----------------------------------------------------------------------------
(* Advance: every pass activates steps, then does what the engine can do.  *)

Remember(c, pc, todo, at, rows, changed) ==
    clerk' = [clerk EXCEPT ![c] =
        Call(pc, todo, at, rows, clerk[c].pass, changed, NoDraft)]
Memory(c, pc, todo, at, rows, changed) ==
    /\ Remember(c, pc, todo, at, rows, changed)
    /\ UNCHANGED <<flow, inst, row, approvals, due, synced, byHand, cut, crashes>>

SyncRead(c) ==
    /\ At(c, "sync")
    /\ Memory(c, "plan", <<>>, 0, row, FALSE)

\* An updateMany of no rows is not executed.
ToStatus(S, status) == IF S = {} THEN <<>> ELSE <<SetSteps(S, status, "KEEP")>>

\* The instance is read after the rows, and its status decides what is written.
Plan(c) ==
    /\ At(c, "plan")
    /\ LET rows  == clerk[c].rows
           moves == inst \in {"IN_PROGRESS", "COMPLETED"}
           steps == IF moves THEN ToStatus(Activate(rows), "PENDING")
                                  \o ToStatus(Demote(rows), "WAITING")
                    ELSE <<>>
           after == IF moves THEN Planned(rows) ELSE rows
       IN  IF Unfinished(after) = {} /\ inst = "IN_PROGRESS"
           THEN Memory(c, "cleanup", steps \o <<SetInst("COMPLETED")>>, 0, after, FALSE)
           ELSE IF Unfinished(after) # {} /\ inst = "COMPLETED"
           THEN Memory(c, "load", steps \o <<SetInst("IN_PROGRESS")>>, 0, after, FALSE)
           ELSE Memory(c, "load", steps, 0, after, FALSE)

\* processSpecials
Load(c) ==
    /\ At(c, "load")
    /\ IF inst = "IN_PROGRESS" THEN Memory(c, "special", <<>>, 0, row, FALSE)
       ELSE Memory(c, "cleanup", <<>>, 0, clerk[c].rows, FALSE)

\* Steps still before the loop that the engine does something about.
Work(c) ==
    LET rows == clerk[c].rows
    IN  {s \in Steps :
            /\ s > clerk[c].at
            /\ rows[s].status = "PENDING"
            /\ \/ Skips(rows, s)
               \/ flow.kind[s] \in {"REVIEW", "AUTO"}
               \/ /\ flow.kind[s] = "TIMER"
                  /\ rows[s].result # "TIMER_SET" \/ s \in due}

OnStep(c, s) ==
    /\ At(c, "special")
    /\ s \in Work(c)
    /\ \A t \in Work(c) : s <= t

\* The step moves in memory too, where later steps see it.
Settle(c, s, status, result, before, then) ==
    Memory(c, "special", before \o <<SetSteps({s}, status, result)>> \o then, s,
           [clerk[c].rows EXCEPT ![s] = Row(status, result, @.returns)], TRUE)

Skip(c, s) ==
    /\ OnStep(c, s)
    /\ Skips(clerk[c].rows, s)
    /\ Settle(c, s, "SKIPPED", "SKIPPED", <<>>, <<>>)

RunStep(c, s) ==
    /\ OnStep(c, s)
    /\ ~Skips(clerk[c].rows, s)
    /\ flow.kind[s] = "AUTO"
    /\ Settle(c, s, "COMPLETED", "AUTO", Effect(flow.act[s]), Effect(flow.success[s]))

\* failAutomatic: any statement before the step is settled may fail, whatever
\* its kind.  The actions of an automatic step may have run by then, and a step
\* that is skipped may be SKIPPED already when its note fails (two updates of one
\* row, written as one: a call that dies between them has skipped the step).
Blocked(s, result) == <<SetSteps({s}, "BLOCKED", result)>> \o Effect(flow.failure[s])

StepFails(c, s) ==
    /\ OnStep(c, s)
    /\ \E ran \in {FALSE} \cup {flow.kind[s] = "AUTO" /\ ~Skips(clerk[c].rows, s)},
          result \in {"KEEP"} \cup (IF Skips(clerk[c].rows, s) THEN {"SKIPPED"} ELSE {}) :
          Memory(c, "special",
                 (IF ran THEN Effect(flow.act[s]) ELSE <<>>) \o Blocked(s, result), s,
                 [clerk[c].rows EXCEPT
                    ![s] = Row("BLOCKED", IF result = "KEEP" THEN @.result ELSE result, @.returns)],
                 clerk[c].changed)

\* handleTimer
StartTimer(c, s) ==
    /\ OnStep(c, s)
    /\ ~Skips(clerk[c].rows, s)
    /\ flow.kind[s] = "TIMER"
    /\ clerk[c].rows[s].result # "TIMER_SET"
    /\ Memory(c, "special", <<SetTimer(s)>>, s,
              [clerk[c].rows EXCEPT ![s] = Row(@.status, "TIMER_SET", @.returns)],
              clerk[c].changed)

ElapseTimer(c, s) ==
    /\ OnStep(c, s)
    /\ ~Skips(clerk[c].rows, s)
    /\ flow.kind[s] = "TIMER"
    /\ clerk[c].rows[s].result = "TIMER_SET"
    /\ Settle(c, s, "COMPLETED", "ELAPSED", <<>>, Effect(flow.success[s]))

\* ensureApprovals, statement by statement.
CountOpen(c, s) ==
    /\ OnStep(c, s)
    /\ ~Skips(clerk[c].rows, s)
    /\ flow.kind[s] = "REVIEW"
    /\ Memory(c, IF OpenOf(s) = {} THEN "round" ELSE "special", <<>>, s,
              clerk[c].rows, clerk[c].changed)

Drafting(c, pc, draft) ==
    LET k == clerk[c]
    IN  clerk' = [clerk EXCEPT ![c] =
            Call(pc, <<>>, k.at, k.rows, k.pass, k.changed, draft)]

LastRound(c) ==
    /\ At(c, "round")
    /\ \E r \in {0} \cup {approvals[a].round : a \in OfStep(clerk[c].at)} :
          /\ \A a \in OfStep(clerk[c].at) : approvals[a].round <= r
          /\ Drafting(c, "number", Draft(r + 1, 0, 1))
    /\ UNCHANGED <<flow, inst, row, approvals, due, synced, byHand, cut, crashes>>

CountAll(c) ==
    /\ At(c, "number")
    /\ Drafting(c, "open", Draft(clerk[c].draft.round, Len(approvals) + 1, 1))
    /\ UNCHANGED <<flow, inst, row, approvals, due, synced, byHand, cut, crashes>>

\* Codes are unique: a taken one means that another replica made the round.
OpenApproval(c) ==
    /\ At(c, "open")
    /\ LET s     == clerk[c].at
           d     == clerk[c].draft
           taken == \E a \in Ids : approvals[a].code = d.code
           last  == d.seq = flow.approvers[s]
           first == IF flow.mode[s] = "SEQUENTIAL" /\ d.seq > 1 THEN "WAITING" ELSE "PENDING"
       IN  /\ approvals' = IF taken THEN approvals
                           ELSE Append(approvals, Approval(s, d.round, d.seq, d.code, first))
           /\ IF taken \/ last THEN Drafting(c, "special", NoDraft)
              ELSE Drafting(c, "open", Draft(d.round, d.code + 1, d.seq + 1))
           /\ cut' = IF d.seq = 1 /\ ~taken THEN cut \ {s} ELSE cut
    /\ UNCHANGED <<flow, inst, row, due, synced, byHand, crashes>>

\* A statement of ensureApprovals fails: the step is blocked, with the approvals
\* that were inserted.  A later advance that finds them open inserts no more.
RoundFails(c) ==
    LET k == clerk[c]
    IN  /\ \E pc \in {"round", "number", "open"} : At(c, pc)
        /\ Remember(c, "special", Blocked(k.at, "KEEP"), k.at,
                    SetStatus(k.rows, {k.at}, "BLOCKED"), k.changed)
        /\ cut' = IF k.pc = "open" /\ k.draft.seq > 1 THEN cut \cup {k.at} ELSE cut
        /\ UNCHANGED <<flow, inst, row, approvals, due, synced, byHand, crashes>>

PassEnds(c) ==
    /\ At(c, "special")
    /\ Work(c) = {}
    /\ LET k    == clerk[c]
           more == k.changed /\ k.pass + 1 < MaxPasses
       IN  clerk' = [clerk EXCEPT ![c] =
              IF more THEN Call("sync", <<>>, 0, NoRows, k.pass + 1, FALSE, NoDraft)
              ELSE Call("cleanup", <<>>, 0, NoRows, k.pass, k.changed, NoDraft)]
    /\ UNCHANGED <<flow, inst, row, approvals, due, synced, byHand, cut, crashes>>

\* Wrong variant: the approvals of a step that waits again are kept.
CleanupDone(c) ==
    /\ At(c, "cleanup")
    /\ approvals' = CloseAll({a \in Ids : Done(row, approvals[a].step)})
    /\ synced' = ~clerk[c].changed
    /\ clerk' = [clerk EXCEPT ![c] = Idle]
    /\ UNCHANGED <<flow, inst, row, due, byHand, cut, crashes>>

\* Approvals of steps that are no longer active are withdrawn.
Cleanup(c) ==
    /\ At(c, "cleanup")
    /\ approvals' = CloseAll({a \in Ids : row[approvals[a].step].status
                                             \in {"WAITING", "SKIPPED", "CANCELLED"}})
    /\ synced' = ~clerk[c].changed
    /\ clerk' = [clerk EXCEPT ![c] = Idle]
    /\ UNCHANGED <<flow, inst, row, due, byHand, cut, crashes>>

Advance(c) ==
    \/ SyncRead(c) \/ Plan(c) \/ Load(c)
    \/ \E s \in Steps : \/ Skip(c, s) \/ RunStep(c, s) \/ StepFails(c, s)
                        \/ StartTimer(c, s) \/ ElapseTimer(c, s) \/ CountOpen(c, s)
    \/ LastRound(c) \/ CountAll(c) \/ OpenApproval(c) \/ RoundFails(c)
    \/ PassEnds(c) \/ Cleanup(c)

-----------------------------------------------------------------------------
(* The instance: startInstance, suspend, resume, cancelInstance.           *)

Start(c) ==
    /\ Free(c)
    /\ inst = "NONE"
    /\ inst' = "IN_PROGRESS"
    /\ row' = SetStatus(row, {s \in Steps : Needs(s) = {}}, "PENDING")
    /\ Go(c, "sync", <<>>)
    /\ UNCHANGED <<flow, approvals, due, synced, byHand, cut, crashes>>

Suspend(c) ==
    /\ inst = "IN_PROGRESS"
    /\ Begin(c, <<SetInst("ON_HOLD")>>, "idle")

Resume(c) ==
    /\ inst = "ON_HOLD"
    /\ CanReturn({s \in Steps : row[s].status = "REJECTED"})
    /\ Begin(c, <<SetInst("IN_PROGRESS"), ReturnRejected>>, "sync")

Cancel(c) ==
    /\ inst \in {"IN_PROGRESS", "ON_HOLD"}
    /\ Begin(c, Cancellation, "idle")

\* completeDueTimers
AdvanceTimers(c) ==
    /\ inst = "IN_PROGRESS"
    /\ \E s \in due : row[s].status = "PENDING" /\ row[s].result = "TIMER_SET"
    /\ Begin(c, <<>>, "sync")

\* deliverEvent: each step of this kind waits for an event of its own.
DeliverEvent(c, s) ==
    /\ inst = "IN_PROGRESS"
    /\ flow.kind[s] = "EVENT"
    /\ row[s].status = "PENDING"
    /\ Begin(c, <<SetSteps({s}, "COMPLETED", "EVENT")>> \o Effect(flow.success[s]), "sync")

-----------------------------------------------------------------------------
(* Tasks.                                                                  *)

\* An approval step can be completed by hand when none of its approvals is
\* open.  The result stays unless the call brings one.
CompleteStep(c, s, result) ==
    /\ inst = "IN_PROGRESS"
    /\ row[s].status \in Completable
    /\ flow.kind[s] = "REVIEW" => OpenOf(s) = {}
    /\ Begin(c, <<ByHand(s, result)>> \o Effect(flow.success[s]), "sync")

\* Neither the status of the step nor that of the instance is checked.
RejectStep(c, s) ==
    /\ inst # "NONE"
    /\ Begin(c, <<SetSteps({s}, "REJECTED", "KEEP"), SetInst("ON_HOLD"), CloseOf({s})>>
                    \o Effect(flow.failure[s]), "idle")

StartStep(c, s) ==
    /\ inst = "IN_PROGRESS"
    /\ row[s].status \in {"PENDING", "ESCALATED"}
    /\ Begin(c, <<SetSteps({s}, "IN_PROGRESS", "KEEP")>>, "sync")

Block(c, s) ==
    /\ inst = "IN_PROGRESS"
    /\ row[s].status \in Completable
    /\ Begin(c, <<SetSteps({s}, "BLOCKED", "KEEP")>>, "idle")

\* The step is PENDING again, but the instance is not advanced.
Unblock(c, s) ==
    /\ Free(c)
    /\ inst = "IN_PROGRESS"
    /\ row[s].status = "BLOCKED"
    /\ Go(c, "idle", <<SetSteps({s}, "PENDING", "KEEP")>>)
    /\ synced' = FALSE
    /\ UNCHANGED <<flow, inst, row, approvals, due, byHand, cut, crashes>>

Reassign(c, s) ==
    /\ inst # "NONE"
    /\ ~Done(row, s)
    /\ Begin(c, <<>>, "sync")

ReturnStep(c, s) ==
    /\ inst \notin {"NONE", "CANCELLED"}
    /\ row[s].status \notin {"CANCELLED", "SKIPPED", "WAITING"}
    /\ CanReturn({s})
    /\ Begin(c, <<ReturnEach({s})>>, "sync")

\* Wrong variant: the instance is not advanced.
ReopenOnly(c, s) ==
    /\ inst \notin {"NONE", "CANCELLED"}
    /\ row[s].status \in {"COMPLETED", "REJECTED", "SKIPPED"}
    /\ CanReturn({s})
    /\ Begin(c, <<ReturnEach({s})>>, "idle")

Reopen(c, s) ==
    /\ inst \notin {"NONE", "CANCELLED"}
    /\ row[s].status \in {"COMPLETED", "REJECTED", "SKIPPED"}
    /\ CanReturn({s})
    /\ Begin(c, <<ReturnEach({s})>>, "sync")

Escalate(c, s) ==
    /\ inst = "IN_PROGRESS"
    /\ row[s].status \in {"PENDING", "IN_PROGRESS", "BLOCKED"}
    /\ Begin(c, <<SetSteps({s}, "ESCALATED", "KEEP")>>, "idle")

\* retryStep: the blocked step that is named, or, for all of them, those that
\* were returned less often than some limit.
Retry(c, S) ==
    /\ inst = "IN_PROGRESS"
    /\ LET blocked == {s \in Steps : row[s].status = "BLOCKED"}
       IN  /\ S # {} /\ S \subseteq blocked
           /\ \/ \E s \in blocked : S = {s}
              \/ \A s \in S, t \in blocked \ S : row[s].returns < row[t].returns
    /\ CanReturn(S)
    /\ Begin(c, <<ReturnAll(S)>>, "sync")

-----------------------------------------------------------------------------
(* Decisions on approvals.                                                 *)

\* Wrong variant: the action is recorded as the result.
ApprovedAction(s) == <<SetSteps({s}, "COMPLETED", "APPROVE")>> \o Effect(flow.success[s])

Approved(s) == <<SetSteps({s}, "COMPLETED", "APPROVED")>> \o Effect(flow.success[s])

Approve(c, a) ==
    /\ Decidable(a)
    /\ IF flow.mode[approvals[a].step] = "ANY"
       THEN Begin(c, <<Stamp(a, "APPROVED"), CloseOthers(a)>> \o Approved(approvals[a].step),
                  "sync")
       ELSE /\ Free(c)
            /\ clerk' = [clerk EXCEPT ![c] =
                  Call("remaining", <<Stamp(a, "APPROVED")>>, a, NoRows, 0, FALSE, NoDraft)]
            /\ UNCHANGED <<flow, inst, row, approvals, due, synced, byHand, cut, crashes>>

\* Nobody of the round is left, or the next in sequence is called.
Remaining(c) ==
    /\ At(c, "remaining")
    /\ LET a    == clerk[c].at
           s    == approvals[a].step
           left == Left(a)
           next == {b \in left : \A d \in left : approvals[b].seq <= approvals[d].seq}
       IN  IF left = {} THEN Go(c, "sync", Approved(s))
           ELSE IF /\ flow.mode[s] = "SEQUENTIAL"
                   /\ \A b \in left : approvals[b].status = "WAITING"
           THEN \E b \in next : Go(c, "idle", <<Stamp(b, "PENDING")>>)
           ELSE Go(c, "idle", <<>>)
    /\ UNCHANGED <<flow, inst, row, approvals, due, synced, byHand, cut, crashes>>

\* A template that returns rejected work suspends when there is none to return.
RejectRule(a) ==
    LET rule == flow.onReject[approvals[a].step]
    IN  IF rule = "RETURN" /\ ToReturn(a) = {} THEN "HOLD" ELSE rule

Reject(c, a) ==
    /\ Decidable(a)
    /\ RejectRule(a) = "RETURN" => CanReturn(ToReturn(a))
    /\ LET s       == approvals[a].step
           decided == <<Stamp(a, "REJECTED"), CloseOthers(a)>>
           failed  == Effect(flow.failure[s])
       IN  CASE RejectRule(a) = "CANCEL" -> Begin(c, decided \o Cancellation, "idle")
             [] RejectRule(a) = "RETURN" -> Begin(c, decided \o <<ReturnEach(ToReturn(a))>>, "sync")
             [] RejectRule(a) = "BRANCH" ->
                    Begin(c, decided \o <<SetSteps({s}, "COMPLETED", "REJECTED")>> \o failed, "sync")
             [] RejectRule(a) = "HOLD" ->
                    Begin(c, decided \o <<SetSteps({s}, "REJECTED", "KEEP"), SetInst("ON_HOLD")>>
                                     \o failed, "idle")

ReturnForCorrection(c, a) ==
    /\ Decidable(a)
    /\ ToReturn(a) # {}
    /\ CanReturn(ToReturn(a))
    /\ Begin(c, <<Stamp(a, "RETURNED"), CloseOthers(a), ReturnEach(ToReturn(a))>>, "sync")

RequestInfo(c, a) ==
    /\ Decidable(a)
    /\ Begin(c, <<Stamp(a, "INFO_REQUESTED")>>, "idle")

Respond(c, a) ==
    /\ Live(a)
    /\ approvals[a].status = "INFO_REQUESTED"
    /\ Begin(c, <<Stamp(a, "PENDING")>>, "idle")

-----------------------------------------------------------------------------
TimerElapses(s) ==
    /\ row[s].result = "TIMER_SET"
    /\ due' = due \cup {s}
    /\ UNCHANGED <<flow, inst, row, approvals, clerk, synced, byHand, cut, crashes>>

Crash(c) ==
    /\ ~Free(c)
    /\ crashes < MaxCrashes[flow]
    /\ clerk' = [clerk EXCEPT ![c] = Idle]
    /\ synced' = FALSE
    /\ crashes' = crashes + 1
    /\ UNCHANGED <<flow, inst, row, approvals, due, byHand, cut>>

InstanceCall(c) == Start(c) \/ Suspend(c) \/ Resume(c) \/ Cancel(c) \/ AdvanceTimers(c)

StepCall(c, s) ==
    \/ DeliverEvent(c, s)
    \/ \E result \in Answers : CompleteStep(c, s, result)
    \/ RejectStep(c, s) \/ StartStep(c, s)
    \/ Block(c, s) \/ Unblock(c, s) \/ Reassign(c, s)
    \/ ReturnStep(c, s) \/ Reopen(c, s) \/ Escalate(c, s)

ApprovalCall(c, a) ==
    \/ Approve(c, a) \/ Reject(c, a) \/ ReturnForCorrection(c, a)
    \/ RequestInfo(c, a) \/ Respond(c, a)

Next ==
    \/ \E c \in Clerks :
          \/ Execute(c)
          \/ Advance(c)
          \/ InstanceCall(c)
          \/ \E s \in Steps : StepCall(c, s)
          \/ \E S \in SUBSET Steps : Retry(c, S)
          \/ \E a \in Ids : ApprovalCall(c, a)
          \/ Remaining(c)
          \/ Crash(c)
    \/ \E s \in Steps : TimerElapses(s)

Spec == Init /\ [][Next]_vars


-----------------------------------------------------------------------------
StepRows  == [status : StepStatuses, result : Results, returns : Nat]
Approvals == [step : Steps, round : Nat, seq : Nat, code : Nat, status : ApprovalStatuses]
Statements ==
    [op : {"steps", "byHand", "timer", "returnEach", "returnAll", "returnRejected", "drop"},
     on : SUBSET Steps, id : {0}, status : StepStatuses, result : Results \cup {"KEEP"}]
    \cup
    [op : {"inst"}, on : SUBSET Steps, id : {0}, status : InstStatuses, result : {"KEEP"}]
    \cup
    [op : {"stamp", "closeOf", "closeOthers"}, on : SUBSET Steps, id : Nat,
     status : ApprovalStatuses, result : {"KEEP"}]
Calls ==
    [pc      : {"idle", "sync", "plan", "load", "special", "round", "number", "open",
                "cleanup", "remaining"},
     todo    : Seq(Statements),
     at      : Nat,
     rows    : [Steps -> StepRows],
     pass    : Nat,
     changed : BOOLEAN,
     draft   : [round : Nat, code : Nat, seq : Nat]]

\* Every row and every call keeps its type; a call is about a step of the
\* template, or about an approval that exists.
TypeOK ==
    /\ flow \in Templates
    /\ inst \in InstStatuses
    /\ row \in [Steps -> StepRows]
    /\ approvals \in Seq(Approvals)
    /\ due \in SUBSET Steps
    /\ clerk \in [Clerks -> Calls]
    /\ \A c \in Clerks :
          /\ clerk[c].pc \in {"round", "number", "open"} => clerk[c].at \in Steps
          /\ clerk[c].pc = "remaining" => clerk[c].at \in Ids
    /\ synced \in BOOLEAN
    /\ byHand \in SUBSET Steps /\ cut \in SUBSET Steps
    /\ crashes \in Nat

\* Nothing is in flight and the instance was last left advanced.
Quiet == synced /\ \A c \in Clerks : Free(c)

\* In a running instance a step that is pending or in progress depends on none
\* that is left to do, and one that waits depends on some: a step that was open
\* when one before it was returned is waiting again.  The engine sends no step
\* back to wait that is escalated or blocked (planActivation): of these, and of
\* rejected steps, nothing is said.
InOrder ==
    Quiet /\ inst = "IN_PROGRESS" =>
        \A s \in Steps :
            /\ row[s].status \in {"PENDING", "IN_PROGRESS"} =>
                  \A t \in Needs(s) : Done(row, t)
            /\ row[s].status = "WAITING" => \E t \in Needs(s) : ~Done(row, t)

\* A completed instance has no step left to do, and a running one has some.
ClosedWhenDone ==
    Quiet => /\ inst = "COMPLETED" => Unfinished(row) = {}
             /\ inst = "IN_PROGRESS" => Unfinished(row) # {}

\* In a running instance a review that is pending waits for somebody, and no
\* one is asked to approve a step that is not active.
ReviewsOpen ==
    Quiet /\ inst = "IN_PROGRESS" =>
        /\ \A s \in Steps : flow.kind[s] = "REVIEW" /\ row[s].status = "PENDING" =>
              /\ OpenOf(s) # {}
              /\ crashes = 0 => \E a \in OpenOf(s) : approvals[a].status # "WAITING"
        /\ crashes = 0 => \A a \in Ids : IsOpen(a) =>
              row[approvals[a].step].status \in Completable \cup {"BLOCKED"}

NewestRound(s) == {a \in OfStep(s) : \A b \in OfStep(s) : approvals[b].round <= approvals[a].round}

\* A review that is approved, and not by hand, has been approved in its last
\* round by everyone who was asked, or by one if anyone may; and everyone the
\* template asks was asked, unless an insertion of that round failed.  Such a
\* round is never completed (ensureApprovals finds it open): those it did ask
\* approve the step.
ApprovedByRound ==
    crashes = 0 =>
        \A s \in Steps \ byHand :
            flow.kind[s] = "REVIEW" /\ row[s].status = "COMPLETED" /\ row[s].result = "APPROVED" =>
                LET yes == {a \in NewestRound(s) : approvals[a].status = "APPROVED"}
                IN  /\ yes # {}
                    /\ flow.mode[s] # "ANY" =>
                          /\ yes = NewestRound(s)
                          /\ s \notin cut => Cardinality(yes) = flow.approvers[s]
=============================================================================
