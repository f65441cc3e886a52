------------------------ MODULE LeaveSerial_proofs ------------------------
(***************************************************************************)
(* What holds of a request whose calls do not overlap (Serial), for any    *)
(* number of requests and handlers that meet in one balance row.           *)
(*                                                                         *)
(* The invariant says what the program counter of the one handler of a     *)
(* request knows of its status (Fits) and, without crashes, what the       *)
(* history owes at that point (Charged) and what the approval steps of the *)
(* request are (Stepped).                                                  *)
(***************************************************************************)
EXTENDS LeaveRequests_proofs

\* A request has at most one handler, and the carry-over has no request.
Alone ==
    /\ \A h, k \in Handlers :
           proc[h].req \in Requests /\ proc[h].req = proc[k].req => h = k
    /\ \A h \in Handlers :
           proc[h].pc \in {"idle", "marker", "carry"} <=> proc[h].req = NoRequest

\* The status st of its request, when a handler is about to run statement pc.
Fits(pc, was, st) ==
    /\ pc \in {"conflict", "insert"} =>
           st = "NONE" /\ was \in {"DRAFT", "PENDING", "APPROVED"}
    /\ pc \in {"flow", "mine", "decide", "rejectStatus", "escalateStatus", "count",
               "finalize", "delegate", "reassign", "escalate"} => st = "PENDING"
    /\ pc \in {"deduct", "effects"} => st = "APPROVED"
    /\ pc \in {"release", "closeSteps"} => st \in {"REJECTED", "CANCELLED"}
    /\ pc = "cancelStatus" => st = was /\ st \in {"DRAFT", "PENDING", "APPROVED"}
    /\ pc \in {"return", "undoEffects"} => st = "CANCELLED"

AllFit ==
    \A h \in Handlers : proc[h].req \in Requests =>
        Fits(proc[h].pc, proc[h].was, status[proc[h].req])

SInv == IInv /\ Alone /\ AllFit

\* What the history of a request must show, while its handler is at pc.
Due(pc, st) == IF pc = "return" \/ (st = "APPROVED" /\ pc # "deduct") THEN 1 ELSE 0

Charged ==
    \A r \in Requests :
        /\ ~Busy(r) => Net(r) = Due("idle", status[r])
        /\ \A h \in Handlers : proc[h].req = r => Net(r) = Due(proc[h].pc, status[r])

CInv == SInv /\ Charged

-----------------------------------------------------------------------------
(* A step of handler h replaces its record by rec and touches no request   *)
(* but its own.                                                            *)

Moves(h, rec) ==
    /\ rec \in Flight
    /\ proc' = [proc EXCEPT ![h] = rec]
    /\ proc[h].req \in Requests => rec.req \in {proc[h].req, NoRequest}
    /\ rec.req \in Requests => rec.req = proc[h].req \/ ~Busy(rec.req)
    /\ rec.pc \in {"idle", "marker", "carry"} <=> rec.req = NoRequest
    /\ \A s \in Requests : s # proc[h].req => status'[s] = status[s]
    /\ rec.req \in Requests => Fits(rec.pc, rec.was, status'[rec.req])

LEMMA MovesKeep ==
    ASSUME SInv, NEW h \in Handlers, NEW rec, Moves(h, rec)
    PROVE  Alone' /\ AllFit'
<1>1. proc \in [Handlers -> Flight]
  BY DEF SInv, IInv, TypeOK
<1>2. proc'[h] = rec /\ \A k \in Handlers : k # h => proc'[k] = proc[k]
  BY <1>1 DEF Moves
<1>3. ASSUME NEW k \in Handlers, k # h, proc[k].req \in Requests
      PROVE  proc[k].req # rec.req /\ proc[k].req # proc[h].req
  BY <1>3 DEF Moves, Busy, SInv, Alone
<1>4. Alone'
  BY <1>2, <1>3 DEF Moves, SInv, Alone
<1>5. AllFit'
  BY <1>2, <1>3 DEF Moves, SInv, AllFit
<1> QED BY <1>4, <1>5

LEMMA MovesCharge ==
    ASSUME CInv, NEW h \in Handlers, NEW rec, Moves(h, rec),
           \A s \in Requests : s # proc[h].req => Net(s)' = Net(s),
           \A s \in Requests : s = proc[h].req => Net(s)' = Due(rec.pc, status'[s]),
           rec.req \in Requests /\ rec.req # proc[h].req =>
               Due(rec.pc, status[rec.req]) = Due("idle", status[rec.req])
    PROVE  Charged'
<1>1. proc \in [Handlers -> Flight]
  BY DEF CInv, SInv, IInv, TypeOK
<1>2. proc'[h] = rec /\ \A k \in Handlers : k # h => proc'[k] = proc[k]
  BY <1>1 DEF Moves
<1>3. ASSUME NEW k \in Handlers, k # h, proc[k].req \in Requests
      PROVE  proc[k].req # rec.req /\ proc[k].req # proc[h].req
  BY <1>3 DEF Moves, Busy, CInv, SInv, Alone
<1> SUFFICES ASSUME NEW r \in Requests
             PROVE  /\ ~Busy(r)' => Net(r)' = Due("idle", status[r])'
                    /\ \A k \in Handlers :
                          proc'[k].req = r => Net(r)' = Due(proc'[k].pc, status'[r])
  BY DEF Charged, Due
<1>4. CASE r = proc[h].req
  <2>1. Net(r)' = Due(rec.pc, status'[r])
    BY <1>4
  <2>2. rec.req = r \/ (rec.req = NoRequest /\ rec.pc \in {"idle", "marker", "carry"})
    BY <1>4 DEF Moves
  <2>3. \A k \in Handlers : proc'[k].req = r => k = h
    BY <1>2, <1>3, <1>4
  <2>4. CASE rec.req = r
    BY <1>2, <2>1, <2>3, <2>4 DEF Busy
  <2>5. CASE rec.req # r
    BY <1>2, <2>1, <2>2, <2>3, <2>5 DEF Due
  <2> QED BY <2>4, <2>5
<1>5. CASE r # proc[h].req /\ r = rec.req
  <2>1. ~Busy(r) /\ status'[r] = status[r] /\ Net(r)' = Net(r)
    BY <1>5 DEF Moves
  <2>2. Net(r)' = Due(rec.pc, status'[r])
    BY <1>5, <2>1 DEF CInv, Charged
  <2>3. \A k \in Handlers : proc'[k].req = r => k = h
    BY <1>2, <1>3, <1>5
  <2> QED BY <1>2, <1>5, <2>2, <2>3 DEF Busy
<1>6. CASE r # proc[h].req /\ r # rec.req
  <2>1. status'[r] = status[r] /\ Net(r)' = Net(r)
    BY <1>6 DEF Moves
  <2>2. \A k \in Handlers : proc'[k].req = r => k # h /\ proc[k].req = r /\ proc'[k] = proc[k]
    BY <1>2, <1>6
  <2>3. ~Busy(r)' => ~Busy(r)
    BY <1>2, <1>6 DEF Busy
  <2> QED BY <2>1, <2>2, <2>3 DEF CInv, Charged, Due
<1> QED BY <1>4, <1>5, <1>6

\* What every step of a handler keeps.
Kept == Alone' /\ AllFit' /\ (Charged => Charged')

\* The statements of a handler about request q that go on to statement pc.
LEMMA GotoKeeps ==
    ASSUME SInv, NEW h \in Handlers, NEW q \in Requests, proc[h].req = q,
           NEW pc \in PCs \ {"idle", "marker", "carry"}, Goto(h, pc),
           \A s \in Requests : s # q => status'[s] = status[s] /\ Net(s)' = Net(s),
           Fits(pc, proc[h].was, status'[q]),
           Net(q) = Due(proc[h].pc, status[q]) => Net(q)' = Due(pc, status'[q])
    PROVE  Kept
<1> DEFINE rec == [proc[h] EXCEPT !.pc = pc]
<1>1. rec \in Flight /\ rec.pc = pc /\ rec.req = q /\ rec.was = proc[h].was
  BY DEF SInv, IInv, TypeOK, Flight
<1>2. proc' = [proc EXCEPT ![h] = rec]
  BY DEF Goto
<1> HIDE DEF rec
<1>3. Moves(h, rec)
  BY <1>1, <1>2, NullAssumption DEF Moves
<1>4. ASSUME Charged PROVE Charged'
  <2>1. Net(q)' = Due(pc, status'[q])
    BY <1>4 DEF Charged
  <2> QED BY <1>1, <1>3, <1>4, <2>1, MovesCharge DEF CInv
<1> QED BY <1>3, <1>4, MovesKeep DEF Kept

\* The last statement of a handler about request q.
LEMMA ReturnKeeps ==
    ASSUME SInv, NEW h \in Handlers, NEW q \in Requests, proc[h].req = q, Return(h),
           \A s \in Requests : s # q => status'[s] = status[s] /\ Net(s)' = Net(s),
           Net(q) = Due(proc[h].pc, status[q]) => Net(q)' = Due("idle", status'[q])
    PROVE  Kept
<1>1. Idle \in Flight /\ Idle.pc = "idle" /\ Idle.req = NoRequest
  BY DEF Idle, Flight, PCs, Actions, Levels, Statuses
<1>2. Moves(h, Idle)
  BY <1>1, NullAssumption DEF Moves, Return
<1>3. ASSUME Charged PROVE Charged'
  <2>1. Net(q)' = Due("idle", status'[q])
    BY <1>3 DEF Charged
  <2> QED BY <1>1, <1>2, <1>3, <2>1, NullAssumption, MovesCharge DEF CInv
<1> QED BY <1>2, <1>3, MovesKeep DEF Kept

-----------------------------------------------------------------------------
(* One lemma per kind of statement.                                        *)

\* Statements that leave the status and the history alone: nothing was due
\* before them that is not after.
LEMMA QuietSteps ==
    ASSUME SInv, NEW h \in Handlers, NEW q \in Requests, proc[h].req = q,
           UNCHANGED <<status, usage, reversal>>,
           \/ Return(h) /\ proc[h].pc \notin {"deduct", "return"}
           \/ \E pc \in PCs \ {"idle", "marker", "carry", "deduct", "return"} :
                /\ Goto(h, pc) /\ Fits(pc, proc[h].was, status[q])
                /\ proc[h].pc \notin {"deduct", "return"}
    PROVE  Kept
<1>1. \A s \in Requests : Net(s)' = Net(s)
  BY DEF Net
<1>2. CASE Return(h) /\ proc[h].pc \notin {"deduct", "return"}
  BY <1>1, <1>2, ReturnKeeps DEF Due
<1>3. ASSUME NEW pc \in PCs \ {"idle", "marker", "carry", "deduct", "return"},
             Goto(h, pc), Fits(pc, proc[h].was, status[q]),
             proc[h].pc \notin {"deduct", "return"}
      PROVE  Kept
  BY <1>1, <1>3, GotoKeeps DEF Due
<1> QED BY <1>2, <1>3

LEMMA ReadSteps ==
    ASSUME SInv, NEW h \in Handlers,
           CreateCheckConflict(h) \/ CountRemaining(h) \/ FlowHR(h) \/ Delegate(h)
             \/ Decide(h) \/ ApplyEffects(h) \/ ReleaseReservation(h) \/ CloseSteps(h)
             \/ UndoEffects(h) \/ Reassign(h) \/ EscalateToHR(h)
    PROVE  Kept
<1> DEFINE q == proc[h].req
<1>1. q \in Requests
  BY DEF CreateCheckConflict, CountRemaining, FlowHR, Delegate, Decide, ApplyEffects,
         ReleaseReservation, CloseSteps, UndoEffects, Reassign, EscalateToHR, At,
         SInv, IInv, InFlight
<1>2. Fits(proc[h].pc, proc[h].was, status[q])
  BY <1>1 DEF SInv, AllFit
<1>3. UNCHANGED <<status, usage, reversal>> /\ proc[h].pc \notin {"deduct", "return"}
  BY DEF CreateCheckConflict, CountRemaining, FlowHR, Delegate, Decide, ApplyEffects,
         ReleaseReservation, CloseSteps, UndoEffects, Reassign, EscalateToHR, At
<1>4. \/ Return(h)
      \/ \E pc \in PCs \ {"idle", "marker", "carry", "deduct", "return"} :
           Goto(h, pc) /\ Fits(pc, proc[h].was, status[q])
  <2>1. CASE CreateCheckConflict(h)
    BY <2>1, <1>2 DEF CreateCheckConflict, At, Fits, PCs
  <2>2. CASE CountRemaining(h)
    BY <2>2, <1>2 DEF CountRemaining, At, Fits, PCs
  <2>3. CASE FlowHR(h)
    <3>1. Return(h) \/ Goto(h, "finalize")
      BY <2>3 DEF FlowHR
    <3>2. Fits("finalize", proc[h].was, status[q])
      BY <2>3, <1>2 DEF FlowHR, At, Fits
    <3> QED BY <3>1, <3>2 DEF PCs
  <2>4. CASE Decide(h)
    BY <2>4, <1>2 DEF Decide, At, Fits, PCs
  <2>5. CASE ReleaseReservation(h)
    BY <2>5, <1>2 DEF ReleaseReservation, At, Fits, PCs
  <2>6. CASE UndoEffects(h)
    BY <2>6, <1>2 DEF UndoEffects, At, Fits, PCs
  <2>7. CASE Delegate(h) \/ ApplyEffects(h) \/ CloseSteps(h) \/ Reassign(h) \/ EscalateToHR(h)
    BY <2>7 DEF Delegate, ApplyEffects, CloseSteps, Reassign, EscalateToHR
  <2> QED BY <2>1, <2>2, <2>3, <2>4, <2>5, <2>6, <2>7
<1> QED BY <1>1, <1>3, <1>4, QuietSteps

\* The two statements that set the level the handler works at.
LEMMA LevelSteps ==
    ASSUME SInv, NEW h \in Handlers, FlowManager(h) \/ ProcessFindStep(h)
    PROVE  Kept
<1> DEFINE q == proc[h].req
<1>1. q \in Requests
  BY DEF FlowManager, ProcessFindStep, At, SInv, IInv, InFlight
<1>2. status[q] = "PENDING" /\ proc[h].pc \in {"flow", "mine"}
  BY <1>1 DEF FlowManager, ProcessFindStep, At, SInv, AllFit, Fits
<1>3. UNCHANGED <<status, usage, reversal>>
  BY DEF FlowManager, ProcessFindStep
<1>4. CASE Return(h)
  BY <1>1, <1>2, <1>3, <1>4, QuietSteps
<1>5. ASSUME NEW l \in Levels, NEW pc \in {"flow", "delegate", "decide"},
             proc' = [proc EXCEPT ![h] = [proc[h] EXCEPT !.level = l, !.pc = pc]]
      PROVE  Kept
  <2> DEFINE rec == [proc[h] EXCEPT !.level = l, !.pc = pc]
  <2>1. rec \in Flight /\ rec.pc = pc /\ rec.req = q /\ rec.was = proc[h].was
    BY DEF SInv, IInv, TypeOK, Flight, PCs
  <2>2. proc' = [proc EXCEPT ![h] = rec]
    BY <1>5
  <2> HIDE DEF rec
  <2>3. Moves(h, rec)
    BY <1>1, <1>2, <1>3, <2>1, <2>2, NullAssumption DEF Moves, Fits
  <2>4. ASSUME Charged PROVE Charged'
    <3>1. \A s \in Requests : Net(s)' = Net(s)
      BY <1>3 DEF Net
    <3>2. Net(q) = Due(proc[h].pc, status[q])
      BY <1>1, <2>4 DEF Charged
    <3>3. \A s \in Requests : s = proc[h].req => Net(s)' = Due(rec.pc, status'[s])
      BY <1>2, <1>3, <2>1, <3>1, <3>2 DEF Due
    <3> QED BY <2>1, <2>3, <2>4, <3>1, <3>3, MovesCharge DEF CInv
  <2> QED BY <2>3, <2>4, MovesKeep DEF Kept
<1>6. CASE FlowManager(h)
  <2>1. proc' = [proc EXCEPT ![h] = [proc[h] EXCEPT !.level = 2, !.pc = "flow"]]
    <3>1. proc' = [proc EXCEPT ![h] = [proc[h] EXCEPT !.level = 2]]
      BY <1>6 DEF FlowManager
    <3>2. proc[h] = [proc[h] EXCEPT !.pc = "flow"] /\ proc[h] \in Flight
      BY <1>6 DEF FlowManager, At, SInv, IInv, TypeOK, Flight
    <3> QED BY <3>1, <3>2 DEF Flight
  <2> QED BY <1>5, <2>1 DEF Levels
<1>7. CASE ProcessFindStep(h) /\ ~Return(h)
  <2> DEFINE next == IF proc[h].act = "DELEGATE" THEN "delegate" ELSE "decide"
  <2>1. PICK l \in Levels : proc' = [proc EXCEPT ![h].level = l, ![h].pc = next]
    BY <1>7 DEF ProcessFindStep
  <2>2. proc' = [proc EXCEPT ![h] = [proc[h] EXCEPT !.level = l, !.pc = next]]
    BY <2>1 DEF SInv, IInv, TypeOK, Flight
  <2> QED BY <1>5, <2>2
<1> QED BY <1>4, <1>6, <1>7

\* Statements that write the status: the history owes the same after them.
LEMMA StatusSteps ==
    ASSUME SInv, NEW h \in Handlers,
           RejectStatus(h) \/ EscalateStatus(h) \/ Finalize(h) \/ CancelStatus(h)
    PROVE  Kept
<1> DEFINE q == proc[h].req
<1>1. q \in Requests
  BY DEF RejectStatus, EscalateStatus, Finalize, CancelStatus, At, SInv, IInv, InFlight
<1>2. Fits(proc[h].pc, proc[h].was, status[q])
  BY <1>1 DEF SInv, AllFit
<1>3. \A s \in Requests : Net(s)' = Net(s)
  BY DEF RejectStatus, EscalateStatus, Finalize, CancelStatus, Net
<1>4. status \in [Requests -> Statuses]
  BY DEF SInv, IInv, TypeOK
<1>5. \A s \in Requests : s # q => status'[s] = status[s]
  BY <1>4 DEF RejectStatus, EscalateStatus, Finalize, CancelStatus
<1>6. CASE RejectStatus(h)
  <2>1. status'[q] = "REJECTED" /\ status[q] = "PENDING" /\ proc[h].pc = "rejectStatus"
    BY <1>1, <1>2, <1>4, <1>6 DEF RejectStatus, At, Fits
  <2> QED BY <1>1, <1>3, <1>5, <1>6, <2>1, GotoKeeps DEF RejectStatus, Fits, Due, PCs
<1>7. CASE EscalateStatus(h)
  <2>1. status'[q] = "PENDING" /\ status[q] = "PENDING" /\ proc[h].pc = "escalateStatus"
    BY <1>1, <1>2, <1>4, <1>7 DEF EscalateStatus, At, Fits
  <2> QED BY <1>1, <1>3, <1>5, <1>7, <2>1, ReturnKeeps DEF EscalateStatus, Due
<1>8. CASE Finalize(h)
  <2>1. status'[q] = "APPROVED" /\ status[q] = "PENDING" /\ proc[h].pc = "finalize"
    BY <1>1, <1>2, <1>4, <1>8 DEF Finalize, At, Fits
  <2> QED BY <1>1, <1>3, <1>5, <1>8, <2>1, GotoKeeps DEF Finalize, Fits, Due, PCs
<1>9. CASE CancelStatus(h)
  <2>1. /\ status'[q] = "CANCELLED" /\ proc[h].pc = "cancelStatus"
        /\ status[q] = proc[h].was /\ proc[h].was \in {"DRAFT", "PENDING", "APPROVED"}
    BY <1>1, <1>2, <1>4, <1>9 DEF CancelStatus, At, Fits
  <2>2. CASE proc[h].was = "APPROVED"
    <3>1. Goto(h, "return")
      BY <1>9, <2>2 DEF CancelStatus
    <3> QED BY <1>1, <1>3, <1>5, <2>1, <2>2, <3>1, GotoKeeps DEF Fits, Due, PCs
  <2>3. CASE proc[h].was # "APPROVED"
    <3>1. PICK pc \in {"release", "closeSteps"} : Goto(h, pc)
      BY <1>9, <2>3 DEF CancelStatus
    <3> QED BY <1>1, <1>3, <1>5, <2>1, <2>3, <3>1, GotoKeeps DEF Fits, Due, PCs
  <2> QED BY <2>2, <2>3
<1> QED BY <1>6, <1>7, <1>8, <1>9

\* The insertion of the request.
LEMMA InsertStep == ASSUME SInv, NEW h \in Handlers, CreateInsert(h) PROVE Kept
<1> DEFINE q == proc[h].req
<1>1. q \in Requests /\ proc[h].pc = "insert"
  BY DEF CreateInsert, At, SInv, IInv, InFlight
<1>2. status[q] = "NONE" /\ proc[h].was \in {"DRAFT", "PENDING", "APPROVED"}
  BY <1>1 DEF SInv, AllFit, Fits
<1>3. \A s \in Requests : Net(s)' = Net(s)
  BY DEF CreateInsert, Net
<1>4. status \in [Requests -> Statuses]
  BY DEF SInv, IInv, TypeOK
<1>5. CASE Return(h) /\ UNCHANGED status
  BY <1>1, <1>2, <1>3, <1>5, ReturnKeeps DEF Due
<1>6. CASE status' = [status EXCEPT ![q] = proc[h].was] /\ ~(Return(h) /\ UNCHANGED status)
  <2>1. /\ status'[q] = proc[h].was
        /\ \A s \in Requests : s # q => status'[s] = status[s]
    BY <1>1, <1>4, <1>6
  <2>2. CASE proc[h].was = "PENDING"
    <3>1. Goto(h, "flow")
      BY <1>6, <2>2 DEF CreateInsert
    <3> QED BY <1>1, <1>2, <1>3, <2>1, <2>2, <3>1, GotoKeeps DEF Fits, Due, PCs
  <2>3. CASE proc[h].was = "APPROVED"
    <3>1. Goto(h, "deduct")
      BY <1>6, <2>3 DEF CreateInsert
    <3> QED BY <1>1, <1>2, <1>3, <2>1, <2>3, <3>1, GotoKeeps DEF Fits, Due, PCs
  <2>4. CASE proc[h].was = "DRAFT"
    <3>1. Return(h)
      BY <1>6, <2>4 DEF CreateInsert
    <3> QED BY <1>1, <1>2, <1>3, <2>1, <2>4, <3>1, ReturnKeeps DEF Due
  <2> QED BY <1>2, <2>2, <2>3, <2>4
<1> QED BY <1>5, <1>6 DEF CreateInsert

\* The two transactions that write the history: what was due is entered.
LEMMA LedgerSteps ==
    ASSUME SInv, NEW h \in Handlers, DeductBalance(h) \/ ReturnBalance(h)
    PROVE  Kept
<1>1. PICK q \in Requests : q = proc[h].req
  BY DEF DeductBalance, ReturnBalance, At, SInv, IInv, InFlight
<1>2. Fits(proc[h].pc, proc[h].was, status[q])
  BY <1>1 DEF SInv, AllFit
<1>3. usage \in [Requests -> Nat] /\ reversal \in [Requests -> Nat]
  BY DEF SInv, IInv, TypeOK
<1>4. UNCHANGED status
  BY DEF DeductBalance, ReturnBalance
<1>5. CASE DeductBalance(h)
  <2>1. usage' = [usage EXCEPT ![q] = @ + 1] /\ reversal' = reversal
    BY <1>1, <1>5 DEF DeductBalance
  <2>2. \A s \in Requests : s # q => Net(s)' = Net(s)
    BY <1>1, <1>3, <2>1 DEF Net
  <2>3. Net(q) = 0 => Net(q)' = 1
    BY <1>1, <1>3, <2>1 DEF Net
  <2>4. proc[h].pc = "deduct" /\ Goto(h, "effects")
    BY <1>5 DEF DeductBalance, At
  <2> QED BY <1>1, <1>2, <1>4, <2>2, <2>3, <2>4, GotoKeeps DEF Fits, Due, PCs
<1>6. CASE ReturnBalance(h)
  <2>1. reversal' = [reversal EXCEPT ![q] = @ + 1] /\ usage' = usage
    BY <1>1, <1>6 DEF ReturnBalance
  <2>2. \A s \in Requests : s # q => Net(s)' = Net(s)
    BY <1>1, <1>3, <2>1 DEF Net
  <2>3. Net(q) = 1 => Net(q)' = 0
    BY <1>1, <1>3, <2>1 DEF Net
  <2>4. proc[h].pc = "return" /\ Goto(h, "undoEffects")
    BY <1>6 DEF ReturnBalance, At
  <2> QED BY <1>1, <1>2, <1>4, <2>2, <2>3, <2>4, GotoKeeps DEF Fits, Due, PCs
<1> QED BY <1>5, <1>6

\* A handler that starts, and the carry-over, which has no request.
LEMMA OtherMoves ==
    ASSUME SInv, NEW h \in Handlers, NEW rec \in Flight, proc[h].req = NoRequest,
           proc' = [proc EXCEPT ![h] = rec],
           UNCHANGED <<status, usage, reversal>>,
           rec.pc \in {"idle", "marker", "carry"} <=> rec.req = NoRequest,
           rec.req \in Requests => /\ ~Busy(rec.req)
                                  /\ Fits(rec.pc, rec.was, status[rec.req])
                                  /\ rec.pc \notin {"return", "deduct"}
    PROVE  Kept
<1>1. Moves(h, rec)
  BY NullAssumption DEF Moves
<1>2. ASSUME Charged PROVE Charged'
  <2>1. \A s \in Requests : Net(s)' = Net(s)
    BY DEF Net
  <2>2. rec.req \in Requests => Due(rec.pc, status[rec.req]) = Due("idle", status[rec.req])
    BY DEF Due
  <2> QED BY <1>1, <1>2, <2>1, <2>2, NullAssumption, MovesCharge DEF CInv
<1> QED BY <1>1, <1>2, MovesKeep DEF Kept

LEMMA CarrySteps ==
    ASSUME SInv, NEW h \in Handlers, CarryMarker(h) \/ CarryWrite(h)
    PROVE  Kept
<1>1. proc[h].pc \in {"marker", "carry"}
  BY DEF CarryMarker, CarryWrite, At
<1>2. proc[h].req = NoRequest
  BY <1>1 DEF SInv, Alone
<1>3. UNCHANGED <<status, usage, reversal>>
  BY DEF CarryMarker, CarryWrite
<1>4. CASE Return(h)
  <2>1. Idle \in Flight /\ Idle.pc = "idle" /\ Idle.req = NoRequest
    BY DEF Idle, Flight, PCs, Actions, Levels, Statuses
  <2> QED BY <1>2, <1>3, <1>4, <2>1, NullAssumption, OtherMoves DEF Return
<1>5. CASE Goto(h, "carry")
  <2> DEFINE rec == [proc[h] EXCEPT !.pc = "carry"]
  <2>1. rec \in Flight /\ rec.pc = "carry" /\ rec.req = NoRequest
    BY <1>2 DEF SInv, IInv, TypeOK, Flight, PCs
  <2>2. proc' = [proc EXCEPT ![h] = rec]
    BY <1>5 DEF Goto
  <2> HIDE DEF rec
  <2> QED BY <1>2, <1>3, <2>1, <2>2, NullAssumption, OtherMoves
<1> QED BY <1>4, <1>5 DEF CarryMarker, CarryWrite

\* A call on a request starts a handler only when the request has none.
LEMMA ArriveStep == ASSUME SInv, Serial, NEW h \in Handlers, Arrive(h) PROVE Kept
<1>1. UNCHANGED <<status, usage, reversal>>
  BY DEF Arrive, CreateCheckBalance, ProcessRead, CancelRead, ReassignRead, RemindRead,
         CarryRead
<1>2. proc[h].req = NoRequest
  BY DEF Arrive, CreateCheckBalance, ProcessRead, CancelRead, ReassignRead, RemindRead,
         CarryRead, Call, At, SInv, Alone
<1>3. Idle \in Flight /\ Idle.was = "NONE"
  BY DEF Idle, Flight, PCs, Actions, Levels, Statuses
<1> DEFINE Starts(rec, r, pc) ==
      /\ rec \in Flight /\ rec.pc = pc /\ rec.req = r
      /\ proc' = [proc EXCEPT ![h] = rec] /\ ~Busy(r)
<1>4. ASSUME NEW r \in Requests, NEW rec, NEW pc \in PCs \ {"idle", "marker", "carry",
                                                        "deduct", "return"},
             Starts(rec, r, pc), Fits(pc, rec.was, status[r])
      PROVE  Kept
  BY <1>1, <1>2, <1>4, NullAssumption, OtherMoves
<1>5. ASSUME NEW r \in Requests, NEW asDraft \in BOOLEAN, CreateCheckBalance(h, r, asDraft)
      PROVE  Kept
  <2> DEFINE rec == [Idle EXCEPT !.pc = "conflict", !.req = r, !.who = Owner,
                                 !.was = InitialStatus(r, asDraft)]
  <2>1. InitialStatus(r, asDraft) \in Statuses \cap {"DRAFT", "PENDING", "APPROVED"}
    BY DEF InitialStatus, Statuses
  <2>2. /\ rec \in Flight /\ rec.pc = "conflict" /\ rec.req = r
        /\ rec.was = InitialStatus(r, asDraft)
    BY <1>3, <2>1 DEF Flight, PCs, Users
  <2>3. proc' = [proc EXCEPT ![h] = rec] /\ ~Busy(r) /\ status[r] = "NONE"
    BY <1>5 DEF CreateCheckBalance, Call
  <2> HIDE DEF rec
  <2> QED BY <1>4, <2>1, <2>2, <2>3 DEF PCs, Fits
<1>6. ASSUME NEW r \in Requests, NEW who \in Users, NEW act \in Actions,
             ProcessRead(h, r, who, act)
      PROVE  Kept
  <2> DEFINE rec == [Idle EXCEPT !.pc = "mine", !.req = r, !.who = who, !.act = act]
  <2>1. rec \in Flight /\ rec.pc = "mine" /\ rec.req = r
    BY <1>3 DEF Flight, PCs
  <2>2. proc' = [proc EXCEPT ![h] = rec] /\ ~Busy(r) /\ status[r] = "PENDING"
    BY <1>6, Serial, NullAssumption DEF ProcessRead, Call
  <2> HIDE DEF rec
  <2> QED BY <1>4, <2>1, <2>2 DEF PCs, Fits
<1>7. ASSUME NEW r \in Requests, NEW who \in Users, CancelRead(h, r, who)
      PROVE  Kept
  <2> DEFINE rec == [Idle EXCEPT !.pc = "cancelStatus", !.req = r, !.was = status[r]]
  <2>1. status[r] \in Statuses
    BY DEF SInv, IInv, TypeOK
  <2>2. rec \in Flight /\ rec.pc = "cancelStatus" /\ rec.req = r /\ rec.was = status[r]
    BY <1>3, <2>1 DEF Flight, PCs
  <2>3. /\ proc' = [proc EXCEPT ![h] = rec] /\ ~Busy(r)
        /\ status[r] \in {"DRAFT", "PENDING", "APPROVED"}
    BY <1>7, Serial, NullAssumption DEF CancelRead, Call
  <2> HIDE DEF rec
  <2> QED BY <1>4, <2>2, <2>3 DEF PCs, Fits
<1>8. ASSUME NEW r \in Requests, NEW l \in Levels, NEW pc \in {"reassign", "escalate"},
             proc' = [proc EXCEPT ![h] = [Idle EXCEPT !.pc = pc, !.req = r, !.level = l,
                                                      !.who = approvals[r][l].approver]],
             ~Busy(r), status[r] = "PENDING"
      PROVE  Kept
  <2> DEFINE rec == [Idle EXCEPT !.pc = pc, !.req = r, !.level = l,
                                 !.who = approvals[r][l].approver]
  <2>1. approvals[r][l].approver \in Users \cup {NoOne}
    BY DEF SInv, IInv, TypeOK, Approval
  <2>2. rec \in Flight /\ rec.pc = pc /\ rec.req = r
    BY <1>3, <2>1 DEF Flight, PCs
  <2>3. proc' = [proc EXCEPT ![h] = rec]
    BY <1>8
  <2> HIDE DEF rec
  <2> QED BY <1>4, <1>8, <2>2, <2>3 DEF PCs, Fits
<1>9. ASSUME NEW r \in Requests, NEW l \in Levels,
             RemindRead(h, r, l) \/ \E viewer \in Approvers : ReassignRead(h, r, l, viewer)
      PROVE  Kept
  BY <1>8, <1>9, Serial, NullAssumption DEF ReassignRead, RemindRead, Call
<1>10. CASE CarryRead(h)
  <2> DEFINE amount == AnnualLimit + Larger(0, Smaller(Available, CarryCap))
             rec == [Idle EXCEPT !.pc = "marker", !.amount = amount]
  <2>1. amount \in Int
    BY LimitAssumption DEF Larger, Smaller, Available, SInv, IInv, TypeOK, Balance
  <2>2. proc' = [proc EXCEPT ![h] = rec]
    BY <1>10 DEF CarryRead, Call
  <2> HIDE DEF amount
  <2>3. rec \in Flight /\ rec.pc = "marker" /\ rec.req = NoRequest
    BY <1>3, <2>1 DEF Flight, PCs, Idle
  <2> HIDE DEF rec
  <2> QED BY <1>1, <1>2, <2>2, <2>3, NullAssumption, OtherMoves
<1> QED BY <1>5, <1>6, <1>7, <1>9, <1>10 DEF Arrive

\* Administration writes the balance only.
LEMMA AdministerStep ==
    ASSUME SInv, Administer \/ UNCHANGED vars
    PROVE  Kept
<1>1. UNCHANGED <<status, usage, reversal, proc>>
  BY DEF Administer, Accrue, UpdateBalance, vars
<1>2. Alone' /\ AllFit'
  BY <1>1 DEF SInv, Alone, AllFit
<1>3. Charged => Charged'
  BY <1>1 DEF Charged, Busy, Net
<1> QED BY <1>2, <1>3 DEF Kept

LEMMA StepKeeps == ASSUME SInv, NEW h \in Handlers, Step(h) PROVE Kept
BY ReadSteps, LevelSteps, StatusSteps, InsertStep, LedgerSteps, CarrySteps DEF Step

\* A handler that dies leaves its request alone: only the charge may be due.
LEMMA CrashKeeps == ASSUME SInv, NEW h \in Handlers, Crash(h) PROVE Alone' /\ AllFit'
<1>1. Idle \in Flight /\ Idle.pc = "idle" /\ Idle.req = NoRequest
  BY DEF Idle, Flight, PCs, Actions, Levels, Statuses
<1>2. Moves(h, Idle)
  BY <1>1, NullAssumption DEF Moves, Crash, Return
<1> QED BY <1>2, MovesKeep

-----------------------------------------------------------------------------
(* The approval steps of a request, as its handler sees them.              *)

\* The steps of a request: none yet; all decided and none refused; decided in
\* order and none refused; and one that is open, or the last escalated.
Unstarted(a) == \A l \in Levels : a[l].decision = "ABSENT"
Passed(a)    == \A l \in Levels : a[l].decision \in {"ABSENT", "APPROVE", "ESCALATE"}
Ongoing(a) ==
    /\ \A l \in Levels : a[l].decision \in {"ABSENT", "OPEN", "APPROVE", "ESCALATE"}
    /\ a[2].decision \in {"APPROVE", "ESCALATE"} => a[1].decision # "OPEN"
Awaits(a) ==
    \/ \E l \in Levels : a[l].decision = "OPEN"
    \/ \E l \in Levels : /\ a[l].decision = "ESCALATE"
                         /\ \A k \in Levels : k > l => a[k].decision = "ABSENT"

\* A handler that decides a step has found it open, and none open before it.
Turn(pc, level, a) ==
    pc \in {"decide", "delegate"} =>
        /\ a[level].decision = "OPEN"
        /\ \A k \in Levels : k < level => a[k].decision # "OPEN"

\* The steps a of a request of status st whose handler is about to run pc.
Whole(pc, level, st, a) ==
    /\ st \in {"NONE", "DRAFT"} => Unstarted(a)
    /\ pc \in {"conflict", "insert"} => level = 1
    /\ pc = "flow" =>
          /\ a[1].decision = IF level = 2 /\ ManagerStep THEN "OPEN" ELSE "ABSENT"
          /\ a[2].decision = "ABSENT"
    /\ st = "PENDING" /\ pc # "rejectStatus" => Ongoing(a)
    /\ pc = "finalize" \/ st = "APPROVED" => Passed(a)
    /\ \/ pc = "escalateStatus"
       \/ st = "PENDING" /\ pc \in {"idle", "mine", "decide", "delegate", "reassign", "escalate"}
       => Awaits(a)

\* A handler that dies leaves steps that fit no more, but not an open turn.
Stepped(pc, level, st, a) == Turn(pc, level, a) /\ (~Crashes => Whole(pc, level, st, a))

AllStepped ==
    \A r \in Requests :
        /\ ~Busy(r) => Stepped("idle", 1, status[r], approvals[r])
        /\ \A h \in Handlers :
              proc[h].req = r => Stepped(proc[h].pc, proc[h].level, status[r], approvals[r])

\* The record of a handler of q changes, and the steps and the status of q.
LEMMA OwnMove ==
    ASSUME SInv, AllStepped, NEW h \in Handlers, NEW q \in Requests, proc[h].req = q,
           NEW rec, proc' = [proc EXCEPT ![h] = rec],
           rec.req = q \/ (rec.req = NoRequest /\ rec.pc = "idle"),
           \A s \in Requests : s # q => status'[s] = status[s] /\ approvals'[s] = approvals[s],
           Stepped(rec.pc, rec.level, status'[q], approvals'[q])
    PROVE  AllStepped'
<1>1. proc'[h] = rec /\ \A k \in Handlers : k # h => proc'[k] = proc[k]
  BY DEF SInv, IInv, TypeOK
<1>2. \A k \in Handlers : k # h => proc[k].req # q
  BY DEF SInv, Alone
<1>3. \A r \in Requests : r # q => (Busy(r)' <=> Busy(r))
  BY <1>1, NullAssumption DEF Busy
<1>4. ~Busy(q)' => Stepped("idle", 1, status'[q], approvals'[q])
  BY <1>1, NullAssumption DEF Busy, Stepped, Turn, Whole
<1>5. \A k \in Handlers : proc'[k].req = q =>
          Stepped(proc'[k].pc, proc'[k].level, status'[q], approvals'[q])
  BY <1>1, <1>2
<1>6. ASSUME NEW r \in Requests, r # q
      PROVE  /\ ~Busy(r)' => Stepped("idle", 1, status'[r], approvals'[r])
             /\ \A k \in Handlers : proc'[k].req = r =>
                    Stepped(proc'[k].pc, proc'[k].level, status'[r], approvals'[r])
  <2>1. ~Busy(r) => Stepped("idle", 1, status[r], approvals[r])
    BY DEF AllStepped
  <2>2. \A k \in Handlers : proc'[k].req = r => proc[k].req = r /\ proc'[k] = proc[k]
    BY <1>1, <1>6, NullAssumption
  <2>3. \A k \in Handlers : proc[k].req = r =>
            Stepped(proc[k].pc, proc[k].level, status[r], approvals[r])
    BY DEF AllStepped
  <2> QED BY <1>3, <1>6, <2>1, <2>2, <2>3
<1> QED BY <1>4, <1>5, <1>6 DEF AllStepped, Stepped, Turn, Whole

\* An idle handler takes up a request that has none, or the carry-over.
LEMMA NewMove ==
    ASSUME SInv, AllStepped, NEW h \in Handlers, proc[h].req = NoRequest,
           NEW rec, proc' = [proc EXCEPT ![h] = rec], UNCHANGED <<status, approvals>>,
           rec.req \in Requests =>
               /\ ~Busy(rec.req)
               /\ Stepped(rec.pc, rec.level, status[rec.req], approvals[rec.req])
    PROVE  AllStepped'
<1>1. proc'[h] = rec /\ \A k \in Handlers : k # h => proc'[k] = proc[k]
  BY DEF SInv, IInv, TypeOK
<1>2. ASSUME NEW r \in Requests, ~Busy(r)' PROVE ~Busy(r)
  BY <1>1, <1>2, NullAssumption DEF Busy
<1>3. ASSUME NEW r \in Requests, NEW k \in Handlers, proc'[k].req = r
      PROVE  Stepped(proc'[k].pc, proc'[k].level, status[r], approvals[r])
  BY <1>1, <1>3 DEF AllStepped
<1>4. \A r \in Requests : ~Busy(r)' => Stepped("idle", 1, status[r], approvals[r])
  BY <1>2 DEF AllStepped
<1> QED BY <1>3, <1>4 DEF AllStepped, Stepped, Turn, Whole

\* The next statement pc of the handler of q; "idle" when it returns.
LEMMA StatementMove ==
    ASSUME SInv, AllStepped, NEW h \in Handlers, NEW q \in Requests, proc[h].req = q,
           NEW pc \in PCs, Goto(h, pc) \/ (pc = "idle" /\ Return(h)),
           \A s \in Requests : s # q => status'[s] = status[s] /\ approvals'[s] = approvals[s],
           Stepped(pc, proc[h].level, status'[q], approvals'[q])
    PROVE  AllStepped'
<1>1. CASE Goto(h, pc)
  <2> DEFINE rec == [proc[h] EXCEPT !.pc = pc]
  <2>1. rec.pc = pc /\ rec.req = q /\ rec.level = proc[h].level
    BY DEF SInv, IInv, TypeOK, Flight
  <2>2. proc' = [proc EXCEPT ![h] = rec]
    BY <1>1 DEF Goto
  <2> HIDE DEF rec
  <2> QED BY <2>1, <2>2, OwnMove
<1>2. CASE pc = "idle" /\ Return(h)
  <2>1. Idle.pc = "idle" /\ Idle.req = NoRequest /\ Idle.level = 1
    BY DEF Idle
  <2>2. Stepped("idle", 1, status'[q], approvals'[q])
    BY <1>2 DEF Stepped, Turn, Whole
  <2> QED BY <1>2, <2>1, <2>2, OwnMove DEF Return
<1> QED BY <1>1, <1>2

\* A request that is refused or cancelled promises nothing of its steps.
LEMMA ClosingSteps ==
    ASSUME SInv, AllStepped, NEW h \in Handlers,
           \/ RejectStatus(h) \/ ReleaseReservation(h) \/ CloseSteps(h)
           \/ CancelStatus(h) \/ ReturnBalance(h) \/ UndoEffects(h)
    PROVE  AllStepped'
<1>1. PICK q \in Requests : q = proc[h].req
  BY DEF RejectStatus, ReleaseReservation, CloseSteps, CancelStatus, ReturnBalance,
         UndoEffects, At, SInv, IInv, InFlight
<1>2. Fits(proc[h].pc, proc[h].was, status[q])
  BY <1>1 DEF SInv, AllFit
<1>3. status \in [Requests -> Statuses] /\ approvals \in [Requests -> [Levels -> Approval]]
  BY DEF SInv, IInv, TypeOK
<1>4. \A s \in Requests : s # q => status'[s] = status[s] /\ approvals'[s] = approvals[s]
  BY <1>1, <1>3 DEF RejectStatus, ReleaseReservation, CloseSteps, CancelStatus,
                    ReturnBalance, UndoEffects
<1>5. status'[q] \in {"REJECTED", "CANCELLED"}
  BY <1>1, <1>2, <1>3 DEF RejectStatus, ReleaseReservation, CloseSteps, CancelStatus,
                          ReturnBalance, UndoEffects, At, Fits
<1>6. PICK pc \in {"release", "closeSteps", "return", "undoEffects", "idle"} :
          Goto(h, pc) \/ (pc = "idle" /\ Return(h))
  BY DEF RejectStatus, ReleaseReservation, CloseSteps, CancelStatus, ReturnBalance,
         UndoEffects
<1>7. Stepped(pc, proc[h].level, status'[q], approvals'[q])
  BY <1>5 DEF Stepped, Turn, Whole
<1> QED BY <1>1, <1>4, <1>6, <1>7, StatementMove DEF PCs

\* Statements about a request that change nothing of its steps.
LEMMA PassingSteps ==
    ASSUME SInv, AllStepped, NEW h \in Handlers,
           \/ CreateCheckConflict(h) \/ CountRemaining(h) \/ EscalateStatus(h)
           \/ Finalize(h) \/ DeductBalance(h) \/ ApplyEffects(h)
    PROVE  AllStepped'
<1>1. PICK q \in Requests : q = proc[h].req
  BY DEF CreateCheckConflict, CountRemaining, EscalateStatus, Finalize, DeductBalance,
         ApplyEffects, At, SInv, IInv, InFlight
<1>2. Fits(proc[h].pc, proc[h].was, status[q])
  BY <1>1 DEF SInv, AllFit
<1>3. status \in [Requests -> Statuses] /\ UNCHANGED approvals
  BY DEF SInv, IInv, TypeOK, CreateCheckConflict, CountRemaining, EscalateStatus, Finalize,
         DeductBalance, ApplyEffects
<1>4. \A s \in Requests : s # q => status'[s] = status[s] /\ approvals'[s] = approvals[s]
  BY <1>1, <1>3 DEF CreateCheckConflict, CountRemaining, EscalateStatus, Finalize,
                    DeductBalance, ApplyEffects
<1>5. ~Crashes => Whole(proc[h].pc, proc[h].level, status[q], approvals[q])
  BY <1>1 DEF AllStepped, Stepped
<1>6. CASE CreateCheckConflict(h)
  <2>1. PICK pc \in {"idle", "insert"} : Goto(h, pc) \/ (pc = "idle" /\ Return(h))
    BY <1>6 DEF CreateCheckConflict
  <2>2. proc[h].pc = "conflict" /\ status'[q] = "NONE"
    BY <1>2, <1>6 DEF CreateCheckConflict, At, Fits
  <2>3. Stepped(pc, proc[h].level, status'[q], approvals'[q])
    BY <1>2, <1>3, <1>5, <1>6, <2>2 DEF CreateCheckConflict, Fits, Stepped, Turn, Whole
  <2> QED BY <1>1, <1>4, <2>1, <2>3, StatementMove DEF PCs
<1>7. CASE CountRemaining(h)
  <2>1. proc[h].pc = "count" /\ status[q] = "PENDING" /\ status'[q] = "PENDING"
    BY <1>2, <1>7 DEF CountRemaining, At, Fits
  <2>2. CASE \E l \in Levels : Open(q, l)
    <3>1. Stepped("idle", proc[h].level, status'[q], approvals'[q])
      BY <1>3, <1>5, <2>1, <2>2 DEF Stepped, Turn, Whole, Awaits, Open
    <3> QED BY <1>1, <1>4, <1>7, <2>2, <3>1, StatementMove DEF CountRemaining, PCs
  <2>3. CASE ~\E l \in Levels : Open(q, l)
    <3>1. ~Crashes => Ongoing(approvals[q]) /\ Passed(approvals[q])
      BY <1>5, <2>1, <2>3 DEF Whole, Ongoing, Passed, Open
    <3>2. Stepped("finalize", proc[h].level, status'[q], approvals'[q])
      BY <1>3, <2>1, <3>1 DEF Stepped, Turn, Whole
    <3> QED BY <1>1, <1>4, <1>7, <2>3, <3>2, StatementMove DEF CountRemaining, PCs
  <2> QED BY <2>2, <2>3
<1>8. CASE EscalateStatus(h)
  <2>1. proc[h].pc = "escalateStatus" /\ status[q] = "PENDING" /\ status'[q] = "PENDING"
    BY <1>1, <1>2, <1>3, <1>8 DEF EscalateStatus, At, Fits
  <2>2. Stepped("idle", proc[h].level, status'[q], approvals'[q])
    BY <1>3, <1>5, <2>1 DEF Stepped, Turn, Whole
  <2> QED BY <1>1, <1>4, <1>8, <2>2, StatementMove DEF EscalateStatus, PCs
<1>9. CASE Finalize(h)
  <2>1. proc[h].pc = "finalize" /\ status'[q] = "APPROVED"
    BY <1>1, <1>3, <1>9 DEF Finalize, At
  <2>2. Stepped("deduct", proc[h].level, status'[q], approvals'[q])
    BY <1>3, <1>5, <2>1 DEF Stepped, Turn, Whole
  <2> QED BY <1>1, <1>4, <1>9, <2>2, StatementMove DEF Finalize, PCs
<1>10. CASE DeductBalance(h) \/ ApplyEffects(h)
  <2>1. status[q] = "APPROVED" /\ status'[q] = "APPROVED"
    BY <1>2, <1>10 DEF DeductBalance, ApplyEffects, At, Fits
  <2>2. PICK pc \in {"effects", "idle"} : Goto(h, pc) \/ (pc = "idle" /\ Return(h))
    BY <1>10 DEF DeductBalance, ApplyEffects
  <2>3. Stepped(pc, proc[h].level, status'[q], approvals'[q])
    BY <1>3, <1>5, <2>1 DEF Stepped, Turn, Whole
  <2> QED BY <1>1, <1>4, <2>2, <2>3, StatementMove DEF PCs
<1> QED BY <1>6, <1>7, <1>8, <1>9, <1>10

\* Another approver takes the step over, open or not as it was.
LEMMA HandoverSteps ==
    ASSUME SInv, AllStepped, NEW h \in Handlers,
           Delegate(h) \/ Reassign(h) \/ EscalateToHR(h)
    PROVE  AllStepped'
<1> DEFINE q == proc[h].req
<1>0. /\ proc[h].pc \in {"delegate", "reassign", "escalate"} /\ UNCHANGED status /\ Return(h)
      /\ Delegate(h) => proc[h].pc = "delegate"
  BY DEF Delegate, Reassign, EscalateToHR, At
<1>1. q \in Requests
  BY <1>0 DEF SInv, IInv, InFlight
<1>2. status[q] = "PENDING"
  BY <1>0, <1>1 DEF SInv, AllFit, Fits
<1>3. approvals \in [Requests -> [Levels -> Approval]] /\ proc[h].level \in Levels
  BY DEF SInv, IInv, TypeOK, Flight
<1>4. Stepped(proc[h].pc, proc[h].level, status[q], approvals[q])
  BY <1>1 DEF AllStepped
<1>5. PICK a : /\ approvals' = [approvals EXCEPT ![q][proc[h].level] = a]
               /\ a.decision = approvals[q][proc[h].level].decision
  <2> DEFINE l == proc[h].level
             b == approvals[q][l]
  <2>1. b \in Approval
    BY <1>1, <1>3
  <2>2. CASE Delegate(h)
    <3>1. b.decision = "OPEN"
      BY <1>0, <1>4, <2>2 DEF Stepped, Turn
    <3>2. PICK to \in Users : approvals' = [approvals EXCEPT ![q][l] =
                                  [@ EXCEPT !.approver = to, !.decision = "OPEN"]]
      BY <2>2 DEF Delegate
    <3>3. approvals' = [approvals EXCEPT ![q][l] =
                            [b EXCEPT !.approver = to, !.decision = "OPEN"]]
      BY <1>1, <1>3, <3>2
    <3>4. [b EXCEPT !.approver = to, !.decision = "OPEN"].decision = "OPEN"
      BY <2>1 DEF Approval
    <3> QED BY <3>1, <3>3, <3>4
  <2>3. CASE Reassign(h)
    <3>1. PICK to \in Approvers : approvals' = [approvals EXCEPT ![q][l].approver = to]
      BY <2>3 DEF Reassign
    <3>2. approvals' = [approvals EXCEPT ![q][l] = [b EXCEPT !.approver = to]]
      BY <1>1, <1>3, <3>1
    <3>3. [b EXCEPT !.approver = to].decision = b.decision
      BY <2>1 DEF Approval
    <3> QED BY <3>2, <3>3
  <2>4. CASE EscalateToHR(h)
    <3>1. PICK hr \in HRs : approvals' = [approvals EXCEPT ![q][l] =
                                [@ EXCEPT !.approver = hr, !.escalated = TRUE]]
      BY <2>4 DEF EscalateToHR
    <3>2. approvals' = [approvals EXCEPT ![q][l] =
                            [b EXCEPT !.approver = hr, !.escalated = TRUE]]
      BY <1>1, <1>3, <3>1
    <3>3. [b EXCEPT !.approver = hr, !.escalated = TRUE].decision = b.decision
      BY <2>1 DEF Approval
    <3> QED BY <3>2, <3>3
  <2> QED BY <2>2, <2>3, <2>4
<1>6. /\ \A s \in Requests : s # q => status'[s] = status[s] /\ approvals'[s] = approvals[s]
      /\ \A l \in Levels : approvals'[q][l].decision = approvals[q][l].decision
  BY <1>0, <1>1, <1>3, <1>5
<1>7. Stepped("idle", proc[h].level, status'[q], approvals'[q])
  BY <1>0, <1>2, <1>4, <1>6 DEF Stepped, Turn, Whole, Ongoing, Awaits, Levels
<1> QED BY <1>0, <1>1, <1>6, <1>7, StatementMove DEF PCs

\* The insertion of the request: it has no steps yet.
LEMMA InsertStepped ==
    ASSUME SInv, AllStepped, NEW h \in Handlers, CreateInsert(h)
    PROVE  AllStepped'
<1> DEFINE q == proc[h].req
<1>1. q \in Requests /\ proc[h].pc = "insert" /\ UNCHANGED approvals
  BY DEF CreateInsert, At, SInv, IInv, InFlight
<1>2. status[q] = "NONE" /\ proc[h].was \in {"DRAFT", "PENDING", "APPROVED"}
  BY <1>1 DEF SInv, AllFit, Fits
<1>3. status \in [Requests -> Statuses]
  BY DEF SInv, IInv, TypeOK
<1>4. ~Crashes => Unstarted(approvals[q]) /\ proc[h].level = 1
  BY <1>1, <1>2 DEF AllStepped, Stepped, Whole
<1>5. CASE Return(h) /\ UNCHANGED status
  <2>1. Stepped("idle", proc[h].level, status[q], approvals[q])
    BY <1>2, <1>4 DEF Stepped, Turn, Whole
  <2> QED BY <1>1, <1>5, <2>1, StatementMove DEF PCs
<1>6. CASE status' = [status EXCEPT ![q] = proc[h].was] /\ ~(Return(h) /\ UNCHANGED status)
  <2>1. status'[q] = proc[h].was /\ \A s \in Requests : s # q => status'[s] = status[s]
    BY <1>1, <1>3, <1>6
  <2>2. PICK pc \in {"flow", "deduct", "idle"} :
            /\ Goto(h, pc) \/ (pc = "idle" /\ Return(h))
            /\ pc = CASE proc[h].was = "PENDING"  -> "flow"
                      [] proc[h].was = "APPROVED" -> "deduct"
                      [] OTHER                    -> "idle"
    BY <1>2, <1>6 DEF CreateInsert
  <2>3. Stepped(pc, proc[h].level, status'[q], approvals'[q])
    BY <1>1, <1>2, <1>4, <2>1, <2>2
       DEF Stepped, Turn, Whole, Unstarted, Ongoing, Passed, Levels
  <2> QED BY <1>1, <2>1, <2>2, <2>3, StatementMove DEF PCs
<1> QED BY <1>5, <1>6 DEF CreateInsert

\* The steps are inserted in order, and a request without any is approved.
LEMMA FlowSteps ==
    ASSUME SInv, AllStepped, NEW h \in Handlers, FlowManager(h) \/ FlowHR(h)
    PROVE  AllStepped'
<1> DEFINE q == proc[h].req
<1>0. proc[h].pc = "flow" /\ UNCHANGED status
  BY DEF FlowManager, FlowHR, At
<1>1. q \in Requests
  BY <1>0 DEF SInv, IInv, InFlight
<1>2. status[q] = "PENDING"
  BY <1>0, <1>1 DEF SInv, AllFit, Fits
<1>3. approvals \in [Requests -> [Levels -> Approval]]
  BY DEF SInv, IInv, TypeOK
<1>4. ~Crashes => Whole("flow", proc[h].level, "PENDING", approvals[q])
  BY <1>0, <1>1, <1>2 DEF AllStepped, Stepped
<1>5. \A a : StepFor(a).decision = "OPEN"
  BY DEF StepFor
<1>6. CASE FlowManager(h)
  <2> DEFINE rec == [proc[h] EXCEPT !.level = 2]
  <2>1. rec.pc = "flow" /\ rec.req = q /\ rec.level = 2
    BY <1>0 DEF SInv, IInv, TypeOK, Flight
  <2>2. proc' = [proc EXCEPT ![h] = rec] /\ proc[h].level = 1
    BY <1>6 DEF FlowManager
  <2>3. /\ \A s \in Requests : s # q => approvals'[s] = approvals[s]
        /\ approvals'[q][1].decision =
               IF ManagerStep THEN "OPEN" ELSE approvals[q][1].decision
        /\ approvals'[q][2] = approvals[q][2]
    BY <1>1, <1>3, <1>5, <1>6 DEF FlowManager, Levels
  <2>4. Stepped("flow", 2, status'[q], approvals'[q])
    BY <1>0, <1>2, <1>4, <2>2, <2>3 DEF Stepped, Turn, Whole, Ongoing, Levels
  <2> HIDE DEF rec
  <2> QED BY <1>0, <1>1, <2>1, <2>2, <2>3, <2>4, OwnMove
<1>7. CASE FlowHR(h) /\ UNCHANGED approvals
  <2>1. proc[h].level = 2
    BY <1>7 DEF FlowHR
  <2>2. PICK pc \in {"idle", "finalize"} :
            /\ Goto(h, pc) \/ (pc = "idle" /\ Return(h))
            /\ pc = "finalize" => ~ManagerStep
            /\ pc = "idle" => ManagerStep \/ \E hr \in HRs :
                                  approvals' = [approvals EXCEPT ![q][2] = StepFor(hr)]
    BY <1>7 DEF FlowHR
  <2>3. ~Crashes /\ pc = "idle" => ManagerStep
    <3>1. SUFFICES ASSUME ~Crashes, NEW hr \in HRs,
                          approvals' = [approvals EXCEPT ![q][2] = StepFor(hr)]
                   PROVE  FALSE
      BY <2>2
    <3>2. approvals'[q][2].decision = "OPEN"
      BY <1>1, <1>3, <1>5, <3>1 DEF Levels
    <3> QED BY <1>4, <1>7, <3>1, <3>2 DEF Whole
  <2>4. Stepped(pc, proc[h].level, status'[q], approvals'[q])
    BY <1>0, <1>2, <1>4, <1>7, <2>1, <2>2, <2>3
       DEF Stepped, Turn, Whole, Passed, Awaits, Levels
  <2> QED BY <1>0, <1>1, <1>7, <2>2, <2>4, StatementMove DEF PCs
<1>8. CASE FlowHR(h) /\ ~UNCHANGED approvals
  <2>1. PICK hr \in HRs : approvals' = [approvals EXCEPT ![q][2] = StepFor(hr)] /\ Return(h)
    BY <1>8 DEF FlowHR
  <2>2. /\ \A s \in Requests : s # q => approvals'[s] = approvals[s]
        /\ approvals'[q][1] = approvals[q][1] /\ approvals'[q][2].decision = "OPEN"
    BY <1>1, <1>3, <1>5, <2>1 DEF Levels
  <2>3. Stepped("idle", proc[h].level, status'[q], approvals'[q])
    BY <1>0, <1>2, <1>4, <2>2 DEF Stepped, Turn, Whole, Ongoing, Awaits, Levels
  <2> QED BY <1>0, <1>1, <2>1, <2>2, <2>3, StatementMove DEF PCs
<1> QED BY <1>6, <1>7, <1>8

\* An approver's step is found open, and none before it.
LEMMA FindStep ==
    ASSUME SInv, AllStepped, NEW h \in Handlers, ProcessFindStep(h)
    PROVE  AllStepped'
<1> DEFINE q == proc[h].req
<1>0. proc[h].pc = "mine" /\ UNCHANGED <<status, approvals>>
  BY DEF ProcessFindStep, At
<1>1. q \in Requests
  BY <1>0 DEF SInv, IInv, InFlight
<1>2. status[q] = "PENDING"
  BY <1>0, <1>1 DEF SInv, AllFit, Fits
<1>3. ~Crashes => Whole("mine", proc[h].level, "PENDING", approvals[q])
  BY <1>0, <1>1, <1>2 DEF AllStepped, Stepped
<1>4. CASE Return(h)
  <2>1. Stepped("idle", proc[h].level, status[q], approvals[q])
    BY <1>2, <1>3 DEF Stepped, Turn, Whole
  <2> QED BY <1>0, <1>1, <1>4, <2>1, StatementMove DEF PCs
<1>5. CASE ~Return(h)
  <2> DEFINE next == IF proc[h].act = "DELEGATE" THEN "delegate" ELSE "decide"
  <2>1. PICK l \in Levels : /\ Open(q, l) /\ ~EarlierOpen(q, l)
                            /\ proc' = [proc EXCEPT ![h].level = l, ![h].pc = next]
    BY <1>5 DEF ProcessFindStep
  <2> DEFINE rec == [proc[h] EXCEPT !.level = l, !.pc = next]
  <2>2. rec.pc = next /\ rec.level = l /\ rec.req = q /\ next \in {"delegate", "decide"}
    BY DEF SInv, IInv, TypeOK, Flight
  <2>3. proc' = [proc EXCEPT ![h] = rec]
    BY <2>1 DEF SInv, IInv, TypeOK, Flight
  <2> HIDE DEF rec, next
  <2>4. Stepped(next, l, status[q], approvals[q])
    BY <1>2, <1>3, <2>1, <2>2 DEF Stepped, Turn, Whole, Open, EarlierOpen
  <2> QED BY <1>0, <1>1, <2>2, <2>3, <2>4, OwnMove
<1> QED BY <1>4, <1>5

\* The decision of an open step, none before it being open.
LEMMA DecideStep ==
    ASSUME SInv, AllStepped, NEW h \in Handlers, Decide(h)
    PROVE  AllStepped'
<1> DEFINE q == proc[h].req
           l == proc[h].level
           act == proc[h].act
<1>0. proc[h].pc = "decide" /\ UNCHANGED status
  BY DEF Decide, At
<1>1. q \in Requests /\ l \in Levels /\ act \in {"APPROVE", "REJECT", "ESCALATE"}
  BY <1>0 DEF SInv, IInv, InFlight, TypeOK, Flight, Actions
<1>2. status[q] = "PENDING"
  BY <1>0, <1>1 DEF SInv, AllFit, Fits
<1>3. approvals \in [Requests -> [Levels -> Approval]]
  BY DEF SInv, IInv, TypeOK
<1>4. /\ Turn("decide", l, approvals[q])
      /\ ~Crashes => Whole("decide", l, "PENDING", approvals[q])
  BY <1>0, <1>1, <1>2 DEF AllStepped, Stepped
<1>5. /\ \A s \in Requests : s # q => approvals'[s] = approvals[s]
      /\ approvals'[q][l].decision = act
      /\ \A k \in Levels : k # l => approvals'[q][k] = approvals[q][k]
  <2> DEFINE step == [approvals[q][l] EXCEPT !.decision = act]
  <2>1. approvals' = [approvals EXCEPT ![q][l] = step]
    BY <1>1, <1>3 DEF Decide
  <2>2. step.decision = act
    BY <1>1, <1>3 DEF Approval
  <2> HIDE DEF step
  <2> QED BY <1>1, <1>3, <2>1, <2>2
<1>6. PICK pc \in {"rejectStatus", "escalateStatus", "count"} :
          /\ Goto(h, pc)
          /\ pc = "rejectStatus" <=> act = "REJECT"
          /\ pc = "escalateStatus" <=> act = "ESCALATE"
  BY <1>1 DEF Decide
<1>7. ASSUME ~Crashes, act # "REJECT"
      PROVE  Ongoing(approvals'[q]) /\ (act = "ESCALATE" => Awaits(approvals'[q]))
  <2>1. Ongoing(approvals[q])
    BY <1>4, <1>7 DEF Whole
  <2>2. approvals[q][l].decision = "OPEN" /\ (l = 2 => approvals[q][1].decision # "OPEN")
    BY <1>4 DEF Turn, Levels
  <2>3. CASE l = 1
    BY <1>1, <1>5, <1>7, <2>1, <2>2, <2>3 DEF Ongoing, Awaits, Levels
  <2>4. CASE l = 2
    BY <1>1, <1>5, <1>7, <2>1, <2>2, <2>4 DEF Ongoing, Awaits, Levels
  <2> QED BY <1>1, <2>3, <2>4 DEF Levels
<1>8. Stepped(pc, l, status'[q], approvals'[q])
  BY <1>0, <1>1, <1>2, <1>6, <1>7 DEF Stepped, Turn, Whole
<1> QED BY <1>0, <1>1, <1>5, <1>6, <1>8, StatementMove DEF PCs

\* A call that arrives finds its request without a handler.
LEMMA ArriveStepped ==
    ASSUME SInv, Serial, AllStepped, NEW h \in Handlers, Arrive(h)
    PROVE  AllStepped'
<1>1. UNCHANGED <<status, approvals>> /\ proc[h].req = NoRequest
  BY DEF Arrive, CreateCheckBalance, ProcessRead, CancelRead, ReassignRead, RemindRead,
         CarryRead, Call, At, SInv, Alone
<1>2. \A r \in Requests : ~Busy(r) => Stepped("idle", 1, status[r], approvals[r])
  BY DEF AllStepped
<1>3. Idle.level = 1 /\ Idle.req = NoRequest
  BY DEF Idle
<1>4. ASSUME NEW r \in Requests, NEW rec, proc' = [proc EXCEPT ![h] = rec], rec.req = r,
             ~Busy(r),
             \/ rec.pc = "conflict" /\ rec.level = 1 /\ status[r] = "NONE"
             \/ rec.pc \in {"mine", "reassign", "escalate"} /\ status[r] = "PENDING"
             \/ rec.pc = "cancelStatus"
      PROVE  AllStepped'
  <2>1. Stepped(rec.pc, rec.level, status[r], approvals[r])
    BY <1>2, <1>4 DEF Stepped, Turn, Whole
  <2> QED BY <1>1, <1>4, <2>1, NewMove
<1>5. ASSUME NEW r \in Requests, NEW asDraft \in BOOLEAN, CreateCheckBalance(h, r, asDraft)
      PROVE  AllStepped'
  <2> DEFINE rec == [Idle EXCEPT !.pc = "conflict", !.req = r, !.who = Owner,
                                 !.was = InitialStatus(r, asDraft)]
  <2>1. rec.pc = "conflict" /\ rec.req = r /\ rec.level = 1
    BY DEF Idle
  <2>2. proc' = [proc EXCEPT ![h] = rec] /\ ~Busy(r) /\ status[r] = "NONE"
    BY <1>5 DEF CreateCheckBalance, Call
  <2> HIDE DEF rec
  <2> QED BY <1>4, <2>1, <2>2
<1>6. ASSUME NEW r \in Requests, NEW who \in Users, NEW act \in Actions,
             ProcessRead(h, r, who, act)
      PROVE  AllStepped'
  <2> DEFINE rec == [Idle EXCEPT !.pc = "mine", !.req = r, !.who = who, !.act = act]
  <2>1. rec.pc = "mine" /\ rec.req = r
    BY DEF Idle
  <2>2. proc' = [proc EXCEPT ![h] = rec] /\ ~Busy(r) /\ status[r] = "PENDING"
    BY <1>6, NullAssumption DEF ProcessRead, Call
  <2> HIDE DEF rec
  <2> QED BY <1>4, <2>1, <2>2
<1>7. ASSUME NEW r \in Requests, NEW who \in Users, CancelRead(h, r, who)
      PROVE  AllStepped'
  <2> DEFINE rec == [Idle EXCEPT !.pc = "cancelStatus", !.req = r, !.was = status[r]]
  <2>1. rec.pc = "cancelStatus" /\ rec.req = r
    BY DEF Idle
  <2>2. proc' = [proc EXCEPT ![h] = rec] /\ ~Busy(r)
    BY <1>7, NullAssumption DEF CancelRead, Call
  <2> HIDE DEF rec
  <2> QED BY <1>4, <2>1, <2>2
<1>8. ASSUME NEW r \in Requests, NEW l \in Levels,
             RemindRead(h, r, l) \/ \E viewer \in Approvers : ReassignRead(h, r, l, viewer)
      PROVE  AllStepped'
  <2>1. PICK pc \in {"reassign", "escalate"} :
            proc' = [proc EXCEPT ![h] = [Idle EXCEPT !.pc = pc, !.req = r, !.level = l,
                                                     !.who = approvals[r][l].approver]]
    BY <1>8 DEF ReassignRead, RemindRead, Call
  <2>2. ~Busy(r) /\ status[r] = "PENDING"
    BY <1>8, NullAssumption DEF ReassignRead, RemindRead, Call
  <2> DEFINE rec == [Idle EXCEPT !.pc = pc, !.req = r, !.level = l,
                                 !.who = approvals[r][l].approver]
  <2>3. rec.pc = pc /\ rec.req = r
    BY DEF Idle
  <2> HIDE DEF rec
  <2>4. proc' = [proc EXCEPT ![h] = rec]
    BY <2>1 DEF rec
  <2> QED BY <1>4, <2>2, <2>3, <2>4
<1>9. CASE CarryRead(h)
  <2> DEFINE rec == [Idle EXCEPT !.pc = "marker",
                        !.amount = AnnualLimit + Larger(0, Smaller(Available, CarryCap))]
  <2>1. rec.req = NoRequest
    BY DEF Idle
  <2>2. proc' = [proc EXCEPT ![h] = rec]
    BY <1>9 DEF CarryRead, Call
  <2> HIDE DEF rec
  <2> QED BY <1>1, <2>1, <2>2, NullAssumption, NewMove
<1> QED BY <1>5, <1>6, <1>7, <1>8, <1>9 DEF Arrive

\* Dying leaves no turn, and the carry-over and the administration no request.
LEMMA OtherStepped ==
    ASSUME SInv, AllStepped,
           \/ Administer \/ UNCHANGED vars
           \/ \E h \in Handlers : Crash(h) \/ CarryMarker(h) \/ CarryWrite(h)
    PROVE  AllStepped'
<1>1. UNCHANGED <<status, approvals>>
  BY DEF Administer, Accrue, UpdateBalance, vars, Crash, CarryMarker, CarryWrite
<1>2. CASE Administer \/ UNCHANGED vars
  <2>1. UNCHANGED proc
    BY <1>2 DEF Administer, Accrue, UpdateBalance, vars
  <2> QED BY <1>1, <2>1 DEF AllStepped, Busy, Stepped, Turn, Whole
<1>3. ASSUME NEW h \in Handlers, proc[h].req = NoRequest, Return(h) PROVE AllStepped'
  <2>1. Idle.req = NoRequest
    BY DEF Idle
  <2> QED BY <1>1, <1>3, <2>1, NullAssumption, NewMove DEF Return
<1>4. ASSUME NEW h \in Handlers, CarryMarker(h) \/ CarryWrite(h) PROVE AllStepped'
  <2>1. proc[h].req = NoRequest
    BY <1>4 DEF CarryMarker, CarryWrite, At, SInv, Alone
  <2>2. CASE Return(h)
    BY <1>3, <2>1, <2>2
  <2>3. CASE Goto(h, "carry")
    <3> DEFINE rec == [proc[h] EXCEPT !.pc = "carry"]
    <3>1. rec.req = NoRequest
      BY <2>1 DEF SInv, IInv, TypeOK, Flight
    <3>2. proc' = [proc EXCEPT ![h] = rec]
      BY <2>3 DEF Goto
    <3> HIDE DEF rec
    <3> QED BY <1>1, <2>1, <3>1, <3>2, NullAssumption, NewMove
  <2> QED BY <1>4, <2>2, <2>3 DEF CarryMarker, CarryWrite
<1>5. ASSUME NEW h \in Handlers, Crash(h) PROVE AllStepped'
  <2>1. Crashes /\ Return(h)
    BY <1>5 DEF Crash
  <2>2. CASE proc[h].req = NoRequest
    BY <1>3, <2>1, <2>2
  <2>3. CASE proc[h].req \in Requests
    <3>1. Stepped("idle", proc[h].level, status'[proc[h].req], approvals'[proc[h].req])
      BY <2>1 DEF Stepped, Turn
    <3> QED BY <1>1, <2>1, <2>3, <3>1, StatementMove DEF PCs
  <2>4. proc[h].req \in Requests \cup {NoRequest}
    BY DEF SInv, IInv, TypeOK, Flight
  <2> QED BY <2>2, <2>3, <2>4
<1> QED BY <1>2, <1>4, <1>5

\* The inductive invariant of the steps.
LEMMA InitStepped == Init => AllStepped
<1> SUFFICES ASSUME Init PROVE AllStepped
  OBVIOUS
<1>1. \A h \in Handlers : proc[h].req = NoRequest
  BY DEF Init, Idle
<1>2. \A r \in Requests : status[r] = "NONE" /\ Unstarted(approvals[r])
  BY DEF Init, Unstarted
<1> QED BY <1>1, <1>2, NullAssumption DEF AllStepped, Stepped, Turn, Whole

LEMMA NextStepped == Serial /\ SInv /\ AllStepped /\ [Next]_vars => AllStepped'
BY ClosingSteps, PassingSteps, HandoverSteps, InsertStepped, FlowSteps, FindStep, DecideStep,
   ArriveStepped, OtherStepped DEF Next, Step

-----------------------------------------------------------------------------
(* The theorems.                                                           *)

LEMMA InitSerial == Init => SInv /\ Charged
<1> SUFFICES ASSUME Init PROVE SInv /\ Charged
  OBVIOUS
<1>1. IInv
  BY InitInv
<1>2. \A h \in Handlers : proc[h].pc = "idle" /\ proc[h].req = NoRequest
  BY DEF Init, Idle
<1>3. Alone /\ AllFit
  BY <1>2, NullAssumption DEF Alone, AllFit
<1>4. Charged
  BY <1>2, NullAssumption DEF Init, Charged, Net, Due
<1> QED BY <1>1, <1>3, <1>4 DEF SInv

LEMMA NextSerial == Serial /\ SInv /\ [Next]_vars => SInv'
<1> SUFFICES ASSUME Serial, SInv, [Next]_vars PROVE SInv'
  OBVIOUS
<1>1. IInv'
  BY NextInv DEF SInv
<1>2. Alone' /\ AllFit'
  BY AdministerStep, ArriveStep, StepKeeps, CrashKeeps DEF Kept, Next
<1> QED BY <1>1, <1>2 DEF SInv

LEMMA NextCharged == Serial /\ ~Crashes /\ CInv /\ [Next]_vars => CInv'
<1> SUFFICES ASSUME Serial, ~Crashes, CInv, [Next]_vars PROVE CInv'
  OBVIOUS
<1>1. SInv'
  BY NextSerial DEF CInv
<1>2. Charged'
  BY AdministerStep, ArriveStep, StepKeeps DEF CInv, Kept, Next, Crash
<1> QED BY <1>1, <1>2 DEF CInv

\* The invariant says what the property does: the one handler of a request
\* decides what its history owes.
LEMMA ChargedImplies == CInv => ChargedOnce
<1> SUFFICES ASSUME CInv, NEW r \in Requests
             PROVE  /\ Net(r) \in {0, 1}
                    /\ Net(r) = 1 <=> \/ status[r] = "APPROVED" /\ ~Running(r, {"deduct"})
                                      \/ Running(r, {"return"})
  BY DEF ChargedOnce
<1>1. CASE ~Busy(r)
  BY <1>1 DEF CInv, Charged, Busy, Due, Running
<1>2. ASSUME NEW h \in Handlers, proc[h].req = r
      PROVE  /\ Net(r) \in {0, 1}
             /\ Net(r) = 1 <=> \/ status[r] = "APPROVED" /\ ~Running(r, {"deduct"})
                               \/ Running(r, {"return"})
  <2>1. \A k \in Handlers : proc[k].req = r => k = h
    BY <1>2 DEF CInv, SInv, Alone
  <2>2. \A pcs : Running(r, pcs) <=> proc[h].pc \in pcs
    BY <1>2, <2>1 DEF Running
  <2>3. Net(r) = Due(proc[h].pc, status[r])
    BY <1>2 DEF CInv, Charged
  <2>4. proc[h].pc = "deduct" => status[r] = "APPROVED"
    BY <1>2 DEF CInv, SInv, AllFit, Fits
  <2> QED BY <2>2, <2>3, <2>4 DEF Due
<1> QED BY <1>1, <1>2 DEF Busy

\* Charged once, refunded once: when the calls on one request do not overlap
\* and no handler dies, the history of every request is exactly what its status
\* owes, whatever the other requests of the row do meanwhile.
THEOREM ChargeOnce == Serial /\ ~Crashes /\ Spec => []ChargedOnce
<1> DEFINE J == Serial /\ ~Crashes /\ CInv
<1>1. Serial /\ ~Crashes /\ Init => J
  BY InitSerial DEF CInv
<1>2. J /\ [Next]_vars => J'
  BY NextCharged
<1>3. J => ChargedOnce
  BY ChargedImplies
<1> HIDE DEF J
<1> QED BY <1>1, <1>2, <1>3, PTL DEF Spec

\* Refused and cancelled requests stay so, and an approved one can only be
\* cancelled, crashes included, when the calls on one request do not overlap.
THEOREM StatusesFinal == Serial /\ Spec => FinalStatuses
<1> DEFINE J == Serial /\ SInv
           Final == \A r \in Requests : status'[r] # status[r] =>
                        /\ status[r] \notin {"REJECTED", "CANCELLED"}
                        /\ status[r] = "APPROVED" => status'[r] = "CANCELLED"
<1>1. Serial /\ Init => J
  BY InitSerial
<1>2. J /\ [Next]_vars => J'
  BY NextSerial
<1>3. ASSUME J, [Next]_vars PROVE [Final]_vars
  <2> SUFFICES ASSUME NEW h \in Handlers, NEW r \in Requests,
                      CreateInsert(h) \/ RejectStatus(h) \/ EscalateStatus(h)
                        \/ Finalize(h) \/ CancelStatus(h),
                      status'[r] # status[r]
               PROVE  /\ status[r] \notin {"REJECTED", "CANCELLED"}
                      /\ status[r] = "APPROVED" => status'[r] = "CANCELLED"
    <3>1. ASSUME NEW h \in Handlers, Step(h), status' # status
          PROVE  CreateInsert(h) \/ RejectStatus(h) \/ EscalateStatus(h)
                   \/ Finalize(h) \/ CancelStatus(h)
      BY <3>1 DEF Step, CreateCheckConflict, FlowManager, FlowHR, ProcessFindStep, Delegate,
           Decide, CountRemaining, DeductBalance, ApplyEffects, ReleaseReservation,
           CloseSteps, ReturnBalance, UndoEffects, Reassign, EscalateToHR, CarryMarker,
           CarryWrite
    <3>2. ASSUME NEW h \in Handlers, Arrive(h) PROVE status' = status
      BY <3>2 DEF Arrive, CreateCheckBalance, ProcessRead, CancelRead, ReassignRead,
                  RemindRead, CarryRead
    <3>3. ASSUME NEW h \in Handlers, Crash(h) PROVE status' = status
      BY <3>3 DEF Crash
    <3>4. Administer \/ UNCHANGED vars => status' = status
      BY DEF Administer, Accrue, UpdateBalance, vars
    <3> QED BY <1>3, <3>1, <3>2, <3>3, <3>4 DEF Next
  <2>1. proc[h].req \in Requests
    BY <1>3 DEF CreateInsert, RejectStatus, EscalateStatus, Finalize, CancelStatus, At,
                SInv, IInv, InFlight
  <2>2. Fits(proc[h].pc, proc[h].was, status[proc[h].req])
    BY <1>3, <2>1 DEF SInv, AllFit
  <2>3. status \in [Requests -> Statuses]
    BY <1>3 DEF SInv, IInv, TypeOK
  <2>4. r = proc[h].req
    BY <2>3 DEF CreateInsert, RejectStatus, EscalateStatus, Finalize, CancelStatus
  <2> QED BY <2>2, <2>3, <2>4 DEF CreateInsert, RejectStatus, EscalateStatus, Finalize,
                                  CancelStatus, At, Fits
<1> HIDE DEF J
<1> QED BY <1>1, <1>2, <1>3, PTL DEF Spec, FinalStatuses

\* What the invariant says of a request, by its one handler or for want of one.
LEMMA StepsImply == SInv /\ AllStepped /\ ~Crashes => PendingHasDecider /\ ApprovedByAllSteps
<1> SUFFICES ASSUME SInv, AllStepped, ~Crashes, NEW r \in Requests
             PROVE  /\ status[r] = "PENDING" => \/ Busy(r)
                                                \/ Awaits(approvals[r])
                    /\ status[r] = "APPROVED" => Passed(approvals[r])
  BY DEF PendingHasDecider, ApprovedByAllSteps, Awaits, Passed, Open
<1>1. CASE ~Busy(r)
  BY <1>1 DEF AllStepped, Stepped, Whole
<1>2. CASE Busy(r)
  BY <1>2 DEF AllStepped, Stepped, Whole, Busy
<1> QED BY <1>1, <1>2

\* No pending request is stuck: unless its last step was escalated or somebody
\* is at work on it, it has an open step, however its steps are delegated,
\* reassigned and escalated to HR, for any number of requests and people.
THEOREM DeciderExists == Serial /\ ~Crashes /\ Spec => []PendingHasDecider
<1> DEFINE J == Serial /\ ~Crashes /\ SInv /\ AllStepped
<1>1. Serial /\ ~Crashes /\ Init => J
  BY InitSerial, InitStepped
<1>2. J /\ [Next]_vars => J'
  BY NextSerial, NextStepped
<1>3. J => PendingHasDecider
  BY StepsImply
<1> HIDE DEF J
<1> QED BY <1>1, <1>2, <1>3, PTL DEF Spec

\* An approved request has no step that was refused, closed or left open: the
\* count of processApproval decides the request only when every step is decided.
THEOREM ApprovedByAll == Serial /\ ~Crashes /\ Spec => []ApprovedByAllSteps
<1> DEFINE J == Serial /\ ~Crashes /\ SInv /\ AllStepped
<1>1. Serial /\ ~Crashes /\ Init => J
  BY InitSerial, InitStepped
<1>2. J /\ [Next]_vars => J'
  BY NextSerial, NextStepped
<1>3. J => ApprovedByAllSteps
  BY StepsImply
<1> HIDE DEF J
<1> QED BY <1>1, <1>2, <1>3, PTL DEF Spec

\* Only Decide decides an open step.
LEMMA OnlyDecide ==
    ASSUME SInv, [Next]_vars, NEW r \in Requests, NEW l \in Levels, Open(r, l),
           approvals'[r][l].decision \in {"APPROVE", "REJECT", "ESCALATE"}
    PROVE  \E h \in Handlers : Decide(h) /\ proc[h].req = r /\ proc[h].level = l
<1>1. approvals \in [Requests -> [Levels -> Approval]]
  BY DEF SInv, IInv, TypeOK
<1>2. approvals'[r][l].decision # "OPEN" /\ approvals' # approvals
  BY DEF Open
<1>3. PICK h \in Handlers :
          FlowManager(h) \/ FlowHR(h) \/ Delegate(h) \/ Decide(h) \/ CloseSteps(h)
            \/ Reassign(h) \/ EscalateToHR(h)
  <2>1. ASSUME NEW h \in Handlers, Arrive(h) PROVE approvals' = approvals
    BY <2>1 DEF Arrive, CreateCheckBalance, ProcessRead, CancelRead, ReassignRead,
                RemindRead, CarryRead
  <2>2. ASSUME NEW h \in Handlers, Crash(h) PROVE approvals' = approvals
    BY <2>2 DEF Crash
  <2>3. Administer \/ UNCHANGED vars => approvals' = approvals
    BY DEF Administer, Accrue, UpdateBalance, vars
  <2>4. ASSUME NEW h \in Handlers, Step(h), approvals' # approvals
        PROVE  FlowManager(h) \/ FlowHR(h) \/ Delegate(h) \/ Decide(h) \/ CloseSteps(h)
                 \/ Reassign(h) \/ EscalateToHR(h)
    BY <2>4 DEF Step, CreateCheckConflict, CreateInsert, ProcessFindStep, RejectStatus,
         EscalateStatus, CountRemaining, Finalize, DeductBalance, ApplyEffects,
         ReleaseReservation, CancelStatus, ReturnBalance, UndoEffects, CarryMarker,
         CarryWrite
  <2> QED BY <1>2, <2>1, <2>2, <2>3, <2>4 DEF Next
<1> DEFINE q == proc[h].req
           k == proc[h].level
<1>4. q \in Requests /\ k \in Levels
  <2>1. proc[h].pc \in {"flow", "delegate", "decide", "closeSteps", "reassign", "escalate"}
    BY <1>3 DEF FlowManager, FlowHR, Delegate, Decide, CloseSteps, Reassign, EscalateToHR, At
  <2> QED BY <2>1 DEF SInv, IInv, InFlight, TypeOK, Flight
<1>5. \A a : StepFor(a).decision = "OPEN"
  BY DEF StepFor
<1>6. approvals[r][l] \in Approval /\ approvals[q][k] \in Approval
  BY <1>1, <1>4
\* A step that stays as it was, or is written open, is not decided.
<1>7. ASSUME NEW s \in Requests, NEW j \in Levels, NEW a,
             approvals' = [approvals EXCEPT ![s][j] = a],
             a.decision \in {"OPEN", approvals[s][j].decision}
      PROVE  FALSE
  BY <1>1, <1>2, <1>7 DEF Open
<1>8. CASE FlowManager(h) \/ FlowHR(h)
  <2>1. PICK j \in Levels, a \in Users \cup {NoOne} :
            approvals' = [approvals EXCEPT ![q][j] = StepFor(a)]
    BY <1>2, <1>8, PeopleAssumption DEF FlowManager, FlowHR, Levels, Users
  <2> QED BY <1>4, <1>5, <1>7, <2>1
<1>9. CASE Delegate(h)
  <2>1. PICK to \in Users : approvals' = [approvals EXCEPT ![q][k] =
                                [@ EXCEPT !.approver = to, !.decision = "OPEN"]]
    BY <1>9 DEF Delegate
  <2> DEFINE a == [approvals[q][k] EXCEPT !.approver = to, !.decision = "OPEN"]
  <2>2. approvals' = [approvals EXCEPT ![q][k] = a]
    BY <1>1, <1>4, <2>1
  <2>3. a.decision = "OPEN"
    BY <1>6 DEF Approval
  <2> HIDE DEF a
  <2> QED BY <1>4, <1>7, <2>2, <2>3
<1>10. CASE Reassign(h)
  <2>1. PICK to \in Approvers : approvals' = [approvals EXCEPT ![q][k].approver = to]
    BY <1>10 DEF Reassign
  <2> DEFINE a == [approvals[q][k] EXCEPT !.approver = to]
  <2>2. approvals' = [approvals EXCEPT ![q][k] = a]
    BY <1>1, <1>4, <2>1
  <2>3. a.decision = approvals[q][k].decision
    BY <1>6 DEF Approval
  <2> HIDE DEF a
  <2> QED BY <1>4, <1>7, <2>2, <2>3
<1>11. CASE EscalateToHR(h)
  <2>1. PICK hr \in HRs : approvals' = [approvals EXCEPT ![q][k] =
                              [@ EXCEPT !.approver = hr, !.escalated = TRUE]]
    BY <1>11 DEF EscalateToHR
  <2> DEFINE a == [approvals[q][k] EXCEPT !.approver = hr, !.escalated = TRUE]
  <2>2. approvals' = [approvals EXCEPT ![q][k] = a]
    BY <1>1, <1>4, <2>1
  <2>3. a.decision = approvals[q][k].decision
    BY <1>6 DEF Approval
  <2> HIDE DEF a
  <2> QED BY <1>4, <1>7, <2>2, <2>3
<1>12. CASE CloseSteps(h)
  <2>1. r = q => approvals'[r][l].decision = "CANCELLED"
    <3>1. approvals'[q] = ClosedSteps(q)
      BY <1>1, <1>4, <1>12 DEF CloseSteps
    <3>2. Open(q, l) => ClosedSteps(q)[l] = [approvals[q][l] EXCEPT !.decision = "CANCELLED"]
      BY DEF ClosedSteps
    <3> QED BY <1>6, <3>1, <3>2 DEF Approval
  <2>2. r # q => approvals'[r] = approvals[r]
    BY <1>1, <1>12 DEF CloseSteps
  <2> QED BY <1>2, <2>1, <2>2 DEF Open
<1>13. CASE Decide(h)
  <2>1. approvals' = [approvals EXCEPT ![q][k].decision = proc[h].act]
    BY <1>13 DEF Decide
  <2>2. r = q /\ l = k
    BY <1>1, <1>2, <1>4, <2>1 DEF Open
  <2> QED BY <1>13, <2>2
<1> QED BY <1>3, <1>8, <1>9, <1>10, <1>11, <1>12, <1>13

\* HR decides after the manager, crashes included: a step is decided only when
\* none before it is open, whoever its approver has become.
THEOREM StepsInTurn == Serial /\ Spec => SequentialDecisions
<1> DEFINE J == Serial /\ SInv /\ AllStepped
           InTurn == \A r \in Requests, l \in Levels :
               approvals'[r][l] # approvals[r][l]
                 /\ approvals'[r][l].decision \in {"APPROVE", "REJECT", "ESCALATE"}
                 /\ Open(r, l)
               => ~EarlierOpen(r, l)
<1>1. Serial /\ Init => J
  BY InitSerial, InitStepped
<1>2. J /\ [Next]_vars => J'
  BY NextSerial, NextStepped
<1>3. J /\ [Next]_vars => [InTurn]_vars
  <2> SUFFICES ASSUME J, [Next]_vars, NEW r \in Requests, NEW l \in Levels, Open(r, l),
                      approvals'[r][l].decision \in {"APPROVE", "REJECT", "ESCALATE"}
               PROVE  ~EarlierOpen(r, l)
    OBVIOUS
  <2>1. PICK h \in Handlers : Decide(h) /\ proc[h].req = r /\ proc[h].level = l
    BY OnlyDecide
  <2>2. proc[h].pc = "decide"
    BY <2>1 DEF Decide, At
  <2>3. Turn("decide", l, approvals[r])
    BY <2>1, <2>2 DEF AllStepped, Stepped
  <2> QED BY <2>3 DEF Turn, EarlierOpen, Open
<1> HIDE DEF J
<1> QED BY <1>1, <1>2, <1>3, PTL DEF Spec, SequentialDecisions

-----------------------------------------------------------------------------
(* The account.  What a request has of it is decided by its status and its *)
(* handler, so a step of a handler moves the claim of one request.         *)

Claim == [r \in Requests |->
             CASE r \in Held  -> "held"
               [] Net(r) = 1  -> "spent"
               [] Net(r) # 1 /\ r \notin Held
                    /\ (status[r] \in {"NONE", "DRAFT"} \/ Running(r, {"deduct"}))
                    -> "free"
               [] OTHER -> "closed"]

\* The claim of request r with status st, whose handler is at pc.  A request
\* that is approved at submission is charged without a reservation.
Stage(r, pc, st) ==
    IF st = "PENDING" \/ pc = "release" \/ (pc = "deduct" /\ r \notin AutoApproved)
      THEN "held"
    ELSE IF Due(pc, st) = 1 THEN "spent"
    ELSE IF st \in {"NONE", "DRAFT"} \/ pc = "deduct" THEN "free" ELSE "closed"

Staged ==
    \A r \in Requests :
        /\ Claim[r] = "held" <=> r \in Held
        /\ ~Busy(r) => Claim[r] = Stage(r, "idle", status[r])
        /\ \A h \in Handlers : proc[h].req = r =>
               Claim[r] = Stage(r, proc[h].pc, status[r])

LEMMA ClaimStaged == CInv => Staged
<1> SUFFICES ASSUME CInv, NEW r \in Requests
             PROVE  /\ Claim[r] = "held" <=> r \in Held
                    /\ ~Busy(r) => Claim[r] = Stage(r, "idle", status[r])
                    /\ \A h \in Handlers : proc[h].req = r =>
                           Claim[r] = Stage(r, proc[h].pc, status[r])
  BY DEF Staged
<1>1. Claim[r] = IF r \in Held THEN "held" ELSE IF Net(r) = 1 THEN "spent"
                 ELSE IF status[r] \in {"NONE", "DRAFT"} \/ Running(r, {"deduct"})
                   THEN "free" ELSE "closed"
  <2>1. Claim[r] = CASE r \in Held  -> "held"
                     [] Net(r) = 1  -> "spent"
                     [] Net(r) # 1 /\ r \notin Held
                          /\ (status[r] \in {"NONE", "DRAFT"} \/ Running(r, {"deduct"}))
                          -> "free"
                     [] OTHER -> "closed"
    BY DEF Claim
  <2>2. r \in Held => Net(r) # 1
    <3>1. ASSUME NEW h \in Handlers, proc[h].req = r, r \in Held PROVE Net(r) # 1
      <4>1. \A k \in Handlers : proc[k].req = r => k = h
        BY <3>1 DEF CInv, SInv, Alone
      <4>2. status[r] = "PENDING" \/ proc[h].pc \in {"release", "deduct"}
        BY <3>1, <4>1 DEF Held, Running
      <4>3. Fits(proc[h].pc, proc[h].was, status[r]) /\ Net(r) = Due(proc[h].pc, status[r])
        BY <3>1 DEF CInv, SInv, AllFit, Charged
      <4> QED
        BY <4>2, <4>3 DEF Fits, Due
    <3>2. CASE ~Busy(r) /\ r \in Held
      BY <3>2 DEF CInv, Charged, Due, Held, Running, Busy
    <3> QED
      BY <3>1, <3>2 DEF Busy
  <2> QED
    BY <2>1, <2>2
<1>2. ASSUME ~Busy(r) PROVE Claim[r] = Stage(r, "idle", status[r])
  <2>1. (r \in Held <=> status[r] = "PENDING") /\ ~Running(r, {"deduct"})
    BY <1>2 DEF Held, Running, Busy
  <2>2. Net(r) = Due("idle", status[r])
    BY <1>2 DEF CInv, Charged
  <2> QED
    BY <1>1, <2>1, <2>2 DEF Stage
<1>3. ASSUME NEW h \in Handlers, proc[h].req = r
      PROVE  Claim[r] = Stage(r, proc[h].pc, status[r])
  <2>1. \A k \in Handlers : proc[k].req = r => k = h
    BY <1>3 DEF CInv, SInv, Alone
  <2>2. /\ r \in Held <=> \/ status[r] = "PENDING" \/ proc[h].pc = "release"
                          \/ proc[h].pc = "deduct" /\ r \notin AutoApproved
        /\ Running(r, {"deduct"}) <=> proc[h].pc = "deduct"
    BY <1>3, <2>1 DEF Held, Running
  <2>3. Net(r) = Due(proc[h].pc, status[r])
    BY <1>3 DEF CInv, Charged
  <2> QED
    BY <1>1, <2>2, <2>3 DEF Stage
<1> QED
  BY <1>1, <1>2, <1>3

\* One step of the handler of request q.
LEMMA OneClaim ==
    ASSUME CInv, CInv', Staged, Staged', NEW h \in Handlers,
           NEW q \in Requests, proc[h].req = q, proc'[h].req \in {q, NoRequest},
           \A k \in Handlers : k # h => proc'[k] = proc[k],
           \A s \in Requests : s # q => status'[s] = status[s]
    PROVE  /\ Claim[q] = Stage(q, proc[h].pc, status[q])
           /\ Claim' = [Claim EXCEPT ![q] = Stage(q, proc'[h].pc, status'[q])]
<1>1. Claim[q] = Stage(q, proc[h].pc, status[q])
  BY DEF Staged
<1>2. Claim'[q] = Stage(q, proc'[h].pc, status'[q])
  <2>1. CASE proc'[h].req = q
    BY <2>1 DEF Staged
  <2>2. CASE proc'[h].req = NoRequest
    <3>1. proc'[h].pc \in {"idle", "marker", "carry"}
      BY <2>2 DEF CInv, SInv, Alone
    <3>2. ~Busy(q)'
      BY <2>2, NullAssumption DEF Busy, CInv, SInv, Alone
    <3>3. Claim'[q] = Stage(q, "idle", status'[q])
      BY <3>2 DEF Staged
    <3> QED
      BY <3>1, <3>3 DEF Stage, Due
  <2> QED
    BY <2>1, <2>2
<1>3. ASSUME NEW s \in Requests, s # q PROVE Claim'[s] = Claim[s]
  <2>1. CASE ~Busy(s)
    <3>1. ~Busy(s)'
      BY <1>3, <2>1, NullAssumption DEF Busy
    <3> QED
      BY <1>3, <2>1, <3>1 DEF Staged
  <2>2. ASSUME NEW k \in Handlers, proc[k].req = s PROVE Claim'[s] = Claim[s]
    <3>1. k # h /\ proc'[k] = proc[k]
      BY <1>3, <2>2
    <3> QED
      BY <1>3, <2>2, <3>1 DEF Staged
  <2> QED
    BY <2>1, <2>2 DEF Busy
<1>4. Claim = [r \in Requests |-> Claim[r]] /\ Claim' = [r \in Requests |-> Claim'[r]]
  BY DEF Claim
<1> QED
  BY <1>1, <1>2, <1>3, <1>4

\* Only a request that its type does not approve at submission is ever
\* pending, and only one that it approves is inserted approved.
NotAuto ==
    /\ \A h \in Handlers : proc[h].pc \in {"conflict", "insert"} =>
           /\ proc[h].was = "APPROVED" => proc[h].req \in AutoApproved
           /\ proc[h].was = "PENDING"  => proc[h].req \notin AutoApproved
    /\ \A r \in Requests : status[r] = "PENDING" => r \notin AutoApproved

\* What a step does to the account and to the column "reserved".  A settled
\* hold gives back what it finds reserved of its days.
Turns(q, from, to) == Claim[q] = from /\ Claim' = [Claim EXCEPT ![q] = to]
Found(q)           == Smaller(row.reserved, Days[q])

Posting ==
    \/ Claim' = Claim /\ UNCHANGED <<Available, row.reserved, Unreserved>>
    \/ \E q \in Requests :
         \/ /\ Turns(q, "free", "held") /\ Days[q] <= Available
            /\ Available' = Available - Days[q] /\ row'.reserved = row.reserved + Days[q]
            /\ UNCHANGED Unreserved
         \/ /\ Turns(q, "held", "spent") /\ row'.reserved = row.reserved - Found(q)
            /\ Available' = Available - (Days[q] - Found(q)) /\ UNCHANGED Unreserved
         \/ /\ Turns(q, "held", "closed") /\ row'.reserved = row.reserved - Found(q)
            /\ Available' = Available + Found(q) /\ UNCHANGED Unreserved
         \/ /\ Turns(q, "spent", "closed") /\ row'.reserved = row.reserved
            /\ Available' = Available + Days[q] /\ UNCHANGED Unreserved
         \/ /\ Turns(q, "free", "closed")
            /\ UNCHANGED <<Available, row.reserved, Unreserved>>
         \/ /\ Turns(q, "free", "spent") /\ q \in AutoApproved
            /\ row'.reserved = row.reserved - Found(q)
            /\ Available' = Available - (Days[q] - Found(q))
            /\ Unreserved' = Unreserved \cup {q}

\* Calls and the administration.
Idling == Claim' = Claim /\ row'.reserved = row.reserved /\ UNCHANGED Unreserved

\* The request and the handler of a step, and where the handler goes.
LEMMA Moved ==
    ASSUME SInv, NEW h \in Handlers
    PROVE  /\ \A pc : Goto(h, pc) => proc'[h].pc = pc /\ proc'[h].req = proc[h].req
                                     /\ \A k \in Handlers : k # h => proc'[k] = proc[k]
           /\ Return(h) => proc'[h].pc = "idle" /\ proc'[h].req = NoRequest
                           /\ \A k \in Handlers : k # h => proc'[k] = proc[k]
BY DEF SInv, IInv, TypeOK, Flight, Goto, Return, Idle

\* Statements that leave the request where it was in the account.
LEMMA SameStage ==
    ASSUME CInv, CInv', Staged, Staged', NotAuto, NEW h \in Handlers,
           CreateCheckConflict(h) \/ FlowManager(h) \/ FlowHR(h) \/ ProcessFindStep(h)
             \/ Delegate(h) \/ Decide(h) \/ RejectStatus(h) \/ EscalateStatus(h)
             \/ CountRemaining(h) \/ Finalize(h) \/ ApplyEffects(h) \/ CloseSteps(h)
             \/ UndoEffects(h) \/ Reassign(h) \/ EscalateToHR(h)
    PROVE  Posting
<1>1. PICK q \in Requests : proc[h].req = q
  BY DEF CreateCheckConflict, FlowManager, FlowHR, ProcessFindStep, Delegate, Decide,
         RejectStatus, EscalateStatus, CountRemaining, Finalize, ApplyEffects, CloseSteps,
         UndoEffects, Reassign, EscalateToHR, At, CInv, SInv, IInv, InFlight
<1>2. Fits(proc[h].pc, proc[h].was, status[q])
  BY <1>1 DEF CInv, SInv, AllFit
<1>3. row' = row /\ usage' = usage
  BY DEF CreateCheckConflict, FlowManager, FlowHR, ProcessFindStep, Delegate, Decide,
         RejectStatus, EscalateStatus, CountRemaining, Finalize, ApplyEffects, CloseSteps,
         UndoEffects, Reassign, EscalateToHR
<1>4. status \in [Requests -> Statuses] /\ proc \in [Handlers -> Flight] /\ SInv
  BY DEF CInv, SInv, IInv, TypeOK
<1>5. \A s \in Requests : s # q => status'[s] = status[s]
  BY <1>1, <1>4
     DEF CreateCheckConflict, FlowManager, FlowHR, ProcessFindStep, Delegate, Decide,
         RejectStatus, EscalateStatus, CountRemaining, Finalize, ApplyEffects, CloseSteps,
         UndoEffects, Reassign, EscalateToHR
<1>6. ASSUME proc'[h].req \in {q, NoRequest},
             \A k \in Handlers : k # h => proc'[k] = proc[k],
             Stage(q, proc'[h].pc, status'[q]) = Stage(q, proc[h].pc, status[q])
      PROVE  Posting
  <2>1. Claim' = [Claim EXCEPT ![q] = Claim[q]]
    BY <1>1, <1>5, <1>6, OneClaim
  <2>2. Claim' = Claim
    BY <2>1 DEF Claim
  <2> QED
    BY <1>3, <2>2 DEF Posting, Available, Unreserved
<1>7. CASE FlowManager(h) \/ FlowHR(h) \/ ProcessFindStep(h) \/ Delegate(h) \/ Decide(h)
             \/ CountRemaining(h) \/ Reassign(h) \/ EscalateToHR(h) \/ EscalateStatus(h)
  <2>1. status[q] = "PENDING" /\ status'[q] = "PENDING"
    BY <1>1, <1>2, <1>4, <1>7
       DEF FlowManager, FlowHR, ProcessFindStep, Delegate, Decide, CountRemaining, Reassign,
           EscalateToHR, EscalateStatus, At, Fits
  <2>2. CASE ~(FlowManager(h) \/ ProcessFindStep(h))
    <3>1. Return(h) \/ \E pc \in PCs : Goto(h, pc)
      BY <1>7, <2>2 DEF FlowHR, Delegate, Decide, CountRemaining, Reassign, EscalateToHR,
                        EscalateStatus, PCs
    <3> QED
      BY <1>1, <1>4, <1>6, <2>1, <3>1, Moved DEF Stage
  <2>3. CASE FlowManager(h) \/ ProcessFindStep(h)
    <3>1. \/ Return(h)
          \/ /\ proc'[h].req = q /\ \A k \in Handlers : k # h => proc'[k] = proc[k]
      BY <1>1, <1>4, <2>3 DEF FlowManager, ProcessFindStep, Flight
    <3> QED
      BY <1>1, <1>4, <1>6, <2>1, <3>1, Moved DEF Stage
  <2> QED
    BY <2>2, <2>3
<1>8. CASE CreateCheckConflict(h)
  <2>1. proc[h].pc = "conflict" /\ status[q] = "NONE" /\ status'[q] = "NONE"
    BY <1>1, <1>2, <1>8 DEF CreateCheckConflict, At, Fits
  <2>2. Return(h) \/ Goto(h, "insert")
    BY <1>8 DEF CreateCheckConflict
  <2> QED
    BY <1>1, <1>4, <1>6, <2>1, <2>2, Moved DEF Stage, Due
<1>9. CASE RejectStatus(h) \/ Finalize(h)
  <2>1. status[q] = "PENDING" /\ q \notin AutoApproved
    BY <1>1, <1>2, <1>9 DEF RejectStatus, Finalize, At, Fits, NotAuto
  <2>2. Goto(h, "release") \/ Goto(h, "deduct")
    BY <1>9 DEF RejectStatus, Finalize
  <2> QED
    BY <1>1, <1>4, <1>6, <2>1, <2>2, Moved DEF Stage
<1>10. CASE ApplyEffects(h) \/ CloseSteps(h) \/ UndoEffects(h)
  <2>1. /\ status'[q] = status[q] /\ status[q] \in {"APPROVED", "REJECTED", "CANCELLED"}
        /\ proc[h].pc \in {"effects", "closeSteps", "undoEffects"}
        /\ status[q] = "APPROVED" => proc[h].pc = "effects"
    BY <1>1, <1>2, <1>10 DEF ApplyEffects, CloseSteps, UndoEffects, At, Fits
  <2>2. Return(h) \/ Goto(h, "closeSteps")
    BY <1>10 DEF ApplyEffects, CloseSteps, UndoEffects
  <2> QED
    BY <1>1, <1>4, <1>6, <2>1, <2>2, Moved DEF Stage, Due
<1> QED
  BY <1>7, <1>8, <1>9, <1>10

\* Statements that move the claim of their request.
LEMMA MovesClaim ==
    ASSUME Limited, CInv, CInv', Staged, Staged', NotAuto,
           NEW h \in Handlers,
           CreateInsert(h) \/ DeductBalance(h) \/ ReleaseReservation(h) \/ CancelStatus(h)
             \/ ReturnBalance(h)
    PROVE  Posting
<1>1. PICK q \in Requests : proc[h].req = q
  BY DEF CreateInsert, DeductBalance, ReleaseReservation, CancelStatus, ReturnBalance, At,
         CInv, SInv, IInv, InFlight
<1>2. Fits(proc[h].pc, proc[h].was, status[q])
  BY <1>1 DEF CInv, SInv, AllFit
<1>3. /\ status \in [Requests -> Statuses] /\ proc \in [Handlers -> Flight] /\ SInv
      /\ row \in Balance /\ row.balance \in Int /\ row.reserved \in Int /\ Days[q] \in Nat
  BY CostNat DEF CInv, SInv, IInv, TypeOK, Balance
<1>4. \A s \in Requests : s # q => status'[s] = status[s]
  BY <1>1, <1>3
     DEF CreateInsert, DeductBalance, ReleaseReservation, CancelStatus, ReturnBalance
<1>5. ASSUME NEW pc \in PCs, proc'[h].pc = pc, proc'[h].req \in {q, NoRequest},
             \A k \in Handlers : k # h => proc'[k] = proc[k]
      PROVE  Turns(q, Stage(q, proc[h].pc, status[q]), Stage(q, pc, status'[q]))
  BY <1>1, <1>4, <1>5, OneClaim DEF Turns
<1>6. ASSUME ~DeductBalance(h) PROVE Unreserved' = Unreserved
  BY <1>6 DEF CreateInsert, ReleaseReservation, CancelStatus, ReturnBalance, Unreserved
<1>7. CASE CreateInsert(h)
  <2>1. /\ proc[h].pc = "insert" /\ status[q] = "NONE"
        /\ proc[h].was \in {"DRAFT", "PENDING", "APPROVED"}
        /\ proc[h].was = "APPROVED" => q \in AutoApproved
    BY <1>1, <1>2, <1>7 DEF CreateInsert, At, Fits, NotAuto
  <2> Unreserved' = Unreserved
    BY <1>6, <2>1 DEF DeductBalance, At
  <2>2. CASE proc[h].was = "PENDING" /\ ~(Days[q] > Available)
    <3>1. /\ status'[q] = "PENDING" /\ Goto(h, "flow")
          /\ row' = [row EXCEPT !.reserved = row.reserved + Days[q]]
      BY <1>1, <1>3, <1>7, <2>1, <2>2 DEF CreateInsert
    <3>2. Turns(q, "free", "held")
      <4>1. Turns(q, Stage(q, proc[h].pc, status[q]), Stage(q, "flow", status'[q]))
        BY <1>1, <1>3, <1>5, <3>1, Moved DEF PCs
      <4> QED
        BY <2>1, <3>1, <4>1 DEF Stage, Due
    <3>3. /\ Days[q] <= Available /\ Available' = Available - Days[q]
          /\ row'.reserved = row.reserved + Days[q]
      BY <1>3, <2>2, <3>1 DEF Available, Balance
    <3> QED
      BY <3>2, <3>3 DEF Posting
  <2>3. CASE ~(proc[h].was = "PENDING" /\ ~(Days[q] > Available))
    <3>1. /\ row' = row
          /\ \/ Return(h) /\ status'[q] \in {"NONE", "DRAFT"}
             \/ Goto(h, "deduct") /\ status'[q] = "APPROVED" /\ q \in AutoApproved
      BY <1>1, <1>3, <1>7, <2>1, <2>3 DEF CreateInsert
    <3>2. Turns(q, "free", "free")
      <4>1. CASE Return(h) /\ status'[q] \in {"NONE", "DRAFT"}
        <5>1. Turns(q, Stage(q, proc[h].pc, status[q]), Stage(q, "idle", status'[q]))
          BY <1>1, <1>3, <1>5, <4>1, Moved DEF PCs
        <5> QED
          BY <2>1, <4>1, <5>1 DEF Stage, Due
      <4>2. CASE Goto(h, "deduct") /\ status'[q] = "APPROVED" /\ q \in AutoApproved
        <5>1. Turns(q, Stage(q, proc[h].pc, status[q]), Stage(q, "deduct", status'[q]))
          BY <1>1, <1>3, <1>5, <4>2, Moved DEF PCs
        <5> QED
          BY <2>1, <4>2, <5>1 DEF Stage, Due
      <4> QED
        BY <3>1, <4>1, <4>2
    <3>3. Claim' = Claim
      BY <3>2 DEF Turns, Claim
    <3> QED
      BY <3>1, <3>3 DEF Posting, Available
  <2> QED
    BY <2>2, <2>3
<1>8. CASE DeductBalance(h)
  <2>1. proc[h].pc = "deduct" /\ status[q] = "APPROVED" /\ status'[q] = "APPROVED"
    BY <1>1, <1>2, <1>8 DEF DeductBalance, At, Fits
  <2>2. Goto(h, "effects")
    BY <1>8 DEF DeductBalance
  <2>3. Turns(q, Stage(q, proc[h].pc, status[q]), Stage(q, "effects", status'[q]))
    BY <1>1, <1>3, <1>5, <2>2, Moved DEF PCs
  <2>4. /\ row'.balance = row.balance - Days[q] /\ row'.reserved = row.reserved - Found(q)
        /\ usage' = [usage EXCEPT ![q] = @ + 1]
    BY <1>1, <1>8 DEF DeductBalance, Found
  <2>5. Found(q) \in Int /\ usage \in [Requests -> Nat]
    BY <1>3 DEF Found, Smaller, CInv, SInv, IInv, TypeOK
  <2>6. Available' = Available - (Days[q] - Found(q))
    BY <1>3, <2>4, <2>5 DEF Available
  <2>7. CASE q \notin AutoApproved
    <3>1. Turns(q, "held", "spent")
      BY <2>1, <2>3, <2>7 DEF Stage, Due
    <3>2. Unreserved' = Unreserved
      BY <2>4, <2>5, <2>7, FlagAssumption DEF Unreserved
    <3> QED
      BY <2>4, <2>6, <3>1, <3>2 DEF Posting
  <2>8. CASE q \in AutoApproved
    <3>1. Turns(q, "free", "spent")
      BY <2>1, <2>3, <2>8 DEF Stage, Due
    <3>2. Unreserved' = Unreserved \cup {q}
      BY <2>4, <2>5, <2>8, FlagAssumption DEF Unreserved
    <3> QED
      BY <2>4, <2>6, <2>8, <3>1, <3>2 DEF Posting
  <2> QED
    BY <2>7, <2>8
<1>9. CASE ReleaseReservation(h)
  <2>1. /\ proc[h].pc = "release" /\ status[q] \in {"REJECTED", "CANCELLED"}
        /\ status'[q] = status[q]
    BY <1>1, <1>2, <1>9 DEF ReleaseReservation, At, Fits
  <2>2. Goto(h, "closeSteps")
    BY <1>9 DEF ReleaseReservation
  <2>3. Turns(q, Stage(q, proc[h].pc, status[q]), Stage(q, "closeSteps", status'[q]))
    BY <1>1, <1>3, <1>5, <2>2, Moved DEF PCs
  <2>4. Turns(q, "held", "closed")
    BY <2>1, <2>3 DEF Stage, Due
  <2>5. row'.balance = row.balance /\ row'.reserved = row.reserved - Found(q)
    BY <1>1, <1>3, <1>9 DEF ReleaseReservation, Found, Balance
  <2>6. Found(q) \in Int
    BY <1>3 DEF Found, Smaller
  <2>7. Available' = Available + Found(q)
    BY <1>3, <2>5, <2>6 DEF Available
  <2>8. Unreserved' = Unreserved
    BY <1>9 DEF ReleaseReservation, Unreserved
  <2> QED
    BY <2>4, <2>5, <2>7, <2>8 DEF Posting
<1>10. CASE CancelStatus(h)
  <2>1. /\ proc[h].pc = "cancelStatus" /\ status[q] = proc[h].was
        /\ status[q] \in {"DRAFT", "PENDING", "APPROVED"} /\ status'[q] = "CANCELLED"
    BY <1>1, <1>2, <1>3, <1>10 DEF CancelStatus, At, Fits
  <2>2. row' = row /\ Unreserved' = Unreserved
    BY <1>10 DEF CancelStatus, Unreserved
  <2> DEFINE next == CASE status[q] = "APPROVED" -> "return"
                       [] status[q] = "PENDING"  -> "release"
                       [] OTHER                  -> "closeSteps"
  <2>3. Goto(h, next) /\ next \in PCs
    BY <1>10, <2>1 DEF CancelStatus, PCs
  <2>4. Turns(q, Stage(q, "cancelStatus", status[q]), Stage(q, next, "CANCELLED"))
    BY <1>1, <1>3, <1>5, <2>1, <2>3, Moved
  <2>5. CASE status[q] = "DRAFT"
    <3>1. Turns(q, "free", "closed")
      BY <2>4, <2>5 DEF Stage, Due
    <3> QED
      BY <2>2, <3>1 DEF Posting, Available
  <2>6. CASE status[q] # "DRAFT"
    <3>1. Stage(q, "cancelStatus", status[q]) = Stage(q, next, "CANCELLED")
      BY <2>1, <2>6 DEF Stage, Due
    <3>2. Claim' = Claim
      BY <2>4, <3>1 DEF Turns, Claim
    <3> QED
      BY <2>2, <3>2 DEF Posting, Available
  <2> QED
    BY <2>5, <2>6
<1>11. CASE ReturnBalance(h)
  <2>1. proc[h].pc = "return" /\ status[q] = "CANCELLED" /\ status'[q] = "CANCELLED"
    BY <1>1, <1>2, <1>11 DEF ReturnBalance, At, Fits
  <2>2. Goto(h, "undoEffects")
    BY <1>11 DEF ReturnBalance
  <2>3. Turns(q, Stage(q, proc[h].pc, status[q]), Stage(q, "undoEffects", status'[q]))
    BY <1>1, <1>3, <1>5, <2>2, Moved DEF PCs
  <2>4. Turns(q, "spent", "closed")
    BY <2>1, <2>3 DEF Stage, Due
  <2>5. row'.balance = row.balance + Days[q] /\ row'.reserved = row.reserved
    BY <1>1, <1>11 DEF ReturnBalance
  <2>6. Available' = Available + Days[q]
    BY <1>3, <2>5 DEF Available
  <2>7. Unreserved' = Unreserved
    BY <1>11 DEF ReturnBalance, Unreserved
  <2> QED
    BY <2>4, <2>5, <2>6, <2>7 DEF Posting
<1> QED
  BY <1>7, <1>8, <1>9, <1>10, <1>11

\* A call, the carry-over and the administration move no claim.
LEMMA ClaimsStay ==
    ASSUME Serial, CInv, CInv', Staged, Staged',
           \/ \E h \in Handlers : Arrive(h) \/ CarryMarker(h) \/ CarryWrite(h)
           \/ Administer \/ UNCHANGED vars
    PROVE  Idling
<1>1. proc \in [Handlers -> Flight] /\ row \in Balance /\ SInv
  BY DEF CInv, SInv, IInv, TypeOK
<1>2. Claim = [r \in Requests |-> Claim[r]] /\ Claim' = [r \in Requests |-> Claim'[r]]
  BY DEF Claim
<1>3. CASE Administer \/ UNCHANGED vars
  <2>1. UNCHANGED <<status, usage, reversal, proc>> /\ row'.reserved = row.reserved
    BY <1>1, <1>3 DEF Administer, Accrue, UpdateBalance, vars, Balance
  <2>2. Claim' = Claim
    BY <2>1 DEF Claim, Held, Running, Net
  <2> QED
    BY <2>1, <2>2 DEF Idling, Unreserved
<1>4. ASSUME NEW h \in Handlers, CarryMarker(h) \/ CarryWrite(h)
      PROVE  Idling
  <2>1. proc[h].req = NoRequest
    BY <1>4 DEF CarryMarker, CarryWrite, At, CInv, SInv, Alone
  <2>2. status' = status /\ row'.reserved = row.reserved /\ usage' = usage
    BY <1>4 DEF CarryMarker, CarryWrite
  <2>3. /\ proc'[h].req = NoRequest
        /\ \A k \in Handlers : k # h => proc'[k] = proc[k]
    BY <1>1, <1>4, <2>1, Moved DEF CarryMarker, CarryWrite
  <2>4. ASSUME NEW s \in Requests PROVE Claim'[s] = Claim[s]
    <3>1. CASE ~Busy(s)
      <4>1. ~Busy(s)'
        BY <2>1, <2>3, <3>1, NullAssumption DEF Busy
      <4> QED
        BY <2>2, <3>1, <4>1 DEF Staged
    <3>2. ASSUME NEW k \in Handlers, proc[k].req = s PROVE Claim'[s] = Claim[s]
      <4>1. proc'[k] = proc[k]
        BY <2>1, <2>3, <3>2, NullAssumption
      <4> QED
        BY <2>2, <3>2, <4>1 DEF Staged
    <3> QED
      BY <3>1, <3>2 DEF Busy
  <2> QED
    BY <1>2, <2>2, <2>4 DEF Idling, Unreserved
<1>5. ASSUME NEW h \in Handlers, Arrive(h) PROVE Idling
  <2>1. status' = status /\ row' = row /\ usage' = usage /\ proc[h].req = NoRequest
    BY <1>5 DEF Arrive, CreateCheckBalance, ProcessRead, CancelRead, ReassignRead,
                RemindRead, CarryRead, Call, At, CInv, SInv, Alone
  <2>2. /\ \A k \in Handlers : k # h => proc'[k] = proc[k]
        /\ proc'[h].pc \in {"conflict", "mine", "cancelStatus", "reassign", "escalate",
                            "marker"}
        /\ proc'[h].req \in Requests => ~Busy(proc'[h].req)
    <3>1. ASSUME NEW r \in Requests, NEW asDraft \in BOOLEAN, CreateCheckBalance(h, r, asDraft)
          PROVE  /\ \A k \in Handlers : k # h => proc'[k] = proc[k]
                 /\ proc'[h].pc = "conflict" /\ ~Busy(proc'[h].req)
      BY <1>1, <3>1 DEF CreateCheckBalance, Call, Idle
    <3>2. ASSUME NEW r \in Requests, NEW who \in Users, NEW act \in Actions,
                 ProcessRead(h, r, who, act)
          PROVE  /\ \A k \in Handlers : k # h => proc'[k] = proc[k]
                 /\ proc'[h].pc = "mine" /\ ~Busy(proc'[h].req)
      BY <1>1, <3>2, NullAssumption DEF ProcessRead, Call, Idle
    <3>3. ASSUME NEW r \in Requests, NEW who \in Users, CancelRead(h, r, who)
          PROVE  /\ \A k \in Handlers : k # h => proc'[k] = proc[k]
                 /\ proc'[h].pc = "cancelStatus" /\ ~Busy(proc'[h].req)
      BY <1>1, <3>3, NullAssumption DEF CancelRead, Call, Idle
    <3>4. ASSUME NEW r \in Requests, NEW l \in Levels,
                 RemindRead(h, r, l) \/ \E viewer \in Approvers : ReassignRead(h, r, l, viewer)
          PROVE  /\ \A k \in Handlers : k # h => proc'[k] = proc[k]
                 /\ proc'[h].pc \in {"reassign", "escalate"} /\ ~Busy(proc'[h].req)
      BY <1>1, <3>4, NullAssumption DEF ReassignRead, RemindRead, Call, Idle
    <3>5. CASE CarryRead(h)
      BY <1>1, <3>5, NullAssumption DEF CarryRead, Call, Idle
    <3> QED
      BY <1>5, <3>1, <3>2, <3>3, <3>4, <3>5 DEF Arrive
  <2>3. ASSUME NEW s \in Requests PROVE Claim'[s] = Claim[s]
    <3>1. CASE proc'[h].req = s
      <4>1. Claim'[s] = Stage(s, proc'[h].pc, status[s])
        BY <2>1, <3>1 DEF Staged
      <4>2. Claim[s] = Stage(s, "idle", status[s])
        BY <2>2, <3>1 DEF Staged
      <4> QED
        BY <2>2, <4>1, <4>2 DEF Stage, Due
    <3>2. CASE proc'[h].req # s /\ ~Busy(s)
      <4>1. ~Busy(s)'
        BY <2>2, <3>2 DEF Busy
      <4> QED
        BY <2>1, <3>2, <4>1 DEF Staged
    <3>3. ASSUME proc'[h].req # s, NEW k \in Handlers, proc[k].req = s
          PROVE  Claim'[s] = Claim[s]
      <4>1. proc'[k] = proc[k]
        BY <2>1, <2>2, <3>3, NullAssumption
      <4> QED
        BY <2>1, <3>3, <4>1 DEF Staged
    <3> QED
      BY <3>1, <3>2, <3>3 DEF Busy
  <2> QED
    BY <1>2, <2>1, <2>3 DEF Idling, Unreserved
<1> QED
  BY <1>3, <1>4, <1>5

LEMMA NextCalled ==
    ASSUME SInv, NotAuto, [Next]_vars, NEW h \in Handlers,
           proc'[h].pc \in {"conflict", "insert"}
    PROVE  /\ proc'[h].was = "APPROVED" => proc'[h].req \in AutoApproved
           /\ proc'[h].was = "PENDING"  => proc'[h].req \notin AutoApproved
<1>1. proc \in [Handlers -> Flight]
  BY DEF SInv, IInv, TypeOK
<1>2. CASE proc'[h] = proc[h]
  BY <1>2 DEF NotAuto
<1>3. CASE Arrive(h)
  <2>1. PICK r \in Requests, asDraft \in BOOLEAN : CreateCheckBalance(h, r, asDraft)
    <3>1. ASSUME NEW rec, proc' = [proc EXCEPT ![h] = rec],
                 rec.pc \notin {"conflict", "insert"}
          PROVE  FALSE
      BY <1>1, <3>1
    <3>2. ~CarryRead(h)
      BY <3>1 DEF CarryRead, Call, Idle
    <3>3. ASSUME NEW r \in Requests, NEW who \in Users, NEW act \in Actions
          PROVE  ~ProcessRead(h, r, who, act) /\ ~CancelRead(h, r, who)
      BY <3>1 DEF ProcessRead, CancelRead, Call, Idle
    <3>4. ASSUME NEW r \in Requests, NEW l \in Levels, NEW viewer \in Approvers
          PROVE  ~ReassignRead(h, r, l, viewer)
      BY <3>1 DEF ReassignRead, Call, Idle
    <3>5. ASSUME NEW r \in Requests, NEW l \in Levels PROVE ~RemindRead(h, r, l)
      BY <3>1 DEF RemindRead, Call, Idle
    <3>6. \E a \in Actions : TRUE
      BY DEF Actions
    <3> QED
      BY <1>3, <3>2, <3>3, <3>4, <3>5, <3>6 DEF Arrive
  <2> QED
    BY <1>1, <2>1, NullAssumption DEF CreateCheckBalance, Call, InitialStatus, Idle
<1>4. CASE Step(h)
  <2>1. CASE CreateCheckConflict(h)
    BY <1>1, <2>1 DEF CreateCheckConflict, At, Goto, Return, Idle, NotAuto, Flight
  <2>2. ASSUME NEW pc, Goto(h, pc), pc \notin {"conflict", "insert"} PROVE FALSE
    BY <1>1, <2>2 DEF Goto, Flight
  <2>3. ~Return(h)
    BY <1>1 DEF Return, Idle
  <2>4. CASE FlowManager(h)
    BY <1>1, <2>4 DEF FlowManager, At, Flight
  <2>5. CASE ProcessFindStep(h)
    BY <1>1, <2>3, <2>5 DEF ProcessFindStep, Flight
  <2> QED
    BY <1>4, <2>1, <2>2, <2>3, <2>4, <2>5
       DEF Step, CreateInsert, FlowHR, Delegate, Decide, RejectStatus, EscalateStatus,
           CountRemaining, Finalize, DeductBalance, ApplyEffects, ReleaseReservation,
           CloseSteps, CancelStatus, ReturnBalance, UndoEffects, Reassign, EscalateToHR,
           CarryMarker, CarryWrite
<1>5. CASE Crash(h)
  BY <1>1, <1>5 DEF Crash, Return, Idle
<1>6. ASSUME NEW k \in Handlers, k # h, Arrive(k) \/ Step(k) \/ Crash(k)
      PROVE  proc'[h] = proc[h]
  BY <1>1, <1>6
     DEF Arrive, CreateCheckBalance, ProcessRead, CancelRead, ReassignRead, RemindRead,
         CarryRead, Call, Crash, Step, CreateCheckConflict, CreateInsert, FlowManager, FlowHR,
         ProcessFindStep, Delegate, Decide, RejectStatus, EscalateStatus, CountRemaining,
         Finalize, DeductBalance, ApplyEffects, ReleaseReservation, CloseSteps, CancelStatus,
         ReturnBalance, UndoEffects, Reassign, EscalateToHR, CarryMarker, CarryWrite, Goto,
         Return
<1> QED
  BY <1>2, <1>3, <1>4, <1>5, <1>6
     DEF Next, Administer, Accrue, UpdateBalance, vars

\* Only an insertion makes a request pending.
LEMMA NextNotAuto == SInv /\ NotAuto /\ [Next]_vars => NotAuto'
<1> SUFFICES ASSUME SInv, NotAuto, [Next]_vars PROVE NotAuto'
  OBVIOUS
<1>1. ASSUME NEW r \in Requests, status'[r] = "PENDING" PROVE r \notin AutoApproved
  <2>1. status \in [Requests -> Statuses]
    BY DEF SInv, IInv, TypeOK
  <2>2. CASE status[r] = "PENDING"
    BY <2>2 DEF NotAuto
  <2>3. ASSUME NEW h \in Handlers, CreateInsert(h), status[r] # "PENDING"
        PROVE  r \notin AutoApproved
    <3>1. proc[h].pc = "insert" /\ proc[h].req = r /\ proc[h].was = "PENDING"
      BY <1>1, <2>1, <2>3 DEF CreateInsert, At
    <3> QED
      BY <3>1 DEF NotAuto
  <2>4. ASSUME NEW h \in Handlers, EscalateStatus(h) PROVE status[r] = "PENDING"
    <3>1. proc[h].pc = "escalateStatus" /\ proc[h].req \in Requests
      BY <2>4 DEF EscalateStatus, At, SInv, IInv, InFlight
    <3>2. status[proc[h].req] = "PENDING"
      BY <3>1 DEF SInv, AllFit, Fits
    <3> QED
      BY <1>1, <2>1, <2>4, <3>2 DEF EscalateStatus
  <2>5. ASSUME ~\E h \in Handlers : CreateInsert(h) \/ EscalateStatus(h)
        PROVE  status[r] = "PENDING"
    <3>1. ASSUME NEW h \in Handlers, Step(h) PROVE status[r] = "PENDING"
      BY <1>1, <2>1, <2>5, <3>1
         DEF Step, CreateCheckConflict, FlowManager, FlowHR, ProcessFindStep, Delegate, Decide,
             RejectStatus, CountRemaining, Finalize, DeductBalance,
             ApplyEffects, ReleaseReservation, CloseSteps, CancelStatus, ReturnBalance,
             UndoEffects, Reassign, EscalateToHR, CarryMarker, CarryWrite
    <3>2. ASSUME NEW h \in Handlers, Arrive(h) \/ Crash(h) PROVE status' = status
      BY <3>2 DEF Arrive, CreateCheckBalance, ProcessRead, CancelRead, ReassignRead,
                  RemindRead, CarryRead, Crash
    <3> QED
      BY <1>1, <3>1, <3>2 DEF Next, Administer, Accrue, UpdateBalance, vars
  <2> QED
    BY <2>2, <2>3, <2>4, <2>5 DEF NotAuto
<1> QED
  BY <1>1, NextCalled DEF NotAuto

\* The reservation follows the claims.
LEMMA HeldClaims ==
    ASSUME SInv, Staged, ReservationExact
    PROVE  LET was == {r \in Requests : Claim[r] = "held"}
           IN /\ was = Held /\ IsFiniteSet(was) /\ row.reserved \in Nat
              /\ row.reserved <= Total(Days, was)
              /\ Unreserved = {} => row.reserved = Total(Days, was)
<1> DEFINE was == {r \in Requests : Claim[r] = "held"}
<1>1. was = Held /\ IsFiniteSet(was)
  BY RequestsAssumption, FS_Subset DEF Staged, Held
<1> HIDE DEF was
<1>2. row.reserved \in Nat
  BY RowFacts DEF SInv
<1> QED
  BY <1>1, <1>2 DEF ReservationExact, was

\* While nothing was charged without a reservation, a hold finds all its days.
LEMMA FoundWhole ==
    ASSUME SInv, Staged, ReservationExact, NEW q \in Requests
    PROVE  /\ Found(q) \in Nat /\ Found(q) <= Days[q] /\ Found(q) <= row.reserved
           /\ Found(q) = Days[q] \/ Found(q) = row.reserved
           /\ Claim[q] = "held" /\ Unreserved = {} => Found(q) = Days[q]
<1> DEFINE was == {r \in Requests : Claim[r] = "held"}
<1>1. /\ IsFiniteSet(was) /\ row.reserved \in Nat /\ Days[q] \in Nat
      /\ Unreserved = {} => row.reserved = Total(Days, was)
  BY HeldClaims, CostNat
<1>2. Claim[q] = "held" => Days[q] <= Total(Days, was)
  <2> SUFFICES ASSUME q \in was PROVE Days[q] <= Total(Days, was)
    OBVIOUS
  <2>1. IsFiniteSet(was \ {q}) /\ \A r \in was : Days[r] \in Nat
    BY <1>1, CostNat, FS_Subset
  <2>2. Total(Days, was) = Days[q] + Total(Days, was \ {q})
    BY <1>1, <2>1, TotalRemove
  <2>3. Total(Days, was \ {q}) \in Nat
    BY <2>1, TotalNat
  <2> QED
    BY <1>1, <2>2, <2>3
<1> HIDE DEF was
<1> QED
  BY <1>1, <1>2 DEF Found, Smaller

LEMMA PostingExact ==
    ASSUME SInv, Staged, Staged', ReservationExact, Posting \/ Idling
    PROVE  ReservationExact'
<1> DEFINE Was == {r \in Requests : Claim[r] = "held"}
           Now == {r \in Requests : Claim'[r] = "held"}
           Exact == /\ row'.reserved <= Total(Days, Now)
                    /\ Unreserved' = {} => row'.reserved = Total(Days, Now)
<1>1. /\ IsFiniteSet(Was) /\ row.reserved \in Nat /\ row.reserved <= Total(Days, Was)
      /\ Unreserved = {} => row.reserved = Total(Days, Was)
  BY HeldClaims
<1>2. IsFiniteSet(Now) /\ Now = Held'
  BY RequestsAssumption, FS_Subset DEF Staged, Held
<1>3. \A r \in Requests : Days[r] \in Nat
  BY CostNat
<1>4. Total(Days, Was) \in Nat /\ Total(Days, Now) \in Nat
  BY <1>1, <1>2, <1>3, TotalNat
<1> SUFFICES Exact
  BY <1>2 DEF ReservationExact
<1>5. ASSUME Now = Was, row'.reserved = row.reserved, Unreserved' = Unreserved PROVE Exact
  BY <1>1, <1>5
<1>6. ASSUME NEW q \in Requests, NEW from, Turns(q, from, "held"), from # "held",
             row'.reserved = row.reserved + Days[q], Unreserved' = Unreserved
      PROVE  Exact
  <2>1. q \in Now /\ Was = Now \ {q}
    BY <1>6 DEF Turns, Claim
  <2>2. Total(Days, Now) = Days[q] + Total(Days, Was)
    BY <1>2, <1>3, <2>1, TotalRemove
  <2> HIDE DEF Was, Now
  <2> QED
    BY <1>1, <1>3, <1>4, <1>6, <2>2
<1>7. ASSUME NEW q \in Requests, NEW to, Turns(q, "held", to), to # "held",
             row'.reserved = row.reserved - Found(q), Unreserved' = Unreserved
      PROVE  Exact
  <2>1. q \in Was /\ Was \ {q} = Now
    BY <1>7 DEF Turns, Claim
  <2>2. Total(Days, Was) = Days[q] + Total(Days, Now)
    BY <1>1, <1>3, <2>1, TotalRemove
  <2>3. /\ Found(q) \in Nat /\ (Found(q) = Days[q] \/ Found(q) = row.reserved)
        /\ Unreserved = {} => Found(q) = Days[q]
    BY <1>7, FoundWhole DEF Turns
  <2> HIDE DEF Was, Now
  <2> QED
    BY <1>1, <1>3, <1>4, <1>7, <2>2, <2>3
<1>8. ASSUME NEW q \in Requests, Turns(q, "free", "spent"),
             row'.reserved = row.reserved - Found(q), Unreserved' = Unreserved \cup {q}
      PROVE  Exact
  <2>1. Now = Was
    BY <1>8 DEF Turns, Claim
  <2>2. Found(q) \in Nat
    BY FoundWhole
  <2> HIDE DEF Was, Now
  <2> QED
    BY <1>1, <1>4, <1>8, <2>1, <2>2
<1>9. ASSUME NEW q \in Requests, NEW from, NEW to, Turns(q, from, to), from # "held",
             to # "held"
      PROVE  Now = Was
  BY <1>9 DEF Turns, Claim
<1>10. CASE Claim' = Claim /\ row'.reserved = row.reserved /\ Unreserved' = Unreserved
  BY <1>5, <1>10
<1> HIDE DEF Was, Now, Exact
<1>11. CASE Posting
  BY <1>5, <1>6, <1>7, <1>8, <1>9, <1>10, <1>11 DEF Posting
<1> QED
  BY <1>10, <1>11 DEF Idling

LEMMA StepPosts ==
    ASSUME Limited, CInv, CInv', Staged, Staged', NotAuto,
           NEW h \in Handlers, Step(h), ~CarryMarker(h), ~CarryWrite(h)
    PROVE  Posting
BY SameStage, MovesClaim DEF Step

\* The settings under which the reservations are kept: the type has a limit,
\* one handler per request, no crash.
Settings == Serial /\ ~Crashes /\ Limited

LInv == CInv /\ NotAuto /\ ReservationExact

LEMMA InitLedger == Settings /\ Init => LInv
<1> SUFFICES ASSUME Settings, Init PROVE LInv
  OBVIOUS
<1>1. CInv
  BY InitSerial DEF CInv
<1>2. NotAuto
  BY DEF Init, Idle, NotAuto
<1>3. Held = {}
  BY DEF Init, Idle, Held, Running
<1>4. ReservationExact
  <2>1. Total(Days, Held) = 0 /\ row.reserved = 0
    BY <1>3, TotalEmpty DEF Init
  <2> QED
    BY <2>1 DEF ReservationExact
<1> QED
  BY <1>1, <1>2, <1>4 DEF LInv

LEMMA NextLedger == Settings /\ LInv /\ [Next]_vars => LInv'
<1> SUFFICES ASSUME Settings, LInv, [Next]_vars PROVE LInv'
  OBVIOUS
<1>1. CInv'
  BY NextCharged DEF Settings, LInv
<1>2. NotAuto'
  BY NextNotAuto DEF LInv, CInv
<1>3. Staged
  BY ClaimStaged DEF LInv
<1>4. CInv' => Staged'
  BY ClaimStaged, PTL
<1>5. ReservationExact'
  <2>1. ASSUME NEW h \in Handlers, Step(h), ~CarryMarker(h), ~CarryWrite(h)
        PROVE  ReservationExact'
    BY <1>1, <1>3, <1>4, <2>1, StepPosts, PostingExact DEF Settings, LInv, CInv
  <2>2. ASSUME \/ \E h \in Handlers : Arrive(h) \/ CarryMarker(h) \/ CarryWrite(h)
               \/ Administer \/ UNCHANGED vars
        PROVE  ReservationExact'
    BY <1>1, <1>3, <1>4, <2>2, ClaimsStay, PostingExact DEF Settings, LInv, CInv
  <2> QED
    BY <2>1, <2>2 DEF Next, Crash, Settings
<1> QED
  BY <1>1, <1>2, <1>5 DEF LInv

\* "reserved" is exactly the days of the requests that hold a reservation, and
\* never more once an automatic approval was charged without one.
THEOREM ReservedExactly == Settings /\ Spec => []ReservationExact
<1> DEFINE J == Settings /\ LInv
<1>1. Settings /\ Init => J
  BY InitLedger
<1>2. J /\ [Next]_vars => J'
  BY NextLedger DEF Settings
<1>3. J => ReservationExact
  BY DEF LInv
<1> HIDE DEF J
<1> QED
  BY <1>1, <1>2, <1>3, PTL DEF Spec, Settings

-----------------------------------------------------------------------------
(* The row implements the account, as long as its administration only adds *)
(* days: the carry-over and updateBalance overwrite the balance.           *)

NoOverwrite == <<"carry", NoRequest>> \notin Ops /\ <<"update", NoRequest>> \notin Ops

NoCarry == \A h \in Handlers : proc[h].pc \notin {"marker", "carry"}

LEMMA NextNoCarry == NoOverwrite /\ SInv /\ NoCarry /\ [Next]_vars => NoCarry'
<1> SUFFICES ASSUME NoOverwrite, SInv, NoCarry, [Next]_vars, NEW h \in Handlers
             PROVE  proc'[h].pc \notin {"marker", "carry"}
  BY DEF NoCarry
<1>1. proc \in [Handlers -> Flight] /\ proc[h].pc \notin {"marker", "carry"}
  BY DEF SInv, IInv, TypeOK, NoCarry
<1>2. ASSUME NEW k \in Handlers, NEW pc, Goto(k, pc), pc \notin {"marker", "carry"}
      PROVE  proc'[h].pc \notin {"marker", "carry"}
  BY <1>1, <1>2 DEF Goto, Flight
<1>3. ASSUME NEW k \in Handlers, Return(k) PROVE proc'[h].pc \notin {"marker", "carry"}
  BY <1>1, <1>3 DEF Return, Idle
<1>4. ASSUME NEW k \in Handlers, Arrive(k) PROVE proc'[h].pc \notin {"marker", "carry"}
  <2>1. ASSUME NEW rec, proc' = [proc EXCEPT ![k] = rec], rec.pc \notin {"marker", "carry"}
        PROVE  proc'[h].pc \notin {"marker", "carry"}
    BY <1>1, <2>1
  <2>2. ~CarryRead(k)
    BY DEF CarryRead, Call, NoOverwrite
  <2>3. ASSUME NEW r \in Requests, NEW asDraft \in BOOLEAN, CreateCheckBalance(k, r, asDraft)
        PROVE  proc'[h].pc \notin {"marker", "carry"}
    BY <2>1, <2>3 DEF CreateCheckBalance, Call, Idle
  <2>4. ASSUME NEW r \in Requests, NEW who \in Users, NEW act \in Actions,
               ProcessRead(k, r, who, act) \/ CancelRead(k, r, who)
        PROVE  proc'[h].pc \notin {"marker", "carry"}
    BY <2>1, <2>4 DEF ProcessRead, CancelRead, Call, Idle
  <2>5. ASSUME NEW r \in Requests, NEW l \in Levels,
               RemindRead(k, r, l) \/ \E viewer \in Approvers : ReassignRead(k, r, l, viewer)
        PROVE  proc'[h].pc \notin {"marker", "carry"}
    BY <2>1, <2>5 DEF ReassignRead, RemindRead, Call, Idle
  <2> QED
    BY <1>4, <2>2, <2>3, <2>4, <2>5 DEF Arrive, Actions
<1>5. ASSUME NEW k \in Handlers, Step(k) PROVE proc'[h].pc \notin {"marker", "carry"}
  <2>1. CASE FlowManager(k) \/ ProcessFindStep(k)
    <3>1. CASE h # k
      BY <1>1, <1>3, <2>1, <3>1 DEF FlowManager, ProcessFindStep
    <3>2. CASE FlowManager(k) /\ h = k
      BY <1>1, <3>2 DEF FlowManager, Flight
    <3>3. CASE ProcessFindStep(k) /\ h = k
      BY <1>1, <1>3, <3>3 DEF ProcessFindStep, Flight
    <3> QED
      BY <2>1, <3>1, <3>2, <3>3
  <2>2. ~(CarryMarker(k) \/ CarryWrite(k))
    BY DEF CarryMarker, CarryWrite, At, NoCarry
  <2> QED
    BY <1>2, <1>3, <1>5, <2>1, <2>2
       DEF Step, CreateCheckConflict, CreateInsert, FlowHR, Delegate, Decide, RejectStatus,
           EscalateStatus, CountRemaining, Finalize, DeductBalance, ApplyEffects,
           ReleaseReservation, CloseSteps, CancelStatus, ReturnBalance, UndoEffects,
           Reassign, EscalateToHR
<1> QED
  BY <1>1, <1>3, <1>4, <1>5 DEF Next, Administer, Accrue, UpdateBalance, vars, Crash

\* The account's step, in the terms of this module.
LEMMA AccountSteps ==
    ASSUME Posting \/ (Idling /\ Available' >= Available), SInv, Staged, ReservationExact,
           Available \in Int, Available' \in Int
    PROVE  [Account!Next]_(Account!vars)
<1>1. \A q \in Requests : \A from, to :
          Turns(q, from, to) <=> Account!Move(q, from, to)
  BY DEF Turns, Claim, Account!Move
<1>2. CASE Idling /\ Available' >= Available
  <2>1. Account!Credit \/ UNCHANGED Account!vars
    BY <1>2 DEF Idling, Claim, Available, Account!Credit, Account!vars
  <2> QED
    BY <2>1 DEF Account!Next
<1>3. CASE Claim' = Claim /\ UNCHANGED <<Available, row.reserved, Unreserved>>
  BY <1>3 DEF Claim, Available, Account!vars
<1>4. ASSUME NEW q \in Requests,
             \/ /\ Turns(q, "free", "held") /\ Days[q] <= Available
                /\ Available' = Available - Days[q] /\ UNCHANGED Unreserved
             \/ /\ Turns(q, "spent", "closed") /\ UNCHANGED Unreserved
                /\ Available' = Available + Days[q]
             \/ Turns(q, "free", "closed") /\ UNCHANGED <<Available, Unreserved>>
      PROVE  Account!Next
  BY <1>1, <1>4 DEF Available, Account!Next, Account!Hold, Account!Refund, Account!Drop
<1>5. ASSUME NEW q \in Requests, Turns(q, "held", "spent"), UNCHANGED Unreserved,
             Available' = Available - (Days[q] - Found(q))
      PROVE  Account!Next
  <2>1. Account!Settle(q, row.balance - row.reserved)
    BY <1>5, FoundWhole, CostNat DEF Turns, Account!Settle, Available
  <2> QED
    BY <1>1, <1>5, <2>1 DEF Account!Next, Account!Spend
<1>6. ASSUME NEW q \in Requests, Turns(q, "held", "closed"), UNCHANGED Unreserved,
             Available' = Available + Found(q)
      PROVE  Account!Next
  <2>1. Account!Settle(q, (row.balance - row.reserved) + Days[q])
    BY <1>6, FoundWhole, CostNat DEF Turns, Account!Settle, Available
  <2> QED
    BY <1>1, <1>6, <2>1 DEF Account!Next, Account!Release
<1>7. ASSUME NEW q \in Requests, Turns(q, "free", "spent"), q \in AutoApproved,
             Unreserved' = Unreserved \cup {q},
             Available' = Available - (Days[q] - Found(q))
      PROVE  Account!Next
  <2>1. Available' <= Available /\ Available' >= Available - Days[q]
    BY <1>7, FoundWhole, CostNat
  <2> QED
    BY <1>1, <1>7, <2>1 DEF Available, Account!Next, Account!Take
<1> QED
  BY <1>2, <1>3, <1>4, <1>5, <1>6, <1>7 DEF Posting

LEMMA NextPosts ==
    ASSUME Settings, NoOverwrite, NoCarry, LInv, LInv', [Next]_vars
    PROVE  Posting \/ (Idling /\ Available' >= Available)
<1>1. Staged
  BY ClaimStaged DEF LInv
<1>2. CInv' => Staged'
  BY ClaimStaged, PTL
<1>3. Staged'
  BY <1>2 DEF LInv
<1>4. row \in Balance
  BY DEF LInv, CInv, SInv, IInv, TypeOK
<1>5. ASSUME NEW h \in Handlers, Step(h) PROVE Posting
  <2>1. ~CarryMarker(h) /\ ~CarryWrite(h)
    BY DEF CarryMarker, CarryWrite, At, NoCarry
  <2> QED
    BY <1>1, <1>3, <1>5, <2>1, StepPosts DEF Settings, LInv
<1>6. ASSUME NEW h \in Handlers, Arrive(h) PROVE Idling /\ Available' >= Available
  <2>1. row' = row
    BY <1>6 DEF Arrive, CreateCheckBalance, ProcessRead, CancelRead, ReassignRead,
                RemindRead, CarryRead
  <2> QED
    BY <1>1, <1>3, <1>4, <1>6, <2>1, ClaimsStay DEF Settings, LInv, Idling, Available, Balance
<1>7. ASSUME Administer \/ UNCHANGED vars PROVE Idling /\ Available' >= Available
  <2>1. row'.balance >= row.balance /\ row'.reserved = row.reserved /\ row'.balance \in Int
    BY <1>4, <1>7, LimitAssumption
       DEF Administer, Accrue, UpdateBalance, vars, NoOverwrite, Balance
  <2> QED
    BY <1>1, <1>3, <1>4, <1>7, <2>1, ClaimsStay DEF Settings, LInv, Idling, Available, Balance
<1> QED
  BY <1>5, <1>6, <1>7 DEF Next, Crash, Settings

AInv == LInv /\ NoCarry /\ NoOverdraft

RowTyped == row.balance \in Int /\ row.reserved \in Nat

LEMMA SerialTyped == SInv => RowTyped
BY RowFacts DEF SInv, RowTyped

\* No step of the account overdraws it.
LEMMA PostingCovered ==
    ASSUME Posting \/ (Idling /\ Available' >= Available),
           SInv, SInv', Staged, ReservationExact, NoOverdraft
    PROVE  NoOverdraft'
<1>1. /\ row.balance \in Int /\ row.reserved \in Nat
      /\ row'.balance \in Int /\ row'.reserved \in Nat
  <2>1. SInv' => RowTyped'
    BY SerialTyped, PTL
  <2> QED
    BY <2>1, SerialTyped DEF RowTyped
<1>2. Available \in Int /\ Available' \in Int
  BY <1>1 DEF Available
<1>3. (row.reserved > 0 => Available >= 0) /\ (Unreserved = {} => Available >= 0)
  BY <1>1 DEF NoOverdraft, Available
<1> DEFINE Solvent == /\ row'.reserved > 0 => Available' >= 0
                      /\ Unreserved' = {} => Available' >= 0
<1> SUFFICES Solvent
  BY <1>1 DEF NoOverdraft, Available
<1> HIDE DEF Solvent
<1>4. CASE Idling /\ Available' >= Available
  BY <1>1, <1>2, <1>3, <1>4 DEF Solvent, Idling
<1>5. CASE Claim' = Claim /\ UNCHANGED <<Available, row.reserved, Unreserved>>
  BY <1>3, <1>5 DEF Solvent
<1>6. ASSUME NEW q \in Requests,
             \/ Days[q] <= Available /\ Available' = Available - Days[q]
             \/ /\ Available' = Available + Days[q] /\ row'.reserved = row.reserved
                /\ UNCHANGED Unreserved
             \/ UNCHANGED <<Available, row.reserved, Unreserved>>
      PROVE  Solvent
  BY <1>1, <1>2, <1>3, <1>6, CostNat DEF Solvent
<1>7. ASSUME NEW q \in Requests, row'.reserved = row.reserved - Found(q),
             \/ /\ Claim[q] = "held" /\ UNCHANGED Unreserved
                /\ \/ Available' = Available - (Days[q] - Found(q))
                   \/ Available' = Available + Found(q)
             \/ /\ Unreserved' = Unreserved \cup {q}
                /\ Available' = Available - (Days[q] - Found(q))
      PROVE  Solvent
  <2>1. /\ Found(q) \in Nat /\ (Found(q) = Days[q] \/ Found(q) = row.reserved)
        /\ Claim[q] = "held" /\ Unreserved = {} => Found(q) = Days[q]
    BY FoundWhole
  <2>2. row'.reserved > 0 => Available' >= 0
    BY <1>1, <1>2, <1>3, <1>7, <2>1, CostNat
  <2>3. Unreserved' = {} => Available' >= 0
    BY <1>1, <1>2, <1>3, <1>7, <2>1, CostNat
  <2> QED
    BY <2>2, <2>3 DEF Solvent
<1> QED
  BY <1>4, <1>5, <1>6, <1>7 DEF Posting, Turns

LEMMA InitAccount == Settings /\ NoOverwrite /\ Init => AInv /\ Account!Init
<1> SUFFICES ASSUME Settings, NoOverwrite, Init PROVE AInv /\ Account!Init
  OBVIOUS
<1>1. LInv
  BY InitLedger
<1>2. /\ NoCarry /\ NoOverdraft /\ Available = AnnualLimit
      /\ Unreserved = {}
  BY LimitAssumption, FlagAssumption
     DEF Init, Idle, NoCarry, NoOverdraft, Available, Unreserved
<1>3. \A r \in Requests : Claim[r] = "free"
  <2>1. \A r \in Requests : ~Busy(r) /\ status[r] = "NONE"
    BY NullAssumption DEF Init, Idle, Busy
  <2> QED
    BY <1>1, <2>1, ClaimStaged DEF LInv, Staged, Stage, Due, Settings
<1>4. Claim = [r \in Requests |-> "free"]
  BY <1>3 DEF Claim
<1> QED
  BY <1>1, <1>2, <1>4 DEF AInv, Account!Init, Claim, Available

LEMMA NextAccount ==
    Settings /\ NoOverwrite /\ AInv /\ [Next]_vars
        => AInv' /\ [Account!Next]_(Account!vars)
<1> SUFFICES ASSUME Settings, NoOverwrite, AInv, [Next]_vars
             PROVE  AInv' /\ [Account!Next]_(Account!vars)
  OBVIOUS
<1>1. LInv'
  BY NextLedger DEF AInv
<1>2. NoCarry'
  BY NextNoCarry DEF AInv, LInv, CInv
<1>3. row \in Balance /\ row' \in Balance /\ SInv /\ SInv'
  BY <1>1 DEF AInv, LInv, CInv, SInv, IInv, TypeOK
<1>4. Available \in Int /\ Available' \in Int
  BY <1>3 DEF Available, Balance
<1>5. Posting \/ (Idling /\ Available' >= Available)
  BY <1>1, NextPosts DEF AInv
<1>6. Staged /\ ReservationExact
  BY ClaimStaged DEF AInv, LInv
<1>7. NoOverdraft'
  BY <1>3, <1>5, <1>6, PostingCovered DEF AInv
<1> QED
  BY <1>1, <1>2, <1>3, <1>4, <1>5, <1>6, <1>7, AccountSteps DEF AInv

\* The reservations never exceed the balance, and only a charge without a
\* reservation overdraws it.
THEOREM AlwaysCovered == Settings /\ NoOverwrite /\ Spec => []NoOverdraft
<1> DEFINE J == Settings /\ NoOverwrite /\ AInv
<1>1. Settings /\ NoOverwrite /\ Init => J
  BY InitAccount
<1>2. J /\ [Next]_vars => J'
  BY NextAccount DEF Settings, NoOverwrite
<1>3. J => NoOverdraft
  BY DEF AInv
<1> HIDE DEF J
<1> QED
  BY <1>1, <1>2, <1>3, PTL DEF Spec, Settings, NoOverwrite

\* The row and its handlers implement the account.
THEOREM RowIsAccount == Settings /\ NoOverwrite /\ Spec => ImplementsAccount
<1> DEFINE J == Settings /\ NoOverwrite /\ AInv
<1>1. Settings /\ NoOverwrite /\ Init => J /\ Account!Init
  BY InitAccount
<1>2. J /\ [Next]_vars => J' /\ [Account!Next]_(Account!vars)
  BY NextAccount DEF Settings, NoOverwrite
<1> HIDE DEF J
<1> QED
  BY <1>1, <1>2, PTL DEF Spec, Settings, NoOverwrite, ImplementsAccount, Account!Spec
=============================================================================
