-------------------------- MODULE PayrollRun_proofs --------------------------
(***************************************************************************)
(* Proofs about PayrollRun for any employees, salaries, payments and       *)
(* chunks.  Types hold whatever calls are in flight.  The other theorems   *)
(* are about one call on the run and one on its payments at a time, and    *)
(* payslips of the run that are not edited by hand: there the status a     *)
(* call has read is still the one it writes over, and from approval on the *)
(* payslips, the payment, its file and the closure agree.                  *)
(***************************************************************************)
EXTENDS PayrollRun, TLAPS

RunRows   == [status : RunStatuses, snap : Snaps]
SlipRows  == [status : {"NONE", "DRAFT", "ISSUED"}, inRun : BOOLEAN, net : Nat, error : BOOLEAN]
PayRows   == [status : PayStatuses, amount : Pays, file : SUBSET Pays]
ClerkRows == [pc : ClerkPcs, slips : SUBSET Employees, snap : Snaps]
PayerRows == [pc : PayerPcs, pay : 0 .. MaxPayments, to : PayStatuses, sum : Pays]

Typed ==
    /\ run \in RunRows /\ slips \in [Employees -> SlipRows]
    /\ payments \in [PayIds -> PayRows] /\ closure \subseteq {"hr", "finance", "closed"}
    /\ clerk \in [Clerks -> ClerkRows] /\ payer \in [Payers -> PayerRows]
    /\ interrupted \in BOOLEAN

LEMMA TypeByRows == TypeOK <=> Typed
  BY DEF TypeOK, Typed, RunRows, SlipRows, PayRows, ClerkRows, PayerRows

-----------------------------------------------------------------------------
(* Values.                                                                 *)

LEMMA PayStatusSet ==
    PayStatuses = {"NONE", "PENDING", "PREPARED", "SENT_TO_BANK", "PROCESSED", "PAID",
                   "FAILED", "CANCELLED"}
  BY DEF PayStatuses, TRANSITIONS

LEMMA NothingType == Nothing \in Pays /\ Empty \in Snaps
  BY DEF Nothing, Pays, Empty, Snap, Snaps, NotPaid

LEMMA SnapType ==
    ASSUME NEW net \in Pays, NEW errors \in SUBSET Employees PROVE Snap(net, errors) \in Snaps
  BY DEF Snap, Snaps

LEMMA NetType == slips \in [Employees -> SlipRows] => Net \in Pays /\ Snapshot \in Snaps
  BY DEF Net, PayOf, Pays, Snapshot, Snap, Snaps, SlipRows, Errors, InRun

LEMMA CalculatedType ==
    ASSUME NEW net \in [Employees -> Nets], NEW errors \in SUBSET Employees
    PROVE  Snap(net, errors) \in Snaps
  BY NetAssumption DEF Snap, Snaps, Pays

LEMMA SlipType ==
    ASSUME NEW status \in {"NONE", "DRAFT", "ISSUED"}, NEW inRun \in BOOLEAN, NEW net \in Nat,
           NEW error \in BOOLEAN
    PROVE  Slip(status, inRun, net, error) \in SlipRows
  BY DEF Slip, SlipRows

LEMMA OutsideType ==
    ASSUME NEW status \in {"NONE", "DRAFT", "ISSUED"} PROVE Outside(status) \in SlipRows
  BY DEF Slip, SlipRows, Outside

LEMMA IssuedType ==
    ASSUME NEW slip \in SlipRows PROVE Issued(slip) \in SlipRows
  BY DEF Slip, SlipRows, Issued

LEMMA RunType ==
    ASSUME NEW status \in RunStatuses, NEW snap \in Snaps PROVE Run(status, snap) \in RunRows
  BY DEF Run, RunRows

LEMMA OnRunType ==
    ASSUME NEW pc \in ClerkPcs, NEW es \in SUBSET Employees, NEW snap \in Snaps
    PROVE  OnRun(pc, es, snap) \in ClerkRows
  BY DEF OnRun, ClerkRows

LEMMA OnPaymentType ==
    ASSUME NEW pc \in PayerPcs, NEW i \in 0 .. MaxPayments, NEW to \in PayStatuses,
           NEW sum \in Pays
    PROVE  OnPayment(pc, i, to, sum) \in PayerRows
  BY DEF OnPayment, PayerRows

LEMMA PaymentType ==
    ASSUME NEW status \in PayStatuses, NEW amount \in Pays, NEW file \in SUBSET Pays
    PROVE  Payment(status, amount, file) \in PayRows
  BY DEF Payment, PayRows

LEMMA ListedType == ASSUME NEW net \in Pays PROVE Listed(net) \in Pays
  BY DEF Listed, Pays

LEMMA FreeType == Free \in ClerkRows /\ Away \in PayerRows
<1>1. "idle" \in ClerkPcs /\ "idle" \in PayerPcs /\ "NONE" \in PayStatuses
      /\ 0 \in 0 .. MaxPayments
  BY PayStatusSet, BoundAssumption DEF ClerkPcs, PayerPcs
<1> QED
  BY <1>1, OnRunType, OnPaymentType, NothingType DEF Free, Away

LEMMA TypeInit == Init => Typed
<1> SUFFICES ASSUME Init PROVE Typed
  OBVIOUS
<1>1. run \in RunRows
  BY RunType, NothingType DEF Init, RunStatuses
<1>2. slips \in [Employees -> SlipRows]
  BY OutsideType DEF Init, NoSlip
<1>3. payments \in [PayIds -> PayRows]
  BY PaymentType, PayStatusSet, NothingType DEF Init
<1>4. clerk \in [Clerks -> ClerkRows] /\ payer \in [Payers -> PayerRows]
  BY FreeType DEF Init
<1> QED
  BY <1>1, <1>2, <1>3, <1>4 DEF Init, Typed

-----------------------------------------------------------------------------
(* Types are kept by every call.                                           *)

LEMMA GotoType ==
    ASSUME clerk \in [Clerks -> ClerkRows], NEW c \in Clerks, NEW pc \in ClerkPcs,
           NEW es \in SUBSET Employees, NEW snap \in Snaps, Goto(c, pc, es, snap)
    PROVE  clerk' \in [Clerks -> ClerkRows]
  BY OnRunType DEF Goto

LEMMA DoneType ==
    ASSUME clerk \in [Clerks -> ClerkRows], NEW c \in Clerks, Done(c)
    PROVE  clerk' \in [Clerks -> ClerkRows]
  BY FreeType DEF Done

LEMMA GotoPType ==
    ASSUME payer \in [Payers -> PayerRows], NEW p \in Payers, NEW pc \in PayerPcs,
           NEW i \in 0 .. MaxPayments, NEW to \in PayStatuses, NEW sum \in Pays,
           GotoP(p, pc, i, to, sum)
    PROVE  payer' \in [Payers -> PayerRows]
  BY OnPaymentType DEF GotoP

LEMMA DonePType ==
    ASSUME payer \in [Payers -> PayerRows], NEW p \in Payers, DoneP(p)
    PROVE  payer' \in [Payers -> PayerRows]
  BY FreeType DEF DoneP

LEMMA SetRunType ==
    ASSUME run \in RunRows, NEW status \in RunStatuses, SetRun(status)
    PROVE  run' \in RunRows
  BY RunType DEF SetRun, RunRows

\* Calls that only move on.
LEMMA TypeClerkReads ==
    ASSUME Typed, NEW c \in Clerks,
           UNCHANGED <<run, slips, payments, closure, payer, interrupted>>,
           \/ \E pc \in ClerkPcs, es \in SUBSET Employees, snap \in Snaps : Goto(c, pc, es, snap)
           \/ Done(c)
    PROVE  Typed'
<1>1. clerk \in [Clerks -> ClerkRows]
  BY DEF Typed
<1>2. clerk' \in [Clerks -> ClerkRows]
  BY <1>1, GotoType, DoneType
<1> QED
  BY <1>2 DEF Typed

LEMMA TypeCalculate ==
    ASSUME Typed, NEW c \in Clerks, NEW net \in [Employees -> Nets],
           NEW errors \in SUBSET Employees, Calculate(c, net, errors)
    PROVE  Typed'
<1> DEFINE snap == Snap(net, errors)
<1>1. snap \in Snaps
  BY CalculatedType
<1>2. run' \in RunRows
  BY <1>1, RunType DEF Typed, Calculate, RunRows
<1>3. slips' \in [Employees -> SlipRows]
  <2>1. \A e \in Employees : net[e] \in Nat
    BY NetAssumption
  <2> QED
    BY <2>1, SlipType DEF Calculate
<1>4. clerk' \in [Clerks -> ClerkRows]
  <2>1. OnRun("calculated", {}, snap) \in ClerkRows /\ OnRun("issue", {}, Empty) \in ClerkRows
    BY <1>1, OnRunType, NothingType DEF ClerkPcs
  <2> QED
    BY <2>1, FreeType DEF Typed, Calculate
<1> QED
  BY <1>2, <1>3, <1>4 DEF Typed, Calculate

LEMMA TypeClerk ==
    ASSUME Typed, NEW c \in Clerks, ClerkNext(c)
    PROVE  Typed'
<1> USE DEF Typed
<1>1. CASE ProcessRead(c)
  BY <1>1, TypeClerkReads, NothingType DEF ProcessRead, ClerkPcs
<1>2. CASE Process(c)
  BY <1>2, SetRunType, GotoType, NothingType DEF Process, RunStatuses, ClerkPcs
<1>3. CASE CalculateFails(c)
  BY <1>3, SetRunType, DoneType DEF CalculateFails, RunStatuses
<1>4. CASE FinishProcess(c)
  <2>1. clerk[c].snap \in Snaps
    BY DEF ClerkRows
  <2> QED
    BY <1>4, <2>1, RunType, DoneType DEF FinishProcess, RunStatuses
<1>5. CASE \E net \in [Employees -> Nets], errors \in SUBSET Employees : Calculate(c, net, errors)
  BY <1>5, TypeCalculate
<1>6. CASE \E e \in Employees, pc \in {"recalc", "exclude"} : CorrectRead(c, pc, e)
  <2>1. PICK e \in Employees, pc \in {"recalc", "exclude"} : CorrectRead(c, pc, e)
    BY <1>6
  <2>2. pc \in ClerkPcs /\ {e} \in SUBSET Employees
    BY DEF ClerkPcs
  <2> QED
    BY <2>1, <2>2, TypeClerkReads, NothingType DEF CorrectRead
<1>7. CASE \E net \in Nets, error \in BOOLEAN : Recalc(c, net, error)
  <2>1. PICK net \in Nets, error \in BOOLEAN : Recalc(c, net, error)
    BY <1>7
  <2>2. slips' \in [Employees -> SlipRows]
    BY <2>1, SlipType, NetAssumption DEF Recalc
  <2> QED
    BY <2>1, <2>2, GotoType, NothingType DEF Recalc, ClerkPcs
<1>8. CASE Exclude(c)
  <2>1. slips' \in [Employees -> SlipRows]
    BY <1>8, OutsideType DEF Exclude, SlipRows
  <2> QED
    BY <1>8, <2>1, GotoType, NothingType DEF Exclude, ClerkPcs
<1>9. CASE RefreshRead(c)
  BY <1>9, TypeClerkReads, NetType DEF RefreshRead, ClerkPcs
<1>10. CASE RefreshWrite(c)
  <2>1. clerk[c].snap \in Snaps /\ run.status \in RunStatuses
    BY DEF ClerkRows, RunRows
  <2> QED
    BY <1>10, <2>1, RunType, DoneType DEF RefreshWrite
<1>11. CASE \E op \in DOMAIN Target : DecideRead(c, op)
  BY <1>11, TypeClerkReads, NothingType DEF DecideRead, ClerkPcs, Target
<1>12. CASE Decide(c)
  <2>1. Target[clerk[c].pc] \in RunStatuses
    BY <1>12 DEF Decide, Target, RunStatuses
  <2> QED
    BY <1>12, <2>1, SetRunType, DoneType DEF Decide
<1>13. CASE PublishRead(c) \/ CancelRead(c) \/ CancelCheck(c)
  BY <1>13, TypeClerkReads, NothingType DEF PublishRead, CancelRead, CancelCheck, ClerkPcs
<1>14. CASE PublishList(c)
  <2>1. Drafts \in SUBSET Employees
    BY DEF Drafts, InRun
  <2> QED
    BY <1>14, <2>1, TypeClerkReads, NothingType DEF PublishList, ClerkPcs
<1>15. CASE Publish(c) \/ Cancel(c)
  BY <1>15, SetRunType, DoneType DEF Publish, Cancel, RunStatuses
<1>16. CASE \E ids \in SUBSET Slot(c) : IssueChunk(c, ids)
  <2>1. PICK ids \in SUBSET Slot(c) : IssueChunk(c, ids)
    BY <1>16
  <2>2. Slot(c) \ ids \in SUBSET Employees
    BY DEF Slot, ClerkRows
  <2>3. slips' \in [Employees -> SlipRows]
    BY <2>1, IssuedType DEF IssueChunk
  <2> QED
    BY <2>1, <2>2, <2>3, GotoType, NothingType DEF IssueChunk, ClerkPcs
<1>17. CASE \E e \in Employees : EditRead(c, e)
  <2>1. PICK e \in Employees : EditRead(c, e)
    BY <1>17
  <2> QED
    BY <2>1, TypeClerkReads, NothingType DEF EditRead, ClerkPcs
<1>18. CASE \E net \in Nets : Edit(c, net)
  <2>1. PICK net \in Nets : Edit(c, net)
    BY <1>18
  <2>2. slips' \in [Employees -> SlipRows]
    BY <2>1, SlipType, OutsideType, NetAssumption DEF Edit, SlipRows
  <2> QED
    BY <2>1, <2>2, DoneType DEF Edit
<1>19. CASE ClerkDies(c)
  BY <1>19, DoneType DEF ClerkDies
<1> QED
  BY <1>1, <1>2, <1>3, <1>4, <1>5, <1>6, <1>7, <1>8, <1>9, <1>10, <1>11, <1>12, <1>13,
     <1>14, <1>15, <1>16, <1>17, <1>18, <1>19 DEF ClerkNext

LEMMA TypePayer ==
    ASSUME Typed, NEW p \in Payers, PayerNext(p)
    PROVE  Typed'
<1> USE DEF Typed
<1>0. /\ payer[p].pay \in 0 .. MaxPayments /\ payer[p].to \in PayStatuses
      /\ payer[p].sum \in Pays /\ 0 \in 0 .. MaxPayments
      /\ "NONE" \in PayStatuses /\ "PENDING" \in PayStatuses
  BY PayStatusSet, BoundAssumption DEF PayerRows
<1>1. CASE CreateRead(p) \/ CreateCount(p)
  BY <1>1, <1>0, GotoPType, DonePType, NothingType DEF CreateRead, CreateCount, PayerPcs
<1>2. CASE CreateSum(p)
  BY <1>2, <1>0, GotoPType, DonePType, NetType DEF CreateSum, PayerPcs
<1>3. CASE \E i \in PayIds : Create(p, i)
  <2>1. PICK i \in PayIds : Create(p, i)
    BY <1>3
  <2>2. payments' \in [PayIds -> PayRows]
    BY <2>1, <1>0, PaymentType, NothingType DEF Create
  <2> QED
    BY <2>1, <2>2, DonePType DEF Create
<1>4. CASE \E i \in PayIds : FileRead(p, i)
  <2>1. PICK i \in PayIds : FileRead(p, i)
    BY <1>4
  <2>2. i \in 0 .. MaxPayments
    BY BoundAssumption DEF PayIds
  <2> QED
    BY <2>1, <2>2, <1>0, GotoPType, NothingType DEF FileRead, PayerPcs
<1>5. CASE \E i \in PayIds : \E to \in TRANSITIONS[payments[i].status] : StatusRead(p, i, to)
  <2>1. PICK i \in PayIds : \E to \in TRANSITIONS[payments[i].status] : StatusRead(p, i, to)
    BY <1>5
  <2>a. PICK to \in TRANSITIONS[payments[i].status] : StatusRead(p, i, to)
    BY <2>1
  <2>2. i \in 0 .. MaxPayments
    BY BoundAssumption DEF PayIds
  <2>3. to \in PayStatuses
    BY PayStatusSet DEF TRANSITIONS, PayRows
  <2> QED
    BY <2>a, <2>2, <2>3, GotoPType, NothingType DEF StatusRead, PayerPcs
<1>6. CASE UpdateStatus(p) \/ BankFile(p)
  <2>1. payments' \in [PayIds -> PayRows]
    BY <1>6, <1>0, PaymentType, ListedType DEF UpdateStatus, BankFile, PayRows, PayerRows
  <2> QED
    BY <1>6, <2>1, DonePType DEF UpdateStatus, BankFile
<1>7. CASE FileSum(p)
  BY <1>7, <1>0, GotoPType, NetType DEF FileSum, PayerPcs
<1>8. CASE \E kind \in {"hr", "finance"} : ValidateRead(p, kind)
  BY <1>8, <1>0, GotoPType, NothingType DEF ValidateRead, PayerPcs
<1>9. CASE Validate(p) \/ Close(p)
  BY <1>9, DonePType DEF Validate, Close
<1>10. CASE CloseRead(p) \/ CloseCheck(p)
  BY <1>10, <1>0, GotoPType, DonePType, NothingType DEF CloseRead, CloseCheck, PayerPcs
<1>11. CASE PayerDies(p)
  BY <1>11, DonePType DEF PayerDies
<1> QED
  BY <1>1, <1>2, <1>3, <1>4, <1>5, <1>6, <1>7, <1>8, <1>9, <1>10, <1>11 DEF PayerNext

LEMMA TypeNext == Typed /\ [Next]_vars => Typed'
<1> SUFFICES ASSUME Typed, [Next]_vars PROVE Typed'
  OBVIOUS
<1>1. ASSUME NEW e \in Employees, IssueSlip(e) \/ CreateSlip(e) PROVE Typed'
  <2>1. slips' \in [Employees -> SlipRows]
    BY <1>1, IssuedType, OutsideType DEF IssueSlip, CreateSlip, Typed
  <2> QED
    BY <1>1, <2>1 DEF IssueSlip, CreateSlip, Typed
<1>2. CASE UNCHANGED vars
  BY <1>2 DEF vars, Typed
<1> QED
  BY <1>1, <1>2, TypeClerk, TypePayer DEF Next, DeskNext

\* In every reachable state the rows hold values of their kind, whatever calls
\* are in flight and wherever they die.
THEOREM TypeCorrect == Spec => []TypeOK
<1>1. Spec => []Typed
  BY TypeInit, TypeNext, PTL DEF Spec
<1> QED
  BY <1>1, TypeByRows, PTL
=============================================================================
