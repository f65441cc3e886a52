------------------------ MODULE PayrollSerial_proofs ------------------------
(***************************************************************************)
(* What holds of PayrollRun when calls do not overlap: one call on the run *)
(* at a time and no payslip of the run edited by hand for the payslips and *)
(* their totals, one call on the payments at a time for the payments.      *)
(* The status a call has read is then still the one it writes over; from   *)
(* approval on the payslips stand still, so that the payment, its file and *)
(* the closure, made at different times, agree with them.                  *)
(***************************************************************************)
EXTENDS PayrollRun_proofs

OneClerk == (\A c, d \in Clerks : c = d) /\ ~EditsInRun
OnePayer == \A p, q \in Payers : p = q

-----------------------------------------------------------------------------
(* Calls on the run.                                                       *)

\* What a call on the run has read is still so.
ClerkOK(c) ==
    /\ At(c, "process") => run.status \in {"DRAFT", "SIMULATED"}
    /\ At(c, "calculate") \/ At(c, "calculated") => run.status = "PROCESSING"
    /\ At(c, "recalc") \/ At(c, "exclude") \/ At(c, "refresh") \/ At(c, "snapshot")
          => run.status = "SIMULATED"
    /\ At(c, "submit") => run.status = "SIMULATED" /\ run.snap.errors = {}
    /\ At(c, "approve") \/ At(c, "reject") => run.status = "PENDING_APPROVAL"
    /\ At(c, "list") \/ At(c, "issue") => run.status = "APPROVED"
    /\ At(c, "issue") => Drafts \subseteq Slot(c)
    /\ At(c, "cancelCheck") \/ At(c, "cancel") => run.status # "PUBLISHED"
    /\ At(c, "edit") => Slot(c) \cap InRun = {} /\ \A e \in Slot(c) : slips[e].status # "NONE"
    /\ At(c, "calculated") \/ At(c, "snapshot") => clerk[c].snap = Snapshot

Refreshing(c) == At(c, "refresh") \/ At(c, "snapshot")

TotalsOK ==
    /\ run.status \in {"SIMULATED", "PENDING_APPROVAL", "APPROVED", "PUBLISHED"}
          /\ ~interrupted /\ (\A c \in Clerks : ~Refreshing(c)) => run.snap = Snapshot
    /\ run.status \in {"PENDING_APPROVAL", "APPROVED", "PUBLISHED"} => run.snap.errors = {}

ClerkInv ==
    /\ Typed
    /\ \A c \in Clerks : ClerkOK(c)
    /\ TotalsOK
    /\ PublishedIsIssued

\* What a step on the run promises to the payments.
Frozen ==
    run.status \in EditLocked =>
        /\ run'.status \in EditLocked
        /\ InRun' = InRun /\ Net' = Net /\ Errors' = Errors /\ Drafts' \subseteq Drafts

LEMMA PrimedSlips ==
    /\ InRun' = {e \in Employees : slips'[e].status # "NONE" /\ slips'[e].inRun}
    /\ Net' = [e \in Employees |-> IF e \in InRun' THEN slips'[e].net ELSE NotPaid]
    /\ Errors' = {e \in InRun' : slips'[e].error}
    /\ Drafts' = {e \in InRun' : slips'[e].status = "DRAFT"}
    /\ Snapshot' = Snap(Net', Errors')
  BY DEF InRun, Net, PayOf, Errors, Drafts, Snapshot, Snap

\* A step that leaves every payslip of the run as it is.
LEMMA SameSlips ==
    ASSUME slips' = slips
    PROVE  InRun' = InRun /\ Net' = Net /\ Errors' = Errors /\ Drafts' = Drafts /\ Snapshot' = Snapshot
  BY DEF InRun, Net, PayOf, Errors, Drafts, Snapshot, Snap

\* A step that issues some of the drafts of the run and leaves the others.
LEMMA IssuedSlips ==
    ASSUME slips \in [Employees -> SlipRows],
           NEW S \in SUBSET Employees, \A e \in S : slips[e].status # "NONE",
           slips' = [e \in Employees |-> IF e \in S THEN Issued(slips[e]) ELSE slips[e]]
    PROVE  /\ InRun' = InRun /\ Net' = Net /\ Errors' = Errors /\ Snapshot' = Snapshot
           /\ Drafts' = Drafts \ S
<1>1. \A e \in Employees : /\ slips'[e].inRun = slips[e].inRun
                           /\ slips'[e].net = slips[e].net
                           /\ slips'[e].error = slips[e].error
                           /\ slips'[e].status = IF e \in S THEN "ISSUED" ELSE slips[e].status
  BY DEF Issued, Slip
<1>2. InRun' = InRun
  BY <1>1, PrimedSlips DEF InRun
<1>3. \A e \in InRun : e \in Employees
  BY DEF InRun
<1>4. Net' = Net
  BY <1>1, <1>2, PrimedSlips DEF Net, PayOf
<1>5. Errors' = Errors
  BY <1>1, <1>2, <1>3, PrimedSlips DEF Errors
<1>6. Drafts' = Drafts \ S
  BY <1>1, <1>2, <1>3, PrimedSlips DEF Drafts
<1> QED
  BY <1>2, <1>4, <1>5, <1>6, PrimedSlips DEF Snapshot

\* A step that touches only payslips outside the run, and keeps them outside.
LEMMA OutsideSlips ==
    ASSUME slips \in [Employees -> SlipRows], NEW S \in SUBSET Employees, S \cap InRun = {},
           slips' = [e \in Employees |-> IF e \in S THEN Outside("DRAFT") ELSE slips[e]]
    PROVE  InRun' = InRun /\ Net' = Net /\ Errors' = Errors /\ Drafts' = Drafts /\ Snapshot' = Snapshot
<1>1. \A e \in S : ~slips'[e].inRun
  BY DEF Outside, Slip
<1>2. \A e \in Employees \ S : slips'[e] = slips[e]
  OBVIOUS
<1>3. InRun' = InRun
  BY <1>1, <1>2, PrimedSlips DEF InRun
<1>4. \A e \in InRun : slips'[e] = slips[e]
  BY <1>2 DEF InRun
<1>5. Net' = Net
  BY <1>3, <1>4, PrimedSlips DEF Net, PayOf
<1>6. Errors' = Errors
  BY <1>3, <1>4, PrimedSlips DEF Errors
<1>7. Drafts' = Drafts
  BY <1>3, <1>4, PrimedSlips DEF Drafts
<1> QED
  BY <1>3, <1>5, <1>6, <1>7, PrimedSlips DEF Snapshot

LEMMA CalculatedSlips ==
    ASSUME NEW net \in [Employees -> Nets], NEW errors \in SUBSET Employees,
           slips' = [e \in Employees |->
              IF e \in errors THEN Slip("DRAFT", TRUE, net[e], TRUE)
              ELSE Slip("DRAFT", TRUE, net[e], FALSE)]
    PROVE  Snapshot' = Snap(net, errors)
<1>1. InRun' = Employees
  BY PrimedSlips DEF Slip
<1>2. Net' = net
  BY <1>1, PrimedSlips DEF Slip
<1>3. Errors' = errors
  BY <1>1, PrimedSlips DEF Slip
<1> QED
  BY <1>2, <1>3, PrimedSlips

-----------------------------------------------------------------------------
(* Every step keeps ClerkInv, and Frozen.                                  *)

LEMMA ClerkInit == Init => ClerkInv
<1> SUFFICES ASSUME Init PROVE ClerkInv
  OBVIOUS
<1>1. \A c \in Clerks : clerk[c].pc = "idle"
  BY DEF Init, Free, OnRun
<1>2. run.status = "DRAFT"
  BY DEF Init, Run
<1> QED
  BY <1>1, <1>2, TypeInit DEF ClerkInv, ClerkOK, At, TotalsOK, PublishedIsIssued

\* A step of the desk, or of a payment.
LEMMA SlipStep ==
    ASSUME ClerkInv, Typed', run' = run, clerk' = clerk, interrupted' = interrupted,
           InRun' = InRun, Drafts' \subseteq Drafts, Snapshot' = Snapshot,
           \A e \in Employees : slips[e].status # "NONE" => slips'[e].status # "NONE"
    PROVE  ClerkInv'
<1>1. ASSUME NEW c \in Clerks PROVE ClerkOK(c)'
  <2>1. ClerkOK(c) /\ Slot(c) \subseteq Employees
    BY DEF ClerkInv, Typed, Slot, ClerkRows
  <2> QED
    BY <2>1 DEF ClerkOK, At, Slot
<1>2. TotalsOK' /\ PublishedIsIssued'
  BY DEF ClerkInv, TotalsOK, PublishedIsIssued, Refreshing, At
<1> QED
  BY <1>1, <1>2 DEF ClerkInv

LEMMA DeskStep ==
    ASSUME ClerkInv, Typed', DeskNext
    PROVE  ClerkInv' /\ Frozen
<1>1. /\ InRun' = InRun /\ Net' = Net /\ Errors' = Errors /\ Snapshot' = Snapshot
      /\ Drafts' \subseteq Drafts
      /\ \A e \in Employees : slips[e].status # "NONE" => slips'[e].status # "NONE"
  <2>1. slips \in [Employees -> SlipRows]
    BY DEF ClerkInv, Typed
  <2>2. ASSUME NEW e \in Employees, IssueSlip(e)
        PROVE  <1>1!:
    <3>1. slips' = [d \in Employees |-> IF d \in {e} THEN Issued(slips[d]) ELSE slips[d]]
      BY <2>1, <2>2 DEF IssueSlip
    <3>2. \A d \in {e} : slips[d].status # "NONE"
      BY <2>2 DEF IssueSlip
    <3>3. \A d \in Employees : slips[d].status # "NONE" => slips'[d].status # "NONE"
      BY <3>1 DEF Issued, Slip
    <3> QED
      BY <2>1, <3>1, <3>2, <3>3, IssuedSlips
  <2>3. ASSUME NEW e \in Employees, CreateSlip(e)
        PROVE  <1>1!:
    <3>1. slips' = [d \in Employees |-> IF d \in {e} THEN Outside("DRAFT") ELSE slips[d]]
      BY <2>1, <2>3 DEF CreateSlip
    <3>2. {e} \cap InRun = {}
      BY <2>3 DEF CreateSlip, InRun
    <3>3. \A d \in Employees : slips[d].status # "NONE" => slips'[d].status # "NONE"
      BY <3>1 DEF Outside, Slip
    <3> QED
      BY <2>1, <3>1, <3>2, <3>3, OutsideSlips
  <2> QED
    BY <2>2, <2>3 DEF DeskNext
<1>2. run' = run /\ clerk' = clerk /\ interrupted' = interrupted
  BY DEF DeskNext, IssueSlip, CreateSlip
<1> QED
  BY <1>1, <1>2, SlipStep DEF Frozen

\* A step of the payments leaves the run alone.
LEMMA AsideStep ==
    ASSUME ClerkInv, Typed', UNCHANGED <<run, slips, clerk, interrupted>>
    PROVE  ClerkInv' /\ Frozen
  BY SameSlips, SlipStep DEF Frozen

LEMMA PayerAside == ASSUME NEW p \in Payers, PayerNext(p) PROVE UNCHANGED <<run, slips, clerk, interrupted>>
  BY DEF PayerNext, CreateRead, CreateCount, CreateSum, Create, FileRead, StatusRead, UpdateStatus,
         FileSum, BankFile, ValidateRead, Validate, CloseRead, CloseCheck, Close, PayerDies

LEMMA ClerkMoves ==
    ASSUME Typed, NEW c \in Clerks
    PROVE  /\ \A pc, es, snap : Goto(c, pc, es, snap) => clerk'[c] = OnRun(pc, es, snap)
           /\ Done(c) => clerk'[c] = OnRun("idle", {}, Empty)
  BY DEF Typed, Goto, Done, Free

\* What is to be shown of a call that runs alone.
Kept(c) == ClerkOK(c)' /\ TotalsOK' /\ PublishedIsIssued' /\ Frozen

LEMMA ClerkReads ==
    ASSUME OneClerk, ClerkInv, NEW c \in Clerks,
           \/ ProcessRead(c) \/ PublishRead(c) \/ PublishList(c) \/ CancelRead(c)
           \/ CancelCheck(c) \/ RefreshRead(c)
           \/ \E e \in Employees : EditRead(c, e)
           \/ \E op \in DOMAIN Target : DecideRead(c, op)
           \/ \E e \in Employees, pc \in {"recalc", "exclude"} : CorrectRead(c, pc, e)
    PROVE  Kept(c)
<1> USE DEF OnRun, At
<1>1. /\ slips' = slips /\ run' = run /\ interrupted' = interrupted
      /\ InRun' = InRun /\ Net' = Net /\ Errors' = Errors /\ Drafts' = Drafts
      /\ Snapshot' = Snapshot
  <2>1. slips' = slips /\ run' = run /\ interrupted' = interrupted
    BY DEF ProcessRead, PublishRead, PublishList, CancelRead, CancelCheck, RefreshRead, EditRead,
           DecideRead, CorrectRead
  <2> QED
    BY <2>1, SameSlips
<1>2. Frozen /\ PublishedIsIssued'
  BY <1>1 DEF Frozen, ClerkInv, PublishedIsIssued
<1>3. ClerkOK(c) /\ Typed /\ ClerkInv
  BY DEF ClerkInv
<1>4. \A d \in Clerks : d = c
  BY DEF OneClerk
<1> SUFFICES ClerkOK(c)' /\ (Refreshing(c) <=> Refreshing(c)')
  <2>1. ASSUME Refreshing(c) <=> Refreshing(c)' PROVE TotalsOK'
    BY <2>1, <1>1, <1>3, <1>4 DEF ClerkInv, TotalsOK, Refreshing
  <2> QED
    BY <2>1, <1>2 DEF Kept
<1>5. CASE ProcessRead(c)
  <2>1. clerk'[c] = OnRun("process", {}, Empty)
    BY <1>5, <1>3, ClerkMoves DEF ProcessRead
  <2> QED
    BY <1>5, <2>1, <1>1 DEF ProcessRead, ClerkOK, Refreshing
<1>6. CASE PublishRead(c)
  <2>1. clerk'[c] = OnRun("list", {}, Empty)
    BY <1>6, <1>3, ClerkMoves DEF PublishRead
  <2> QED
    BY <1>6, <2>1, <1>1 DEF PublishRead, ClerkOK, Refreshing
<1>7. CASE PublishList(c)
  <2>1. clerk'[c] = OnRun("issue", Drafts, Empty)
    BY <1>7, <1>3, ClerkMoves DEF PublishList
  <2> QED
    BY <1>7, <2>1, <1>1, <1>3 DEF PublishList, ClerkOK, Refreshing, Slot
<1>8. CASE CancelRead(c)
  <2>1. clerk'[c] = OnRun("cancelCheck", {}, Empty)
    BY <1>8, <1>3, ClerkMoves DEF CancelRead
  <2> QED
    BY <1>8, <2>1, <1>1 DEF CancelRead, ClerkOK, Refreshing
<1>9. CASE CancelCheck(c)
  <2>1. clerk'[c].pc \in {"cancel", "idle"}
    <3>1. CASE Done(c)
      BY <3>1, <1>3, ClerkMoves
    <3>2. CASE Goto(c, "cancel", {}, Empty)
      <4>1. clerk'[c] = OnRun("cancel", {}, Empty)
        BY <3>2, <1>3, ClerkMoves
      <4> QED
        BY <4>1
    <3> QED
      BY <3>1, <3>2, <1>9 DEF CancelCheck
  <2>2. run.status # "PUBLISHED" /\ At(c, "cancelCheck")
    BY <1>9, <1>3 DEF CancelCheck, ClerkOK
  <2> QED
    BY <2>1, <2>2, <1>1 DEF ClerkOK, Refreshing
<1>10. CASE RefreshRead(c)
  <2>1. clerk'[c] = OnRun("snapshot", {}, Snapshot)
    BY <1>10, <1>3, ClerkMoves DEF RefreshRead
  <2> QED
    BY <1>10, <2>1, <1>1, <1>3 DEF RefreshRead, ClerkOK, Refreshing
<1>11. CASE \E e \in Employees : EditRead(c, e)
  <2>1. PICK e \in Employees : EditRead(c, e)
    BY <1>11
  <2>2. clerk'[c] = OnRun("edit", {e}, Empty)
    BY <2>1, <1>3, ClerkMoves DEF EditRead
  <2>3. e \notin InRun /\ slips[e].status # "NONE" /\ At(c, "idle")
    BY <2>1 DEF EditRead, InRun, OneClerk
  <2> QED
    BY <2>2, <2>3, <1>1, <1>3 DEF ClerkOK, Refreshing, Slot
<1>12. CASE \E op \in DOMAIN Target : DecideRead(c, op)
  <2>1. PICK op \in DOMAIN Target : DecideRead(c, op)
    BY <1>12
  <2>2. clerk'[c] = OnRun(op, {}, Empty)
    BY <2>1, <1>3, ClerkMoves DEF DecideRead
  <2> QED
    BY <2>1, <2>2, <1>1 DEF DecideRead, ClerkOK, Refreshing
<1>13. CASE \E e \in Employees, pc \in {"recalc", "exclude"} : CorrectRead(c, pc, e)
  <2>1. PICK e \in Employees, pc \in {"recalc", "exclude"} : CorrectRead(c, pc, e)
    BY <1>13
  <2>2. clerk'[c] = OnRun(pc, {e}, Empty)
    BY <2>1, <1>3, ClerkMoves DEF CorrectRead
  <2> QED
    BY <2>1, <2>2, <1>1 DEF CorrectRead, ClerkOK, Refreshing
<1> QED
  BY <1>5, <1>6, <1>7, <1>8, <1>9, <1>10, <1>11, <1>12, <1>13

LEMMA ClerkSetsStatus ==
    ASSUME OneClerk, ClerkInv, NEW c \in Clerks,
           \/ Process(c) \/ CalculateFails(c) \/ Decide(c) \/ Publish(c) \/ Cancel(c)
    PROVE  Kept(c)
<1> USE DEF OnRun, At
<1>1. /\ slips' = slips /\ interrupted' = interrupted /\ run'.snap = run.snap
      /\ Goto(c, "calculate", {}, Empty) \/ Done(c)
      /\ InRun' = InRun /\ Net' = Net /\ Errors' = Errors /\ Drafts' = Drafts
      /\ Snapshot' = Snapshot
  <2>1. slips' = slips /\ interrupted' = interrupted
    BY DEF Process, CalculateFails, Decide, Publish, Cancel
  <2>2. run'.snap = run.snap /\ (Goto(c, "calculate", {}, Empty) \/ Done(c))
    BY DEF Process, CalculateFails, Decide, Publish, Cancel, SetRun, Run
  <2> QED
    BY <2>1, <2>2, SameSlips
<1>2. ClerkOK(c) /\ Typed /\ TotalsOK /\ PublishedIsIssued
  BY DEF ClerkInv
<1>3. \A d \in Clerks : d = c
  BY DEF OneClerk
<1>4. clerk'[c].pc \in {"idle", "calculate"}
  <2>1. CASE Done(c)
    BY <2>1, <1>2, ClerkMoves
  <2>2. CASE Goto(c, "calculate", {}, Empty)
    <3>1. clerk'[c] = OnRun("calculate", {}, Empty)
      BY <2>2, <1>2, ClerkMoves
    <3> QED
      BY <3>1
  <2> QED
    BY <2>1, <2>2, <1>1
<1>5. CASE Process(c)
  <2>1. run'.status = "PROCESSING" /\ run.status \in {"DRAFT", "SIMULATED"}
    BY <1>5, <1>2 DEF Process, SetRun, Run, ClerkOK
  <2> QED
    BY <2>1, <1>1, <1>4 DEF Kept, ClerkOK, TotalsOK, PublishedIsIssued, Frozen, EditLocked
<1>6. CASE CalculateFails(c)
  <2>1. run'.status = "DRAFT" /\ run.status = "PROCESSING" /\ clerk'[c].pc = "idle"
    BY <1>6, <1>2, ClerkMoves DEF CalculateFails, SetRun, Run, ClerkOK
  <2> QED
    BY <2>1, <1>1 DEF Kept, ClerkOK, TotalsOK, PublishedIsIssued, Frozen, EditLocked
<1>7. CASE Decide(c)
  <2>1. /\ clerk'[c].pc = "idle" /\ ~Refreshing(c)
        /\ \/ run.status = "SIMULATED" /\ run'.status = "PENDING_APPROVAL" /\ run.snap.errors = {}
           \/ run.status = "PENDING_APPROVAL" /\ run'.status \in {"APPROVED", "SIMULATED"}
    BY <1>7, <1>2, ClerkMoves DEF Decide, SetRun, Run, ClerkOK, Target, Refreshing
  <2> QED
    BY <2>1, <1>1, <1>2, <1>3
    DEF Kept, ClerkOK, TotalsOK, PublishedIsIssued, Frozen, EditLocked, Refreshing
<1>8. CASE Publish(c)
  <2>1. /\ clerk'[c].pc = "idle" /\ ~Refreshing(c)
        /\ run.status = "APPROVED" /\ run'.status = "PUBLISHED" /\ Drafts = {}
    BY <1>8, <1>2, ClerkMoves DEF Publish, SetRun, Run, ClerkOK, Refreshing
  <2> QED
    BY <2>1, <1>1, <1>2, <1>3
    DEF Kept, ClerkOK, TotalsOK, PublishedIsIssued, Frozen, EditLocked, Refreshing
<1>9. CASE Cancel(c)
  <2>1. clerk'[c].pc = "idle" /\ run'.status = "CANCELLED"
    BY <1>9, <1>2, ClerkMoves DEF Cancel, SetRun, Run
  <2> QED
    BY <2>1, <1>1 DEF Kept, ClerkOK, TotalsOK, PublishedIsIssued, Frozen, EditLocked
<1> QED
  BY <1>5, <1>6, <1>7, <1>8, <1>9

LEMMA ClerkWritesSlips ==
    ASSUME OneClerk, ClerkInv, Typed', NEW c \in Clerks,
           \/ \E net \in [Employees -> Nets], errors \in SUBSET Employees : Calculate(c, net, errors)
           \/ \E net \in Nets, error \in BOOLEAN : Recalc(c, net, error)
           \/ Exclude(c)
           \/ \E ids \in SUBSET Slot(c) : IssueChunk(c, ids)
           \/ \E net \in Nets : Edit(c, net)
    PROVE  Kept(c)
<1> USE DEF OnRun, At
<1>1. ClerkOK(c) /\ Typed /\ TotalsOK /\ PublishedIsIssued
  BY DEF ClerkInv
<1>2. slips \in [Employees -> SlipRows] /\ Slot(c) \subseteq Employees
  BY <1>1 DEF Typed, Slot, ClerkRows
<1>3. CASE \E net \in [Employees -> Nets], errors \in SUBSET Employees : Calculate(c, net, errors)
  <2>1. PICK net \in [Employees -> Nets], errors \in SUBSET Employees : Calculate(c, net, errors)
    BY <1>3
  <2>2. /\ run'.status = "PROCESSING" /\ run.status = "PROCESSING"
        /\ clerk'[c] = OnRun("calculated", {}, Snap(net, errors))
    BY <2>1, <1>1 DEF Calculate, Run, ClerkOK
  <2>3. Snapshot' = Snap(net, errors)
    BY <2>1, CalculatedSlips DEF Calculate
  <2> QED
    BY <2>2, <2>3 DEF Kept, ClerkOK, TotalsOK, PublishedIsIssued, Frozen, EditLocked
<1>4. CASE (\E net \in Nets, error \in BOOLEAN : Recalc(c, net, error)) \/ Exclude(c)
  <2>1. /\ run' = run /\ run.status = "SIMULATED" /\ Goto(c, "refresh", {}, Empty)
    BY <1>4, <1>1 DEF Recalc, Exclude, ClerkOK
  <2>2. clerk'[c] = OnRun("refresh", {}, Empty)
    BY <2>1, <1>1, ClerkMoves
  <2> QED
    BY <2>1, <2>2 DEF Kept, ClerkOK, TotalsOK, PublishedIsIssued, Frozen, EditLocked, Refreshing
<1>5. CASE \E ids \in SUBSET Slot(c) : IssueChunk(c, ids)
  <2>1. PICK ids \in SUBSET Slot(c) : IssueChunk(c, ids)
    BY <1>5
  <2>2. /\ run' = run /\ interrupted' = interrupted /\ run.status = "APPROVED"
        /\ ~Refreshing(c) /\ Drafts \subseteq Slot(c)
    BY <2>1, <1>1 DEF IssueChunk, ClerkOK, Refreshing
  <2>3. clerk'[c] = OnRun("issue", Slot(c) \ ids, Empty)
    BY <2>1, <1>1, ClerkMoves DEF IssueChunk
  <2>4. /\ InRun' = InRun /\ Net' = Net /\ Errors' = Errors /\ Snapshot' = Snapshot
        /\ Drafts' = Drafts \ (ids \cap Drafts)
    <3>1. \A e \in ids \cap Drafts : slips[e].status # "NONE"
      BY DEF Drafts
    <3> QED
      BY <2>1, <3>1, <1>2, IssuedSlips DEF IssueChunk
  <2> QED
    BY <2>2, <2>3, <2>4, <1>1
    DEF Kept, ClerkOK, TotalsOK, PublishedIsIssued, Frozen, Refreshing, Slot, OneClerk
<1>6. CASE \E net \in Nets : Edit(c, net)
  <2>1. PICK net \in Nets : Edit(c, net)
    BY <1>6
  <2>2. run' = run /\ interrupted' = interrupted /\ ~Refreshing(c) /\ clerk'[c].pc = "idle"
    BY <2>1, <1>1, ClerkMoves DEF Edit, Refreshing
  <2>3. Slot(c) \cap InRun = {} /\ \A e \in Slot(c) : slips[e].status # "NONE"
    BY <2>1, <1>1 DEF Edit, ClerkOK
  <2>4. \A e \in Slot(c) : ~slips[e].inRun
    BY <2>3, <1>2 DEF InRun
  <2>5. slips' = [e \in Employees |-> IF e \in Slot(c) THEN Outside("DRAFT") ELSE slips[e]]
    BY <2>1, <2>4, <1>2 DEF Edit
  <2>6. InRun' = InRun /\ Net' = Net /\ Errors' = Errors /\ Drafts' = Drafts /\ Snapshot' = Snapshot
    BY <2>3, <2>5, <1>2, OutsideSlips
  <2> QED
    BY <2>2, <2>6, <1>1
    DEF Kept, ClerkOK, TotalsOK, PublishedIsIssued, Frozen, Refreshing, OneClerk
<1> QED
  BY <1>3, <1>4, <1>5, <1>6

\* The write that ends a calculation or a refresh, and a death.
LEMMA ClerkEnds ==
    ASSUME OneClerk, ClerkInv, NEW c \in Clerks,
           FinishProcess(c) \/ RefreshWrite(c) \/ ClerkDies(c)
    PROVE  Kept(c)
<1> USE DEF OnRun, At
<1>1. ClerkOK(c) /\ Typed /\ TotalsOK /\ PublishedIsIssued
  BY DEF ClerkInv
<1>2. /\ InRun' = InRun /\ Net' = Net /\ Errors' = Errors /\ Drafts' = Drafts
      /\ Snapshot' = Snapshot
  BY SameSlips DEF FinishProcess, RefreshWrite, ClerkDies
<1>3. clerk'[c].pc = "idle"
  BY <1>1, ClerkMoves DEF FinishProcess, RefreshWrite, ClerkDies
<1>4. CASE FinishProcess(c)
  <2>1. run'.status = "SIMULATED" /\ run'.snap = Snapshot /\ run.status = "PROCESSING"
    BY <1>4, <1>1 DEF FinishProcess, Run, ClerkOK
  <2> QED
    BY <2>1, <1>2, <1>3 DEF Kept, ClerkOK, TotalsOK, PublishedIsIssued, Frozen, EditLocked
<1>5. CASE RefreshWrite(c)
  <2>1. run'.status = "SIMULATED" /\ run'.snap = Snapshot /\ run.status = "SIMULATED"
    BY <1>5, <1>1 DEF RefreshWrite, Run, ClerkOK
  <2> QED
    BY <2>1, <1>2, <1>3 DEF Kept, ClerkOK, TotalsOK, PublishedIsIssued, Frozen, EditLocked
<1>6. CASE ClerkDies(c)
  <2>1. run' = run /\ (~interrupted' => ~interrupted /\ ~Refreshing(c))
    BY <1>6 DEF ClerkDies, Refreshing
  <2> QED
    BY <2>1, <1>1, <1>2, <1>3
    DEF Kept, ClerkOK, TotalsOK, PublishedIsIssued, Frozen, Refreshing, OneClerk
<1> QED
  BY <1>4, <1>5, <1>6

LEMMA ClerkStep ==
    ASSUME OneClerk, ClerkInv, Typed', NEW c \in Clerks, ClerkNext(c)
    PROVE  ClerkInv' /\ Frozen
<1>1. Kept(c)
  BY ClerkReads, ClerkSetsStatus, ClerkWritesSlips, ClerkEnds DEF ClerkNext
<1> QED
  BY <1>1 DEF Kept, ClerkInv, OneClerk

LEMMA ClerkInvStep ==
    OneClerk /\ ClerkInv /\ Typed' /\ [Next]_vars => ClerkInv' /\ Frozen
<1> SUFFICES ASSUME OneClerk, ClerkInv, Typed', [Next]_vars PROVE ClerkInv' /\ Frozen
  OBVIOUS
<1>1. CASE UNCHANGED vars
  BY <1>1, AsideStep DEF vars
<1> QED
  BY <1>1, ClerkStep, DeskStep, PayerAside, AsideStep DEF Next

\* With one call on the run at a time, ClerkInv holds and Frozen is kept.
LEMMA ClerkAlways == OneClerk => (Spec => []ClerkInv /\ [][Frozen]_vars)
<1> SUFFICES ASSUME OneClerk PROVE Spec => []ClerkInv /\ [][Frozen]_vars
  OBVIOUS
<1>1. ClerkInv /\ [Next]_vars => ClerkInv' /\ Frozen
  BY ClerkInvStep, TypeNext DEF ClerkInv
<1> QED
  BY <1>1, ClerkInit, PTL DEF Spec

\* Once a run is approved, published or cancelled, its payslips and what they
\* pay are fixed, when calls on the run do not overlap.
THEOREM ApprovedIsFrozen == OneClerk => (Spec => ApprovedRunFrozen)
<1> SUFFICES ASSUME OneClerk PROVE Spec => ApprovedRunFrozen
  OBVIOUS
<1>1. Frozen => (run.status \in EditLocked => Net' = Net)
  BY DEF Frozen
<1> QED
  BY <1>1, ClerkAlways, PTL DEF ApprovedRunFrozen

\* The totals submitted, approved and published are those of the payslips.
THEOREM TotalsAreShown == OneClerk => (Spec => []SubmittedAsShown)
<1> SUFFICES ASSUME OneClerk PROVE Spec => []SubmittedAsShown
  OBVIOUS
<1>1. ClerkInv => SubmittedAsShown
  BY DEF ClerkInv, TotalsOK, SubmittedAsShown, ClerkOK, Refreshing, At
<1> QED
  BY <1>1, ClerkAlways, PTL

\* A published run has no draft left, wherever earlier publications died.
THEOREM AllIssued == OneClerk => (Spec => []PublishedIsIssued)
<1> SUFFICES ASSUME OneClerk PROVE Spec => []PublishedIsIssued
  OBVIOUS
<1>1. ClerkInv => PublishedIsIssued
  BY DEF ClerkInv
<1> QED
  BY <1>1, ClerkAlways, PTL

-----------------------------------------------------------------------------
(* One live payment: only the calls on payments matter.                    *)

LiveInv ==
    /\ Typed
    /\ \A p \in Payers :
          /\ AtP(p, "sum") \/ AtP(p, "create") => LivePayments = {}
          /\ AtP(p, "status") => /\ payer[p].pay \in PayIds
                                 /\ payer[p].to \in TRANSITIONS[payments[payer[p].pay].status]
    /\ OneLivePayment

LEMMA TransitionsLive ==
    \A s \in PayStatuses : \A t \in TRANSITIONS[s] : s \notin {"NONE", "CANCELLED"}
  BY PayStatusSet DEF TRANSITIONS

LEMMA PayerMoves ==
    ASSUME Typed, NEW p \in Payers
    PROVE  /\ \A pc, i, to, sum : GotoP(p, pc, i, to, sum) => payer'[p] = OnPayment(pc, i, to, sum)
           /\ DoneP(p) => payer'[p] = OnPayment("idle", 0, "NONE", Nothing)
  BY DEF Typed, GotoP, DoneP, Away

\* A step that changes no status of a payment.
LEMMA SameLive ==
    ASSUME \A i \in PayIds : payments'[i].status = payments[i].status
    PROVE  LivePayments' = LivePayments
  BY DEF LivePayments, Live

LEMMA LiveInit == Init => LiveInv
<1> SUFFICES ASSUME Init PROVE LiveInv
  OBVIOUS
<1>1. LivePayments = {} /\ \A p \in Payers : payer[p].pc = "idle"
  BY DEF Init, LivePayments, Live, Payment, Away, OnPayment
<1> QED
  BY <1>1, TypeInit DEF LiveInv, AtP, OneLivePayment

LEMMA LiveStep ==
    ASSUME OnePayer, LiveInv, Typed', NEW p \in Payers, PayerNext(p)
    PROVE  LiveInv'
<1> USE DEF AtP, OnPayment
<1>1. \A q \in Payers : q = p
  BY DEF OnePayer
<1>2. Typed /\ OneLivePayment
  BY DEF LiveInv
<1>3. CASE \/ CreateRead(p) \/ CreateCount(p) \/ CreateSum(p) \/ FileSum(p) \/ Validate(p)
           \/ CloseRead(p) \/ CloseCheck(p) \/ Close(p) \/ PayerDies(p)
           \/ \E i \in PayIds : FileRead(p, i)
           \/ \E kind \in {"hr", "finance"} : ValidateRead(p, kind)
  <2>1. payments' = payments
    BY <1>3 DEF CreateRead, CreateCount, CreateSum, FileSum, Validate, CloseRead, CloseCheck,
                Close, PayerDies, FileRead, ValidateRead
  <2>2. payer'[p].pc # "status" /\ (payer'[p].pc \in {"sum", "create"} => LivePayments = {})
    <3>1. CASE CreateCount(p)
      <4>1. CASE LivePayments = {} /\ GotoP(p, "sum", 0, "NONE", Nothing)
        <5>1. payer'[p] = OnPayment("sum", 0, "NONE", Nothing)
          BY <4>1, <1>2, PayerMoves
        <5> QED
          BY <5>1, <4>1
      <4>2. CASE DoneP(p)
        BY <4>2, <1>2, PayerMoves
      <4> QED
        BY <3>1, <4>1, <4>2 DEF CreateCount
    <3>2. CASE CreateSum(p)
      <4>1. CASE GotoP(p, "create", 0, "NONE", Net)
        <5>1. payer'[p] = OnPayment("create", 0, "NONE", Net)
          BY <4>1, <1>2, PayerMoves
        <5> QED
          BY <3>2, <5>1 DEF CreateSum, LiveInv
      <4>2. CASE DoneP(p)
        BY <4>2, <1>2, PayerMoves
      <4> QED
        BY <3>2, <4>1, <4>2 DEF CreateSum
    <3>3. CASE \/ \E pc \in {"count", "file", "fileSum", "hr", "finance", "checkSlips", "close"} :
                    \E i, to, sum : GotoP(p, pc, i, to, sum)
               \/ DoneP(p)
      <4>1. CASE DoneP(p)
        BY <4>1, <1>2, PayerMoves
      <4>2. ASSUME NEW pc \in {"count", "file", "fileSum", "hr", "finance", "checkSlips", "close"},
                   NEW i, NEW to, NEW sum, GotoP(p, pc, i, to, sum)
            PROVE  payer'[p].pc \notin {"status", "sum", "create"}
        <5>1. payer'[p] = OnPayment(pc, i, to, sum)
          BY <4>2, <1>2, PayerMoves
        <5> QED
          BY <5>1
      <4> QED
        BY <3>3, <4>1, <4>2
    <3> QED
      BY <1>3, <3>1, <3>2, <3>3
      DEF CreateRead, FileSum, Validate, CloseRead, CloseCheck, Close, PayerDies, FileRead,
          ValidateRead
  <2>3. LivePayments' = LivePayments
    BY <2>1, SameLive
  <2> QED
    BY <2>2, <2>3, <1>1, <1>2 DEF LiveInv, OneLivePayment
<1>4. CASE \E i \in PayIds : Create(p, i)
  <2>1. PICK i \in PayIds : Create(p, i)
    BY <1>4
  <2>2. LivePayments = {} /\ payer'[p].pc = "idle"
    BY <2>1, <1>2, PayerMoves DEF Create, LiveInv
  <2>3. \A j \in PayIds \ {i} : payments'[j] = payments[j]
    BY <2>1, <1>2 DEF Create, Typed
  <2>4. LivePayments' \subseteq {i}
    BY <2>2, <2>3 DEF LivePayments, Live
  <2> QED
    BY <2>2, <2>4, <1>1 DEF LiveInv, OneLivePayment
<1>5. CASE \E i \in PayIds : \E to \in TRANSITIONS[payments[i].status] : StatusRead(p, i, to)
  <2>1. PICK i \in PayIds : \E to \in TRANSITIONS[payments[i].status] : StatusRead(p, i, to)
    BY <1>5
  <2>2. PICK to \in TRANSITIONS[payments[i].status] : StatusRead(p, i, to)
    BY <2>1
  <2>3. payer'[p] = OnPayment("status", i, to, Nothing) /\ payments' = payments
    BY <2>2, <1>2, PayerMoves DEF StatusRead
  <2>4. LivePayments' = LivePayments
    BY <2>3, SameLive
  <2> QED
    BY <2>2, <2>3, <2>4, <1>1, <1>2 DEF LiveInv, OneLivePayment
<1>6. CASE UpdateStatus(p)
  <2>1. /\ payer[p].pay \in PayIds /\ payer'[p].pc = "idle"
        /\ payments[payer[p].pay].status \notin {"NONE", "CANCELLED"}
    <3>1. payer[p].pay \in PayIds /\ payer[p].to \in TRANSITIONS[payments[payer[p].pay].status]
      BY <1>6 DEF UpdateStatus, LiveInv
    <3>2. payments[payer[p].pay].status \in PayStatuses
      BY <3>1, <1>2 DEF Typed, PayRows
    <3> QED
      BY <3>1, <3>2, <1>6, <1>2, TransitionsLive, PayerMoves DEF UpdateStatus
  <2>2. \A j \in PayIds : j # payer[p].pay => payments'[j] = payments[j]
    BY <1>6, <1>2 DEF UpdateStatus, Typed
  <2>3. LivePayments' \subseteq LivePayments
    BY <2>1, <2>2 DEF LivePayments, Live
  <2> QED
    BY <2>1, <2>3, <1>1, <1>2 DEF LiveInv, OneLivePayment
<1>7. CASE BankFile(p)
  <2>1. payer'[p].pc = "idle" /\ \A j \in PayIds : payments'[j].status = payments[j].status
    <3>1. payer'[p].pc = "idle"
      BY <1>7, <1>2, PayerMoves DEF BankFile
    <3>2. payments' = [payments EXCEPT ![payer[p].pay] =
             Payment(@.status, @.amount, {Listed(payer[p].sum)})]
      BY <1>7 DEF BankFile
    <3>3. payments \in [PayIds -> PayRows]
      BY <1>2 DEF Typed
    <3> QED
      BY <3>1, <3>2, <3>3 DEF Payment
  <2>2. LivePayments' = LivePayments
    BY <2>1, SameLive
  <2> QED
    BY <2>1, <2>2, <1>1, <1>2 DEF LiveInv, OneLivePayment
<1> QED
  BY <1>3, <1>4, <1>5, <1>6, <1>7 DEF PayerNext

LEMMA PaymentsAside ==
    ASSUME NEW c \in Clerks, ClerkNext(c) PROVE UNCHANGED <<payments, closure, payer>>
  BY DEF ClerkNext, ProcessRead, Process, CalculateFails, FinishProcess, Calculate, CorrectRead,
         Recalc, Exclude, RefreshRead, RefreshWrite, DecideRead, Decide, PublishRead, PublishList,
         Publish, IssueChunk, CancelRead, CancelCheck, Cancel, EditRead, Edit, ClerkDies

LEMMA DeskAside == DeskNext => UNCHANGED <<payments, closure, payer>>
  BY DEF DeskNext, IssueSlip, CreateSlip

LEMMA LiveInvStep == OnePayer /\ LiveInv /\ Typed' /\ [Next]_vars => LiveInv'
<1> SUFFICES ASSUME OnePayer, LiveInv, Typed', [Next]_vars PROVE LiveInv'
  OBVIOUS
<1>1. CASE UNCHANGED <<payments, closure, payer>>
  <2>1. LivePayments' = LivePayments
    BY <1>1, SameLive
  <2> QED
    BY <1>1, <2>1 DEF LiveInv, AtP, OneLivePayment
<1>2. CASE UNCHANGED vars
  BY <1>1, <1>2 DEF vars
<1> QED
  BY <1>1, <1>2, LiveStep, PaymentsAside, DeskAside DEF Next

\* A run never has two live payments, when calls on its payments do not overlap,
\* whatever calls on the run do.
THEOREM SinglePayment == OnePayer => (Spec => []OneLivePayment)
<1> SUFFICES ASSUME OnePayer PROVE Spec => []OneLivePayment
  OBVIOUS
<1>1. LiveInv /\ [Next]_vars => LiveInv'
  BY LiveInvStep, TypeNext DEF LiveInv
<1>2. LiveInv => OneLivePayment
  BY DEF LiveInv
<1> QED
  BY <1>1, <1>2, LiveInit, PTL DEF Spec

-----------------------------------------------------------------------------
(* The payments and the closure agree with the payslips.                   *)

Paid      == LivePayments # {} /\ \A i \in LivePayments : payments[i].status = "PAID"
SlipsDone == InRun # {} /\ Drafts = {} /\ Errors = {}

\* What a call on the payments has read is still so.
PayerOK(p) ==
    /\ AtP(p, "count") \/ AtP(p, "sum") \/ AtP(p, "create") => run.status \in EditLocked /\ ~Closed
    /\ AtP(p, "create") \/ AtP(p, "file") => payer[p].sum = Net
    /\ AtP(p, "fileSum") \/ AtP(p, "file") =>
          payer[p].pay \in PayIds /\ payments[payer[p].pay].status # "NONE"
    /\ AtP(p, "checkSlips") \/ AtP(p, "close") =>
          run.status \in EditLocked /\ {"hr", "finance"} \subseteq closure /\ Paid
    /\ AtP(p, "close") => SlipsDone

PaymentOK(i) ==
    payments[i].status # "NONE" =>
        /\ run.status \in EditLocked
        /\ payments[i].amount = Net /\ payments[i].file \subseteq {Listed(Net)}

ClosureOK ==
    Closed => run.status \in EditLocked /\ {"hr", "finance"} \subseteq closure /\ Paid /\ SlipsDone

PayInv ==
    /\ LiveInv
    /\ \A p \in Payers : PayerOK(p)
    /\ \A i \in PayIds : PaymentOK(i)
    /\ ClosureOK

LEMMA PaymentFields ==
    ASSUME NEW status, NEW amount, NEW file
    PROVE  /\ Payment(status, amount, file).status = status
           /\ Payment(status, amount, file).amount = amount
           /\ Payment(status, amount, file).file = file
  BY DEF Payment

LEMMA PayInit == Init => PayInv
<1> SUFFICES ASSUME Init PROVE PayInv
  OBVIOUS
<1>1. /\ \A p \in Payers : payer[p].pc = "idle"
      /\ \A i \in PayIds : payments[i].status = "NONE"
      /\ ~Closed
  BY DEF Init, Payment, Away, OnPayment, Closed
<1> QED
  BY <1>1, LiveInit DEF PayInv, PayerOK, AtP, PaymentOK, ClosureOK

\* Calls on the run leave the payments alone, and from approval on the payslips.
LEMMA PayRely ==
    ASSUME PayInv, LiveInv', Frozen, UNCHANGED <<payments, closure, payer>>
    PROVE  PayInv'
<1>1. LivePayments' = LivePayments
  BY SameLive
<1>2. Paid' <=> Paid
  BY <1>1 DEF Paid
<1>3. run.status \in EditLocked => run'.status \in EditLocked /\ Net' = Net /\ (SlipsDone => SlipsDone')
  BY DEF Frozen, SlipsDone
<1>4. Closed' <=> Closed
  BY DEF Closed
<1>5. Net' = Net => Listed(Net)' = Listed(Net)
  BY DEF Listed
<1>6. ASSUME NEW i \in PayIds PROVE PaymentOK(i)'
  BY <1>3, <1>5 DEF PayInv, PaymentOK
<1>7. ClosureOK'
  BY <1>2, <1>3, <1>4 DEF PayInv, ClosureOK
<1>8. ASSUME NEW p \in Payers PROVE PayerOK(p)'
  <2>1. PayerOK(p) /\ \A i \in PayIds : PaymentOK(i)
    BY DEF PayInv
  <2>2. AtP(p, "file") => run.status \in EditLocked
    BY <2>1 DEF PayerOK, PaymentOK
  <2> QED
    BY <1>2, <1>3, <1>4, <2>1, <2>2 DEF PayerOK, AtP
<1> QED
  BY <1>6, <1>7, <1>8 DEF PayInv

\* A call that only reads, or ends: it writes no payment and no closure.
LEMMA PayReads ==
    ASSUME OnePayer, PayInv, LiveInv', NEW p \in Payers, PayerOK(p)',
           UNCHANGED <<run, slips, payments, closure>>
    PROVE  PayInv'
<1>1. /\ LivePayments' = LivePayments /\ (Closed' <=> Closed) /\ Nothing' = Nothing
      /\ InRun' = InRun /\ Net' = Net /\ Errors' = Errors /\ Drafts' = Drafts
  BY SameLive, SameSlips DEF Closed, Nothing
<1>2. (Paid' <=> Paid) /\ (SlipsDone' <=> SlipsDone)
  BY <1>1 DEF Paid, SlipsDone
<1>3. ClosureOK' /\ \A i \in PayIds : PaymentOK(i)'
  BY <1>1, <1>2 DEF PayInv, ClosureOK, PaymentOK
<1> QED
  BY <1>3 DEF PayInv, OnePayer

LEMMA PayerReads ==
    ASSUME PayInv, NEW p \in Payers, UNCHANGED <<run, slips, payments, closure>>,
           \/ CreateRead(p) \/ CreateCount(p) \/ CreateSum(p) \/ FileSum(p)
           \/ CloseRead(p) \/ CloseCheck(p) \/ PayerDies(p)
           \/ \E i \in PayIds : FileRead(p, i)
           \/ \E kind \in {"hr", "finance"} : ValidateRead(p, kind)
           \/ \E i \in PayIds : \E to \in TRANSITIONS[payments[i].status] : StatusRead(p, i, to)
    PROVE  PayerOK(p)'
<1> USE DEF AtP, OnPayment
<1>1. /\ LivePayments' = LivePayments /\ (Closed' <=> Closed)
      /\ InRun' = InRun /\ Net' = Net /\ Errors' = Errors /\ Drafts' = Drafts
  BY SameLive, SameSlips DEF Closed
<1>2. (Paid' <=> Paid) /\ (SlipsDone' <=> SlipsDone)
  BY <1>1 DEF Paid, SlipsDone
<1>3. PayerOK(p) /\ Typed
  BY DEF PayInv, LiveInv
<1>4. Payable \subseteq EditLocked
  BY DEF Payable, EditLocked
<1>5. CASE DoneP(p)
  BY <1>5, <1>3, PayerMoves DEF PayerOK
<1>6. CASE CreateRead(p)
  <2>1. payer'[p] = OnPayment("count", 0, "NONE", Nothing)
    BY <1>6, <1>3, PayerMoves DEF CreateRead
  <2> QED
    BY <1>6, <2>1, <1>1, <1>4 DEF CreateRead, PayerOK
<1>7. CASE AtP(p, "count") /\ GotoP(p, "sum", 0, "NONE", Nothing)
  <2>1. payer'[p] = OnPayment("sum", 0, "NONE", Nothing)
    BY <1>7, <1>3, PayerMoves
  <2> QED
    BY <1>7, <2>1, <1>1, <1>3 DEF PayerOK
<1>8. CASE AtP(p, "sum") /\ GotoP(p, "create", 0, "NONE", Net)
  <2>1. payer'[p] = OnPayment("create", 0, "NONE", Net)
    BY <1>8, <1>3, PayerMoves
  <2> QED
    BY <1>8, <2>1, <1>1, <1>3 DEF PayerOK
<1>9. CASE FileSum(p)
  <2>1. payer'[p] = OnPayment("file", payer[p].pay, "NONE", Net)
    BY <1>9, <1>3, PayerMoves DEF FileSum
  <2> QED
    BY <1>9, <2>1, <1>1, <1>3 DEF FileSum, PayerOK
<1>10. CASE CloseRead(p)
  <2>1. payer'[p] = OnPayment("checkSlips", 0, "NONE", Nothing)
    BY <1>10, <1>3, PayerMoves DEF CloseRead
  <2> QED
    BY <1>10, <2>1, <1>1, <1>2, <1>4 DEF CloseRead, PayerOK, Paid
<1>11. CASE AtP(p, "checkSlips") /\ SlipsDone /\ GotoP(p, "close", 0, "NONE", Nothing)
  <2>1. payer'[p] = OnPayment("close", 0, "NONE", Nothing)
    BY <1>11, <1>3, PayerMoves
  <2> QED
    BY <1>11, <2>1, <1>1, <1>2, <1>3 DEF PayerOK
<1>12. CASE \E i \in PayIds : FileRead(p, i)
  <2>1. PICK i \in PayIds : FileRead(p, i)
    BY <1>12
  <2>2. payer'[p] = OnPayment("fileSum", i, "NONE", Nothing)
    BY <2>1, <1>3, PayerMoves DEF FileRead
  <2> QED
    BY <2>1, <2>2, <1>1 DEF FileRead, PayerOK
<1>13. CASE \E kind \in {"hr", "finance"} : ValidateRead(p, kind)
  <2>1. PICK kind \in {"hr", "finance"} : ValidateRead(p, kind)
    BY <1>13
  <2>2. payer'[p] = OnPayment(kind, 0, "NONE", Nothing)
    BY <2>1, <1>3, PayerMoves DEF ValidateRead
  <2> QED
    BY <2>1, <2>2 DEF PayerOK
<1>14. CASE \E i \in PayIds : \E to \in TRANSITIONS[payments[i].status] : StatusRead(p, i, to)
  <2>1. PICK i \in PayIds : \E to \in TRANSITIONS[payments[i].status] : StatusRead(p, i, to)
    BY <1>14
  <2>2. PICK to \in TRANSITIONS[payments[i].status] : StatusRead(p, i, to)
    BY <2>1
  <2>3. payer'[p] = OnPayment("status", i, to, Nothing)
    BY <2>2, <1>3, PayerMoves DEF StatusRead
  <2> QED
    BY <2>3 DEF PayerOK
<1> QED
  BY <1>5, <1>6, <1>7, <1>8, <1>9, <1>10, <1>11, <1>12, <1>13, <1>14
  DEF CreateCount, CreateSum, CloseCheck, PayerDies, SlipsDone

LEMMA PayerWrites ==
    ASSUME OnePayer, PayInv, LiveInv', NEW p \in Payers, UNCHANGED <<run, slips>>,
           \/ \E i \in PayIds : Create(p, i)
           \/ UpdateStatus(p) \/ BankFile(p) \/ Validate(p) \/ Close(p)
    PROVE  PayInv'
<1> USE DEF AtP, OnPayment
<1>1. InRun' = InRun /\ Net' = Net /\ Errors' = Errors /\ Drafts' = Drafts
      /\ Listed(Net)' = Listed(Net)
  BY SameSlips DEF Listed
<1>2. PayerOK(p) /\ Typed /\ LiveInv /\ ClosureOK /\ \A i \in PayIds : PaymentOK(i)
  BY DEF PayInv, LiveInv
<1>3. payments \in [PayIds -> PayRows]
  BY <1>2 DEF Typed
<1>4. payer'[p].pc = "idle"
  BY <1>2, PayerMoves DEF Create, UpdateStatus, BankFile, Validate, Close
<1>5. \A q \in Payers : PayerOK(q)'
  BY <1>4 DEF PayerOK, OnePayer
<1> SUFFICES ClosureOK' /\ \A i \in PayIds : PaymentOK(i)'
  BY <1>5 DEF PayInv
<1>6. CASE \E i \in PayIds : Create(p, i)
  <2>1. PICK i \in PayIds : Create(p, i)
    BY <1>6
  <2>2. run.status \in EditLocked /\ ~Closed /\ payer[p].sum = Net
    BY <2>1, <1>2 DEF Create, PayerOK
  <2>3. \A j \in PayIds :
           payments'[j] = IF j = i THEN Payment("PENDING", Net, {}) ELSE payments[j]
    BY <2>1, <2>2, <1>3 DEF Create
  <2>4. ~Closed'
    BY <2>1, <2>2 DEF Create, Closed
  <2> QED
    BY <2>2, <2>3, <2>4, <1>1, <1>2 DEF PaymentOK, ClosureOK, Payment
<1>7. CASE UpdateStatus(p)
  <2>1. payer[p].pay \in PayIds /\ payer[p].to \in TRANSITIONS[payments[payer[p].pay].status]
    BY <1>7, <1>2 DEF UpdateStatus, LiveInv
  <2>2. payments[payer[p].pay].status \in PayStatuses
    BY <2>1, <1>3 DEF PayRows
  <2>3. payments[payer[p].pay].status \notin {"NONE", "CANCELLED", "PAID"}
    BY <2>1, <2>2, PayStatusSet DEF TRANSITIONS
  <2>4. \A j \in PayIds : payments'[j] =
           IF j = payer[p].pay THEN Payment(payer[p].to, payments[j].amount, payments[j].file)
           ELSE payments[j]
    BY <1>7, <1>3 DEF UpdateStatus
  <2>5. \A i \in PayIds : PaymentOK(i)'
    <3> SUFFICES ASSUME NEW i \in PayIds PROVE PaymentOK(i)'
      OBVIOUS
    <3>1. CASE i = payer[p].pay
      <4>1. payments'[i].amount = payments[i].amount /\ payments'[i].file = payments[i].file
        <5>1. payments'[i] = Payment(payer[p].to, payments[i].amount, payments[i].file)
          BY <3>1, <2>4
        <5> QED
          BY <5>1, PaymentFields
      <4>2. payments[i].status # "NONE"
        BY <3>1, <2>3
      <4> QED
        BY <4>1, <4>2, <1>1, <1>2 DEF PaymentOK
    <3>2. CASE i # payer[p].pay
      <4>1. payments'[i] = payments[i]
        BY <3>2, <2>4
      <4> QED
        BY <4>1, <1>1, <1>2 DEF PaymentOK
    <3> QED
      BY <3>1, <3>2
  <2>6. ~Closed
    BY <2>1, <2>3, <1>2 DEF ClosureOK, Paid, LivePayments, Live
  <2>7. ~Closed'
    BY <2>6, <1>7 DEF UpdateStatus, Closed
  <2> QED
    BY <2>5, <2>7 DEF ClosureOK
<1>8. CASE BankFile(p)
  <2>1. payer[p].pay \in PayIds /\ payments[payer[p].pay].status # "NONE" /\ payer[p].sum = Net
    BY <1>8, <1>2 DEF BankFile, PayerOK
  <2>2. \A j \in PayIds : payments'[j] =
           IF j = payer[p].pay THEN Payment(payments[j].status, payments[j].amount, {Listed(Net)})
           ELSE payments[j]
    BY <1>8, <2>1, <1>3 DEF BankFile
  <2>3. \A i \in PayIds : PaymentOK(i)'
    <3> SUFFICES ASSUME NEW i \in PayIds PROVE PaymentOK(i)'
      OBVIOUS
    <3>1. CASE i = payer[p].pay
      <4>1. payments'[i].amount = payments[i].amount /\ payments'[i].file = {Listed(Net)}
        <5>1. payments'[i] = Payment(payments[i].status, payments[i].amount, {Listed(Net)})
          BY <3>1, <2>2
        <5> QED
          BY <5>1, PaymentFields
      <4>2. payments[i].status # "NONE"
        BY <3>1, <2>1
      <4> QED
        BY <4>1, <4>2, <1>1, <1>2 DEF PaymentOK
    <3>2. CASE i # payer[p].pay
      <4>1. payments'[i] = payments[i]
        BY <3>2, <2>2
      <4> QED
        BY <4>1, <1>1, <1>2 DEF PaymentOK
    <3> QED
      BY <3>1, <3>2
  <2>4. ASSUME NEW j \in PayIds PROVE payments'[j].status = payments[j].status
    <3>1. CASE j = payer[p].pay
      <4>1. payments'[j] = Payment(payments[j].status, payments[j].amount, {Listed(Net)})
        BY <3>1, <2>2
      <4> QED
        BY <4>1, PaymentFields
    <3>2. CASE j # payer[p].pay
      BY <3>2, <2>2
    <3> QED
      BY <3>1, <3>2
  <2>5. LivePayments' = LivePayments /\ \A i \in LivePayments : i \in PayIds
    BY <2>4, SameLive DEF LivePayments
  <2>6. Paid => Paid'
    BY <2>4, <2>5 DEF Paid
  <2>7. (Closed' <=> Closed) /\ closure' = closure
    BY <1>8 DEF BankFile, Closed
  <2> QED
    BY <2>3, <2>6, <2>7, <1>1, <1>2 DEF ClosureOK, SlipsDone
<1>9. CASE Validate(p) \/ Close(p)
  <2>1. payments' = payments /\ closure \subseteq closure'
    BY <1>9 DEF Validate, Close
  <2>2. \A i \in PayIds : PaymentOK(i)'
    BY <2>1, <1>1, <1>2 DEF PaymentOK
  <2>3. LivePayments' = LivePayments
    BY <2>1, SameLive
  <2>4. Closed' => run.status \in EditLocked /\ {"hr", "finance"} \subseteq closure /\ Paid /\ SlipsDone
    BY <1>9, <1>2 DEF Validate, Close, Closed, ClosureOK, PayerOK
  <2> QED
    BY <2>1, <2>2, <2>3, <2>4, <1>1 DEF ClosureOK, Paid, SlipsDone
<1> QED
  BY <1>6, <1>7, <1>8, <1>9

LEMMA PayStep ==
    ASSUME OnePayer, PayInv, LiveInv', NEW p \in Payers, PayerNext(p)
    PROVE  PayInv'
<1>1. UNCHANGED <<run, slips>>
  BY PayerAside
<1>2. CASE \/ \E i \in PayIds : Create(p, i)
           \/ UpdateStatus(p) \/ BankFile(p) \/ Validate(p) \/ Close(p)
  BY <1>1, <1>2, PayerWrites
<1>3. CASE \/ CreateRead(p) \/ CreateCount(p) \/ CreateSum(p) \/ FileSum(p)
           \/ CloseRead(p) \/ CloseCheck(p) \/ PayerDies(p)
           \/ \E i \in PayIds : FileRead(p, i)
           \/ \E kind \in {"hr", "finance"} : ValidateRead(p, kind)
           \/ \E i \in PayIds : \E to \in TRANSITIONS[payments[i].status] : StatusRead(p, i, to)
  <2>1. UNCHANGED <<run, slips, payments, closure>>
    BY <1>1, <1>3 DEF CreateRead, CreateCount, CreateSum, FileSum, CloseRead, CloseCheck,
                     PayerDies, FileRead, ValidateRead, StatusRead
  <2> QED
    BY <2>1, <1>3, PayerReads, PayReads
<1> QED
  BY <1>2, <1>3 DEF PayerNext

LEMMA PayInvStep ==
    OneClerk /\ OnePayer /\ ClerkInv /\ PayInv /\ [Next]_vars => PayInv'
<1> SUFFICES ASSUME OneClerk, OnePayer, ClerkInv, PayInv, [Next]_vars PROVE PayInv'
  OBVIOUS
<1>1. Typed' /\ LiveInv'
  BY TypeNext, LiveInvStep DEF PayInv, LiveInv
<1>2. Frozen
  BY <1>1, ClerkInvStep
<1>3. CASE UNCHANGED <<payments, closure, payer>>
  BY <1>1, <1>2, <1>3, PayRely
<1>4. CASE UNCHANGED vars
  BY <1>3, <1>4 DEF vars
<1> QED
  BY <1>1, <1>3, <1>4, PayStep, PaymentsAside, DeskAside DEF Next

LEMMA PayAlways == OneClerk /\ OnePayer => (Spec => []PayInv)
<1> SUFFICES ASSUME OneClerk, OnePayer PROVE Spec => []PayInv
  OBVIOUS
<1>1. ClerkInv /\ PayInv /\ [Next]_vars => PayInv'
  BY PayInvStep
<1> QED
  BY <1>1, PayInit, ClerkAlways, PTL DEF Spec

\* A payment and its bank file are for what the payslips of the run say, though
\* the three are made at different times, when calls do not overlap.
THEOREM PaymentsMatch == OneClerk /\ OnePayer => (Spec => []PaymentsAgree)
<1> SUFFICES ASSUME OneClerk, OnePayer PROVE Spec => []PaymentsAgree
  OBVIOUS
<1>1. PayInv => PaymentsAgree
  BY DEF PayInv, PaymentOK, PaymentsAgree, LivePayments, Live
<1> QED
  BY <1>1, PayAlways, PTL

\* A closed run stays validated, issued, free of errors and paid.
THEOREM ClosureStands == OneClerk /\ OnePayer => (Spec => []ClosedIsSettled)
<1> SUFFICES ASSUME OneClerk, OnePayer PROVE Spec => []ClosedIsSettled
  OBVIOUS
<1>1. PayInv => ClosedIsSettled
  BY DEF PayInv, ClosureOK, ClosedIsSettled, Paid, SlipsDone
<1> QED
  BY <1>1, PayAlways, PTL
=============================================================================
