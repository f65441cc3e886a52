------------------------ MODULE BillingCycle_proofs ------------------------
(***************************************************************************)
(* Proofs about BillingCycle, for any number of subscriptions, invoices    *)
(* and administrators' calls and any deaths of calls and of the daily      *)
(* job: an invoice marked PAID is covered by its payments, and only a      *)
(* payment in full reopens a closed subscription.                          *)
(* When calls and job do not overlap (Serial): access is for a period      *)
(* that was paid, payments settle, a period is renewed once, nobody is     *)
(* expired without cause, and, if no phase of the job fails either, the    *)
(* job leaves in service nobody in debt beyond the grace, and nobody who   *)
(* has not paid for longer than the time to pay and the grace.             *)
(***************************************************************************)
EXTENDS BillingCycle, FiniteSetTheorems, TLAPS

SubRows == [status : Statuses, start : Nat, end : Nat, trialEnd : Nat,
            cancelling : BOOLEAN]
InvRows == [status : {"NONE", "ISSUED", "OVERDUE", "PAID", "VOID"}, sub : 0 .. MaxSubs,
            start : Nat, end : Nat, due : Nat, paid : Nat, fiscal : BOOLEAN,
            renewal : BOOLEAN]

CallPCs == {"idle", "trial", "contract", "issue", "cancelAtEnd", "cancelNow",
            "pay", "fail", "void"}
CallRows == [pc : CallPCs, inv : 0 .. MaxInvoices, sub : 0 .. MaxSubs,
             start : Nat, amount : Nat, full : BOOLEAN]

\* What a call remembers still holds of the tables: rows are never removed, and
\* the sum of an invoice's payments only grows.
CallOK(call) ==
    /\ call.pc \in {"issue", "cancelAtEnd", "cancelNow"} => call.sub \in Existing
    /\ call.pc \in {"pay", "fail", "void"} => call.inv \in Issued
    /\ call.pc = "pay" => call.amount > 0
    /\ call.pc = "pay" /\ call.full => invoices[call.inv].paid + call.amount >= Total

CallsOK ==
    /\ proc \in [Admins -> CallRows]
    /\ \A a \in Admins : CallOK(proc[a])

\* So does what the daily job has listed.
CronOK ==
    /\ cron.pc \in {"renew", "renewIssue"} =>
          \A x \in cron.todo : x[1] \in Existing /\ x[2] \in Nat
    /\ cron.pc = "renewIssue" => cron.item[1] \in Existing /\ cron.item[2] \in Nat
    /\ cron.pc \in {"trial", "trialExpire"} => \A x \in cron.todo : x[1] \in Existing
    /\ cron.pc = "trialExpire" => cron.item[1] \in Existing
    /\ cron.pc \in {"overdue", "mark", "pastDue", "grace"} =>
          \A x \in cron.todo : x[1] \in Issued
    /\ cron.pc \in {"mark", "pastDue", "grace"} => cron.item[1] \in Issued

Inv == TypeOK /\ PaidCoversTotal /\ CallsOK /\ CronOK

-----------------------------------------------------------------------------
(* The tables as sets of rows filled in order.                             *)

LEMMA RowsFinite ==
    /\ IsFiniteSet(Existing) /\ Cardinality(Existing) \in Nat
    /\ IsFiniteSet(Issued) /\ Cardinality(Issued) \in Nat
<1>1. IsFiniteSet(SubIds) /\ IsFiniteSet(InvIds)
  BY FS_Interval, BoundAssumption DEF SubIds, InvIds
<1>2. Existing \subseteq SubIds /\ Issued \subseteq InvIds
  BY DEF Existing, Issued
<1> QED
  BY <1>1, <1>2, FS_Subset, FS_CardinalityType

LEMMA NextFree == TypeOK => NextSub \notin Existing /\ NextInv \notin Issued
  BY RowsFinite DEF TypeOK, NextSub, NextInv

LEMMA MaxOfPair == \A x, y \in Nat : Max({x, y}) \in Nat
<1> SUFFICES ASSUME NEW x \in Nat, NEW y \in Nat PROVE Max({x, y}) \in Nat
  OBVIOUS
<1>1. \E z \in {x, y} : \A w \in {x, y} : z >= w
  <2>1. CASE x >= y
    BY <2>1
  <2>2. CASE y >= x
    BY <2>2
  <2> QED
    BY <2>1, <2>2
<1> QED
  BY <1>1 DEF Max

LEMMA LatestExists == TypeOK /\ Latest # 0 => Latest \in Existing
<1> SUFFICES ASSUME TypeOK, Existing # {} PROVE Max(Existing) \in Existing
  BY DEF Latest
<1> DEFINE n == Cardinality(Existing)
<1>1. Existing = 1 .. n /\ n \in Nat
  BY RowsFinite DEF TypeOK
<1>2. n \in Existing /\ \A x \in Existing : n >= x
  BY <1>1
<1> QED
  BY <1>2 DEF Max

-----------------------------------------------------------------------------
(* What a step does to the tables: it edits rows, or adds one.             *)

SubsEdited ==
    /\ subs' \in [SubIds -> SubRows]
    /\ \A s \in SubIds : subs'[s].status = "NONE" <=> subs[s].status = "NONE"

InvoicesEdited ==
    /\ invoices' \in [InvIds -> InvRows]
    /\ \A i \in InvIds :
          /\ invoices'[i].status = "NONE" <=> invoices[i].status = "NONE"
          /\ invoices'[i].sub = invoices[i].sub
          /\ invoices'[i].paid >= invoices[i].paid
          /\ invoices'[i].status = "PAID" => invoices'[i].paid >= Total

Grown ==
    /\ Existing \subseteq Existing' /\ Issued \subseteq Issued'
    /\ \A i \in Issued : invoices'[i].paid \in Nat /\ invoices'[i].paid >= invoices[i].paid

TablesOK == TypeOK /\ PaidCoversTotal

LEMMA Unedited ==
  ASSUME TablesOK
  PROVE  /\ subs' = subs => SubsEdited
         /\ invoices' = invoices => InvoicesEdited
  BY AmountAssumption
  DEF TablesOK, TypeOK, PaidCoversTotal, SubsEdited, InvoicesEdited, SubRows, InvRows

LEMMA TablesEdited ==
  ASSUME TablesOK, SubsEdited, InvoicesEdited, today' \in 0 .. MaxDay
  PROVE  TablesOK' /\ Grown
<1>1. Existing' = Existing /\ Issued' = Issued
  BY DEF Existing, Issued, SubsEdited, InvoicesEdited
<1>2. Cardinality(Existing)' = Cardinality(Existing) /\ Cardinality(Issued)' = Cardinality(Issued)
  BY <1>1
<1>3. \A i \in Issued : i \in InvIds
  BY DEF Issued
<1> QED
  BY <1>1, <1>2, <1>3
  DEF TablesOK, TypeOK, PaidCoversTotal, SubsEdited, InvoicesEdited, Grown, SubRows, InvRows

LEMMA SubAdded ==
  ASSUME TablesOK, NextSub \in SubIds, invoices' = invoices, today' = today,
         NEW status \in Statuses \ {"NONE"}, NEW start \in Nat, NEW end \in Nat,
         NEW trialEnd \in Nat, NewSub(status, start, end, trialEnd)
  PROVE  TablesOK' /\ Grown /\ NextSub \in Existing'
<1> DEFINE n == NextSub
<1>1. subs' \in [SubIds -> SubRows]
  BY DEF TablesOK, TypeOK, NewSub, SubRows
<1>2. subs'[n].status = status /\ \A s \in SubIds \ {n} : subs'[s] = subs[s]
  BY DEF TablesOK, TypeOK, NewSub
<1>3. Existing' = Existing \cup {n} /\ n \notin Existing
  BY <1>2, NextFree DEF Existing, TablesOK
<1>4. Issued' = Issued
  BY DEF Issued
<1>5. Cardinality(Existing)' = Cardinality(Existing) + 1
  BY <1>3, RowsFinite, FS_AddElement
<1>6. Existing' = 1 .. Cardinality(Existing)'
  <2>1. Existing = 1 .. Cardinality(Existing) /\ n = Cardinality(Existing) + 1
    BY DEF TablesOK, TypeOK, NextSub
  <2> QED
    BY <1>3, <1>5, <2>1, RowsFinite
<1>7. TypeOK'
  BY <1>1, <1>3, <1>4, <1>6 DEF TablesOK, TypeOK, SubRows
<1>8. \A i \in Issued : invoices'[i].paid \in Nat /\ invoices'[i].paid >= invoices[i].paid
  BY DEF TablesOK, TypeOK, Issued
<1> QED
  BY <1>3, <1>4, <1>7, <1>8 DEF TablesOK, PaidCoversTotal, Grown

LEMMA InvoiceAdded ==
  ASSUME TablesOK, RoomForInvoice, subs' = subs, today' = today,
         NEW s \in Existing, NEW start \in Nat, NEW end \in Nat, NEW due \in Nat,
         NEW renewal \in BOOLEAN, Issue(s, start, end, due, renewal)
  PROVE  TablesOK' /\ Grown
<1> DEFINE n == NextInv
<1>1. n \in InvIds /\ s \in 0 .. MaxSubs
  BY DEF RoomForInvoice, Existing, SubIds
<1>2. invoices' \in [InvIds -> InvRows]
  BY <1>1 DEF TablesOK, TypeOK, Issue, InvRows
<1>3. /\ invoices'[n].status = "ISSUED" /\ invoices'[n].sub = s
      /\ \A i \in InvIds \ {n} : invoices'[i] = invoices[i]
  BY <1>1 DEF TablesOK, TypeOK, Issue
<1>4. Issued' = Issued \cup {n} /\ n \notin Issued
  BY <1>1, <1>3, NextFree DEF Issued, TablesOK
<1>5. Existing' = Existing /\ Cardinality(Existing)' = Cardinality(Existing)
  BY DEF Existing
<1>6. Cardinality(Issued)' = Cardinality(Issued) + 1
  BY <1>4, RowsFinite, FS_AddElement
<1>7. Issued' = 1 .. Cardinality(Issued)'
  <2>1. Issued = 1 .. Cardinality(Issued) /\ n = Cardinality(Issued) + 1
    BY DEF TablesOK, TypeOK, NextInv
  <2> QED
    BY <1>4, <1>6, <2>1, RowsFinite
<1>8. \A i \in Issued : i \in InvIds \ {n} /\ invoices'[i] = invoices[i]
  BY <1>3, <1>4 DEF Issued
<1>9. \A i \in Issued' : invoices'[i].sub \in Existing'
  BY <1>3, <1>4, <1>5, <1>8 DEF TablesOK, TypeOK
<1>10. TypeOK'
  BY <1>2, <1>5, <1>7, <1>9 DEF TablesOK, TypeOK, InvRows
<1>11. Grown
  BY <1>4, <1>5, <1>8 DEF Grown, TablesOK, TypeOK, InvRows
<1> QED
  BY <1>3, <1>10, <1>11 DEF TablesOK, PaidCoversTotal

-----------------------------------------------------------------------------
(* What is remembered of the tables outlives their growth.                 *)

LEMMA IdleOK == Idle \in CallRows /\ CallOK(Idle)
  BY BoundAssumption DEF Idle, OnSub, CallRows, CallPCs, CallOK

LEMMA CallsStep ==
  ASSUME Inv, Grown, NEW a \in Admins, proc' \in [Admins -> CallRows],
         \A b \in Admins \ {a} : proc'[b] = proc[b], CallOK(proc[a])'
  PROVE  CallsOK'
<1> SUFFICES ASSUME NEW b \in Admins PROVE CallOK(proc[b])'
  BY DEF CallsOK
<1>1. CASE b = a
  BY <1>1
<1>2. CASE b # a
  <2>1. proc'[b] = proc[b] /\ CallOK(proc[b]) /\ proc[b] \in CallRows
    BY <1>2 DEF Inv, CallsOK
  <2>2. \A i \in Issued : /\ invoices[i].paid \in Nat /\ invoices'[i].paid \in Nat
                           /\ invoices'[i].paid >= invoices[i].paid
    BY DEF Inv, TypeOK, Issued, Grown
  <2>3. proc[b].pc = "pay" /\ proc[b].full =>
           invoices'[proc[b].inv].paid + proc[b].amount >= Total
    BY <2>1, <2>2, AmountAssumption DEF CallOK, CallRows
  <2> QED
    BY <2>1, <2>3 DEF CallOK, Grown
<1> QED
  BY <1>1, <1>2

LEMMA CallReturns ==
  ASSUME Inv, Grown, NEW a \in Admins, Return(a)
  PROVE  CallsOK'
<1>1. /\ proc' \in [Admins -> CallRows] /\ proc'[a] = Idle
      /\ \A b \in Admins \ {a} : proc'[b] = proc[b]
  BY IdleOK DEF Return, Inv, CallsOK
<1>2. CallOK(proc[a])'
  BY <1>1 DEF CallOK, Idle, OnSub
<1> QED
  BY <1>1, <1>2, CallsStep

LEMMA CallsKept ==
  ASSUME Inv, Grown, proc' = proc
  PROVE  CallsOK'
<1> SUFFICES ASSUME NEW a \in Admins PROVE CallsOK'
  BY DEF Inv, CallsOK
<1>1. \A b \in Admins : proc'[b] = proc[b] /\ CallOK(proc[b]) /\ proc[b] \in CallRows
  BY DEF Inv, CallsOK
<1>2. \A i \in Issued : /\ invoices[i].paid \in Nat /\ invoices'[i].paid \in Nat
                         /\ invoices'[i].paid >= invoices[i].paid
  BY DEF Inv, TypeOK, Issued, Grown
<1>3. proc[a].pc = "pay" /\ proc[a].full =>
         invoices'[proc[a].inv].paid + proc[a].amount >= Total
  BY <1>1, <1>2, AmountAssumption DEF CallOK, CallRows
<1>4. CallOK(proc[a])'
  BY <1>1, <1>3 DEF CallOK, Grown
<1>5. proc' \in [Admins -> CallRows]
  BY DEF Inv, CallsOK
<1> QED
  BY <1>1, <1>4, <1>5, CallsStep

LEMMA CronKept ==
  ASSUME Inv, Grown, cron' = cron
  PROVE  CronOK'
  BY DEF Inv, Grown, CronOK

-----------------------------------------------------------------------------
(* The invariant is kept by every step.                                    *)

LEMMA TablesKept ==
  ASSUME Inv, UNCHANGED <<subs, invoices>>, today' \in 0 .. MaxDay
  PROVE  TablesOK' /\ Grown
  BY Unedited, TablesEdited DEF Inv, TablesOK

\* A call reads: it remembers something of the tables as they are.
LEMMA ReadKeeps ==
  ASSUME Inv, UNCHANGED <<today, subs, invoices, cron>>, NEW a \in Admins,
         proc' \in [Admins -> CallRows], \A b \in Admins \ {a} : proc'[b] = proc[b],
         CallOK(proc[a])'
  PROVE  Inv'
<1>1. TablesOK' /\ Grown
  BY TablesKept DEF Inv, TypeOK
<1> QED
  BY <1>1, CallsStep, CronKept DEF Inv, TablesOK

\* A call writes its row or rows and ends.
LEMMA WriteKeeps ==
  ASSUME Inv, NEW a \in Admins, TablesOK', Grown, Return(a), cron' = cron
  PROVE  Inv'
  BY CallReturns, CronKept DEF Inv, TablesOK

LEMMA EditKeeps ==
  ASSUME Inv, NEW a \in Admins, SubsEdited, InvoicesEdited, Return(a),
         UNCHANGED <<today, cron>>
  PROVE  Inv'
<1>1. TablesOK' /\ Grown
  BY TablesEdited DEF Inv, TablesOK, TypeOK
<1> QED
  BY <1>1, WriteKeeps

LEMMA SubscribeKeeps ==
  ASSUME Inv, NEW a \in Admins,
         StartTrialRead(a) \/ StartTrial(a) \/ SubscribeRead(a) \/ SubscribeCreate(a)
            \/ SubscribeIssue(a)
  PROVE  Inv'
<1>1. proc[a] \in CallRows /\ CallOK(proc[a]) /\ proc \in [Admins -> CallRows] /\ today \in Nat
  BY BoundAssumption DEF Inv, CallsOK, TypeOK
<1>2. CASE StartTrialRead(a)
  <2>1. proc' \in [Admins -> CallRows] /\ CallOK(proc[a])'
    BY <1>1, <1>2, BoundAssumption DEF StartTrialRead, OnSub, CallRows, CallPCs, CallOK
  <2> QED
    BY <1>1, <1>2, <2>1, ReadKeeps DEF StartTrialRead
<1>3. CASE StartTrial(a)
  <2>1. TablesOK' /\ Grown
    <3>1. today + TrialDays \in Nat
      BY <1>1, CalendarAssumption
    <3> QED
      BY <1>1, <1>3, <3>1, SubAdded DEF StartTrial, Inv, TablesOK, Statuses
  <2> QED
    BY <1>3, <2>1, WriteKeeps DEF StartTrial
<1>4. CASE SubscribeRead(a)
  <2> DEFINE trial == Standing = "TRIALING" /\ subs[Latest].trialEnd > today
             start == IF trial THEN subs[Latest].trialEnd ELSE today
  <2>1. Standing # "NONE" => Latest \in Existing /\ Latest \in SubIds
    BY LatestExists DEF Inv, Standing, Existing
  <2>2. start \in Nat
    BY <1>1, <2>1 DEF Inv, TypeOK
  <2>3. CASE /\ Standing \in {"TRIALING", "PENDING"}
             /\ proc' = [proc EXCEPT ![a] = OnSub("issue", Latest, start)]
    <3>1. Existing' = Existing /\ Issued' = Issued
      BY <1>4 DEF SubscribeRead, Existing, Issued
    <3>2. Latest \in Existing /\ Latest \in 0 .. MaxSubs
      BY <2>1, <2>3 DEF SubIds
    <3> HIDE DEF start
    <3>3. proc' \in [Admins -> CallRows] /\ CallOK(proc[a])'
      BY <1>1, <2>2, <2>3, <3>1, <3>2, BoundAssumption DEF OnSub, CallRows, CallPCs, CallOK
    <3> QED
      BY <1>1, <1>4, <2>3, <3>3, ReadKeeps DEF SubscribeRead
  <2>4. CASE proc' = [proc EXCEPT ![a] = OnSub("contract", 0, start)]
    <3> HIDE DEF start
    <3>1. proc' \in [Admins -> CallRows] /\ CallOK(proc[a])'
      BY <1>1, <2>2, <2>4, BoundAssumption DEF OnSub, CallRows, CallPCs, CallOK
    <3> QED
      BY <1>1, <1>4, <2>4, <3>1, ReadKeeps DEF SubscribeRead
  <2> QED
    BY <1>4, <2>3, <2>4 DEF SubscribeRead
<1>5. CASE SubscribeCreate(a)
  <2>1. proc[a].start \in Nat /\ proc[a].start + Period \in Nat
    BY <1>1, CalendarAssumption DEF CallRows
  <2>2. TablesOK' /\ Grown /\ NextSub \in Existing' /\ NextSub \in SubIds
    BY <1>5, <2>1, SubAdded DEF SubscribeCreate, Inv, TablesOK, Statuses
  <2>3. NextSub \in 0 .. MaxSubs
    BY <2>2 DEF SubIds
  <2>4. proc' \in [Admins -> CallRows] /\ CallOK(proc[a])'
    BY <1>1, <1>5, <2>1, <2>2, <2>3, BoundAssumption DEF SubscribeCreate, OnSub, CallRows, CallPCs, CallOK
  <2>5. CallsOK'
    BY <1>1, <1>5, <2>2, <2>4, CallsStep DEF SubscribeCreate
  <2> QED
    BY <1>5, <2>2, <2>5, CronKept DEF SubscribeCreate, Inv, TablesOK
<1>6. CASE SubscribeIssue(a)
  <2>1. /\ proc[a].start \in Nat /\ proc[a].start + Period \in Nat
        /\ Max({today, proc[a].start}) + DueDays \in Nat
    BY <1>1, MaxOfPair, CalendarAssumption DEF CallRows
  <2>2. proc[a].sub \in Existing
    BY <1>1, <1>6 DEF SubscribeIssue, At, CallOK
  <2>3. TablesOK' /\ Grown
    BY <1>6, <2>1, <2>2, InvoiceAdded DEF SubscribeIssue, Inv, TablesOK
  <2> QED
    BY <1>6, <2>3, WriteKeeps DEF SubscribeIssue
<1> QED
  BY <1>2, <1>3, <1>4, <1>5, <1>6

\* The updates of a row of a subscription or of an invoice.
LEMMA SubMoved ==
  ASSUME Inv, NEW s \in Existing,
         NEW status \in {"TRIALING", "PENDING", "ACTIVE", "PAST_DUE", "CANCELED", "EXPIRED"},
         subs' = [subs EXCEPT ![s].status = status]
  PROVE  SubsEdited
<1>1. subs \in [SubIds -> SubRows] /\ s \in SubIds /\ subs[s].status # "NONE"
  BY DEF Inv, TypeOK, SubRows, Existing
<1>2. subs' \in [SubIds -> SubRows]
  BY <1>1 DEF SubRows, Statuses
<1>3. subs'[s].status = status /\ \A x \in SubIds \ {s} : subs'[x] = subs[x]
  BY <1>1 DEF SubRows
<1> QED
  BY <1>1, <1>2, <1>3 DEF SubsEdited

LEMMA SubCancelling ==
  ASSUME Inv, NEW s \in Existing,
         subs' = [subs EXCEPT ![s].cancelling = TRUE]
  PROVE  SubsEdited
<1>1. subs \in [SubIds -> SubRows] /\ s \in SubIds /\ subs[s].status # "NONE"
  BY DEF Inv, TypeOK, SubRows, Existing
<1>2. subs' \in [SubIds -> SubRows]
  BY <1>1, ZenonT(120) DEF SubRows, Statuses
<1>3. subs'[s].status = subs[s].status /\ \A x \in SubIds \ {s} : subs'[x] = subs[x]
  BY <1>1 DEF SubRows
<1> QED
  BY <1>1, <1>2, <1>3 DEF SubsEdited

LEMMA SubEnded ==
  ASSUME Inv, NEW s \in Existing, NEW end \in Nat,
         subs' = [subs EXCEPT ![s].status = "CANCELED", ![s].end = end]
  PROVE  SubsEdited
<1>1. subs \in [SubIds -> SubRows] /\ s \in SubIds /\ subs[s].status # "NONE"
  BY DEF Inv, TypeOK, SubRows, Existing
<1>2. subs' \in [SubIds -> SubRows]
  BY <1>1, ZenonT(120) DEF SubRows, Statuses
<1>3. subs'[s].status = "CANCELED" /\ \A x \in SubIds \ {s} : subs'[x] = subs[x]
  BY <1>1 DEF SubRows
<1> QED
  BY <1>1, <1>2, <1>3 DEF SubsEdited

LEMMA SubRenewed ==
  ASSUME Inv, NEW s \in Existing, NEW start \in Nat, NEW end \in Nat,
         subs' = [subs EXCEPT ![s].status = "ACTIVE", ![s].start = start, ![s].end = end]
  PROVE  SubsEdited
<1>1. subs \in [SubIds -> SubRows] /\ s \in SubIds /\ subs[s].status # "NONE"
  BY DEF Inv, TypeOK, SubRows, Existing
<1>2. subs' \in [SubIds -> SubRows]
  BY <1>1, ZenonT(120) DEF SubRows, Statuses
<1>3. subs'[s].status = "ACTIVE" /\ \A x \in SubIds \ {s} : subs'[x] = subs[x]
  BY <1>1 DEF SubRows
<1> QED
  BY <1>1, <1>2, <1>3 DEF SubsEdited

LEMMA InvoiceEdited ==
  ASSUME Inv, NEW i \in Issued, invoices' \in [InvIds -> InvRows],
         \A j \in InvIds \ {i} : invoices'[j] = invoices[j],
         invoices'[i].sub = invoices[i].sub, invoices'[i].status # "NONE",
         invoices'[i].paid >= invoices[i].paid,
         invoices'[i].status = "PAID" => invoices'[i].paid >= Total
  PROVE  InvoicesEdited
<1>1. invoices[i].status # "NONE"
  BY DEF Issued
<1> SUFFICES ASSUME NEW j \in InvIds
             PROVE  /\ invoices'[j].status = "NONE" <=> invoices[j].status = "NONE"
                    /\ invoices'[j].sub = invoices[j].sub
                    /\ invoices'[j].paid >= invoices[j].paid
                    /\ invoices'[j].status = "PAID" => invoices'[j].paid >= Total
  BY DEF InvoicesEdited
<1>2. CASE j = i
  BY <1>1, <1>2
<1>3. CASE j # i
  <2>1. invoices'[j] = invoices[j]
    BY <1>3
  <2>2. invoices[j].paid \in Nat
    BY DEF Inv, TypeOK
  <2>3. invoices[j].status = "PAID" => invoices[j].paid >= Total
    BY DEF Inv, PaidCoversTotal
  <2>4. invoices'[j].paid >= invoices[j].paid
    BY <2>1, <2>2
  <2> QED
    BY <2>1, <2>3, <2>4, Zenon
<1> QED
  BY <1>2, <1>3

LEMMA InvoicePaidPart ==
  ASSUME Inv, NEW i \in Issued, NEW sum \in Nat, sum >= invoices[i].paid,
         invoices' = [invoices EXCEPT ![i].paid = sum]
  PROVE  InvoicesEdited
<1>1. invoices \in [InvIds -> InvRows] /\ i \in InvIds /\ invoices[i].status # "NONE"
  BY DEF Inv, TypeOK, InvRows, Issued
<1>2. invoices' \in [InvIds -> InvRows]
  BY <1>1 DEF InvRows
<1>3. /\ invoices'[i].status = invoices[i].status /\ invoices'[i].paid = sum
      /\ invoices'[i].sub = invoices[i].sub
      /\ \A j \in InvIds \ {i} : invoices'[j] = invoices[j]
  BY <1>1 DEF InvRows
<1>4. /\ invoices[i].paid \in Nat
      /\ invoices[i].status = "PAID" => invoices[i].paid >= Total
  BY <1>1 DEF InvRows, Inv, PaidCoversTotal
<1>5. /\ invoices'[i].status # "NONE" /\ invoices'[i].paid >= invoices[i].paid
      /\ invoices'[i].status = "PAID" => invoices'[i].paid >= Total
  BY <1>1, <1>3, <1>4, AmountAssumption
<1> QED
  BY <1>2, <1>3, <1>5, InvoiceEdited

LEMMA InvoicePaid ==
  ASSUME Inv, NEW i \in Issued, NEW sum \in Nat, sum >= invoices[i].paid, sum >= Total,
         invoices' = [invoices EXCEPT ![i].paid = sum, ![i].status = "PAID"]
  PROVE  InvoicesEdited
<1>1. invoices \in [InvIds -> InvRows] /\ i \in InvIds /\ invoices[i].status # "NONE"
  BY DEF Inv, TypeOK, InvRows, Issued
<1>2. invoices' \in [InvIds -> InvRows]
  BY <1>1, ZenonT(120) DEF InvRows
<1>3. /\ invoices'[i].status = "PAID" /\ invoices'[i].paid = sum
      /\ invoices'[i].sub = invoices[i].sub
      /\ \A j \in InvIds \ {i} : invoices'[j] = invoices[j]
  BY <1>1 DEF InvRows
<1>4. /\ invoices[i].paid \in Nat
      /\ invoices[i].status = "PAID" => invoices[i].paid >= Total
  BY <1>1 DEF InvRows, Inv, PaidCoversTotal
<1>5. /\ invoices'[i].status # "NONE" /\ invoices'[i].paid >= invoices[i].paid
      /\ invoices'[i].status = "PAID" => invoices'[i].paid >= Total
  BY <1>1, <1>3, <1>4, AmountAssumption
<1> QED
  BY <1>2, <1>3, <1>5, InvoiceEdited

LEMMA InvoiceMoved ==
  ASSUME Inv, NEW i \in Issued, NEW status \in {"OVERDUE", "VOID"},
         invoices' = [invoices EXCEPT ![i].status = status]
  PROVE  InvoicesEdited
<1>1. invoices \in [InvIds -> InvRows] /\ i \in InvIds /\ invoices[i].status # "NONE"
  BY DEF Inv, TypeOK, InvRows, Issued
<1>2. invoices' \in [InvIds -> InvRows]
  BY <1>1 DEF InvRows
<1>3. /\ invoices'[i].status = status /\ invoices'[i].paid = invoices[i].paid
      /\ invoices'[i].sub = invoices[i].sub
      /\ \A j \in InvIds \ {i} : invoices'[j] = invoices[j]
  BY <1>1 DEF InvRows
<1>4. /\ invoices[i].paid \in Nat
      /\ invoices[i].status = "PAID" => invoices[i].paid >= Total
  BY <1>1 DEF InvRows, Inv, PaidCoversTotal
<1>5. /\ invoices'[i].status # "NONE" /\ invoices'[i].paid >= invoices[i].paid
      /\ invoices'[i].status = "PAID" => invoices'[i].paid >= Total
  BY <1>1, <1>3, <1>4, AmountAssumption
<1> QED
  BY <1>2, <1>3, <1>5, InvoiceEdited

LEMMA InvoiceFiscal ==
  ASSUME Inv, NEW i \in Issued,
         invoices' = [invoices EXCEPT ![i].fiscal = TRUE]
  PROVE  InvoicesEdited
<1>1. invoices \in [InvIds -> InvRows] /\ i \in InvIds /\ invoices[i].status # "NONE"
  BY DEF Inv, TypeOK, InvRows, Issued
<1>2. invoices' \in [InvIds -> InvRows]
  BY <1>1, ZenonT(120) DEF InvRows
<1>3. /\ invoices'[i].status = invoices[i].status /\ invoices'[i].paid = invoices[i].paid
      /\ invoices'[i].sub = invoices[i].sub
      /\ \A j \in InvIds \ {i} : invoices'[j] = invoices[j]
  BY <1>1 DEF InvRows
<1>4. /\ invoices[i].paid \in Nat
      /\ invoices[i].status = "PAID" => invoices[i].paid >= Total
  BY <1>1 DEF InvRows, Inv, PaidCoversTotal
<1>5. /\ invoices'[i].status # "NONE" /\ invoices'[i].paid >= invoices[i].paid
      /\ invoices'[i].status = "PAID" => invoices'[i].paid >= Total
  BY <1>1, <1>3, <1>4, AmountAssumption
<1> QED
  BY <1>2, <1>3, <1>5, InvoiceEdited

LEMMA CancelKeeps ==
  ASSUME Inv, NEW a \in Admins,
         Cancel(a) \/ \E pc \in {"cancelAtEnd", "cancelNow"} : CancelRead(a, pc)
  PROVE  Inv'
<1>1. proc[a] \in CallRows /\ CallOK(proc[a]) /\ proc \in [Admins -> CallRows] /\ today \in Nat
  BY BoundAssumption DEF Inv, CallsOK, TypeOK
<1>2. ASSUME NEW pc \in {"cancelAtEnd", "cancelNow"}, CancelRead(a, pc) PROVE Inv'
  <2>1. Latest \in Existing /\ Latest \in 0 .. MaxSubs
    BY <1>2, LatestExists DEF CancelRead, Standing, Inv, Existing, SubIds
  <2>2. Existing' = Existing /\ Issued' = Issued
    BY <1>2 DEF CancelRead, Existing, Issued
  <2>3. proc' \in [Admins -> CallRows] /\ CallOK(proc[a])'
    BY <1>1, <1>2, <2>1, <2>2, BoundAssumption DEF CancelRead, OnSub, CallRows, CallPCs, CallOK
  <2> QED
    BY <1>1, <1>2, <2>3, ReadKeeps DEF CancelRead
<1>3. ASSUME Cancel(a) PROVE Inv'
  <2>1. PICK s \in SubIds : s = proc[a].sub /\ s \in Existing
    BY <1>1, <1>3 DEF Cancel, At, CallOK, Existing
  <2>2. \/ subs' = [subs EXCEPT ![s].cancelling = TRUE]
        \/ subs' = [subs EXCEPT ![s].status = "CANCELED", ![s].end = today]
    BY <1>3, <2>1 DEF Cancel
  <2>3. SubsEdited
    BY <1>1, <2>1, <2>2, SubCancelling, SubEnded
  <2> QED
    BY <1>3, <2>3, EditKeeps, Unedited DEF Cancel, Inv, TablesOK
<1> QED
  BY <1>2, <1>3

LEMMA OpenReadKeeps ==
  ASSUME Inv, NEW a \in Admins, NEW i \in Issued,
         UNCHANGED <<today, subs, invoices, cron>>,
         NEW pc \in {"pay", "fail", "void"}, NEW amount \in Nat, NEW full \in BOOLEAN,
         pc = "pay" => amount > 0,
         full => invoices[i].paid + amount >= Total,
         proc' = [proc EXCEPT ![a] = OnInvoice(pc, i, amount, full)]
  PROVE  Inv'
<1>1. proc \in [Admins -> CallRows] /\ i \in 0 .. MaxInvoices
  BY DEF Inv, CallsOK, Issued, InvIds
<1>2. Existing' = Existing /\ Issued' = Issued
  BY DEF Existing, Issued
<1>3. proc' \in [Admins -> CallRows] /\ CallOK(proc[a])'
  BY <1>1, <1>2, BoundAssumption DEF OnInvoice, CallRows, CallPCs, CallOK
<1> QED
  BY <1>1, <1>3, ReadKeeps

LEMMA PayKeeps ==
  ASSUME Inv, NEW a \in Admins,
         Pay(a) \/ \E i \in InvIds, amount \in Amounts : PayRead(a, i, amount)
  PROVE  Inv'
<1>1. ASSUME NEW i \in InvIds, NEW amount \in Amounts, PayRead(a, i, amount) PROVE Inv'
  <2>1. i \in Issued
    BY <1>1 DEF PayRead, Issued
  <2>2. amount \in Nat /\ amount > 0
    BY AmountAssumption
  <2>3. UNCHANGED <<today, subs, invoices, cron>>
    BY <1>1 DEF PayRead
  <2>4. CASE invoices[i].paid + amount >= Total
    <3>1. proc' = [proc EXCEPT ![a] = OnInvoice("pay", i, amount, TRUE)]
      <4>1. (invoices[i].paid + amount >= Total) = TRUE
        BY <2>4
      <4> QED
        BY <1>1, <4>1, Zenon DEF PayRead
    <3> QED
      BY <2>1, <2>2, <2>3, <2>4, <3>1, OpenReadKeeps
  <2>5. CASE ~(invoices[i].paid + amount >= Total)
    <3>1. proc' = [proc EXCEPT ![a] = OnInvoice("pay", i, amount, FALSE)]
      <4>1. (invoices[i].paid + amount >= Total) = FALSE
        BY <2>5
      <4> QED
        BY <1>1, <4>1, Zenon DEF PayRead
    <3> QED
      BY <2>1, <2>2, <2>3, <3>1, OpenReadKeeps
  <2> QED
    BY <2>4, <2>5
<1>2. ASSUME Pay(a) PROVE Inv'
  <2>1. PICK i \in InvIds : i = proc[a].inv /\ i \in Issued
    BY <1>2 DEF Pay, At, Inv, CallsOK, CallOK, Issued
  <2>2. PICK s \in SubIds : s = invoices[i].sub /\ s \in Existing
    BY <2>1 DEF Inv, TypeOK, Existing
  <2>3. PICK sum \in Nat : /\ sum = invoices[i].paid + proc[a].amount
                           /\ sum >= invoices[i].paid
                           /\ proc[a].full => sum >= Total
    <3>1. /\ invoices[i].paid \in Nat /\ proc[a].amount \in Nat
          /\ proc[a].full => invoices[i].paid + proc[a].amount >= Total
      BY <1>2, <2>1 DEF Pay, At, Inv, CallsOK, CallOK, CallRows, TypeOK
    <3> QED
      BY <3>1
  <2>4. InvoicesEdited
    <3>1. \/ invoices' = [invoices EXCEPT ![i].paid = sum]
          \/ /\ proc[a].full
             /\ invoices' = [invoices EXCEPT ![i].paid = sum, ![i].status = "PAID"]
      BY <1>2, <2>1, <2>3, Zenon DEF Pay
    <3>2. CASE invoices' = [invoices EXCEPT ![i].paid = sum]
      BY <2>1, <2>3, <3>2, InvoicePaidPart
    <3>3. CASE /\ proc[a].full
               /\ invoices' = [invoices EXCEPT ![i].paid = sum, ![i].status = "PAID"]
      BY <2>1, <2>3, <3>3, InvoicePaid
    <3> QED
      BY <3>1, <3>2, <3>3
  <2>5. SubsEdited
    <3>1. invoices[i].start \in Nat /\ invoices[i].end \in Nat
      BY DEF Inv, TypeOK
    <3>2. \/ subs' = subs
          \/ SetStatus(s, "ACTIVE")
          \/ subs' = [subs EXCEPT ![s].status = "ACTIVE",
                                  ![s].start = invoices[i].start,
                                  ![s].end = invoices[i].end]
      BY <1>2, <2>1, <2>2, Zenon DEF Pay
    <3>3. CASE subs' = subs
      BY <3>3, Unedited DEF Inv, TablesOK
    <3>4. CASE SetStatus(s, "ACTIVE")
      BY <2>2, <3>4, SubMoved DEF SetStatus
    <3>5. CASE subs' = [subs EXCEPT ![s].status = "ACTIVE",
                                    ![s].start = invoices[i].start,
                                    ![s].end = invoices[i].end]
      BY <2>2, <3>1, <3>5, SubRenewed
    <3> QED
      BY <3>2, <3>3, <3>4, <3>5
  <2> QED
    BY <1>2, <2>4, <2>5, EditKeeps DEF Pay
<1> QED
  BY <1>1, <1>2

LEMMA MoveKeepsSubs ==
  ASSUME Inv, NEW s \in Existing, NEW from,
         NEW status \in {"TRIALING", "PENDING", "ACTIVE", "PAST_DUE", "CANCELED", "EXPIRED"},
         MoveStatus(s, from, status)
  PROVE  SubsEdited
<1>1. CASE subs' = subs
  BY <1>1, Unedited DEF Inv, TablesOK
<1>2. CASE subs' = [subs EXCEPT ![s].status = status]
  BY <1>2, SubMoved
<1> QED
  BY <1>1, <1>2 DEF MoveStatus, SetStatus

LEMMA FailKeeps ==
  ASSUME Inv, NEW a \in Admins,
         RecordFailedPayment(a) \/ \E i \in InvIds : FailRead(a, i)
  PROVE  Inv'
<1>1. ASSUME NEW i \in InvIds, FailRead(a, i) PROVE Inv'
  <2>1. i \in Issued
    BY <1>1 DEF FailRead, Issued
  <2> QED
    BY <1>1, <2>1, OpenReadKeeps DEF FailRead
<1>2. ASSUME RecordFailedPayment(a) PROVE Inv'
  <2>1. invoices[proc[a].inv].sub \in Existing
    BY <1>2 DEF RecordFailedPayment, At, Inv, CallsOK, CallOK, TypeOK
  <2>2. SubsEdited
    BY <1>2, <2>1, MoveKeepsSubs DEF RecordFailedPayment
  <2> QED
    BY <1>2, <2>2, EditKeeps, Unedited DEF RecordFailedPayment, Inv, TablesOK
<1> QED
  BY <1>1, <1>2

LEMMA VoidKeeps ==
  ASSUME Inv, NEW a \in Admins,
         VoidInvoice(a) \/ \E i \in InvIds : VoidRead(a, i)
  PROVE  Inv'
<1>1. ASSUME NEW i \in InvIds, VoidRead(a, i) PROVE Inv'
  <2>1. i \in Issued
    BY <1>1 DEF VoidRead, Open, Issued
  <2>2. /\ proc' = [proc EXCEPT ![a] = OnInvoice("void", i, 0, FALSE)]
        /\ UNCHANGED <<today, subs, invoices, cron>>
    BY <1>1, Zenon DEF VoidRead
  <2> QED
    BY <2>1, <2>2, OpenReadKeeps
<1>2. ASSUME VoidInvoice(a) PROVE Inv'
  <2>1. PICK i \in Issued : i = proc[a].inv
    BY <1>2 DEF VoidInvoice, At, Inv, CallsOK, CallOK
  <2>2. invoices' = [invoices EXCEPT ![i].status = "VOID"]
    BY <1>2, <2>1, Zenon DEF VoidInvoice
  <2>3. InvoicesEdited
    BY <2>2, InvoiceMoved
  <2> QED
    BY <1>2, <2>3, EditKeeps, Unedited DEF VoidInvoice, Inv, TablesOK
<1> QED
  BY <1>1, <1>2

LEMMA FiscalKeeps ==
  ASSUME Inv, NEW a \in Admins, NEW i \in InvIds, SetFiscal(a, i)
  PROVE  Inv'
<1>1. InvoicesEdited
  BY InvoiceFiscal DEF SetFiscal
<1>2. SubsEdited
  BY Unedited DEF SetFiscal, Inv, TablesOK
<1>3. TablesOK' /\ Grown
  BY <1>1, <1>2, TablesEdited DEF SetFiscal, Inv, TablesOK, TypeOK
<1> QED
  BY <1>3, CallsKept, CronKept DEF SetFiscal, Inv, TablesOK

LEMMA AdminDiesKeeps ==
  ASSUME Inv, NEW a \in Admins, AdminDies(a)
  PROVE  Inv'
<1>1. TablesOK' /\ Grown
  BY TablesKept DEF AdminDies, Inv, TypeOK
<1> QED
  BY <1>1, WriteKeeps DEF AdminDies

-----------------------------------------------------------------------------
\* The daily job lists and takes rows that exist.
LEMMA ListKeeps ==
  ASSUME Inv, UNCHANGED <<today, subs, invoices, proc>>, CronOK'
  PROVE  Inv'
<1>1. TablesOK' /\ Grown
  BY TablesKept DEF Inv, TypeOK
<1> QED
  BY <1>1, CallsKept DEF Inv, TablesOK

LEMMA JobKeeps ==
  ASSUME Inv, SubsEdited, InvoicesEdited, UNCHANGED <<today, proc>>, Grown => CronOK'
  PROVE  Inv'
<1>1. TablesOK' /\ Grown
  BY TablesEdited DEF Inv, TablesOK, TypeOK
<1> QED
  BY <1>1, CallsKept DEF Inv, TablesOK

LEMMA JobReads ==
  ASSUME Inv,
         \/ CronStart \/ RenewList \/ TrialList \/ OverdueList \/ PhaseThrows \/ CronDies
         \/ \E x \in cron.todo : RenewCheck(x) \/ TrialCount(x) \/ OverdueTake(x)
  PROVE  Inv'
<1>1. Existing' = Existing /\ Issued' = Issued /\ UNCHANGED <<today, subs, invoices, proc>>
  BY DEF CronStart, RenewList, TrialList, OverdueList, PhaseThrows, CronDies,
         RenewCheck, TrialCount, OverdueTake, Existing, Issued
<1>2. CronOK'
  <2>1. CASE CronStart
    BY <2>1 DEF CronStart, Goto, Job, CronOK
  <2>2. CASE RenewList
    BY <1>1, <2>2 DEF RenewList, Listed, Job, CronOK, Inv, TypeOK, Existing
  <2>3. CASE TrialList
    BY <1>1, <2>3 DEF TrialList, Listed, Job, CronOK, Existing
  <2>4. CASE OverdueList
    BY <1>1, <2>4 DEF OverdueList, Listed, Job, CronOK, Issued, Open
  <2>5. CASE PhaseThrows
    BY <2>5 DEF PhaseThrows, Listed, Job, CronOK
  <2>6. CASE CronDies
    BY <2>6 DEF CronDies, Resting, Job, CronOK
  <2>7. ASSUME NEW x \in cron.todo, RenewCheck(x) PROVE CronOK'
    BY <1>1, <2>7 DEF RenewCheck, Skip, Work, Job, CronOK, Inv
  <2>8. ASSUME NEW x \in cron.todo, TrialCount(x) PROVE CronOK'
    BY <1>1, <2>8 DEF TrialCount, Skip, Work, Job, CronOK, Inv
  <2>9. ASSUME NEW x \in cron.todo, OverdueTake(x) PROVE CronOK'
    BY <1>1, <2>9 DEF OverdueTake, Work, Job, CronOK, Inv
  <2> QED
    BY <2>1, <2>2, <2>3, <2>4, <2>5, <2>6, <2>7, <2>8, <2>9
<1> QED
  BY <1>1, <1>2, ListKeeps

LEMMA JobWrites ==
  ASSUME Inv,
         RenewIssue \/ TrialExpire \/ MarkOverdue \/ MarkPastDue \/ GraceOver
            \/ FinishCancellations
  PROVE  Inv'
<1> USE DEF Item
<1>1. CASE RenewIssue
  <2>1. Item \in Existing /\ cron.item[2] \in Nat
    BY <1>1 DEF RenewIssue, Inv, CronOK
  <2>2. TablesOK' /\ Grown
    <3>1. cron.item[2] + Period \in Nat
      BY <2>1, CalendarAssumption
    <3>2. /\ RoomForInvoice /\ UNCHANGED <<today, subs>>
          /\ Issue(Item, cron.item[2], cron.item[2] + Period, cron.item[2], TRUE)
      BY <1>1, Zenon DEF RenewIssue
    <3> QED
      BY <2>1, <3>1, <3>2, InvoiceAdded DEF Inv, TablesOK
  <2>3. CronOK'
    BY <1>1, <2>2 DEF RenewIssue, Goto, Job, Inv, CronOK, Grown
  <2> QED
    BY <1>1, <2>2, <2>3, CallsKept DEF RenewIssue, Inv, TablesOK
<1>2. CASE TrialExpire
  <2>1. PICK s \in Existing : s = Item
    BY <1>2 DEF TrialExpire, Inv, CronOK
  <2>2. subs' = [subs EXCEPT ![s].status = "EXPIRED"]
    BY <1>2, <2>1, Zenon DEF TrialExpire, SetStatus
  <2>3. SubsEdited /\ InvoicesEdited
    BY <1>2, <2>2, SubMoved, Unedited DEF TrialExpire, Inv, TablesOK
  <2>4. Grown => CronOK'
    BY <1>2 DEF TrialExpire, Goto, Job, Inv, CronOK, Grown
  <2> QED
    BY <1>2, <2>3, <2>4, JobKeeps DEF TrialExpire
<1>3. CASE MarkOverdue
  <2>1. PICK i \in Issued : i = Item
    BY <1>3 DEF MarkOverdue, Inv, CronOK
  <2>2. invoices' = [invoices EXCEPT ![i].status = "OVERDUE"]
    BY <1>3, <2>1, Zenon DEF MarkOverdue
  <2>3. SubsEdited /\ InvoicesEdited
    BY <1>3, <2>2, InvoiceMoved, Unedited DEF MarkOverdue, Inv, TablesOK
  <2>4. Grown => CronOK'
    BY <1>3 DEF MarkOverdue, Goto, Job, Inv, CronOK, Grown
  <2> QED
    BY <1>3, <2>3, <2>4, JobKeeps DEF MarkOverdue
<1>4. CASE MarkPastDue
  <2>1. invoices[Item].sub \in Existing
    BY <1>4 DEF MarkPastDue, Inv, CronOK, TypeOK
  <2>2. SubsEdited /\ InvoicesEdited
    BY <1>4, <2>1, MoveKeepsSubs, Unedited DEF MarkPastDue, Inv, TablesOK
  <2>3. Grown => CronOK'
    BY <1>4 DEF MarkPastDue, Goto, Job, Inv, CronOK, Grown
  <2> QED
    BY <1>4, <2>2, <2>3, JobKeeps DEF MarkPastDue
<1>5. CASE GraceOver
  <2>1. invoices[Item].sub \in Existing
    BY <1>5 DEF GraceOver, Inv, CronOK, TypeOK
  <2>2. SubsEdited
    BY <1>5, <2>1, MoveKeepsSubs, Unedited DEF GraceOver, Inv, TablesOK
  <2>3. InvoicesEdited
    BY <1>5, Unedited DEF GraceOver, Inv, TablesOK
  <2>4. Grown => CronOK'
    BY <1>5 DEF GraceOver, Goto, Job, Inv, CronOK, Grown
  <2> QED
    BY <1>5, <2>2, <2>3, <2>4, JobKeeps DEF GraceOver
<1>6. CASE FinishCancellations
  <2>1. \A s \in SubIds : Ended(s) => subs[s].status # "NONE"
    BY DEF Ended
  <2>2. subs \in [SubIds -> SubRows]
    BY DEF Inv, TypeOK, SubRows
  <2>3. \A s \in SubIds :
           /\ [subs[s] EXCEPT !.status = IF Ended(s) THEN "CANCELED" ELSE @] \in SubRows
           /\ [subs[s] EXCEPT !.status = IF Ended(s) THEN "CANCELED" ELSE @].status
                 = IF Ended(s) THEN "CANCELED" ELSE subs[s].status
    BY <2>2 DEF SubRows, Statuses
  <2>4. SubsEdited
    <3>1. subs' \in [SubIds -> SubRows]
      BY <1>6, <2>3, Zenon DEF FinishCancellations
    <3>2. \A s \in SubIds :
             subs'[s].status = IF Ended(s) THEN "CANCELED" ELSE subs[s].status
      BY <1>6, <2>3, Zenon DEF FinishCancellations
    <3> QED
      BY <2>1, <3>1, <3>2 DEF SubsEdited
  <2>5. InvoicesEdited
    BY <1>6, Unedited DEF FinishCancellations, Inv, TablesOK
  <2>6. CronOK'
    BY <1>6 DEF FinishCancellations, Resting, Job, CronOK
  <2> QED
    BY <1>6, <2>4, <2>5, <2>6, JobKeeps DEF FinishCancellations
<1> QED
  BY <1>1, <1>2, <1>3, <1>4, <1>5, <1>6

LEMMA NextDayKeeps == Inv /\ NextDay => Inv'
<1> SUFFICES ASSUME Inv, NextDay PROVE Inv'
  OBVIOUS
<1>1. today' \in 0 .. MaxDay
  BY BoundAssumption DEF NextDay, Inv, TypeOK
<1>2. TablesOK' /\ Grown
  BY <1>1, TablesKept DEF NextDay
<1> QED
  BY <1>2, CallsKept, CronKept DEF NextDay, Inv, TablesOK

LEMMA InvInit == Init => Inv
<1> SUFFICES ASSUME Init PROVE Inv
  OBVIOUS
<1>1. Existing = {} /\ Issued = {}
  BY DEF Init, Existing, Issued
<1>2. Cardinality(Existing) = 0 /\ Cardinality(Issued) = 0
  BY <1>1, FS_EmptySet
<1>3. Existing = 1 .. Cardinality(Existing) /\ Issued = 1 .. Cardinality(Issued)
  BY <1>1, <1>2
<1>4. TypeOK
  BY <1>1, <1>3, BoundAssumption DEF Init, TypeOK, Statuses
<1>5. PaidCoversTotal
  BY DEF Init, PaidCoversTotal
<1>6. CallsOK
  BY IdleOK DEF Init, CallsOK
<1>7. CronOK
  BY DEF Init, Resting, Job, CronOK
<1> QED
  BY <1>4, <1>5, <1>6, <1>7 DEF Inv

LEMMA InvNext == Inv /\ [Next]_vars => Inv'
<1> SUFFICES ASSUME Inv, [Next]_vars PROVE Inv'
  OBVIOUS
<1>1. ASSUME NEW a \in Admins, AdminCall(a) PROVE Inv'
  BY <1>1, SubscribeKeeps, CancelKeeps, PayKeeps, FailKeeps, VoidKeeps, FiscalKeeps
  DEF AdminCall
<1>2. ASSUME NEW a \in Admins, AdminStep(a) PROVE Inv'
  BY <1>2, SubscribeKeeps, CancelKeeps, PayKeeps, FailKeeps, VoidKeeps DEF AdminStep
<1>3. ASSUME NEW a \in Admins, AdminDies(a) PROVE Inv'
  BY <1>3, AdminDiesKeeps
<1>4. CASE CronStep \/ PhaseThrows \/ CronDies
  BY <1>4, JobReads, JobWrites DEF CronStep
<1>5. CASE NextDay
  BY <1>5, NextDayKeeps
<1>6. CASE UNCHANGED vars
  <2>1. TablesOK' /\ Grown
    BY <1>6, TablesKept DEF vars, Inv, TypeOK
  <2> QED
    BY <1>6, <2>1, CallsKept, CronKept DEF vars, Inv, TablesOK
<1> QED
  BY <1>1, <1>2, <1>3, <1>4, <1>5, <1>6 DEF Next

-----------------------------------------------------------------------------
\* The rows of both tables keep their types and their order, and an invoice
\* belongs to a subscription, in every state.
THEOREM TypeCorrect == Spec => []TypeOK
<1>1. Inv => TypeOK
  BY DEF Inv
<1> QED
  BY <1>1, InvInit, InvNext, PTL DEF Spec

\* registerPayment sums the payments before its transaction; still, whatever
\* calls run at once and die, an invoice marked PAID is covered by them.
THEOREM PaidIsCovered == Spec => []PaidCoversTotal
<1>1. Inv => PaidCoversTotal
  BY DEF Inv
<1> QED
  BY <1>1, InvInit, InvNext, PTL DEF Spec

-----------------------------------------------------------------------------
(* A closed subscription is reopened by a payment only.                    *)

ClosedStay ==
    \A s \in SubIds : subs[s].status \in Closed => subs'[s].status \in Closed

Reopened ==
    \A s \in SubIds :
        subs[s].status \in Closed /\ subs'[s].status \notin Closed =>
            \E i \in InvIds : /\ invoices[i].sub = s
                             /\ invoices'[i].status = "PAID"
                             /\ invoices'[i].paid > invoices[i].paid

LEMMA NewSubClosesNothing ==
  ASSUME Inv, NEW status, NEW start, NEW end, NEW trialEnd,
         NewSub(status, start, end, trialEnd)
  PROVE  ClosedStay
<1>1. \A s \in SubIds : subs[s].status \in Closed => s # NextSub
  BY NextFree DEF Inv, Closed, Existing
<1>2. \A s \in SubIds : s # NextSub => subs'[s] = subs[s]
  BY DEF NewSub, Inv, TypeOK
<1> QED
  BY <1>1, <1>2 DEF ClosedStay

LEMMA MoveClosesOnly ==
  ASSUME Inv, NEW s, NEW from, NEW status, MoveStatus(s, from, status),
         from \cap Closed = {} \/ status \in Closed
  PROVE  ClosedStay
<1>1. CASE subs' = subs
  BY <1>1 DEF ClosedStay
<1>2. CASE subs[s].status \in from /\ subs' = [subs EXCEPT ![s].status = status]
  BY <1>2 DEF Inv, TypeOK, ClosedStay
<1> QED
  BY <1>1, <1>2 DEF MoveStatus, SetStatus

LEMMA PayReopens == ASSUME Inv, NEW a \in Admins, Pay(a) PROVE Reopened
<1>1. PICK i \in InvIds : i = proc[a].inv /\ i \in Issued
  BY DEF Pay, At, Inv, CallsOK, CallOK, Issued
<1>2. PICK s \in SubIds : s = invoices[i].sub
  BY <1>1 DEF Inv, TypeOK, Existing
<1>3. PICK sum \in Nat : sum = invoices[i].paid + proc[a].amount /\ sum > invoices[i].paid
  <2>1. invoices[i].paid \in Nat /\ proc[a].amount \in Nat /\ proc[a].amount > 0
    BY DEF Pay, At, Inv, CallsOK, CallOK, CallRows, TypeOK
  <2> QED
    BY <2>1
<1>4. CASE UNCHANGED subs
  BY <1>4 DEF Reopened
<1>5. CASE ~ UNCHANGED subs
  <2>1. invoices' = [invoices EXCEPT ![i].paid = sum, ![i].status = "PAID"]
    BY <1>1, <1>3, <1>5, Zenon DEF Pay
  <2>2. invoices \in [InvIds -> InvRows] /\ subs \in [SubIds -> SubRows]
    BY DEF Inv, TypeOK, InvRows, SubRows
  <2>3. invoices'[i].status = "PAID" /\ invoices'[i].paid = sum
    BY <2>1, <2>2 DEF InvRows
  <2>4. \/ SetStatus(s, "ACTIVE")
        \/ subs' = [subs EXCEPT ![s].status = "ACTIVE",
                                ![s].start = invoices[i].start,
                                ![s].end = invoices[i].end]
    BY <1>1, <1>2, <1>5, Zenon DEF Pay
  <2>5. \A x \in SubIds : x # s => subs'[x] = subs[x]
    BY <2>2, <2>4 DEF SetStatus
  <2> QED
    BY <1>2, <1>3, <2>3, <2>5 DEF Reopened
<1> QED
  BY <1>4, <1>5

LEMMA ReopenedStep == Inv /\ [Next]_vars => Reopened
<1> SUFFICES ASSUME Inv, [Next]_vars PROVE Reopened
  OBVIOUS
<1> USE DEF Closed
<1>1. ClosedStay => Reopened
  BY DEF ClosedStay, Reopened
<1>2. ASSUME UNCHANGED subs PROVE Reopened
  BY <1>2 DEF Reopened
<1>3. ASSUME NEW a \in Admins, AdminCall(a) PROVE Reopened
  BY <1>2, <1>3 DEF AdminCall, StartTrialRead, SubscribeRead, CancelRead, PayRead,
     FailRead, VoidRead, SetFiscal
<1>4. ASSUME NEW a \in Admins, AdminStep(a) PROVE Reopened
  <2>1. CASE StartTrial(a) \/ SubscribeCreate(a)
    BY <1>1, <2>1, NewSubClosesNothing DEF StartTrial, SubscribeCreate
  <2>2. CASE SubscribeIssue(a) \/ VoidInvoice(a)
    BY <1>2, <2>2 DEF SubscribeIssue, VoidInvoice
  <2>3. CASE Cancel(a)
    <3>1. PICK s : \/ subs' = [subs EXCEPT ![s].cancelling = TRUE]
                   \/ subs' = [subs EXCEPT ![s].status = "CANCELED", ![s].end = today]
      BY <2>3, Zenon DEF Cancel
    <3>2. subs \in [SubIds -> SubRows]
      BY DEF Inv, TypeOK, SubRows
    <3>3. CASE subs' = [subs EXCEPT ![s].cancelling = TRUE]
      BY <1>1, <3>2, <3>3 DEF ClosedStay, SubRows
    <3>4. CASE subs' = [subs EXCEPT ![s].status = "CANCELED", ![s].end = today]
      BY <1>1, <3>2, <3>4 DEF ClosedStay, SubRows
    <3> QED
      BY <3>1, <3>3, <3>4
  <2>4. CASE RecordFailedPayment(a)
    BY <1>1, <2>4, MoveClosesOnly DEF RecordFailedPayment
  <2>5. CASE Pay(a)
    BY <2>5, PayReopens
  <2> QED
    BY <1>4, <2>1, <2>2, <2>3, <2>4, <2>5 DEF AdminStep
<1>5. ASSUME NEW a \in Admins, AdminDies(a) PROVE Reopened
  BY <1>2, <1>5 DEF AdminDies
<1>6. CASE CronStep
  <2>1. CASE TrialExpire
    BY <1>1, <2>1 DEF TrialExpire, SetStatus, ClosedStay, Inv, TypeOK
  <2>2. CASE MarkPastDue
    BY <1>1, <2>2, MoveClosesOnly DEF MarkPastDue
  <2>3. CASE GraceOver
    BY <1>1, <1>2, <2>3, MoveClosesOnly DEF GraceOver
  <2>4. CASE FinishCancellations
    BY <1>1, <2>4 DEF FinishCancellations, ClosedStay, Ended, Inv, TypeOK
  <2>5. CASE ~(TrialExpire \/ MarkPastDue \/ GraceOver \/ FinishCancellations)
    BY <1>2, <1>6, <2>5 DEF CronStep, CronStart, RenewList, RenewIssue, TrialList,
       OverdueList, MarkOverdue, RenewCheck, TrialCount, OverdueTake
  <2> QED
    BY <2>1, <2>2, <2>3, <2>4, <2>5
<1>7. CASE PhaseThrows \/ CronDies \/ NextDay
  BY <1>2, <1>7 DEF PhaseThrows, CronDies, NextDay
<1>8. CASE UNCHANGED vars
  BY <1>2, <1>8 DEF vars
<1> QED
  BY <1>3, <1>4, <1>5, <1>6, <1>7, <1>8 DEF Next

\* A customer whose service was cancelled or has expired gets it back by paying
\* an invoice in full and in no other way, whatever calls run at once and die
\* (updateMany with a filter on the status: recordFailedPayment,
\* markOverdueAndDun, finishCancellations).
THEOREM OnlyPaymentReopens == Spec => ReopenedByPayment
<1>1. Inv /\ [Next]_vars =>
        [\A s \in SubIds :
          subs[s].status \in Closed /\ subs'[s].status \notin Closed =>
              \E i \in InvIds : /\ invoices[i].sub = s
                               /\ invoices'[i].status = "PAID"
                               /\ invoices'[i].paid > invoices[i].paid]_vars
  BY ReopenedStep DEF Reopened
<1> QED
  BY <1>1, InvInit, InvNext, PTL DEF Spec, ReopenedByPayment

-----------------------------------------------------------------------------
(* Calls and the job one at a time (Serial): what is read is still so when  *)
(* it is used.                                                             *)

Lone ==
    \A a \in Admins : proc[a].pc # "idle" =>
        cron.pc = "idle" /\ \A b \in Admins \ {a} : proc[b].pc = "idle"

\* What a call has read of its invoice.
Seen(call) ==
    /\ call.pc \in {"pay", "fail", "void"} => Open(call.inv)
    /\ call.pc = "pay" => (call.full <=> invoices[call.inv].paid + call.amount >= Total)
    /\ call.pc = "void" => invoices[call.inv].paid = 0

AllSeen == \A a \in Admins : Seen(proc[a])

OverTrial(s) == subs[s].status = "TRIALING" /\ subs[s].trialEnd <= today
Unowing(s)   == \A i \in InvIds : Open(i) => invoices[i].sub # s

\* What the job has read of the rows it lists, and of the row it is at.
JobSeen ==
    /\ cron.pc = "renewIssue" => ~Already(cron.item[1], cron.item[2])
    /\ cron.pc \in {"trial", "trialExpire"} =>
          \A x \in cron.todo : x = <<x[1], 0>> /\ OverTrial(x[1])
    /\ cron.pc = "trialExpire" =>
          /\ OverTrial(cron.item[1]) /\ Unowing(cron.item[1])
          /\ \A x \in cron.todo : x[1] # cron.item[1]
    /\ cron.pc \in {"overdue", "mark", "pastDue", "grace"} => \A x \in cron.todo : Open(x[1])
    /\ cron.pc \in {"mark", "pastDue", "grace"} => Open(cron.item[1])

\* The rows that are not issued yet.
Blank == \A i \in InvIds : invoices[i].status = "NONE" => ~invoices[i].renewal

Books == Blank /\ PaidPeriod /\ PaymentsSettle /\ RenewedOnce

SerialInv == Inv /\ Lone /\ AllSeen /\ JobSeen /\ Books

\* The step of a call changes neither the job nor the other calls.
LEMMA AdminFrame ==
  ASSUME Inv, NEW a \in Admins, AdminCall(a) \/ AdminStep(a) \/ AdminDies(a)
  PROVE  /\ today' = today /\ cron' = cron
         /\ \A b \in Admins \ {a} : proc'[b] = proc[b]
<1>1. \A rec : \A b \in Admins \ {a} : [proc EXCEPT ![a] = rec][b] = proc[b]
  BY DEF Inv, CallsOK
<1>2. CASE AdminCall(a)
  BY <1>1, <1>2 DEF AdminCall, StartTrialRead, SubscribeRead, CancelRead, PayRead, FailRead,
     VoidRead, SetFiscal
<1>3. CASE AdminStep(a)
  BY <1>1, <1>3 DEF AdminStep, StartTrial, SubscribeCreate, SubscribeIssue, Cancel, Pay,
     RecordFailedPayment, VoidInvoice, Return
<1>4. CASE AdminDies(a)
  BY <1>1, <1>4 DEF AdminDies, Return
<1> QED
  BY <1>2, <1>3, <1>4

\* A call acts alone.
LEMMA AdminAlone ==
  ASSUME Serial, Lone, NEW a \in Admins, AdminCall(a) \/ AdminStep(a) \/ AdminDies(a)
  PROVE  /\ cron.pc = "idle" /\ \A b \in Admins \ {a} : proc[b].pc = "idle"
         /\ AdminCall(a) => proc[a].pc = "idle"
<1>1. CASE AdminCall(a)
  <2>1. PICK op : Call(a, op)
    BY <1>1 DEF AdminCall, StartTrialRead, SubscribeRead, CancelRead, PayRead, FailRead,
       VoidRead, SetFiscal
  <2> QED
    BY <2>1 DEF Call, Quiet
<1>2. CASE AdminStep(a) \/ AdminDies(a)
  <2>1. proc[a].pc # "idle"
    BY <1>2 DEF AdminStep, AdminDies, StartTrial, SubscribeCreate, SubscribeIssue, Cancel,
       Pay, RecordFailedPayment, VoidInvoice, At
  <2>2. cron.pc = "idle" /\ \A b \in Admins \ {a} : proc[b].pc = "idle"
    BY <2>1 DEF Lone
  <2>3. ASSUME AdminCall(a) PROVE proc[a].pc = "idle"
    BY <2>3 DEF AdminCall, StartTrialRead, SubscribeRead, CancelRead, PayRead, FailRead,
       VoidRead, SetFiscal, Call
  <2> QED
    BY <2>2, <2>3
<1> QED
  BY <1>1, <1>2

\* So does the job.
LEMMA JobAlone ==
  ASSUME Serial, Lone, CronStep \/ PhaseThrows
  PROVE  /\ proc' = proc /\ today' = today
         /\ \A a \in Admins : proc[a].pc = "idle"
<1>1. proc' = proc /\ today' = today
  BY DEF CronStep, PhaseThrows, CronStart, RenewList, RenewIssue, TrialList, TrialExpire,
     OverdueList, MarkOverdue, MarkPastDue, GraceOver, FinishCancellations, RenewCheck,
     TrialCount, OverdueTake
<1>2. CASE CronStart
  BY <1>1, <1>2 DEF CronStart, Quiet
<1>3. CASE ~CronStart
  <2>1. cron.pc # "idle"
    BY <1>3 DEF CronStep, PhaseThrows, RenewList, RenewIssue, TrialList, TrialExpire,
       OverdueList, MarkOverdue, MarkPastDue, GraceOver, FinishCancellations, RenewCheck,
       TrialCount, OverdueTake
  <2> QED
    BY <1>1, <2>1 DEF Lone
<1> QED
  BY <1>2, <1>3

\* The steps of Next that are neither of a call nor of the job at work.
Pause == CronDies \/ NextDay \/ UNCHANGED vars

LEMMA PauseFrame ==
  ASSUME Pause
  PROVE  /\ subs' = subs /\ invoices' = invoices /\ proc' = proc
         /\ cron' = cron \/ cron'.pc = "idle"
         /\ today' = today \/ cron'.pc = "idle"
  BY DEF Pause, CronDies, NextDay, vars, Resting, Job, Quiet

LEMMA NextSplit ==
  ASSUME [Next]_vars
  PROVE  \/ \E a \in Admins : AdminCall(a) \/ AdminStep(a) \/ AdminDies(a)
         \/ CronStep \/ PhaseThrows
         \/ Pause
  BY DEF Next, Pause

LEMMA LoneStep == ASSUME Serial, Inv, Lone, [Next]_vars PROVE Lone'
<1>1. ASSUME NEW a \in Admins, AdminCall(a) \/ AdminStep(a) \/ AdminDies(a) PROVE Lone'
  <2>1. /\ cron' = cron /\ \A b \in Admins \ {a} : proc'[b] = proc[b]
        /\ cron.pc = "idle" /\ \A b \in Admins \ {a} : proc[b].pc = "idle"
    BY <1>1, AdminFrame, AdminAlone
  <2> QED
    BY <2>1 DEF Lone
<1>2. CASE CronStep \/ PhaseThrows
  BY <1>2, JobAlone DEF Lone
<1>3. CASE Pause
  BY <1>3, PauseFrame DEF Lone
<1> QED
  BY <1>1, <1>2, <1>3, NextSplit

\* What a call reads is what it acts on.
LEMMA SeenStep == ASSUME Serial, SerialInv, [Next]_vars PROVE AllSeen'
<1> USE DEF SerialInv
<1>1. ASSUME NEW a \in Admins, AdminCall(a) \/ AdminStep(a) \/ AdminDies(a) PROVE AllSeen'
  <2>1. \A b \in Admins \ {a} : proc'[b].pc = "idle"
    BY <1>1, AdminFrame, AdminAlone
  <2>2. \A b \in Admins : proc'[b].pc \notin {"pay", "fail", "void"} => Seen(proc[b])'
    BY DEF Seen
  <2>3. SUFFICES ASSUME proc'[a].pc \in {"pay", "fail", "void"} PROVE Seen(proc[a])'
    BY <2>1, <2>2 DEF AllSeen
  <2>4. \A rec : [proc EXCEPT ![a] = rec][a] = rec
    BY DEF Inv, CallsOK
  <2>5. ~AdminStep(a) /\ ~AdminDies(a)
    <3>1. ~Return(a)
      BY <2>3, <2>4 DEF Return, Idle, OnSub
    <3>2. ~SubscribeCreate(a)
      BY <2>3, <2>4 DEF SubscribeCreate, OnSub
    <3> QED
      BY <3>1, <3>2 DEF AdminStep, StartTrial, SubscribeIssue, Cancel, Pay,
         RecordFailedPayment, VoidInvoice, AdminDies
  <2>6. PICK i \in InvIds : \/ \E amount \in Amounts : PayRead(a, i, amount)
                            \/ FailRead(a, i) \/ VoidRead(a, i)
    <3>1. ~StartTrialRead(a) /\ ~SubscribeRead(a)
      BY <2>3, <2>4 DEF StartTrialRead, SubscribeRead, OnSub
    <3>2. \A pc : ~CancelRead(a, pc)
      BY <2>3, <2>4 DEF CancelRead, OnSub
    <3>3. \A i \in InvIds : ~SetFiscal(a, i)
      BY <2>3 DEF SetFiscal, Call
    <3> QED
      BY <1>1, <2>5, <3>1, <3>2, <3>3 DEF AdminCall
  <2>7. invoices' = invoices
    BY <2>6 DEF PayRead, FailRead, VoidRead
  <2>8. invoices[i].status \in {"NONE", "ISSUED", "OVERDUE", "PAID", "VOID"}
    BY DEF Inv, TypeOK
  <2>9. ASSUME NEW amount \in Amounts, PayRead(a, i, amount) PROVE Seen(proc[a])'
    BY <2>4, <2>7, <2>8, <2>9 DEF PayRead, OnInvoice, Seen, Open
  <2>10. CASE FailRead(a, i)
    BY <2>4, <2>7, <2>8, <2>10 DEF FailRead, OnInvoice, Seen, Open
  <2>11. CASE VoidRead(a, i)
    BY <2>4, <2>7, <2>11 DEF VoidRead, OnInvoice, Seen, Open
  <2> QED
    BY <2>6, <2>9, <2>10, <2>11
<1>2. CASE CronStep \/ PhaseThrows
  BY <1>2, JobAlone DEF AllSeen, Seen
<1>3. CASE Pause
  BY <1>3, PauseFrame DEF AllSeen, Seen, Open
<1> QED
  BY <1>1, <1>2, <1>3, NextSplit

\* What the job reads is what it works on.
LEMMA JobSeenStep == ASSUME Serial, SerialInv, [Next]_vars PROVE JobSeen'
<1> USE DEF SerialInv
<1>1. cron'.pc \notin {"renewIssue", "trial", "trialExpire", "overdue", "mark", "pastDue",
                       "grace"} => JobSeen'
  BY DEF JobSeen
<1>2. ASSUME NEW a \in Admins, AdminCall(a) \/ AdminStep(a) \/ AdminDies(a) PROVE JobSeen'
  BY <1>1, <1>2, AdminFrame, AdminAlone
<1>3. CASE Pause
  <2>1. CASE cron' = cron /\ today' = today
    BY <1>3, <2>1, PauseFrame DEF JobSeen, Already, OverTrial, Unowing, Open, Issued
  <2>2. CASE cron'.pc = "idle"
    BY <1>1, <2>2
  <2> QED
    BY <1>3, <2>1, <2>2, PauseFrame
<1>4. CASE PhaseThrows
  BY <1>4 DEF PhaseThrows, Listed, Job, JobSeen
<1>5. ASSUME NEW x \in cron.todo, RenewCheck(x) PROVE JobSeen'
  BY <1>5 DEF RenewCheck, Skip, Work, Job, JobSeen, Already, Issued
<1>6. CASE CronStart \/ RenewList \/ RenewIssue \/ FinishCancellations
  <2>1. cron'.pc \in {"renewList", "renew", "idle"}
    <3>1. /\ CronStart => Goto("renewList")
          /\ RenewList => \E S : Listed("renew", S)
          /\ RenewIssue => Goto("renew")
          /\ FinishCancellations => cron' = Resting(today)
      BY DEF CronStart, RenewList, RenewIssue, FinishCancellations
    <3> QED
      BY <1>6, <3>1 DEF Goto, Listed, Resting, Job
  <2> QED
    BY <1>1, <2>1
<1>7. CASE TrialList
  BY <1>7 DEF TrialList, Listed, Job, JobSeen, OverTrial
<1>8. ASSUME NEW x \in cron.todo, TrialCount(x) PROVE JobSeen'
  <2>1. UNCHANGED <<today, subs, invoices>> /\ cron.pc = "trial"
    BY <1>8 DEF TrialCount
  <2>2. \A y \in cron.todo : y = <<y[1], 0>> /\ OverTrial(y[1])
    BY <2>1 DEF JobSeen
  <2>3. \A y \in cron.todo : OverTrial(y[1])'
    BY <2>1, <2>2 DEF OverTrial
  <2>4. \A y \in cron.todo \ {x} : y[1] # x[1]
    BY <2>2
  <2>5. CASE cron' = Job("trial", cron.todo \ {x}, cron.item, cron.ran)
    BY <2>2, <2>3, <2>5 DEF Job, JobSeen
  <2>6. CASE cron' = Job("trialExpire", cron.todo \ {x}, x, cron.ran) /\ Unowing(x[1])
    <3>1. Unowing(x[1])'
      BY <2>1, <2>6 DEF Unowing, Open
    <3> QED
      BY <2>2, <2>3, <2>4, <2>6, <3>1 DEF Job, JobSeen
  <2> QED
    BY <1>8, <2>1, <2>5, <2>6 DEF TrialCount, Skip, Work, Unowing
<1>9. CASE TrialExpire
  <2>1. /\ \A y \in cron.todo : y = <<y[1], 0>> /\ OverTrial(y[1]) /\ y[1] # cron.item[1]
        /\ today' = today
    BY <1>9, JobAlone DEF TrialExpire, JobSeen, CronStep
  <2>2. \A s \in SubIds : s # cron.item[1] /\ OverTrial(s) => OverTrial(s)'
    BY <1>9, <2>1 DEF TrialExpire, SetStatus, Item, OverTrial, Inv, TypeOK
  <2>3. \A y \in cron.todo : y[1] \in SubIds
    BY <1>9 DEF TrialExpire, Inv, CronOK, Existing
  <2> QED
    BY <1>9, <2>1, <2>2, <2>3 DEF TrialExpire, Goto, Job, JobSeen
<1>10. CASE OverdueList
  BY <1>10 DEF OverdueList, Listed, Job, JobSeen, Open
<1>11. ASSUME NEW x \in cron.todo, OverdueTake(x) PROVE JobSeen'
  BY <1>11 DEF OverdueTake, Work, Job, JobSeen, Open
<1>12. CASE MarkOverdue
  <2>1. Open(cron.item[1]) /\ \A x \in cron.todo : Open(x[1])
    BY <1>12 DEF MarkOverdue, JobSeen
  <2>2. cron.item[1] \in InvIds
    BY <1>12 DEF MarkOverdue, Inv, CronOK, Issued
  <2>3. \A i : Open(i) => Open(i)'
    BY <1>12, <2>2 DEF MarkOverdue, Item, Open, Inv, TypeOK
  <2> QED
    BY <1>12, <2>1, <2>3 DEF MarkOverdue, Goto, Job, JobSeen
<1>13. CASE MarkPastDue \/ GraceOver
  <2>1. Open(cron.item[1]) /\ \A x \in cron.todo : Open(x[1])
    BY <1>13 DEF MarkPastDue, GraceOver, JobSeen
  <2>2. \A i : Open(i) => Open(i)'
    BY <1>13 DEF MarkPastDue, GraceOver, Open
  <2>3. cron'.pc \in {"grace", "overdue"} /\ cron'.todo = cron.todo /\ cron'.item = cron.item
    BY <1>13 DEF MarkPastDue, GraceOver, Goto, Job
  <2> QED
    BY <2>1, <2>2, <2>3 DEF JobSeen
<1> QED
  BY <1>2, <1>3, <1>4, <1>5, <1>6, <1>7, <1>8, <1>9, <1>10, <1>11, <1>12, <1>13, NextSplit
  DEF CronStep

-----------------------------------------------------------------------------
(* What every step but a payment does to the rows.                         *)

SubsSteady ==
    \A s \in SubIds : subs'[s].status \in Paying =>
        /\ subs[s].status \in Paying
        /\ subs'[s].start = subs[s].start /\ subs'[s].end = subs[s].end

\* An open invoice may be marked or, if nothing is paid, voided.
Steady(i) ==
    /\ invoices'[i].sub = invoices[i].sub /\ invoices'[i].start = invoices[i].start
    /\ invoices'[i].end = invoices[i].end /\ invoices'[i].paid = invoices[i].paid
    /\ invoices'[i].renewal = invoices[i].renewal
    /\ \/ invoices'[i].status = invoices[i].status
       \/ Open(i) /\ invoices'[i].status = "OVERDUE"
       \/ Open(i) /\ invoices[i].paid = 0 /\ invoices'[i].status = "VOID"

\* An invoice is issued, and a renewal only if the period has no invoice.
Fresh(i) ==
    /\ invoices[i].status = "NONE" /\ invoices'[i].status = "ISSUED"
    /\ invoices'[i].paid = 0
    /\ invoices'[i].renewal => ~Already(invoices'[i].sub, invoices'[i].start)

InvoicesSteady == \E n : \A i \in InvIds : Steady(i) \/ (i = n /\ Fresh(i))

LEMMA SteadyBooks ==
  ASSUME SerialInv, SubsSteady, InvoicesSteady
  PROVE  Books'
<1> USE DEF SerialInv
<1>1. PICK n : \A i \in InvIds : Steady(i) \/ (i = n /\ Fresh(i))
  BY DEF InvoicesSteady
<1>2. \A i \in InvIds : invoices[i].paid \in Nat
  BY DEF Inv, TypeOK
<1>3. Blank'
  BY <1>1 DEF Books, Blank, Steady, Fresh, Open
<1>4. PaidPeriod'
  <2> SUFFICES ASSUME NEW s \in SubIds, subs'[s].status \in Paying
               PROVE  \E i \in InvIds :
                          /\ invoices'[i].status = "PAID" /\ invoices'[i].sub = s
                          /\ invoices'[i].start = subs'[s].start
                          /\ invoices'[i].end = subs'[s].end
    BY DEF PaidPeriod, Paying
  <2>1. PICK i \in InvIds : /\ invoices[i].status = "PAID" /\ invoices[i].sub = s
                            /\ invoices[i].start = subs[s].start
                            /\ invoices[i].end = subs[s].end
    BY DEF SubsSteady, Books, PaidPeriod
  <2>2. Steady(i) /\ ~Open(i)
    BY <1>1, <2>1 DEF Fresh, Open
  <2> QED
    BY <2>1, <2>2 DEF Steady, SubsSteady
<1>5. PaymentsSettle'
  <2> SUFFICES ASSUME NEW i \in InvIds, invoices'[i].status # "NONE"
               PROVE  /\ invoices'[i].status = "PAID" <=> invoices'[i].paid >= Total
                      /\ invoices'[i].paid > 0 => invoices'[i].status # "VOID"
    BY DEF PaymentsSettle, Issued
  <2>1. CASE Fresh(i)
    BY <2>1, AmountAssumption DEF Fresh
  <2>2. CASE Steady(i)
    <3>1. i \in Issued
      BY <2>2 DEF Steady, Open, Issued
    <3>2. /\ invoices[i].status = "PAID" <=> invoices[i].paid >= Total
          /\ invoices[i].paid > 0 => invoices[i].status # "VOID"
      BY <3>1 DEF Books, PaymentsSettle
    <3> QED
      BY <1>2, <2>2, <3>2, AmountAssumption DEF Steady, Open
  <2> QED
    BY <1>1, <2>1, <2>2
<1>6. RenewedOnce'
  <2> DEFINE Live(i) == invoices'[i].renewal /\ invoices'[i].status # "VOID"
             Same(i, j) == /\ invoices'[i].sub = invoices'[j].sub
                           /\ invoices'[i].start = invoices'[j].start
  <2>1. \A i \in InvIds : Live(i) /\ Steady(i) =>
            /\ invoices[i].renewal /\ invoices[i].status # "VOID" /\ i \in Issued
            /\ invoices'[i].sub = invoices[i].sub /\ invoices'[i].start = invoices[i].start
    BY DEF Steady, Open, Issued, Books, Blank
  <2>2. \A i, j \in InvIds : Live(i) /\ Steady(i) /\ Live(j) /\ Steady(j) /\ Same(i, j) => i = j
    BY <2>1 DEF Books, RenewedOnce
  <2>3. \A i, j \in InvIds : Live(i) /\ Steady(i) /\ Live(j) /\ Fresh(j) => ~Same(i, j)
    BY <2>1 DEF Fresh, Already
  <2>4. \A i, j \in InvIds : Live(i) /\ Live(j) /\ Same(i, j) => i = j
    BY <1>1, <2>2, <2>3
  <2> QED
    BY <2>4 DEF RenewedOnce
<1> QED
  BY <1>3, <1>4, <1>5, <1>6 DEF Books

\* The invoice paid is the one the call read, and the period is the invoice's.
LEMMA PayBooks == ASSUME SerialInv, NEW a \in Admins, Pay(a) PROVE Books'
<1> USE DEF SerialInv
<1>1. PICK i \in InvIds : i = proc[a].inv /\ i \in Issued
  BY DEF Pay, At, Inv, CallsOK, CallOK, Issued
<1>2. PICK s \in SubIds : s = invoices[i].sub
  BY <1>1 DEF Inv, TypeOK, Existing
<1>3. PICK sum \in Nat : sum = invoices[i].paid + proc[a].amount /\ sum > invoices[i].paid
  <2>1. invoices[i].paid \in Nat /\ proc[a].amount \in Nat /\ proc[a].amount > 0
    BY DEF Pay, At, Inv, CallsOK, CallOK, CallRows, TypeOK
  <2> QED
    BY <2>1
<1>4. Open(i) /\ (proc[a].full <=> sum >= Total)
  BY <1>1, <1>3 DEF Pay, At, AllSeen, Seen
<1>5. invoices \in [InvIds -> InvRows] /\ subs \in [SubIds -> SubRows]
  BY DEF Inv, TypeOK, InvRows, SubRows
<1>6. /\ \A j \in InvIds \ {i} : invoices'[j] = invoices[j]
      /\ invoices'[i].paid = sum
      /\ invoices'[i].status = IF proc[a].full THEN "PAID" ELSE invoices[i].status
      /\ invoices'[i].sub = s /\ invoices'[i].start = invoices[i].start
      /\ invoices'[i].end = invoices[i].end /\ invoices'[i].renewal = invoices[i].renewal
  <2>1. CASE proc[a].full
    <3>1. invoices' = [invoices EXCEPT ![i].paid = sum, ![i].status = "PAID"]
      BY <1>1, <1>3, <2>1, Zenon DEF Pay
    <3> QED
      BY <1>2, <1>5, <2>1, <3>1 DEF InvRows
  <2>2. CASE ~proc[a].full
    <3>1. invoices' = [invoices EXCEPT ![i].paid = sum]
      BY <1>1, <1>3, <2>2, Zenon DEF Pay
    <3> QED
      BY <1>2, <1>5, <2>2, <3>1 DEF InvRows
  <2> QED
    BY <2>1, <2>2
<1>7. /\ ~proc[a].full => subs' = subs
      /\ proc[a].full => \/ SetStatus(s, "ACTIVE") /\ subs[s].status = "ACTIVE"
                         \/ subs' = [subs EXCEPT ![s].status = "ACTIVE",
                                                 ![s].start = invoices[i].start,
                                                 ![s].end = invoices[i].end]
  <2>1. CASE ~proc[a].full
    BY <2>1 DEF Pay
  <2>2. CASE proc[a].full
    BY <1>1, <1>2, <2>2, Zenon DEF Pay, Advances
  <2> QED
    BY <2>1, <2>2
<1>8. Blank'
  BY <1>4, <1>6 DEF Books, Blank, Open
<1>9. PaymentsSettle'
  <2> SUFFICES ASSUME NEW j \in InvIds, invoices'[j].status # "NONE"
               PROVE  /\ invoices'[j].status = "PAID" <=> invoices'[j].paid >= Total
                      /\ invoices'[j].paid > 0 => invoices'[j].status # "VOID"
    BY DEF PaymentsSettle, Issued
  <2>1. CASE j = i
    BY <1>4, <1>6, <2>1 DEF Open
  <2>2. CASE j # i
    BY <1>6, <2>2 DEF Books, PaymentsSettle, Issued
  <2> QED
    BY <2>1, <2>2
<1>10. RenewedOnce'
  <2>1. \A j \in InvIds : /\ invoices'[j].renewal = invoices[j].renewal
                          /\ invoices'[j].sub = invoices[j].sub
                          /\ invoices'[j].start = invoices[j].start
                          /\ invoices'[j].status # "VOID" => invoices[j].status # "VOID"
    BY <1>2, <1>4, <1>6 DEF Open
  <2> QED
    BY <2>1 DEF Books, RenewedOnce
<1>11. PaidPeriod'
  <2> DEFINE Covers(j, x) == /\ invoices'[j].status = "PAID" /\ invoices'[j].sub = x
                             /\ invoices'[j].start = subs'[x].start
                             /\ invoices'[j].end = subs'[x].end
  <2>1. ASSUME NEW x \in SubIds, subs'[x].status \in Paying,
               subs[x].status \in Paying, subs'[x].start = subs[x].start,
               subs'[x].end = subs[x].end
        PROVE  \E j \in InvIds : Covers(j, x)
    <3>1. PICK j \in InvIds : /\ invoices[j].status = "PAID" /\ invoices[j].sub = x
                              /\ invoices[j].start = subs[x].start
                              /\ invoices[j].end = subs[x].end
      BY <2>1 DEF Books, PaidPeriod
    <3>2. invoices'[j] = invoices[j]
      BY <1>4, <1>6, <3>1 DEF Open
    <3> QED
      BY <2>1, <3>1, <3>2
  <2>2. CASE subs' = [subs EXCEPT ![s].status = "ACTIVE", ![s].start = invoices[i].start,
                                  ![s].end = invoices[i].end] /\ proc[a].full
    <3>1. subs'[s].start = invoices[i].start /\ subs'[s].end = invoices[i].end
      BY <1>5, <2>2 DEF SubRows
    <3>2. Covers(i, s)
      BY <1>6, <2>2, <3>1
    <3>3. \A x \in SubIds : x # s => subs'[x] = subs[x]
      BY <1>5, <2>2
    <3> QED
      BY <2>1, <3>2, <3>3 DEF PaidPeriod
  <2>3. CASE SetStatus(s, "ACTIVE") /\ subs[s].status = "ACTIVE"
    <3>1. \A x \in SubIds : /\ subs'[x].status = subs[x].status
                            /\ subs'[x].start = subs[x].start /\ subs'[x].end = subs[x].end
      BY <1>5, <2>3 DEF SetStatus, SubRows
    <3> QED
      BY <2>1, <3>1 DEF PaidPeriod
  <2>4. CASE subs' = subs
    BY <2>1, <2>4 DEF PaidPeriod
  <2> QED
    BY <1>7, <2>2, <2>3, <2>4
<1> QED
  BY <1>8, <1>9, <1>10, <1>11 DEF Books

LEMMA MoveSteady ==
  ASSUME Inv, NEW s, NEW from, NEW status, MoveStatus(s, from, status),
         status \in Paying => from \subseteq Paying
  PROVE  SubsSteady
<1>1. subs \in [SubIds -> SubRows]
  BY DEF Inv, TypeOK, SubRows
<1>2. CASE subs' = subs
  BY <1>2 DEF SubsSteady
<1>3. CASE subs[s].status \in from /\ subs' = [subs EXCEPT ![s].status = status]
  BY <1>1, <1>3 DEF SubsSteady, SubRows
<1> QED
  BY <1>2, <1>3 DEF MoveStatus, SetStatus

LEMMA NewSubSteady ==
  ASSUME Inv, NEW status \in {"TRIALING", "PENDING"}, NEW start, NEW end, NEW trialEnd,
         NewSub(status, start, end, trialEnd)
  PROVE  SubsSteady
  BY DEF NewSub, SubsSteady, Paying, Inv, TypeOK

LEMMA SubsSteadyStep ==
  ASSUME Inv, [Next]_vars, \A a \in Admins : ~Pay(a)
  PROVE  SubsSteady
<1>0. subs \in [SubIds -> SubRows]
  BY DEF Inv, TypeOK, SubRows
<1>1. ASSUME UNCHANGED subs PROVE SubsSteady
  BY <1>1 DEF SubsSteady
<1>2. ASSUME NEW a \in Admins, AdminCall(a) \/ AdminDies(a) PROVE SubsSteady
  BY <1>1, <1>2 DEF AdminCall, StartTrialRead, SubscribeRead, CancelRead, PayRead,
     FailRead, VoidRead, SetFiscal, AdminDies
<1>3. ASSUME NEW a \in Admins, AdminStep(a) PROVE SubsSteady
  <2>1. CASE StartTrial(a) \/ SubscribeCreate(a)
    BY <2>1, NewSubSteady DEF StartTrial, SubscribeCreate
  <2>2. CASE SubscribeIssue(a) \/ VoidInvoice(a)
    BY <1>1, <2>2 DEF SubscribeIssue, VoidInvoice
  <2>3. CASE Cancel(a)
    <3>1. PICK s : \/ subs' = [subs EXCEPT ![s].cancelling = TRUE]
                   \/ subs' = [subs EXCEPT ![s].status = "CANCELED", ![s].end = today]
      BY <2>3, Zenon DEF Cancel
    <3>2. CASE subs' = [subs EXCEPT ![s].cancelling = TRUE]
      BY <1>0, <3>2 DEF SubsSteady, SubRows
    <3>3. CASE subs' = [subs EXCEPT ![s].status = "CANCELED", ![s].end = today]
      BY <1>0, <3>3 DEF SubsSteady, SubRows, Paying
    <3> QED
      BY <3>1, <3>2, <3>3
  <2>4. CASE RecordFailedPayment(a)
    <3>1. MoveStatus(invoices[proc[a].inv].sub, {"ACTIVE"}, "PAST_DUE")
      BY <2>4 DEF RecordFailedPayment
    <3> QED
      BY <3>1, MoveSteady DEF Paying
  <2> QED
    BY <1>3, <2>1, <2>2, <2>3, <2>4 DEF AdminStep
<1>4. CASE CronStep
  <2>1. CASE TrialExpire
    BY <1>0, <2>1 DEF TrialExpire, SetStatus, SubsSteady, SubRows, Paying
  <2>2. CASE MarkPastDue
    <3>1. MoveStatus(invoices[Item].sub, {"ACTIVE"}, "PAST_DUE")
      BY <2>2 DEF MarkPastDue
    <3> QED
      BY <3>1, MoveSteady DEF Paying
  <2>3. CASE GraceOver
    <3>1. UNCHANGED subs \/ MoveStatus(invoices[Item].sub,
                                {"PAST_DUE", "PENDING", "TRIALING", "ACTIVE"}, "EXPIRED")
      BY <2>3 DEF GraceOver
    <3> QED
      BY <1>1, <3>1, MoveSteady DEF Paying
  <2>4. CASE FinishCancellations
    BY <1>0, <2>4 DEF FinishCancellations, SubsSteady, SubRows, Paying
  <2>5. CASE ~(TrialExpire \/ MarkPastDue \/ GraceOver \/ FinishCancellations)
    BY <1>1, <1>4, <2>5 DEF CronStep, CronStart, RenewList, RenewIssue, TrialList,
       OverdueList, MarkOverdue, RenewCheck, TrialCount, OverdueTake
  <2> QED
    BY <2>1, <2>2, <2>3, <2>4, <2>5
<1>5. CASE PhaseThrows \/ Pause
  BY <1>1, <1>5, PauseFrame DEF PhaseThrows
<1> QED
  BY <1>2, <1>3, <1>4, <1>5, NextSplit

LEMMA IssueSteady ==
  ASSUME Inv, NEW s, NEW start, NEW end, NEW due, NEW renewal,
         RoomForInvoice, Issue(s, start, end, due, renewal), renewal => ~Already(s, start)
  PROVE  InvoicesSteady
<1>1. /\ NextInv \in InvIds /\ NextInv \notin Issued
      /\ \A i \in InvIds \ {NextInv} : invoices'[i] = invoices[i]
      /\ invoices'[NextInv] = [status |-> "ISSUED", sub |-> s, start |-> start, end |-> end,
                               due |-> due, paid |-> 0, fiscal |-> FALSE, renewal |-> renewal]
  BY NextFree DEF Inv, TypeOK, RoomForInvoice, Issue
<1>2. Fresh(NextInv)
  BY <1>1 DEF Fresh, Issued
<1>3. \A i \in InvIds \ {NextInv} : Steady(i)
  BY <1>1 DEF Steady
<1> QED
  BY <1>2, <1>3 DEF InvoicesSteady

LEMMA InvoicesSteadyStep ==
  ASSUME SerialInv, [Next]_vars, \A a \in Admins : ~Pay(a)
  PROVE  InvoicesSteady
<1> USE DEF SerialInv
<1>0. invoices \in [InvIds -> InvRows]
  BY DEF Inv, TypeOK, InvRows
<1>1. ASSUME UNCHANGED invoices PROVE InvoicesSteady
  BY <1>1 DEF InvoicesSteady, Steady
<1>2. ASSUME NEW i \in InvIds, NEW status \in {"OVERDUE", "VOID"}, Open(i),
             status = "VOID" => invoices[i].paid = 0,
             invoices' = [invoices EXCEPT ![i].status = status]
      PROVE  InvoicesSteady
  BY <1>0, <1>2 DEF InvoicesSteady, Steady, InvRows
<1>3. ASSUME NEW a \in Admins, AdminCall(a) \/ AdminDies(a) PROVE InvoicesSteady
  <2>1. ASSUME NEW i \in InvIds, SetFiscal(a, i) PROVE InvoicesSteady
    BY <1>0, <2>1 DEF SetFiscal, InvoicesSteady, Steady, InvRows
  <2> QED
    BY <1>1, <1>3, <2>1 DEF AdminCall, StartTrialRead, SubscribeRead, CancelRead, PayRead,
       FailRead, VoidRead, AdminDies
<1>4. ASSUME NEW a \in Admins, AdminStep(a) PROVE InvoicesSteady
  <2>1. CASE StartTrial(a) \/ SubscribeCreate(a) \/ Cancel(a) \/ RecordFailedPayment(a)
    BY <1>1, <2>1 DEF StartTrial, SubscribeCreate, Cancel, RecordFailedPayment
  <2>2. CASE SubscribeIssue(a)
    BY <2>2, IssueSteady DEF SubscribeIssue
  <2>3. CASE VoidInvoice(a)
    <3>1. Open(proc[a].inv) /\ invoices[proc[a].inv].paid = 0
      BY <2>3 DEF VoidInvoice, At, AllSeen, Seen
    <3>2. proc[a].inv \in InvIds
      BY <2>3 DEF VoidInvoice, At, Inv, CallsOK, CallOK, Issued
    <3> QED
      BY <1>2, <2>3, <3>1, <3>2 DEF VoidInvoice
  <2> QED
    BY <1>4, <2>1, <2>2, <2>3 DEF AdminStep
<1>5. CASE CronStep
  <2>1. CASE RenewIssue
    <3>1. ~Already(Item, cron.item[2])
      BY <2>1 DEF RenewIssue, JobSeen, Item
    <3> QED
      BY <2>1, <3>1, IssueSteady DEF RenewIssue
  <2>2. CASE MarkOverdue
    <3>1. Open(Item) /\ Item \in InvIds
      BY <2>2 DEF MarkOverdue, JobSeen, Item, Inv, CronOK, Issued
    <3> QED
      BY <1>2, <2>2, <3>1 DEF MarkOverdue
  <2>3. CASE ~(RenewIssue \/ MarkOverdue)
    BY <1>1, <1>5, <2>3 DEF CronStep, CronStart, RenewList, TrialList, TrialExpire,
       OverdueList, MarkPastDue, GraceOver, FinishCancellations, RenewCheck, TrialCount,
       OverdueTake
  <2> QED
    BY <2>1, <2>2, <2>3
<1>6. CASE PhaseThrows \/ Pause
  BY <1>1, <1>6, PauseFrame DEF PhaseThrows
<1> QED
  BY <1>3, <1>4, <1>5, <1>6, NextSplit

LEMMA SerialInit == Init => SerialInv
<1> SUFFICES ASSUME Init PROVE SerialInv
  OBVIOUS
<1>1. Inv
  BY InvInit
<1>2. Lone /\ AllSeen /\ JobSeen
  BY DEF Init, Idle, OnSub, Resting, Job, Lone, AllSeen, Seen, JobSeen
<1>3. Blank /\ PaidPeriod /\ RenewedOnce
  BY DEF Init, Blank, PaidPeriod, RenewedOnce, Paying
<1>4. PaymentsSettle
  BY DEF Init, PaymentsSettle, Issued
<1> QED
  BY <1>1, <1>2, <1>3, <1>4 DEF SerialInv, Books

LEMMA SerialNext == Serial /\ SerialInv /\ [Next]_vars => SerialInv'
<1> SUFFICES ASSUME Serial, SerialInv, [Next]_vars PROVE SerialInv'
  OBVIOUS
<1>1. Inv'
  BY InvNext DEF SerialInv
<1>2. Lone' /\ AllSeen' /\ JobSeen'
  BY LoneStep, SeenStep, JobSeenStep DEF SerialInv
<1>3. Books'
  BY SubsSteadyStep, InvoicesSteadyStep, SteadyBooks, PayBooks DEF SerialInv
<1> QED
  BY <1>1, <1>2, <1>3 DEF SerialInv

-----------------------------------------------------------------------------
\* The access that is on is paid for: when calls and the job do not overlap, a
\* paying subscription is in the period of one of its paid invoices, for any
\* customers' rows, calls, amounts and days, and with deaths and failed phases.
THEOREM AccessIsPaid == Serial /\ Spec => []PaidPeriod
<1> DEFINE J == Serial /\ SerialInv
<1>1. Serial /\ Init => J
  BY SerialInit
<1>2. J /\ [Next]_vars => J'
  BY SerialNext
<1>3. J => PaidPeriod
  BY DEF SerialInv, Books
<1> HIDE DEF J
<1> QED
  BY <1>1, <1>2, <1>3, PTL DEF Spec

\* An invoice is PAID exactly when its payments reach the total, and none with
\* a payment is voided, when calls do not overlap (registerPayment, voidInvoice).
THEOREM PaymentsAreSettled == Serial /\ Spec => []PaymentsSettle
<1> DEFINE J == Serial /\ SerialInv
<1>1. Serial /\ Init => J
  BY SerialInit
<1>2. J /\ [Next]_vars => J'
  BY SerialNext
<1>3. J => PaymentsSettle
  BY DEF SerialInv, Books
<1> HIDE DEF J
<1> QED
  BY <1>1, <1>2, <1>3, PTL DEF Spec

\* The job renews a period with one valid invoice, however often it dies and
\* starts again on another day, when no call overlaps it (issueRenewals).
THEOREM RenewedWithOne == Serial /\ Spec => []RenewedOnce
<1> DEFINE J == Serial /\ SerialInv
<1>1. Serial /\ Init => J
  BY SerialInit
<1>2. J /\ [Next]_vars => J'
  BY SerialNext
<1>3. J => RenewedOnce
  BY DEF SerialInv, Books
<1> HIDE DEF J
<1> QED
  BY <1>1, <1>2, <1>3, PTL DEF Spec

-----------------------------------------------------------------------------
(* What the job expires.                                                   *)

\* Only the end of a trial and the end of the grace expire a subscription.
LEMMA ExpiresOnly ==
  ASSUME SerialInv, [Next]_vars, NEW s \in SubIds,
         subs[s].status # "EXPIRED", subs'[s].status = "EXPIRED"
  PROVE  TrialExpire \/ GraceOver
<1> USE DEF SerialInv
<1>0. subs \in [SubIds -> SubRows]
  BY DEF Inv, TypeOK, SubRows
<1>1. subs' # subs
  OBVIOUS
<1>2. ASSUME NEW x, NEW from, NEW status, status # "EXPIRED" PROVE ~MoveStatus(x, from, status)
  BY <1>0, <1>2 DEF MoveStatus, SetStatus, SubRows
<1>3. ASSUME NEW a \in Admins, AdminCall(a) \/ AdminDies(a) PROVE FALSE
  BY <1>1, <1>3 DEF AdminCall, StartTrialRead, SubscribeRead, CancelRead, PayRead,
     FailRead, VoidRead, SetFiscal, AdminDies
<1>4. ASSUME NEW a \in Admins, AdminStep(a) PROVE FALSE
  <2>1. CASE StartTrial(a) \/ SubscribeCreate(a)
    BY <1>0, <2>1 DEF StartTrial, SubscribeCreate, NewSub, SubRows
  <2>2. CASE SubscribeIssue(a) \/ VoidInvoice(a)
    BY <1>1, <2>2 DEF SubscribeIssue, VoidInvoice
  <2>3. CASE Cancel(a)
    <3>1. PICK x : \/ subs' = [subs EXCEPT ![x].cancelling = TRUE]
                   \/ subs' = [subs EXCEPT ![x].status = "CANCELED", ![x].end = today]
      BY <2>3, Zenon DEF Cancel
    <3>2. ~(subs' = [subs EXCEPT ![x].cancelling = TRUE])
      BY <1>0 DEF SubRows
    <3>3. ~(subs' = [subs EXCEPT ![x].status = "CANCELED", ![x].end = today])
      BY <1>0 DEF SubRows
    <3> QED
      BY <3>1, <3>2, <3>3
  <2>4. CASE RecordFailedPayment(a)
    BY <1>2, <2>4 DEF RecordFailedPayment
  <2>5. CASE Pay(a)
    <3>1. PICK i \in InvIds : i = proc[a].inv
      BY <2>5 DEF Pay, At, Inv, CallsOK, CallOK, Issued
    <3>2. PICK x \in SubIds : x = invoices[i].sub
      BY <2>5, <3>1 DEF Pay, At, Inv, CallsOK, CallOK, TypeOK, Existing, Issued
    <3>3. CASE ~proc[a].full
      BY <1>1, <2>5, <3>3 DEF Pay
    <3>4. CASE proc[a].full
      <4>1. \/ SetStatus(x, "ACTIVE")
            \/ subs' = [subs EXCEPT ![x].status = "ACTIVE", ![x].start = invoices[i].start,
                                    ![x].end = invoices[i].end]
        BY <2>5, <3>1, <3>2, <3>4, Zenon DEF Pay
      <4>2. ~SetStatus(x, "ACTIVE")
        BY <1>0 DEF SetStatus, SubRows
      <4>3. ~(subs' = [subs EXCEPT ![x].status = "ACTIVE", ![x].start = invoices[i].start,
                                   ![x].end = invoices[i].end])
        BY <1>0 DEF SubRows
      <4> QED
        BY <4>1, <4>2, <4>3
    <3> QED
      BY <3>3, <3>4
  <2> QED
    BY <1>4, <2>1, <2>2, <2>3, <2>4, <2>5 DEF AdminStep
<1>5. CASE CronStep
  <2>1. ~MarkPastDue
    BY <1>2 DEF MarkPastDue
  <2>2. ~FinishCancellations
    BY <1>0 DEF FinishCancellations, SubRows
  <2> QED
    BY <1>1, <1>5, <2>1, <2>2 DEF CronStep, CronStart, RenewList, RenewIssue, TrialList,
       OverdueList, MarkOverdue, RenewCheck, TrialCount, OverdueTake
<1>6. CASE PhaseThrows \/ Pause
  BY <1>1, <1>6, PauseFrame DEF PhaseThrows
<1> QED
  BY <1>3, <1>4, <1>5, <1>6, NextSplit

\* Nobody loses the service without cause, a trial that ended with nothing owed
\* or an invoice beyond its grace, when no call overlaps the job (expireTrials,
\* markOverdueAndDun), even if phases throw and replicas die.
THEOREM ExpiryHasCause == Serial /\ Spec => ExpiredForCause
<1> DEFINE J == Serial /\ SerialInv
           ForCause == \A s \in SubIds :
               subs[s].status # "EXPIRED" /\ subs'[s].status = "EXPIRED" => Cause(s)
<1>1. Serial /\ Init => J
  BY SerialInit
<1>2. J /\ [Next]_vars => J'
  BY SerialNext
<1>3. J /\ [Next]_vars => [ForCause]_vars
  <2> SUFFICES ASSUME SerialInv, [Next]_vars, NEW s \in SubIds,
                      subs[s].status # "EXPIRED", subs'[s].status = "EXPIRED"
               PROVE  Cause(s)
    OBVIOUS
  <2>0. subs \in [SubIds -> SubRows]
    BY DEF SerialInv, Inv, TypeOK, SubRows
  <2>1. CASE TrialExpire
    <3>1. s = Item
      BY <2>0, <2>1 DEF TrialExpire, SetStatus
    <3>2. OverTrial(s) /\ Unowing(s)
      BY <2>1, <3>1 DEF TrialExpire, SerialInv, JobSeen, Item
    <3> QED
      BY <3>2 DEF Cause, OverTrial, Unowing
  <2>2. CASE GraceOver
    <3>1. s = invoices[Item].sub /\ today - invoices[Item].due >= Grace
      BY <2>0, <2>2 DEF GraceOver, MoveStatus, SetStatus
    <3>2. Open(Item) /\ Item \in InvIds
      BY <2>2 DEF GraceOver, SerialInv, JobSeen, Item, Inv, CronOK, Issued
    <3> QED
      BY <3>1, <3>2 DEF Cause
  <2> QED
    BY <2>1, <2>2, ExpiresOnly
<1> HIDE DEF J
<1> QED
  BY <1>1, <1>2, <1>3, PTL DEF Spec, ExpiredForCause

-----------------------------------------------------------------------------
(* What the job leaves behind.                                             *)

\* An invoice that is due for the grace is listed, is being worked on, or has
\* ended the service of its subscription.
InDebt(i) == Open(i) /\ today - invoices[i].due >= Grace

Handled ==
    cron.pc \in {"overdue", "mark", "pastDue", "grace"} =>
        \A i \in InvIds : InDebt(i) =>
            \/ \E x \in cron.todo : x[1] = i
            \/ cron.pc # "overdue" /\ cron.item[1] = i
            \/ subs[invoices[i].sub].status \in Closed

LEMMA HandledStep ==
  ASSUME Serial, ~Failures, Grace > 0, SerialInv, Handled, [Next]_vars
  PROVE  Handled'
<1> USE DEF SerialInv
<1>0. /\ subs \in [SubIds -> SubRows] /\ invoices \in [InvIds -> InvRows]
      /\ today \in Nat /\ Grace \in Nat
      /\ \A i \in InvIds : Open(i) => invoices[i].sub \in Existing
  BY CalendarAssumption DEF Inv, TypeOK, SubRows, InvRows, Open, Issued
<1>1. cron'.pc \notin {"overdue", "mark", "pastDue", "grace"} => Handled'
  BY DEF Handled
<1>2. ASSUME NEW a \in Admins, AdminCall(a) \/ AdminStep(a) \/ AdminDies(a) PROVE Handled'
  BY <1>1, <1>2, AdminFrame, AdminAlone
<1>3. CASE Pause
  <2>1. CASE cron' = cron /\ today' = today
    BY <1>3, <2>1, PauseFrame DEF Handled, InDebt, Open
  <2>2. CASE cron'.pc = "idle"
    BY <1>1, <2>2
  <2> QED
    BY <1>3, <2>1, <2>2, PauseFrame
<1>4. CASE CronStart \/ RenewList \/ RenewIssue \/ TrialList \/ TrialExpire
             \/ FinishCancellations \/ \E x \in cron.todo : RenewCheck(x) \/ TrialCount(x)
  <2>1. /\ CronStart => Goto("renewList")
        /\ RenewList => \E S : Listed("renew", S)
        /\ RenewIssue => Goto("renew")
        /\ TrialList => \E S : Listed("trial", S)
        /\ TrialExpire => Goto("trial")
        /\ FinishCancellations => cron' = Resting(today)
    BY DEF CronStart, RenewList, RenewIssue, TrialList, TrialExpire, FinishCancellations
  <2>2. ASSUME NEW x \in cron.todo, RenewCheck(x) \/ TrialCount(x)
        PROVE  cron'.pc \in {"renew", "renewIssue", "trial", "trialExpire"}
    BY <2>2 DEF RenewCheck, TrialCount, Skip, Work, Job
  <2> QED
    BY <1>1, <1>4, <2>1, <2>2 DEF Goto, Listed, Resting, Job
<1>5. CASE OverdueList
  <2>1. UNCHANGED <<today, subs, invoices>>
    BY <1>5 DEF OverdueList
  <2> SUFFICES ASSUME NEW i \in InvIds, InDebt(i)' PROVE \E x \in cron'.todo : x[1] = i
    BY DEF Handled
  <2>2. Open(i) /\ invoices[i].due < today
    BY <1>0, <2>1 DEF InDebt, Open, InvRows
  <2>3. <<i, IF invoices[i].status = "ISSUED" THEN 1 ELSE 0>> \in cron'.todo
    BY <1>5, <2>2 DEF OverdueList, Listed, Job
  <2> QED
    BY <2>3
<1>6. ASSUME NEW x \in cron.todo, OverdueTake(x) PROVE Handled'
  <2>1. UNCHANGED <<today, subs, invoices>> /\ cron.pc = "overdue"
    BY <1>6 DEF OverdueTake
  <2>2. cron'.todo = cron.todo \ {x} /\ cron'.item = x /\ cron'.pc \in {"mark", "grace"}
    BY <1>6 DEF OverdueTake, Work, Job
  <2>3. \A i : InDebt(i)' => InDebt(i)
    BY <2>1 DEF InDebt, Open
  <2> QED
    BY <2>1, <2>2, <2>3 DEF Handled
<1>7. CASE MarkOverdue
  <2>1. cron.item[1] \in InvIds /\ Open(cron.item[1]) /\ cron.pc = "mark"
    BY <1>7 DEF MarkOverdue, JobSeen, Inv, CronOK, Issued
  <2>2. \A i \in InvIds : InDebt(i)' => InDebt(i) /\ invoices'[i].sub = invoices[i].sub
    BY <1>0, <1>7, <2>1 DEF MarkOverdue, Item, InDebt, Open, InvRows
  <2>3. /\ cron'.pc = "pastDue" /\ cron'.todo = cron.todo /\ cron'.item = cron.item
        /\ subs' = subs
    BY <1>7 DEF MarkOverdue, Goto, Job
  <2> QED
    BY <2>1, <2>2, <2>3 DEF Handled
<1>8. CASE MarkPastDue
  <2>1. /\ cron'.pc = "grace" /\ cron'.todo = cron.todo /\ cron'.item = cron.item
        /\ UNCHANGED <<today, invoices>> /\ cron.pc = "pastDue"
    BY <1>8 DEF MarkPastDue, Goto, Job
  <2>2. ClosedStay
    BY <1>8, MoveClosesOnly DEF MarkPastDue, Closed
  <2>3. \A i \in InvIds : InDebt(i)' =>
            InDebt(i) /\ invoices[i].sub \in SubIds /\ invoices'[i].sub = invoices[i].sub
    BY <1>0, <2>1 DEF InDebt, Open, Existing
  <2> QED
    BY <2>1, <2>2, <2>3 DEF Handled, ClosedStay
<1>9. CASE GraceOver
  <2>1. /\ cron'.pc = "overdue" /\ cron'.todo = cron.todo
        /\ UNCHANGED <<today, invoices>> /\ cron.pc = "grace"
    BY <1>9 DEF GraceOver, Goto, Job
  <2>2. ClosedStay
    BY <1>9, MoveClosesOnly DEF GraceOver, Closed, ClosedStay
  <2>3. \A i \in InvIds : InDebt(i)' =>
            InDebt(i) /\ invoices[i].sub \in Existing /\ invoices'[i].sub = invoices[i].sub
    BY <1>0, <2>1 DEF InDebt, Open
  <2>4. ASSUME InDebt(Item), Item \in InvIds PROVE subs'[invoices[Item].sub].status \in Closed
    <3> DEFINE s == invoices[Item].sub
    <3>1. s \in SubIds /\ subs[s].status \in Statuses \ {"NONE"}
      BY <1>0, <2>4 DEF InDebt, Existing, SubRows
    <3>2. MoveStatus(s, {"PAST_DUE", "PENDING", "TRIALING", "ACTIVE"}, "EXPIRED")
      BY <1>9, <2>4 DEF GraceOver, InDebt
    <3> QED
      BY <1>0, <3>1, <3>2 DEF MoveStatus, SetStatus, Closed, Statuses, SubRows
  <2>5. \A i \in InvIds : InDebt(i) => invoices[i].sub \in SubIds
    BY <1>0 DEF InDebt, Existing
  <2> QED
    BY <2>1, <2>2, <2>3, <2>4, <2>5 DEF Handled, ClosedStay, Item
<1>10. ~PhaseThrows
  BY DEF PhaseThrows
<1> QED
  BY <1>2, <1>3, <1>4, <1>5, <1>6, <1>7, <1>8, <1>9, <1>10, NextSplit DEF CronStep

\* The job ends with its last phase.
LEMMA JobEnds ==
  ASSUME Serial, ~Failures, Lone, [Next]_vars, cron.pc # "idle", cron'.pc = "idle"
  PROVE  FinishCancellations
<1>1. ASSUME NEW a \in Admins PROVE ~(AdminCall(a) \/ AdminStep(a) \/ AdminDies(a))
  BY AdminAlone
<1>2. ~Pause /\ ~PhaseThrows
  BY DEF Pause, CronDies, NextDay, PhaseThrows, vars
<1>3. ASSUME NEW x \in cron.todo PROVE ~(RenewCheck(x) \/ TrialCount(x) \/ OverdueTake(x))
  BY DEF RenewCheck, TrialCount, OverdueTake, Skip, Work, Job
<1>4. /\ CronStart => Goto("renewList")
      /\ RenewList => \E S : Listed("renew", S)
      /\ RenewIssue => Goto("renew")
      /\ TrialList => \E S : Listed("trial", S)
      /\ TrialExpire => Goto("trial")
      /\ OverdueList => \E S : Listed("overdue", S)
      /\ MarkOverdue => Goto("pastDue")
      /\ MarkPastDue => Goto("grace")
      /\ GraceOver => Goto("overdue")
  BY DEF CronStart, RenewList, RenewIssue, TrialList, TrialExpire, OverdueList,
     MarkOverdue, MarkPastDue, GraceOver
<1>5. \A pc : Goto(pc) \/ (\E S : Listed(pc, S)) => pc = "idle"
  BY DEF Goto, Listed, Job
<1> QED
  BY <1>1, <1>2, <1>3, <1>4, <1>5, NextSplit DEF CronStep

\* Whoever owes beyond the grace loses the service that day: when no call
\* overlaps the job and nothing fails, no run of the job leaves an open invoice
\* due for the grace on a subscription that is not closed (markOverdueAndDun).
THEOREM DebtorsAreClosed == Serial /\ ~Failures /\ Grace > 0 /\ Spec => DebtEndsService
<1> DEFINE J == Serial /\ ~Failures /\ Grace > 0 /\ SerialInv /\ Handled
           Ends == cron.pc # "idle" /\ cron'.pc = "idle" =>
               \A i \in InvIds : Open(i) /\ today - invoices[i].due >= Grace =>
                   subs'[invoices[i].sub].status \in Closed
<1>1. Serial /\ ~Failures /\ Grace > 0 /\ Init => J
  BY SerialInit DEF Init, Resting, Job, Handled
<1>2. J /\ [Next]_vars => J'
  BY SerialNext, HandledStep
<1>3. J /\ [Next]_vars => [Ends]_vars
  <2> SUFFICES ASSUME J, [Next]_vars, cron.pc # "idle", cron'.pc = "idle",
                      NEW i \in InvIds, InDebt(i)
               PROVE  subs'[invoices[i].sub].status \in Closed
    BY DEF InDebt
  <2>1. FinishCancellations
    BY JobEnds DEF SerialInv
  <2>2. subs[invoices[i].sub].status \in Closed
    BY <2>1 DEF FinishCancellations, Handled
  <2>3. invoices[i].sub \in SubIds /\ subs \in [SubIds -> SubRows]
    BY DEF SerialInv, Inv, TypeOK, SubRows, InDebt, Open, Issued, Existing
  <2> QED
    BY <2>1, <2>2, <2>3 DEF FinishCancellations, Ended, Closed, SubRows
<1> HIDE DEF J
<1> QED
  BY <1>1, <1>2, <1>3, PTL DEF Spec, DebtEndsService, InDebt

-----------------------------------------------------------------------------
(* Nobody keeps the service for nothing: a period that nobody pays has an  *)
(* invoice, which is due in time to end the service.                       *)

\* An invoice is of one period and falls due when the period starts, or a
\* payment term later; a call that will issue one starts it today or later.
Dated ==
    /\ \A i \in Issued : /\ invoices[i].end = invoices[i].start + Period
                         /\ invoices[i].due <= invoices[i].start + DueDays
    /\ \A a \in Admins : proc[a].pc \in {"contract", "issue"} => proc[a].start >= today

\* Once the job has its list, a subscription to renew is on it, is being renewed
\* or has an invoice for its next period.
ToRenew(s) == subs[s].status \in Paying /\ ~subs[s].cancelling /\ subs[s].end <= today + Lead

Renewed ==
    cron.pc \notin {"idle", "renewList"} =>
        \A s \in SubIds : ToRenew(s) =>
            \/ ~RoomForInvoice \/ Already(s, subs[s].end)
            \/ cron.pc \in {"renew", "renewIssue"} /\ <<s, subs[s].end>> \in cron.todo
            \/ cron.pc = "renewIssue" /\ cron.item = <<s, subs[s].end>>

LEMMA MaxOfLater == \A x, y \in Nat : x <= y => Max({x, y}) = y
<1> SUFFICES ASSUME NEW x \in Nat, NEW y \in Nat, x <= y PROVE Max({x, y}) = y
  OBVIOUS
<1>1. y \in {x, y} /\ \A w \in {x, y} : y >= w
  OBVIOUS
<1>2. \A z \in {x, y} : (\A w \in {x, y} : z >= w) => z = y
  OBVIOUS
<1> QED
  BY <1>1, <1>2 DEF Max

\* A step that issues nothing leaves the dates of the invoices.
SameDates ==
    \A i \in InvIds :
        /\ invoices'[i].status = "NONE" <=> invoices[i].status = "NONE"
        /\ invoices'[i].start = invoices[i].start /\ invoices'[i].end = invoices[i].end
        /\ invoices'[i].due = invoices[i].due

LEMMA DatesStay ==
  ASSUME SerialInv, [Next]_vars, \A a \in Admins : ~SubscribeIssue(a), ~RenewIssue
  PROVE  SameDates
<1> USE DEF SerialInv
<1>0. invoices \in [InvIds -> InvRows]
  BY DEF Inv, TypeOK, InvRows
<1>1. ASSUME UNCHANGED invoices PROVE SameDates
  BY <1>1 DEF SameDates
<1>2. ASSUME NEW a \in Admins, AdminCall(a) \/ AdminDies(a) PROVE SameDates
  <2>1. ASSUME NEW i \in InvIds, SetFiscal(a, i) PROVE SameDates
    BY <1>0, <2>1 DEF SetFiscal, SameDates, InvRows
  <2> QED
    BY <1>1, <1>2, <2>1 DEF AdminCall, StartTrialRead, SubscribeRead, CancelRead, PayRead,
       FailRead, VoidRead, AdminDies
<1>3. ASSUME NEW a \in Admins, AdminStep(a) PROVE SameDates
  <2>1. CASE StartTrial(a) \/ SubscribeCreate(a) \/ Cancel(a) \/ RecordFailedPayment(a)
    BY <1>1, <2>1 DEF StartTrial, SubscribeCreate, Cancel, RecordFailedPayment
  <2>2. CASE Pay(a)
    <3> DEFINE i == proc[a].inv
               sum == invoices[i].paid + proc[a].amount
    <3>1. i \in InvIds /\ Open(i)
      BY <2>2 DEF Pay, At, AllSeen, Seen, Inv, CallsOK, CallOK, Issued
    <3>2. \/ invoices' = [invoices EXCEPT ![i].paid = sum, ![i].status = "PAID"]
          \/ invoices' = [invoices EXCEPT ![i].paid = sum]
      BY <2>2 DEF Pay
    <3> QED
      BY <1>0, <3>1, <3>2 DEF SameDates, InvRows, Open
  <2>3. CASE VoidInvoice(a)
    <3>1. proc[a].inv \in InvIds /\ Open(proc[a].inv)
      BY <2>3 DEF VoidInvoice, At, AllSeen, Seen, Inv, CallsOK, CallOK, Issued
    <3> QED
      BY <1>0, <2>3, <3>1 DEF VoidInvoice, SameDates, InvRows, Open
  <2> QED
    BY <1>3, <2>1, <2>2, <2>3 DEF AdminStep
<1>4. CASE CronStep
  <2>1. CASE MarkOverdue
    <3>1. Open(Item) /\ Item \in InvIds
      BY <2>1 DEF MarkOverdue, JobSeen, Item, Inv, CronOK, Issued
    <3> QED
      BY <1>0, <2>1, <3>1 DEF MarkOverdue, SameDates, InvRows, Open
  <2> QED
    BY <1>1, <1>4, <2>1 DEF CronStep, CronStart, RenewList, TrialList, TrialExpire,
       OverdueList, MarkPastDue, GraceOver, FinishCancellations, RenewCheck, TrialCount,
       OverdueTake
<1>5. CASE PhaseThrows \/ Pause
  BY <1>1, <1>5, PauseFrame DEF PhaseThrows
<1> QED
  BY <1>2, <1>3, <1>4, <1>5, NextSplit

\* The invoice a call or the job issues.
LEMMA DatesIssued ==
  ASSUME Inv, Dated, RoomForInvoice, NEW s, NEW start \in Nat, NEW due \in Nat, NEW renewal,
         due <= start + DueDays, Issue(s, start, start + Period, due, renewal)
  PROVE  \A i \in Issued' : /\ invoices'[i].end = invoices'[i].start + Period
                            /\ invoices'[i].due <= invoices'[i].start + DueDays
<1>1. /\ NextInv \in InvIds
      /\ \A i \in InvIds \ {NextInv} : invoices'[i] = invoices[i]
      /\ invoices'[NextInv] = [status |-> "ISSUED", sub |-> s, start |-> start,
                               end |-> start + Period, due |-> due, paid |-> 0,
                               fiscal |-> FALSE, renewal |-> renewal]
  BY DEF Inv, TypeOK, RoomForInvoice, Issue
<1>2. \A i \in Issued' : i = NextInv \/ i \in Issued
  BY <1>1 DEF Issued
<1> QED
  BY <1>1, <1>2 DEF Dated, Issued

LEMMA DatedStep == ASSUME Serial, SerialInv, Dated, [Next]_vars PROVE Dated'
<1> USE DEF SerialInv
<1>0. /\ proc \in [Admins -> CallRows] /\ today \in Nat /\ DueDays \in Nat
      /\ \A a \in Admins : proc[a].start \in Nat
  BY CalendarAssumption, BoundAssumption DEF Inv, CallsOK, TypeOK, CallRows
<1>1. \A a \in Admins : proc'[a].pc \in {"contract", "issue"} => proc'[a].start >= today'
  <2>1. ASSUME NEW a \in Admins, AdminCall(a) \/ AdminStep(a) \/ AdminDies(a),
               NEW b \in Admins, proc'[b].pc \in {"contract", "issue"}
        PROVE  proc'[b].start >= today'
    <3>1. \A rec : [proc EXCEPT ![a] = rec][a] = rec
      BY <1>0
    <3>2. today' = today /\ b = a
      BY <2>1, AdminFrame, AdminAlone
    <3>3. CASE SubscribeRead(a)
      <4> DEFINE trial == Standing = "TRIALING" /\ subs[Latest].trialEnd > today
                 start == IF trial THEN subs[Latest].trialEnd ELSE today
      <4>1. \E pc, s : proc' = [proc EXCEPT ![a] = OnSub(pc, s, start)]
        BY <3>3 DEF SubscribeRead
      <4>2. proc'[a].start = start
        BY <3>1, <4>1 DEF OnSub
      <4>3. trial => Latest \in SubIds /\ subs[Latest].trialEnd \in Nat
        BY LatestExists DEF Inv, Standing, Existing, TypeOK
      <4>4. start >= today
        BY <1>0, <4>3
      <4> QED
        BY <3>2, <4>2, <4>4
    <3>4. CASE SubscribeCreate(a)
      BY <3>1, <3>2, <3>4 DEF SubscribeCreate, OnSub, Dated, At
    <3>5. CASE ~SubscribeRead(a) /\ ~SubscribeCreate(a)
      <4>1. ~Return(a)
        BY <2>1, <3>1, <3>2 DEF Return, Idle, OnSub
      <4>2. AdminCall(a)
        BY <2>1, <3>5, <4>1 DEF AdminStep, StartTrial, SubscribeIssue, Cancel, Pay,
           RecordFailedPayment, VoidInvoice, AdminDies
      <4>3. ~StartTrialRead(a) /\ \A pc : ~CancelRead(a, pc)
        BY <2>1, <3>1, <3>2 DEF StartTrialRead, CancelRead, OnSub
      <4>4. \A i \in InvIds : /\ \A amount \in Amounts : ~PayRead(a, i, amount)
                              /\ ~FailRead(a, i) /\ ~VoidRead(a, i)
        BY <2>1, <3>1, <3>2 DEF PayRead, FailRead, VoidRead, OnInvoice
      <4>5. \A i \in InvIds : ~SetFiscal(a, i)
        BY <2>1, <3>2 DEF SetFiscal, Call
      <4> QED
        BY <3>5, <4>2, <4>3, <4>4, <4>5 DEF AdminCall
    <3> QED
      BY <3>3, <3>4, <3>5
  <2>2. CASE CronStep \/ PhaseThrows
    BY <2>2, JobAlone DEF Dated
  <2>3. CASE Pause
    <3>1. proc' = proc /\ (today' = today \/ NextDay)
      BY <2>3, PauseFrame DEF Pause, CronDies, vars
    <3> QED
      BY <3>1 DEF Dated, NextDay, Quiet
  <2> QED
    BY <2>1, <2>2, <2>3, NextSplit
<1>2. \A i \in Issued' : /\ invoices'[i].end = invoices'[i].start + Period
                         /\ invoices'[i].due <= invoices'[i].start + DueDays
  <2>1. ASSUME NEW a \in Admins, SubscribeIssue(a)
        PROVE  \A i \in Issued' : /\ invoices'[i].end = invoices'[i].start + Period
                                  /\ invoices'[i].due <= invoices'[i].start + DueDays
    <3> DEFINE start == proc[a].start
    <3>1. start \in Nat /\ today <= start
      BY <1>0, <2>1 DEF SubscribeIssue, At, Dated
    <3>2. Max({today, start}) = start
      BY <1>0, <3>1, MaxOfLater
    <3>3. /\ RoomForInvoice
          /\ Issue(proc[a].sub, start, start + Period, start + DueDays, FALSE)
      BY <2>1, <3>2 DEF SubscribeIssue
    <3>4. start + DueDays \in Nat /\ start + DueDays <= start + DueDays
      BY <1>0, <3>1
    <3> QED
      BY <3>1, <3>3, <3>4, DatesIssued
  <2>2. CASE RenewIssue
    <3>1. cron.item[2] \in Nat
      BY <2>2 DEF RenewIssue, Inv, CronOK
    <3>2. cron.item[2] <= cron.item[2] + DueDays
      BY <1>0, <3>1
    <3>3. /\ RoomForInvoice
          /\ Issue(Item, cron.item[2], cron.item[2] + Period, cron.item[2], TRUE)
      BY <2>2 DEF RenewIssue
    <3> QED
      BY <3>1, <3>2, <3>3, DatesIssued
  <2>3. CASE SameDates
    BY <2>3 DEF SameDates, Dated, Issued
  <2> QED
    BY <2>1, <2>2, <2>3, DatesStay
<1> QED
  BY <1>1, <1>2 DEF Dated

\* Already, after the step.
AlreadyThen(s, start) ==
    \E i \in Issued' : /\ invoices'[i].sub = s /\ invoices'[i].start = start
                       /\ invoices'[i].status # "VOID"

\* The job neither extends a subscription nor takes an invoice back.
LEMMA JobMoves ==
  ASSUME SerialInv, CronStep, \A a \in Admins : ~Pay(a)
  PROVE  /\ \A s \in SubIds : ToRenew(s)' => ToRenew(s) /\ subs'[s].end = subs[s].end
         /\ \A s, start : Already(s, start) => AlreadyThen(s, start)
         /\ ~RoomForInvoice => ~RoomForInvoice'
<1> USE DEF SerialInv
<1>0. subs \in [SubIds -> SubRows] /\ invoices \in [InvIds -> InvRows]
  BY DEF Inv, TypeOK, SubRows, InvRows
<1>1. SubsSteady
  BY SubsSteadyStep DEF Next
<1>2. today' = today /\ \A s \in SubIds : subs'[s].cancelling = subs[s].cancelling
  <2>1. ASSUME NEW s, NEW status, SetStatus(s, status)
        PROVE  \A t \in SubIds : subs'[t].cancelling = subs[t].cancelling
    BY <1>0, <2>1 DEF SetStatus, SubRows
  <2>2. ASSUME NEW s, NEW from, NEW status, MoveStatus(s, from, status)
        PROVE  \A t \in SubIds : subs'[t].cancelling = subs[t].cancelling
    BY <2>1, <2>2 DEF MoveStatus
  <2>3. CASE TrialExpire \/ MarkPastDue \/ GraceOver
    BY <2>1, <2>2, <2>3 DEF TrialExpire, MarkPastDue, GraceOver
  <2>4. CASE FinishCancellations
    BY <1>0, <2>4 DEF FinishCancellations, SubRows
  <2>5. CASE ~(TrialExpire \/ MarkPastDue \/ GraceOver \/ FinishCancellations)
    BY <2>5 DEF CronStep, CronStart, RenewList, RenewIssue, TrialList,
       OverdueList, MarkOverdue, RenewCheck, TrialCount, OverdueTake
  <2>6. today' = today
    BY DEF CronStep, CronStart, RenewList, RenewIssue, TrialList, TrialExpire, OverdueList,
       MarkOverdue, MarkPastDue, GraceOver, FinishCancellations, RenewCheck, TrialCount,
       OverdueTake
  <2> QED
    BY <2>3, <2>4, <2>5, <2>6
<1>3. \A s \in SubIds : ToRenew(s)' => ToRenew(s) /\ subs'[s].end = subs[s].end
  BY <1>1, <1>2 DEF ToRenew, SubsSteady, Paying
<1>4. CASE RenewIssue
  <2>1. /\ RoomForInvoice /\ NextInv \in InvIds /\ NextInv \notin Issued
        /\ \A i \in InvIds \ {NextInv} : invoices'[i] = invoices[i]
    BY <1>0, <1>4, NextFree DEF RenewIssue, Issue, RoomForInvoice, Inv
  <2>2. \A i \in Issued : i \in Issued' /\ invoices'[i] = invoices[i]
    BY <2>1 DEF Issued
  <2>3. \A s, start : Already(s, start) => AlreadyThen(s, start)
    BY <2>2 DEF Already, AlreadyThen
  <2> QED
    BY <1>3, <2>1, <2>3
<1>5. CASE MarkOverdue
  <2>1. Open(Item) /\ Item \in InvIds
    BY <1>5 DEF MarkOverdue, JobSeen, Item, Inv, CronOK, Issued
  <2>2. /\ \A i \in InvIds \ {Item} : invoices'[i] = invoices[i]
        /\ invoices'[Item] = [invoices[Item] EXCEPT !.status = "OVERDUE"]
    BY <1>0, <1>5, <2>1 DEF MarkOverdue
  <2>3. Issued' = Issued
    BY <1>0, <2>1, <2>2 DEF Issued, Open, InvRows
  <2>4. \A i \in Issued : /\ invoices'[i].sub = invoices[i].sub
                          /\ invoices'[i].start = invoices[i].start
                          /\ invoices[i].status # "VOID" => invoices'[i].status # "VOID"
    BY <1>0, <2>1, <2>2 DEF Issued, InvRows
  <2>5. \A s, start : Already(s, start) => AlreadyThen(s, start)
    BY <2>3, <2>4 DEF Already, AlreadyThen
  <2>6. RoomForInvoice' = RoomForInvoice
    BY <2>3 DEF RoomForInvoice, NextInv
  <2> QED
    BY <1>3, <2>5, <2>6
<1>6. CASE ~RenewIssue /\ ~MarkOverdue
  <2>1. invoices' = invoices
    BY <1>6 DEF CronStep, CronStart, RenewList, TrialList, TrialExpire, OverdueList,
       MarkPastDue, GraceOver, FinishCancellations, RenewCheck, TrialCount, OverdueTake
  <2>2. Issued' = Issued
    BY <2>1 DEF Issued
  <2> QED
    BY <1>3, <2>1, <2>2 DEF Already, AlreadyThen, RoomForInvoice, NextInv
<1> QED
  BY <1>4, <1>5, <1>6

LEMMA RenewedStep ==
  ASSUME Serial, ~Failures, SerialInv, Renewed, [Next]_vars
  PROVE  Renewed'
<1> USE DEF SerialInv
<1>1. cron'.pc \in {"idle", "renewList"} => Renewed'
  BY DEF Renewed
<1>2. ASSUME NEW a \in Admins, AdminCall(a) \/ AdminStep(a) \/ AdminDies(a) PROVE Renewed'
  BY <1>1, <1>2, AdminFrame, AdminAlone
<1>3. CASE Pause
  <2>1. CASE cron' = cron /\ today' = today
    BY <1>3, <2>1, PauseFrame
    DEF Renewed, ToRenew, Already, Issued, RoomForInvoice, NextInv
  <2> QED
    BY <1>1, <1>3, <2>1, PauseFrame
<1>4. ~PhaseThrows
  BY DEF PhaseThrows
<1>5. ASSUME CronStep, cron'.pc \notin {"idle", "renewList"} PROVE Renewed'
  <2>0. \A a \in Admins : ~Pay(a)
    BY <1>5, JobAlone DEF Pay, At
  <2>1. /\ \A s \in SubIds : ToRenew(s)' => ToRenew(s) /\ subs'[s].end = subs[s].end
        /\ \A s, start : Already(s, start) => AlreadyThen(s, start)
        /\ ~RoomForInvoice => ~RoomForInvoice'
    BY <1>5, <2>0, JobMoves
  <2> SUFFICES ASSUME NEW s \in SubIds, ToRenew(s)', RoomForInvoice',
                      ~AlreadyThen(s, subs'[s].end)
               PROVE  \/ /\ cron'.pc \in {"renew", "renewIssue"}
                         /\ <<s, subs'[s].end>> \in cron'.todo
                      \/ cron'.pc = "renewIssue" /\ cron'.item = <<s, subs'[s].end>>
    BY DEF Renewed, Already, AlreadyThen
  <2> DEFINE x == <<s, subs[s].end>>
  <2>2. ToRenew(s) /\ subs'[s].end = subs[s].end /\ ~Already(s, subs[s].end) /\ RoomForInvoice
    BY <2>1
  <2>3. cron.pc \notin {"idle", "renewList"} =>
            \/ cron.pc \in {"renew", "renewIssue"} /\ x \in cron.todo
            \/ cron.pc = "renewIssue" /\ cron.item = x
    BY <2>2 DEF Renewed
  <2>4. CASE RenewList
    BY <2>2, <2>4 DEF RenewList, Listed, Job, ToRenew, Paying
  <2>5. ASSUME NEW y \in cron.todo, RenewCheck(y)
        PROVE  \/ cron'.pc \in {"renew", "renewIssue"} /\ x \in cron'.todo
               \/ cron'.pc = "renewIssue" /\ cron'.item = x
    <3>1. cron.pc = "renew" /\ x \in cron.todo
      BY <2>3, <2>5 DEF RenewCheck
    <3>2. CASE Skip(y) /\ Already(y[1], y[2])
      <4>1. y # x
        BY <2>2, <3>2
      <4> QED
        BY <3>1, <3>2, <4>1 DEF Skip, Job
    <3>3. CASE Work("renewIssue", y)
      BY <3>1, <3>3 DEF Work, Job
    <3> QED
      BY <2>2, <2>5, <3>2, <3>3 DEF RenewCheck
  <2>6. CASE RenewIssue
    <3>1. cron.item # x
      <4> SUFFICES ASSUME cron.item = x PROVE FALSE
        OBVIOUS
      <4>1. /\ NextInv \in InvIds
            /\ invoices'[NextInv] = [status |-> "ISSUED", sub |-> s, start |-> subs[s].end,
                                     end |-> subs[s].end + Period, due |-> subs[s].end,
                                     paid |-> 0, fiscal |-> FALSE, renewal |-> TRUE]
        BY <2>6 DEF RenewIssue, Issue, Item, RoomForInvoice, Inv, TypeOK
      <4> QED
        BY <2>1, <2>2, <4>1 DEF AlreadyThen, Issued
    <3>2. x \in cron.todo
      BY <2>3, <2>6, <3>1 DEF RenewIssue
    <3> QED
      BY <2>2, <2>6, <3>2 DEF RenewIssue, Goto, Job
  <2>7. CASE TrialList
    BY <2>3, <2>7 DEF TrialList
  <2>8. ~CronStart /\ ~FinishCancellations
    BY <1>5 DEF CronStart, Goto, FinishCancellations, Resting, Job
  <2>9. ~TrialExpire /\ ~OverdueList /\ ~MarkOverdue /\ ~MarkPastDue /\ ~GraceOver
    BY <2>3 DEF TrialExpire, OverdueList, MarkOverdue, MarkPastDue, GraceOver
  <2>10. \A y \in cron.todo : ~TrialCount(y) /\ ~OverdueTake(y)
    BY <2>3 DEF TrialCount, OverdueTake
  <2> QED
    BY <1>5, <2>2, <2>4, <2>5, <2>6, <2>7, <2>8, <2>9, <2>10 DEF CronStep
<1> QED
  BY <1>1, <1>2, <1>3, <1>4, <1>5, NextSplit

\* Where nothing fails and no call overlaps the job, a subscription keeps the
\* service beyond the end of what was paid for less than the time to pay and the
\* grace together, whatever the calendar: its next period has an invoice, issued
\* by the job or by the contract, and the job ends the service of one that owes
\* (issueRenewals, markOverdueAndDun).
THEOREM NobodyRidesFree == Serial /\ ~Failures /\ Grace > 0 /\ Spec => NoFreeRide
<1> DEFINE J == /\ Serial /\ ~Failures /\ Grace > 0
                /\ SerialInv /\ Handled /\ Dated /\ Renewed
           Free == cron.pc # "idle" /\ cron'.pc = "idle" /\ RoomForInvoice =>
               \A s \in SubIds : subs'[s].status \in Paying /\ UpToDate(s) =>
                   today - subs'[s].end < DueDays + Grace
<1>1. Serial /\ ~Failures /\ Grace > 0 /\ Init => J
  BY SerialInit DEF Init, Resting, Job, Handled, Dated, Renewed, Issued, Idle, OnSub
<1>2. J /\ [Next]_vars => J'
  BY SerialNext, HandledStep, DatedStep, RenewedStep
<1>3. J /\ [Next]_vars => [Free]_vars
  <2> SUFFICES ASSUME J, [Next]_vars, cron.pc # "idle", cron'.pc = "idle", RoomForInvoice,
                      NEW s \in SubIds, subs'[s].status \in Paying, UpToDate(s),
                      ~(today - subs'[s].end < DueDays + Grace)
               PROVE  FALSE
    OBVIOUS
  <2>0. /\ today \in Nat /\ DueDays \in Nat /\ Grace \in Nat /\ Period \in Nat \ {0} /\ Lead \in Nat
        /\ subs \in [SubIds -> SubRows] /\ invoices \in [InvIds -> InvRows]
    BY CalendarAssumption DEF SerialInv, Inv, TypeOK, SubRows, InvRows
  <2>1. FinishCancellations
    BY JobEnds DEF SerialInv
  <2>2. /\ subs'[s].end = subs[s].end /\ subs[s].end \in Nat
        /\ subs[s].status \in Paying /\ ~Ended(s)
    BY <2>0, <2>1 DEF FinishCancellations, SubRows, Paying
  <2>3. subs[s].end + DueDays + Grace <= today
    BY <2>0, <2>2
  <2>4. ToRenew(s)
    BY <2>0, <2>2, <2>3 DEF ToRenew, Ended, Paying, SubRows
  <2>5. PICK i \in Issued : /\ invoices[i].sub = s /\ invoices[i].start = subs[s].end
                            /\ invoices[i].status # "VOID"
    BY <2>1, <2>4 DEF FinishCancellations, Renewed, Already
  <2>6. /\ i \in InvIds /\ invoices[i] \in InvRows
        /\ invoices[i].end = subs[s].end + Period /\ invoices[i].due <= subs[s].end + DueDays
    BY <2>0, <2>5 DEF Dated, Issued
  <2>7. Open(i)
    <3>1. ~(invoices[i].end <= subs[s].end)
      BY <2>0, <2>2, <2>6
    <3> QED
      BY <2>5, <2>6, <3>1 DEF UpToDate, Open, InvRows, Issued
  <2>8. InDebt(i)
    BY <2>0, <2>2, <2>3, <2>6, <2>7 DEF InDebt, InvRows
  <2>9. subs[s].status \in Closed
    BY <2>1, <2>5, <2>6, <2>8 DEF FinishCancellations, Handled
  <2> QED
    BY <2>2, <2>9 DEF Closed, Paying
<1> HIDE DEF J
<1> QED
  BY <1>1, <1>2, <1>3, PTL DEF Spec, NoFreeRide
=============================================================================
