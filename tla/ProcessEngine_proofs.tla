------------------------ MODULE ProcessEngine_proofs ------------------------
(***************************************************************************)
(* Proofs about ProcessEngine for any template and any number of calls in  *)
(* flight: rows, approvals and calls keep their types wherever calls die.  *)
(***************************************************************************)
EXTENDS ProcessEngine, TLAPS

Pcs == {"idle", "sync", "plan", "load", "special", "round", "number", "open", "cleanup",
        "remaining"}
Drafts == [round : Nat, code : Nat, seq : Nat]

\* What a call is about exists.
About(c) ==
    /\ clerk[c].pc \in {"round", "number", "open"} => clerk[c].at \in Steps
    /\ clerk[c].pc = "remaining" => clerk[c].at \in Ids

-----------------------------------------------------------------------------
(* Values.                                                                 *)

LEMMA RowType ==
    ASSUME NEW status \in StepStatuses, NEW result \in Results, NEW n \in Nat
    PROVE  Row(status, result, n) \in StepRows
  BY DEF Row, StepRows

LEMMA NoRowsType == NoRows \in [Steps -> StepRows]
<1>1. "WAITING" \in StepStatuses /\ "NONE" \in Results
  BY DEF StepStatuses, Results
<1> QED
  BY <1>1, RowType DEF NoRows

LEMMA SetStatusType ==
    ASSUME NEW rows \in [Steps -> StepRows], NEW S, NEW status \in StepStatuses
    PROVE  SetStatus(rows, S, status) \in [Steps -> StepRows]
<1>1. \A s \in Steps : rows[s].result \in Results /\ rows[s].returns \in Nat
  BY DEF StepRows
<1> QED
  BY <1>1, RowType DEF SetStatus

LEMMA CallType ==
    ASSUME NEW pc \in Pcs, NEW todo \in Seq(Statements), NEW at \in Nat,
           NEW rows \in [Steps -> StepRows], NEW pass \in Nat, NEW changed \in BOOLEAN,
           NEW draft \in Drafts
    PROVE  Call(pc, todo, at, rows, pass, changed, draft) \in Calls
  BY DEF Call, Calls, Pcs, Drafts

LEMMA CallFields ==
    ASSUME NEW k \in Calls
    PROVE  /\ k.pc \in Pcs /\ k.todo \in Seq(Statements) /\ k.at \in Nat
           /\ k.rows \in [Steps -> StepRows] /\ k.pass \in Nat /\ k.changed \in BOOLEAN
           /\ k.draft \in Drafts
  BY DEF Calls, Pcs, Drafts

LEMMA DraftType ==
    ASSUME NEW round \in Nat, NEW code \in Nat, NEW seq \in Nat
    PROVE  Draft(round, code, seq) \in Drafts
  BY DEF Draft, Drafts

LEMMA IdleType == Idle \in Calls /\ NoDraft \in Drafts
<1>1. NoDraft \in Drafts
  BY DraftType DEF NoDraft
<1>2. <<>> \in Seq(Statements) /\ "idle" \in Pcs
  BY DEF Pcs
<1> QED
  BY <1>1, <1>2, CallType, NoRowsType DEF Idle

LEMMA ApprovalType ==
    ASSUME NEW s \in Steps, NEW round \in Nat, NEW seq \in Nat, NEW code \in Nat,
           NEW status \in ApprovalStatuses
    PROVE  Approval(s, round, seq, code, status) \in Approvals
  BY DEF Approval, Approvals

LEMMA MovedType ==
    ASSUME NEW a \in Approvals, NEW status \in ApprovalStatuses
    PROVE  Moved(a, status) \in Approvals
  BY DEF Moved, Approval, Approvals

-----------------------------------------------------------------------------
(* Statements.                                                             *)

LEMMA StepStatementType ==
    ASSUME NEW op \in {"steps", "byHand", "timer", "returnEach", "returnAll",
                       "returnRejected", "drop"},
           NEW S \in SUBSET Steps, NEW status \in StepStatuses,
           NEW result \in Results \cup {"KEEP"}
    PROVE  Statement(op, S, 0, status, result) \in Statements
  BY DEF Statement, Statements

LEMMA InstType ==
    ASSUME NEW status \in InstStatuses PROVE SetInst(status) \in Statements
  BY DEF SetInst, Statement, Statements

LEMMA ApprovalStatementType ==
    ASSUME NEW op \in {"stamp", "closeOf", "closeOthers"}, NEW S \in SUBSET Steps,
           NEW a \in Nat, NEW status \in ApprovalStatuses
    PROVE  Statement(op, S, a, status, "KEEP") \in Statements
  BY DEF Statement, Statements

\* What is executed is of the kind its name says.
LEMMA StatementFields ==
    ASSUME NEW w \in Statements
    PROVE  /\ w.on \in SUBSET Steps /\ w.id \in Nat /\ w.result \in Results \cup {"KEEP"}
           /\ w.op \in {"steps", "byHand", "timer", "returnEach", "returnAll",
                        "returnRejected", "drop"} => w.status \in StepStatuses
           /\ w.op = "inst" => w.status \in InstStatuses
           /\ w.op \in {"stamp", "closeOf", "closeOthers"} => w.status \in ApprovalStatuses
  BY DEF Statements

LEMMA StatementTypes ==
    /\ \A S \in SUBSET Steps : \A status \in StepStatuses : \A result \in Results \cup {"KEEP"} :
          SetSteps(S, status, result) \in Statements
    /\ \A s \in Steps : \A result \in Results \cup {"KEEP"} : ByHand(s, result) \in Statements
    /\ \A s \in Steps : SetTimer(s) \in Statements
    /\ \A S \in SUBSET Steps : ReturnEach(S) \in Statements /\ ReturnAll(S) \in Statements
    /\ ReturnRejected \in Statements /\ DropSteps \in Statements
    /\ \A a \in Nat : \A status \in ApprovalStatuses : Stamp(a, status) \in Statements
    /\ \A a \in Nat : CloseOthers(a) \in Statements
    /\ \A S \in SUBSET Steps : CloseOf(S) \in Statements
<1>1. {"PENDING", "COMPLETED", "CANCELLED"} \subseteq StepStatuses
  BY DEF StepStatuses
<1>2. "TIMER_SET" \in Results /\ "CANCELLED" \in ApprovalStatuses
  BY DEF Results, ApprovalStatuses
<1>3. \A S \in SUBSET Steps : \A status \in StepStatuses : \A result \in Results \cup {"KEEP"} :
          SetSteps(S, status, result) \in Statements
  BY StepStatementType DEF SetSteps
<1>4. \A s \in Steps : \A result \in Results \cup {"KEEP"} : ByHand(s, result) \in Statements
  BY <1>1, StepStatementType DEF ByHand
<1>5. \A s \in Steps : SetTimer(s) \in Statements
  BY <1>1, <1>2, StepStatementType DEF SetTimer
<1>6. \A S \in SUBSET Steps : ReturnEach(S) \in Statements /\ ReturnAll(S) \in Statements
  BY <1>1, StepStatementType DEF ReturnEach, ReturnAll
<1>7. ReturnRejected \in Statements /\ DropSteps \in Statements
  BY <1>1, StepStatementType DEF ReturnRejected, DropSteps
<1>8. \A a \in Nat : \A status \in ApprovalStatuses : Stamp(a, status) \in Statements
  BY ApprovalStatementType DEF Stamp
<1>9. \A a \in Nat : CloseOthers(a) \in Statements
  BY <1>2, ApprovalStatementType DEF CloseOthers
<1>10. \A S \in SUBSET Steps : CloseOf(S) \in Statements
  BY <1>2, ApprovalStatementType DEF CloseOf
<1> QED
  BY <1>3, <1>4, <1>5, <1>6, <1>7, <1>8, <1>9, <1>10

LEMMA Concatenation ==
    ASSUME NEW s \in Seq(Statements), NEW t \in Seq(Statements)
    PROVE  s \o t \in Seq(Statements)
  OBVIOUS

LEMMA ListTypes ==
    /\ <<>> \in Seq(Statements)
    /\ \A v \in Statements : <<v>> \in Seq(Statements)
    /\ \A v, w \in Statements : <<v, w>> \in Seq(Statements)
    /\ \A v, w, x \in Statements : <<v, w, x>> \in Seq(Statements)
  OBVIOUS

LEMMA HeadTail ==
    ASSUME NEW todo \in Seq(Statements), todo # <<>>
    PROVE  Head(todo) \in Statements /\ Tail(todo) \in Seq(Statements)
  OBVIOUS

LEMMA EffectType ==
    Cancellation \in Seq(Statements) /\ \A e : Effect(e) \in Seq(Statements)
<1>1. "CANCELLED" \in InstStatuses /\ "ON_HOLD" \in InstStatuses
  BY DEF InstStatuses
<1>2. Cancellation \in Seq(Statements)
  BY <1>1, InstType, StatementTypes, ListTypes DEF Cancellation
<1> QED
  BY <1>1, <1>2, InstType, ListTypes DEF Effect

-----------------------------------------------------------------------------
(* Steps.                                                                  *)

\* TypeOK in the terms of the lemmas.
Typed ==
    /\ flow \in Templates
    /\ inst \in InstStatuses
    /\ row \in [Steps -> StepRows]
    /\ approvals \in Seq(Approvals)
    /\ due \in SUBSET Steps
    /\ clerk \in [Clerks -> Calls]
    /\ \A c \in Clerks : About(c)
    /\ synced \in BOOLEAN
    /\ byHand \in SUBSET Steps
    /\ cut \in SUBSET Steps
    /\ crashes \in Nat

LEMMA TypedIsTypeOK == Typed <=> TypeOK
  BY DEF Typed, TypeOK, About

\* A step of one call that leaves a call of the right type, about something that
\* exists, and withdraws no approval.
LEMMA CallMoves ==
    ASSUME Typed, NEW c \in Clerks, NEW k \in Calls,
           clerk' = [clerk EXCEPT ![c] = k],
           Ids \subseteq Ids',
           k.pc \in {"round", "number", "open"} => k.at \in Steps,
           k.pc = "remaining" => k.at \in Ids
    PROVE  clerk' \in [Clerks -> Calls] /\ \A d \in Clerks : About(d)'
<1>1. clerk' \in [Clerks -> Calls]
  BY DEF Typed
<1>2. ASSUME NEW d \in Clerks PROVE About(d)'
  <2>1. CASE d = c
    <3>1. clerk'[d] = k
      BY <2>1 DEF Typed
    <3> QED
      BY <3>1 DEF About
  <2>2. CASE d # c
    <3>1. clerk'[d] = clerk[d]
      BY <2>2 DEF Typed
    <3> QED
      BY <3>1 DEF About, Typed
  <2> QED
    BY <2>1, <2>2
<1> QED
  BY <1>1, <1>2

\* What a call becomes: its statements change, or it starts on something else.
LEMMA TodoTyped ==
    ASSUME Typed, NEW c \in Clerks, NEW todo \in Seq(Statements), Todo(c, todo),
           Ids \subseteq Ids'
    PROVE  clerk' \in [Clerks -> Calls] /\ \A d \in Clerks : About(d)'
<1> DEFINE old == clerk[c]
           k   == Call(old.pc, todo, old.at, old.rows, old.pass, old.changed, old.draft)
<1>1. old \in Calls
  BY DEF Typed
<1>2. k \in Calls
  BY <1>1, CallFields, CallType
<1>3. k.pc = old.pc /\ k.at = old.at
  BY DEF Call
<1>4. About(c)
  BY DEF Typed
<1> HIDE DEF k
<1>5. clerk' = [clerk EXCEPT ![c] = k]
  BY DEF Todo, k
<1> QED
  BY <1>2, <1>3, <1>4, <1>5, CallMoves DEF About

LEMMA CallTyped ==
    ASSUME Typed, NEW c \in Clerks, NEW pc \in Pcs, NEW todo \in Seq(Statements),
           NEW at \in Nat, NEW rows \in [Steps -> StepRows], NEW pass \in Nat,
           NEW changed \in BOOLEAN, NEW draft \in Drafts,
           clerk' = [clerk EXCEPT ![c] = Call(pc, todo, at, rows, pass, changed, draft)],
           Ids \subseteq Ids',
           pc \in {"round", "number", "open"} => at \in Steps,
           pc = "remaining" => at \in Ids
    PROVE  clerk' \in [Clerks -> Calls] /\ \A d \in Clerks : About(d)'
<1> DEFINE k == Call(pc, todo, at, rows, pass, changed, draft)
<1>1. k \in Calls
  BY CallType
<1>2. k.pc = pc /\ k.at = at
  BY DEF Call
<1> HIDE DEF k
<1> QED
  BY <1>1, <1>2, CallMoves DEF k

LEMMA GoTyped ==
    ASSUME Typed, NEW c \in Clerks, NEW pc \in {"idle", "sync"},
           NEW todo \in Seq(Statements), Go(c, pc, todo), Ids \subseteq Ids'
    PROVE  clerk' \in [Clerks -> Calls] /\ \A d \in Clerks : About(d)'
<1>1. pc \in Pcs
  BY DEF Pcs
<1> QED
  BY <1>1, CallTyped, IdleType, NoRowsType DEF Go

LEMMA BeginTyped ==
    ASSUME Typed, NEW c \in Clerks, NEW pc \in {"idle", "sync"},
           NEW todo \in Seq(Statements), Begin(c, todo, pc)
    PROVE  Typed'
<1>1. Ids \subseteq Ids'
  BY DEF Begin, Ids
<1> QED
  BY <1>1, GoTyped DEF Begin, Typed

LEMMA IdleTyped ==
    ASSUME Typed, NEW c \in Clerks, clerk' = [clerk EXCEPT ![c] = Idle], Ids \subseteq Ids'
    PROVE  clerk' \in [Clerks -> Calls] /\ \A d \in Clerks : About(d)'
<1>1. Idle.pc = "idle"
  BY DEF Idle, Call
<1> QED
  BY <1>1, IdleType, CallMoves

LEMMA RememberTyped ==
    ASSUME Typed, NEW c \in Clerks, NEW pc \in Pcs \ {"remaining"},
           NEW todo \in Seq(Statements), NEW at \in Nat,
           NEW rows \in [Steps -> StepRows], NEW changed \in BOOLEAN,
           Remember(c, pc, todo, at, rows, changed),
           pc \in {"round", "number", "open"} => at \in Steps,
           Ids \subseteq Ids'
    PROVE  clerk' \in [Clerks -> Calls] /\ \A d \in Clerks : About(d)'
<1>1. clerk[c].pass \in Nat
  BY CallFields DEF Typed
<1> QED
  BY <1>1, CallTyped, IdleType DEF Remember

LEMMA MemoryTyped ==
    ASSUME Typed, NEW c \in Clerks, NEW pc \in Pcs \ {"remaining"},
           NEW todo \in Seq(Statements), NEW at \in Nat,
           NEW rows \in [Steps -> StepRows], NEW changed \in BOOLEAN,
           Memory(c, pc, todo, at, rows, changed),
           pc \in {"round", "number", "open"} => at \in Steps
    PROVE  Typed'
<1>1. Ids \subseteq Ids'
  BY DEF Memory, Ids
<1>2. clerk' \in [Clerks -> Calls] /\ \A d \in Clerks : About(d)'
  BY <1>1, RememberTyped DEF Memory
<1> QED
  BY <1>2 DEF Memory, Typed

LEMMA DraftingTyped ==
    ASSUME Typed, NEW c \in Clerks, NEW pc \in {"number", "open", "special"},
           NEW draft \in Drafts, Drafting(c, pc, draft), clerk[c].at \in Steps,
           Ids \subseteq Ids'
    PROVE  clerk' \in [Clerks -> Calls] /\ \A d \in Clerks : About(d)'
<1> DEFINE old == clerk[c]
<1>1. /\ old.at \in Nat /\ old.rows \in [Steps -> StepRows] /\ old.pass \in Nat
      /\ old.changed \in BOOLEAN
  BY CallFields DEF Typed
<1>2. pc \in Pcs /\ pc # "remaining" /\ <<>> \in Seq(Statements)
  BY DEF Pcs
<1> QED
  BY <1>1, <1>2, CallTyped DEF Drafting

-----------------------------------------------------------------------------
(* Statements keep the types.                                              *)

LEMMA CloseAllType ==
    ASSUME approvals \in Seq(Approvals), NEW S
    PROVE  CloseAll(S) \in Seq(Approvals) /\ DOMAIN CloseAll(S) = Ids
<1>1. \A a \in Ids : approvals[a] \in Approvals
  BY DEF Ids
<1>2. "CANCELLED" \in ApprovalStatuses
  BY DEF ApprovalStatuses
<1>3. Ids = 1 .. Len(approvals) /\ Len(approvals) \in Nat
  BY DEF Ids
<1>4. \A a \in Ids : CloseAll(S)[a] \in Approvals
  BY <1>1, <1>2, MovedType DEF CloseAll
<1>5. DOMAIN CloseAll(S) = Ids /\ CloseAll(S) = [a \in Ids |-> CloseAll(S)[a]]
  BY DEF CloseAll
<1>6. CloseAll(S) \in [1 .. Len(approvals) -> Approvals]
  BY <1>3, <1>4, <1>5
<1> QED
  BY <1>3, <1>5, <1>6

LEMMA ReplacedType ==
    ASSUME NEW T, NEW q \in Seq(T), NEW i, NEW v, i \in DOMAIN q => v \in T
    PROVE  [q EXCEPT ![i] = v] \in Seq(T) /\ DOMAIN [q EXCEPT ![i] = v] = DOMAIN q
<1>1. q \in [1 .. Len(q) -> T] /\ Len(q) \in Nat /\ DOMAIN q = 1 .. Len(q)
  OBVIOUS
<1>2. [q EXCEPT ![i] = v] \in [1 .. Len(q) -> T]
  BY <1>1
<1> QED
  BY <1>1, <1>2

LEMMA RowFields ==
    ASSUME Typed, NEW s \in Steps
    PROVE  row[s].status \in StepStatuses /\ row[s].result \in Results /\ row[s].returns \in Nat
  BY DEF Typed, StepRows

LEMMA DoingTyped ==
    ASSUME Typed, NEW c \in Clerks, NEW op, Doing(c, op)
    PROVE  /\ Writes(c) \in Statements /\ Writes(c).op = op
           /\ Tail(clerk[c].todo) \in Seq(Statements)
<1>1. clerk[c].todo \in Seq(Statements)
  BY CallFields DEF Typed
<1> QED
  BY <1>1, HeadTail DEF Doing, Writes

LEMMA TypeWriteSteps ==
    ASSUME Typed, NEW c \in Clerks, NEW op \in {"steps", "byHand"}, WriteSteps(c, op)
    PROVE  Typed'
<1>1. Writes(c) \in Statements /\ Writes(c).op = op /\ Tail(clerk[c].todo) \in Seq(Statements)
  BY DoingTyped DEF WriteSteps
<1>2. /\ Writes(c).on \in SUBSET Steps /\ Writes(c).status \in StepStatuses
      /\ Writes(c).result \in Results \cup {"KEEP"}
  BY <1>1, StatementFields
<1>3. row' \in [Steps -> StepRows]
  BY <1>2, RowFields, RowType DEF WriteSteps, Typed
<1>4. byHand' \in SUBSET Steps
  BY <1>2 DEF WriteSteps, Typed
<1>5. Ids \subseteq Ids'
  BY DEF WriteSteps, Ids
<1>6. clerk' \in [Clerks -> Calls] /\ \A d \in Clerks : About(d)'
  BY <1>1, <1>5, TodoTyped DEF WriteSteps
<1> QED
  BY <1>3, <1>4, <1>6 DEF WriteSteps, Typed

LEMMA TypeWriteTimer ==
    ASSUME Typed, NEW c \in Clerks, WriteTimer(c)
    PROVE  Typed'
<1>1. Tail(clerk[c].todo) \in Seq(Statements)
  BY DoingTyped DEF WriteTimer
<1>2. "TIMER_SET" \in Results
  BY DEF Results
<1>3. row' \in [Steps -> StepRows]
  BY <1>2, RowFields, RowType DEF WriteTimer, Typed
<1>4. Ids \subseteq Ids'
  BY DEF WriteTimer, Ids
<1>5. clerk' \in [Clerks -> Calls] /\ \A d \in Clerks : About(d)'
  BY <1>1, <1>4, TodoTyped DEF WriteTimer
<1> QED
  BY <1>3, <1>5 DEF WriteTimer, Typed

LEMMA TypeReturns ==
    ASSUME Typed, NEW c \in Clerks, NEW S, WriteReturns(S),
           NEW todo \in Seq(Statements), Todo(c, todo)
    PROVE  Typed'
<1>1. "PENDING" \in StepStatuses
  BY DEF StepStatuses
<1>2. row' \in [Steps -> StepRows]
  BY <1>1, RowFields, RowType DEF WriteReturns, Typed
<1>3. Ids \subseteq Ids'
  BY DEF WriteReturns, Ids
<1>4. clerk' \in [Clerks -> Calls] /\ \A d \in Clerks : About(d)'
  BY <1>3, TodoTyped
<1> QED
  BY <1>2, <1>4 DEF WriteReturns, Typed

LEMMA TypeApprovals ==
    ASSUME Typed, NEW c \in Clerks, Todo(c, Tail(clerk[c].todo)),
           Tail(clerk[c].todo) \in Seq(Statements),
           approvals' \in Seq(Approvals), Ids \subseteq Ids',
           UNCHANGED <<flow, inst, row, due, synced, byHand, cut, crashes>>
    PROVE  Typed'
  BY TodoTyped DEF Typed

LEMMA TypeExecute ==
    ASSUME Typed, NEW c \in Clerks, Execute(c)
    PROVE  Typed'
<1>1. CASE \E op \in {"steps", "byHand"} : WriteSteps(c, op)
  BY <1>1, TypeWriteSteps
<1>2. CASE WriteTimer(c)
  BY <1>2, TypeWriteTimer
<1>3. CASE \E s \in Steps : WriteReturn(c, s)
  <2>1. PICK s \in Steps : WriteReturn(c, s)
    BY <1>3
  <2> DEFINE left == Writes(c).on \ {s}
             rest == Tail(clerk[c].todo)
  <2>2. Writes(c) \in Statements /\ rest \in Seq(Statements)
    BY <2>1, DoingTyped DEF WriteReturn
  <2>3. left \in SUBSET Steps
    BY <2>2, StatementFields
  <2>4. <<ReturnEach(left)>> \in Seq(Statements)
    BY <2>3, StatementTypes, ListTypes
  <2>5. <<ReturnEach(left)>> \o rest \in Seq(Statements)
    BY <2>2, <2>4, Concatenation
  <2>6. WriteReturns({s}) /\ Todo(c, IF left = {} THEN rest ELSE <<ReturnEach(left)>> \o rest)
    BY <2>1 DEF WriteReturn
  <2> QED
    BY <2>2, <2>5, <2>6, TypeReturns
<1>4. CASE WriteReturnAll(c)
  BY <1>4, DoingTyped, TypeReturns DEF WriteReturnAll
<1>5. CASE WriteReturnRejected(c)
  BY <1>5, DoingTyped, TypeReturns DEF WriteReturnRejected
<1>6. CASE WriteDrop(c)
  <2>1. "CANCELLED" \in StepStatuses
    BY DEF StepStatuses
  <2>2. row' \in [Steps -> StepRows]
    BY <1>6, <2>1, SetStatusType DEF WriteDrop, Typed
  <2>3. Ids \subseteq Ids' /\ Tail(clerk[c].todo) \in Seq(Statements)
    BY <1>6, DoingTyped DEF WriteDrop, Ids
  <2>4. clerk' \in [Clerks -> Calls] /\ \A d \in Clerks : About(d)'
    BY <1>6, <2>3, TodoTyped DEF WriteDrop
  <2> QED
    BY <1>6, <2>2, <2>4 DEF WriteDrop, Typed
<1>7. CASE WriteInst(c)
  <2>1. Writes(c) \in Statements /\ Writes(c).op = "inst" /\ Tail(clerk[c].todo) \in Seq(Statements)
    BY <1>7, DoingTyped DEF WriteInst
  <2>2. inst' \in InstStatuses
    BY <1>7, <2>1, StatementFields DEF WriteInst
  <2>3. Ids \subseteq Ids'
    BY <1>7 DEF WriteInst, Ids
  <2>4. clerk' \in [Clerks -> Calls] /\ \A d \in Clerks : About(d)'
    BY <1>7, <2>1, <2>3, TodoTyped DEF WriteInst
  <2> QED
    BY <1>7, <2>2, <2>4 DEF WriteInst, Typed
<1>8. CASE WriteStamp(c)
  <2>1. /\ Writes(c) \in Statements /\ Writes(c).op = "stamp"
        /\ Tail(clerk[c].todo) \in Seq(Statements)
    BY <1>8, DoingTyped DEF WriteStamp
  <2>2. Writes(c).status \in ApprovalStatuses
    BY <2>1, StatementFields
  <2>3. \A a \in Ids : Moved(approvals[a], Writes(c).status) \in Approvals
    BY <2>2, MovedType DEF Typed, Ids
  <2>4. approvals' \in Seq(Approvals) /\ Ids \subseteq Ids'
    <3> DEFINE i == Writes(c).id
               v == Moved(approvals[i], Writes(c).status)
    <3>1. i \in Ids => v \in Approvals
      BY <2>3
    <3>2. approvals' = [approvals EXCEPT ![i] = v]
      BY <1>8 DEF WriteStamp
    <3> HIDE DEF i, v
    <3> QED
      BY <3>1, <3>2, ReplacedType DEF Typed, Ids
  <2> QED
    BY <1>8, <2>1, <2>4, TypeApprovals DEF WriteStamp
<1>9. CASE WriteClose(c)
  <2>1. Tail(clerk[c].todo) \in Seq(Statements)
    BY <1>9, DoingTyped DEF WriteClose
  <2>2. PICK S : approvals' = CloseAll(S)
    BY <1>9 DEF WriteClose
  <2>3. approvals' \in Seq(Approvals) /\ Ids \subseteq Ids'
    BY <2>2, CloseAllType DEF Typed, Ids
  <2> QED
    BY <1>9, <2>1, <2>3, TypeApprovals DEF WriteClose
<1> QED
  BY <1>1, <1>2, <1>3, <1>4, <1>5, <1>6, <1>7, <1>8, <1>9 DEF Execute

-----------------------------------------------------------------------------
(* Advance keeps the types.                                                *)

LEMMA ToStatusType ==
    ASSUME NEW S \in SUBSET Steps, NEW status \in StepStatuses
    PROVE  ToStatus(S, status) \in Seq(Statements)
<1>1. SetSteps(S, status, "KEEP") \in Statements
  BY StatementTypes
<1> QED
  BY <1>1, ListTypes DEF ToStatus

LEMMA PlannedType ==
    ASSUME NEW rows \in [Steps -> StepRows]
    PROVE  Planned(rows) \in [Steps -> StepRows]
<1>1. "PENDING" \in StepStatuses /\ "WAITING" \in StepStatuses
  BY DEF StepStatuses
<1> QED
  BY <1>1, SetStatusType DEF Planned

LEMMA TypePlan ==
    ASSUME Typed, NEW c \in Clerks, Plan(c)
    PROVE  Typed'
<1> DEFINE rows  == clerk[c].rows
           moves == inst \in {"IN_PROGRESS", "COMPLETED"}
           both  == ToStatus(Activate(rows), "PENDING") \o ToStatus(Demote(rows), "WAITING")
           steps == IF moves THEN both ELSE <<>>
           after == IF moves THEN Planned(rows) ELSE rows
<1>1. rows \in [Steps -> StepRows]
  BY CallFields DEF Typed
<1>2. after \in [Steps -> StepRows]
  BY <1>1, PlannedType
<1>3. /\ "PENDING" \in StepStatuses /\ "WAITING" \in StepStatuses
      /\ "COMPLETED" \in InstStatuses /\ "IN_PROGRESS" \in InstStatuses
  BY DEF StepStatuses, InstStatuses
<1>4. Activate(rows) \in SUBSET Steps /\ Demote(rows) \in SUBSET Steps
  BY DEF Activate, Demote
<1>5. steps \in Seq(Statements)
  BY <1>3, <1>4, ToStatusType, Concatenation, ListTypes
<1>6. \A status \in {"COMPLETED", "IN_PROGRESS"} :
         steps \o <<SetInst(status)>> \in Seq(Statements)
  BY <1>3, <1>5, InstType, ListTypes, Concatenation
<1>7. "cleanup" \in Pcs \ {"remaining"} /\ "load" \in Pcs \ {"remaining"}
  BY DEF Pcs
<1>8. \/ Memory(c, "cleanup", steps \o <<SetInst("COMPLETED")>>, 0, after, FALSE)
      \/ Memory(c, "load", steps \o <<SetInst("IN_PROGRESS")>>, 0, after, FALSE)
      \/ Memory(c, "load", steps, 0, after, FALSE)
  BY DEF Plan
<1> HIDE DEF rows, moves, steps, after
<1> QED
  BY <1>2, <1>5, <1>6, <1>7, <1>8, MemoryTyped

LEMMA TypeSettle ==
    ASSUME Typed, NEW c \in Clerks, NEW s \in Steps, NEW status \in StepStatuses,
           NEW result \in Results, NEW before \in Seq(Statements), NEW then \in Seq(Statements),
           Settle(c, s, status, result, before, then)
    PROVE  Typed'
<1> DEFINE old  == clerk[c].rows
           rows == [old EXCEPT ![s] = Row(status, result, @.returns)]
           todo == before \o <<SetSteps({s}, status, result)>> \o then
<1>1. old \in [Steps -> StepRows]
  BY CallFields DEF Typed
<1>2. old[s].returns \in Nat
  BY <1>1 DEF StepRows
<1>3. rows \in [Steps -> StepRows]
  BY <1>1, <1>2, RowType
<1>4. <<SetSteps({s}, status, result)>> \in Seq(Statements)
  BY StatementTypes, ListTypes
<1>5. todo \in Seq(Statements)
  BY <1>4, Concatenation
<1>6. "special" \in Pcs \ {"remaining"} /\ s \in Nat
  BY StepAssumption DEF Pcs
<1>7. Memory(c, "special", todo, s, rows, TRUE)
  BY DEF Settle
<1> HIDE DEF old, rows, todo
<1> QED
  BY <1>3, <1>5, <1>6, <1>7, MemoryTyped

LEMMA BlockedType ==
    ASSUME Typed, NEW s \in Steps, NEW result \in {"KEEP", "SKIPPED"}
    PROVE  Blocked(s, result) \in Seq(Statements)
<1>1. "BLOCKED" \in StepStatuses /\ result \in Results \cup {"KEEP"}
  BY DEF StepStatuses, Results
<1>2. <<SetSteps({s}, "BLOCKED", result)>> \in Seq(Statements)
  BY <1>1, StatementTypes, ListTypes
<1> QED
  BY <1>2, EffectType, Concatenation DEF Blocked

LEMMA TypeOnStep ==
    ASSUME Typed, NEW c \in Clerks, NEW s \in Steps,
           Skip(c, s) \/ RunStep(c, s) \/ StepFails(c, s) \/ StartTimer(c, s)
              \/ ElapseTimer(c, s) \/ CountOpen(c, s)
    PROVE  Typed'
<1> DEFINE old == clerk[c].rows
<1>1. old \in [Steps -> StepRows] /\ clerk[c].changed \in BOOLEAN
  BY CallFields DEF Typed
<1>2. /\ {"SKIPPED", "COMPLETED", "BLOCKED"} \subseteq StepStatuses
      /\ {"SKIPPED", "AUTO", "ELAPSED", "TIMER_SET"} \subseteq Results
  BY DEF StepStatuses, Results
<1>3. <<>> \in Seq(Statements) /\ "special" \in Pcs \ {"remaining"} /\ "round" \in Pcs \ {"remaining"}
  BY DEF Pcs
<1>4. s \in Nat
  BY StepAssumption
<1>5. CASE Skip(c, s)
  BY <1>5, <1>2, <1>3, TypeSettle DEF Skip
<1>6. CASE RunStep(c, s)
  BY <1>6, <1>2, EffectType, TypeSettle DEF RunStep
<1>7. CASE StepFails(c, s)
  <2>1. PICK ran \in BOOLEAN, result \in {"KEEP", "SKIPPED"} :
           Memory(c, "special",
                  (IF ran THEN Effect(flow.act[s]) ELSE <<>>) \o Blocked(s, result), s,
                  [old EXCEPT ![s] = Row("BLOCKED", IF result = "KEEP" THEN @.result ELSE result,
                                         @.returns)],
                  clerk[c].changed)
    BY <1>7 DEF StepFails
  <2> DEFINE before == IF ran THEN Effect(flow.act[s]) ELSE <<>>
             todo == before \o Blocked(s, result)
             new  == Row("BLOCKED", IF result = "KEEP" THEN old[s].result ELSE result,
                         old[s].returns)
             rows == [old EXCEPT ![s] = new]
  <2>2. before \in Seq(Statements)
    BY <1>3, EffectType
  <2>3. Blocked(s, result) \in Seq(Statements)
    BY <2>1, BlockedType
  <2>4. todo \in Seq(Statements)
    <3> HIDE DEF before
    <3> QED
      BY <2>2, <2>3, Concatenation
  <2>5. old[s].result \in Results /\ old[s].returns \in Nat
    BY <1>1 DEF StepRows
  <2>6. new \in StepRows
    BY <1>2, <2>1, <2>5, RowType
  <2>7. rows \in [Steps -> StepRows]
    <3> HIDE DEF new
    <3> QED
      BY <1>1, <2>6
  <2>8. Memory(c, "special", todo, s, rows, clerk[c].changed)
    BY <2>1
  <2> HIDE DEF before, todo, new, rows
  <2> QED
    BY <1>1, <1>3, <1>4, <2>4, <2>7, <2>8, MemoryTyped
<1>8. CASE StartTimer(c, s)
  <2>1. <<SetTimer(s)>> \in Seq(Statements)
    BY StatementTypes, ListTypes
  <2>2. old[s].status \in StepStatuses /\ old[s].returns \in Nat
    BY <1>1 DEF StepRows
  <2>3. Row(old[s].status, "TIMER_SET", old[s].returns) \in StepRows
    BY <1>2, <2>2, RowType
  <2>4. [old EXCEPT ![s] = Row(@.status, "TIMER_SET", @.returns)] \in [Steps -> StepRows]
    BY <1>1, <2>3
  <2> DEFINE rows == [old EXCEPT ![s] = Row(@.status, "TIMER_SET", @.returns)]
  <2>5. Memory(c, "special", <<SetTimer(s)>>, s, rows, clerk[c].changed)
    BY <1>8 DEF StartTimer
  <2>6. rows \in [Steps -> StepRows]
    BY <2>4
  <2> HIDE DEF rows
  <2> QED
    BY <1>1, <1>3, <1>4, <2>1, <2>5, <2>6, MemoryTyped
<1>9. CASE ElapseTimer(c, s)
  BY <1>9, <1>2, <1>3, EffectType, TypeSettle DEF ElapseTimer
<1>10. CASE CountOpen(c, s)
  BY <1>10, <1>1, <1>3, <1>4, MemoryTyped DEF CountOpen
<1> QED
  BY <1>5, <1>6, <1>7, <1>8, <1>9, <1>10

LEMMA ApprovalFields ==
    ASSUME Typed, NEW a \in Ids
    PROVE  /\ approvals[a] \in Approvals /\ a \in Nat
           /\ approvals[a].step \in Steps /\ approvals[a].round \in Nat
<1>1. approvals[a] \in Approvals /\ a \in Nat
  BY DEF Typed, Ids
<1> QED
  BY <1>1 DEF Approvals

LEMMA TypeRound ==
    ASSUME Typed, NEW c \in Clerks,
           LastRound(c) \/ CountAll(c) \/ OpenApproval(c) \/ RoundFails(c)
    PROVE  Typed'
<1>1. /\ clerk[c].pc \in {"round", "number", "open"}
      /\ clerk[c].at \in Steps
  <2>1. clerk[c].pc \in {"round", "number", "open"}
    BY DEF LastRound, CountAll, OpenApproval, RoundFails, At
  <2> QED
    BY <2>1 DEF Typed, About
<1>2. /\ clerk[c].draft.round \in Nat /\ clerk[c].draft.code \in Nat
      /\ clerk[c].draft.seq \in Nat
  <2>1. clerk[c].draft \in Drafts
    BY CallFields DEF Typed
  <2> QED
    BY <2>1 DEF Drafts
<1>3. CASE LastRound(c)
  <2>1. PICK r \in {0} \cup {approvals[a].round : a \in OfStep(clerk[c].at)} :
           Drafting(c, "number", Draft(r + 1, 0, 1))
    BY <1>3 DEF LastRound
  <2>2. r \in Nat
    BY <2>1, ApprovalFields DEF OfStep
  <2>3. Draft(r + 1, 0, 1) \in Drafts
    BY <2>2, DraftType
  <2>4. Ids \subseteq Ids'
    BY <1>3 DEF LastRound, Ids
  <2>5. clerk' \in [Clerks -> Calls] /\ \A d \in Clerks : About(d)'
    BY <1>1, <2>1, <2>3, <2>4, DraftingTyped
  <2> QED
    BY <1>3, <2>5 DEF LastRound, Typed
<1>4. CASE CountAll(c)
  <2>1. Len(approvals) + 1 \in Nat
    BY DEF Typed
  <2>2. Draft(clerk[c].draft.round, Len(approvals) + 1, 1) \in Drafts
    BY <1>2, <2>1, DraftType
  <2>3. Ids \subseteq Ids'
    BY <1>4 DEF CountAll, Ids
  <2>4. clerk' \in [Clerks -> Calls] /\ \A d \in Clerks : About(d)'
    BY <1>1, <1>4, <2>2, <2>3, DraftingTyped DEF CountAll
  <2> QED
    BY <1>4, <2>4 DEF CountAll, Typed
<1>5. CASE OpenApproval(c)
  <2> DEFINE d == clerk[c].draft
             s == clerk[c].at
             first == IF flow.mode[s] = "SEQUENTIAL" /\ d.seq > 1 THEN "WAITING" ELSE "PENDING"
  <2>1. first \in ApprovalStatuses
    BY DEF ApprovalStatuses, OpenStatuses
  <2>2. Approval(s, d.round, d.seq, d.code, first) \in Approvals
    BY <1>1, <1>2, <2>1, ApprovalType
  <2>3. \/ approvals' = approvals
        \/ approvals' = Append(approvals, Approval(s, d.round, d.seq, d.code, first))
    BY <1>5 DEF OpenApproval
  <2>4. approvals' \in Seq(Approvals) /\ Ids \subseteq Ids'
    <3> HIDE DEF d, s, first
    <3> DEFINE x == Approval(s, d.round, d.seq, d.code, first)
    <3>1. x \in Approvals /\ (approvals' = approvals \/ approvals' = Append(approvals, x))
      BY <2>2, <2>3
    <3> HIDE DEF x
    <3> QED
      BY <3>1 DEF Typed, Ids
  <2>5. Draft(d.round, d.code + 1, d.seq + 1) \in Drafts
    BY <1>2, DraftType
  <2>6. \/ Drafting(c, "special", NoDraft)
        \/ Drafting(c, "open", Draft(d.round, d.code + 1, d.seq + 1))
    BY <1>5 DEF OpenApproval
  <2>7. clerk' \in [Clerks -> Calls] /\ \A e \in Clerks : About(e)'
    BY <1>1, <2>4, <2>5, <2>6, IdleType, DraftingTyped
  <2>8. cut' \in SUBSET Steps
    BY <1>5 DEF OpenApproval, Typed
  <2> QED
    BY <1>5, <2>4, <2>7, <2>8 DEF OpenApproval, Typed
<1>6. CASE RoundFails(c)
  <2> DEFINE k    == clerk[c]
             rows == SetStatus(k.rows, {k.at}, "BLOCKED")
  <2>1. Remember(c, "special", Blocked(k.at, "KEEP"), k.at, rows, k.changed)
    BY <1>6 DEF RoundFails
  <2>2. k.rows \in [Steps -> StepRows] /\ k.changed \in BOOLEAN
    BY CallFields DEF Typed
  <2>3. rows \in [Steps -> StepRows]
    BY <1>1, <2>2, SetStatusType DEF StepStatuses
  <2>4. "special" \in Pcs \ {"remaining"} /\ k.at \in Nat
    BY <1>1, StepAssumption DEF Pcs
  <2>5. Blocked(k.at, "KEEP") \in Seq(Statements)
    BY <1>1, BlockedType
  <2>6. Ids \subseteq Ids'
    BY <1>6 DEF RoundFails, Ids
  <2>7. clerk' \in [Clerks -> Calls] /\ \A d \in Clerks : About(d)'
    <3> HIDE DEF rows
    <3> QED
      BY <2>1, <2>2, <2>3, <2>4, <2>5, <2>6, RememberTyped
  <2>8. cut' \in SUBSET Steps
    BY <1>1, <1>6 DEF RoundFails, Typed
  <2> QED
    BY <1>6, <2>7, <2>8 DEF RoundFails, Typed
<1> QED
  BY <1>3, <1>4, <1>5, <1>6

LEMMA TypePassEnds ==
    ASSUME Typed, NEW c \in Clerks, PassEnds(c)
    PROVE  Typed'
<1>1. Ids \subseteq Ids'
  BY DEF PassEnds, Ids
<1>2. clerk[c].pass \in Nat /\ clerk[c].pass + 1 \in Nat /\ clerk[c].changed \in BOOLEAN
  BY CallFields DEF Typed
<1>3. "sync" \in Pcs /\ "cleanup" \in Pcs /\ <<>> \in Seq(Statements) /\ 0 \in Nat
  BY DEF Pcs
<1>4. \/ clerk' = [clerk EXCEPT ![c] =
              Call("sync", <<>>, 0, NoRows, clerk[c].pass + 1, FALSE, NoDraft)]
      \/ clerk' = [clerk EXCEPT ![c] =
              Call("cleanup", <<>>, 0, NoRows, clerk[c].pass, clerk[c].changed, NoDraft)]
  BY DEF PassEnds
<1>5. clerk' \in [Clerks -> Calls] /\ \A d \in Clerks : About(d)'
  <2> DEFINE k == clerk[c]
  <2>1. CASE clerk' = [clerk EXCEPT ![c] =
                Call("sync", <<>>, 0, NoRows, k.pass + 1, FALSE, NoDraft)]
    <3> HIDE DEF k
    <3> QED
      BY <1>1, <1>2, <1>3, <2>1, CallTyped, IdleType, NoRowsType DEF k
  <2>2. CASE clerk' = [clerk EXCEPT ![c] =
                Call("cleanup", <<>>, 0, NoRows, k.pass, k.changed, NoDraft)]
    <3> HIDE DEF k
    <3> QED
      BY <1>1, <1>2, <1>3, <2>2, CallTyped, IdleType, NoRowsType DEF k
  <2> QED
    BY <1>4, <2>1, <2>2
<1> QED
  BY <1>5 DEF PassEnds, Typed

LEMMA TypeAdvance ==
    ASSUME Typed, NEW c \in Clerks, Advance(c)
    PROVE  Typed'
<1>1. CASE SyncRead(c)
  <2>1. row \in [Steps -> StepRows] /\ "plan" \in Pcs \ {"remaining"} /\ <<>> \in Seq(Statements)
    BY DEF Typed, Pcs
  <2> QED
    BY <1>1, <2>1, MemoryTyped DEF SyncRead
<1>2. CASE Load(c)
  <2>1. /\ row \in [Steps -> StepRows] /\ clerk[c].rows \in [Steps -> StepRows]
        /\ <<>> \in Seq(Statements)
    BY CallFields DEF Typed
  <2>2. "special" \in Pcs \ {"remaining"} /\ "cleanup" \in Pcs \ {"remaining"}
    BY DEF Pcs
  <2> QED
    BY <1>2, <2>1, <2>2, MemoryTyped DEF Load
<1>3. CASE Cleanup(c)
  <2>1. PICK S : approvals' = CloseAll(S)
    BY <1>3 DEF Cleanup
  <2>2. approvals' \in Seq(Approvals) /\ Ids \subseteq Ids'
    BY <2>1, CloseAllType DEF Typed, Ids
  <2>3. clerk' \in [Clerks -> Calls] /\ \A d \in Clerks : About(d)'
    BY <1>3, <2>2, IdleTyped DEF Cleanup
  <2>4. synced' \in BOOLEAN
    BY <1>3 DEF Cleanup
  <2> QED
    BY <1>3, <2>2, <2>3, <2>4 DEF Cleanup, Typed
<1> QED
  BY <1>1, <1>2, <1>3, TypePlan, TypeOnStep, TypeRound, TypePassEnds DEF Advance

-----------------------------------------------------------------------------
(* Calls keep the types.                                                   *)

LEMMA TypeInstanceCall ==
    ASSUME Typed, NEW c \in Clerks, InstanceCall(c)
    PROVE  Typed'
<1>1. <<>> \in Seq(Statements) /\ "IN_PROGRESS" \in InstStatuses /\ "ON_HOLD" \in InstStatuses
  BY DEF InstStatuses
<1>2. CASE Start(c)
  <2>1. "PENDING" \in StepStatuses
    BY DEF StepStatuses
  <2>2. row' \in [Steps -> StepRows]
    BY <1>2, <2>1, SetStatusType DEF Start, Typed
  <2>3. Ids \subseteq Ids'
    BY <1>2 DEF Start, Ids
  <2>4. clerk' \in [Clerks -> Calls] /\ \A d \in Clerks : About(d)'
    BY <1>1, <1>2, <2>3, GoTyped DEF Start
  <2> QED
    BY <1>1, <1>2, <2>2, <2>4 DEF Start, Typed
<1>3. CASE Suspend(c)
  BY <1>1, <1>3, InstType, ListTypes, BeginTyped DEF Suspend
<1>4. CASE Resume(c)
  <2>1. <<SetInst("IN_PROGRESS"), ReturnRejected>> \in Seq(Statements)
    BY <1>1, InstType, StatementTypes, ListTypes
  <2> QED
    BY <1>4, <2>1, BeginTyped DEF Resume
<1>5. CASE Cancel(c)
  BY <1>5, EffectType, BeginTyped DEF Cancel
<1>6. CASE AdvanceTimers(c)
  BY <1>1, <1>6, BeginTyped DEF AdvanceTimers
<1> QED
  BY <1>2, <1>3, <1>4, <1>5, <1>6 DEF InstanceCall

LEMMA TypeStepCall ==
    ASSUME Typed, NEW c \in Clerks, NEW s \in Steps, StepCall(c, s)
    PROVE  Typed'
<1>1. /\ {"COMPLETED", "REJECTED", "IN_PROGRESS", "BLOCKED", "PENDING", "ESCALATED"}
            \subseteq StepStatuses
      /\ {"EVENT", "DONE"} \subseteq Results /\ "ON_HOLD" \in InstStatuses
  BY DEF StepStatuses, Results, InstStatuses
<1>2. \A status \in StepStatuses : \A result \in Results \cup {"KEEP"} :
         <<SetSteps({s}, status, result)>> \in Seq(Statements)
  BY StatementTypes, ListTypes
<1>3. <<>> \in Seq(Statements) /\ <<ReturnEach({s})>> \in Seq(Statements)
  BY StatementTypes, ListTypes
<1>4. CASE DeliverEvent(c, s)
  <2>1. <<SetSteps({s}, "COMPLETED", "EVENT")>> \o Effect(flow.success[s]) \in Seq(Statements)
    BY <1>1, <1>2, EffectType, Concatenation
  <2> QED
    BY <1>4, <2>1, BeginTyped DEF DeliverEvent
<1>5. CASE \E result \in Answers : CompleteStep(c, s, result)
  <2>1. PICK result \in Answers : CompleteStep(c, s, result)
    BY <1>5
  <2>2. <<ByHand(s, result)>> \in Seq(Statements)
    BY AnswerAssumption, StatementTypes, ListTypes
  <2>3. <<ByHand(s, result)>> \o Effect(flow.success[s]) \in Seq(Statements)
    BY <2>2, EffectType, Concatenation
  <2> QED
    BY <2>1, <2>3, BeginTyped DEF CompleteStep
<1>6. CASE RejectStep(c, s)
  <2>1. SetSteps({s}, "REJECTED", "KEEP") \in Statements
    BY <1>1, StatementTypes
  <2>2. SetInst("ON_HOLD") \in Statements /\ CloseOf({s}) \in Statements
    BY <1>1, InstType, StatementTypes
  <2>3. <<SetSteps({s}, "REJECTED", "KEEP"), SetInst("ON_HOLD"), CloseOf({s})>>
           \in Seq(Statements)
    BY <2>1, <2>2, ListTypes
  <2>4. <<SetSteps({s}, "REJECTED", "KEEP"), SetInst("ON_HOLD"), CloseOf({s})>>
           \o Effect(flow.failure[s]) \in Seq(Statements)
    BY <2>3, EffectType, Concatenation
  <2> QED
    BY <1>6, <2>4, BeginTyped DEF RejectStep
<1>7. CASE StartStep(c, s)
  BY <1>1, <1>2, <1>7, BeginTyped DEF StartStep
<1>8. CASE Block(c, s)
  BY <1>1, <1>2, <1>8, BeginTyped DEF Block
<1>9. CASE Unblock(c, s)
  <2>1. Ids \subseteq Ids'
    BY <1>9 DEF Unblock, Ids
  <2>2. <<SetSteps({s}, "PENDING", "KEEP")>> \in Seq(Statements)
    BY <1>1, <1>2
  <2>3. clerk' \in [Clerks -> Calls] /\ \A d \in Clerks : About(d)'
    BY <1>9, <2>1, <2>2, GoTyped DEF Unblock
  <2> QED
    BY <1>9, <2>3 DEF Unblock, Typed
<1>10. CASE Reassign(c, s)
  BY <1>3, <1>10, BeginTyped DEF Reassign
<1>11. CASE ReturnStep(c, s)
  BY <1>3, <1>11, BeginTyped DEF ReturnStep
<1>12. CASE Reopen(c, s)
  BY <1>3, <1>12, BeginTyped DEF Reopen
<1>13. CASE Escalate(c, s)
  BY <1>1, <1>2, <1>13, BeginTyped DEF Escalate
<1> QED
  BY <1>4, <1>5, <1>6, <1>7, <1>8, <1>9, <1>10, <1>11, <1>12, <1>13 DEF StepCall

LEMMA TypeRetry ==
    ASSUME Typed, NEW c \in Clerks, NEW S \in SUBSET Steps, Retry(c, S)
    PROVE  Typed'
<1>1. <<ReturnAll(S)>> \in Seq(Statements)
  BY StatementTypes, ListTypes
<1> QED
  BY <1>1, BeginTyped DEF Retry

LEMMA ApprovedType ==
    ASSUME NEW s \in Steps PROVE Approved(s) \in Seq(Statements)
<1>1. "COMPLETED" \in StepStatuses /\ "APPROVED" \in Results
  BY DEF StepStatuses, Results
<1>2. <<SetSteps({s}, "COMPLETED", "APPROVED")>> \in Seq(Statements)
  BY <1>1, StatementTypes, ListTypes
<1> QED
  BY <1>2, EffectType, Concatenation DEF Approved

LEMMA NeedsType ==
    ASSUME flow \in Templates, NEW s \in Steps PROVE Needs(s) \subseteq Steps
<1>1. flow.after[s] \subseteq Steps
  BY DEF Templates
<1> QED
  BY <1>1 DEF Needs, Previous

LEMMA ToReturnType ==
    ASSUME Typed, NEW a \in Ids PROVE ToReturn(a) \in SUBSET Steps
<1>1. approvals[a].step \in Steps /\ flow \in Templates
  BY ApprovalFields DEF Typed
<1> QED
  BY <1>1, NeedsType DEF ToReturn

LEMMA TypeReject ==
    ASSUME Typed, NEW c \in Clerks, NEW a \in Ids, Reject(c, a)
    PROVE  Typed'
<1> DEFINE s       == approvals[a].step
           decided == <<Stamp(a, "REJECTED"), CloseOthers(a)>>
           failed  == Effect(flow.failure[s])
           held    == <<SetSteps({s}, "REJECTED", "KEEP"), SetInst("ON_HOLD")>>
           branch  == <<SetSteps({s}, "COMPLETED", "REJECTED")>>
           back    == <<ReturnEach(ToReturn(a))>>
<1>1. /\ {"REJECTED", "COMPLETED"} \subseteq StepStatuses /\ "REJECTED" \in Results
      /\ "REJECTED" \in ApprovalStatuses /\ "ON_HOLD" \in InstStatuses
  BY DEF StepStatuses, Results, ApprovalStatuses, InstStatuses
<1>2. s \in Steps /\ a \in Nat
  BY ApprovalFields
<1>3. decided \in Seq(Statements)
  BY <1>1, <1>2, StatementTypes, ListTypes
<1>4. failed \in Seq(Statements) /\ Cancellation \in Seq(Statements)
  BY EffectType
<1>5. held \in Seq(Statements) /\ branch \in Seq(Statements)
  BY <1>1, <1>2, StatementTypes, InstType, ListTypes
<1>6. ToReturn(a) \in SUBSET Steps
  BY ToReturnType
<1>7. back \in Seq(Statements)
  BY <1>6, StatementTypes, ListTypes
<1>8. RejectRule(a) \in {"CANCEL", "RETURN", "BRANCH", "HOLD"}
  <2>1. flow.onReject[s] \in {"CANCEL", "RETURN", "BRANCH", "HOLD"}
    BY <1>2 DEF Typed, Templates
  <2> QED
    BY <2>1 DEF RejectRule
<1>9. \/ Begin(c, decided \o Cancellation, "idle")
      \/ Begin(c, decided \o back, "sync")
      \/ Begin(c, decided \o branch \o failed, "sync")
      \/ Begin(c, decided \o held \o failed, "idle")
  BY <1>8 DEF Reject
<1> HIDE DEF s, decided, failed, held, branch, back
<1>10. /\ decided \o Cancellation \in Seq(Statements)
       /\ decided \o back \in Seq(Statements)
       /\ decided \o branch \o failed \in Seq(Statements)
       /\ decided \o held \o failed \in Seq(Statements)
  BY <1>3, <1>4, <1>5, <1>7, Concatenation
<1> QED
  BY <1>9, <1>10, BeginTyped

LEMMA TypeApprovalCall ==
    ASSUME Typed, NEW c \in Clerks, NEW a \in Ids, ApprovalCall(c, a)
    PROVE  Typed'
<1>1. /\ {"APPROVED", "RETURNED", "INFO_REQUESTED", "PENDING"} \subseteq ApprovalStatuses
  BY DEF ApprovalStatuses, OpenStatuses
<1>2. approvals[a].step \in Steps /\ a \in Nat
  BY ApprovalFields
<1>3. CASE Approve(c, a)
  <2> DEFINE s == approvals[a].step
  <2>1. <<Stamp(a, "APPROVED")>> \in Seq(Statements)
    BY <1>1, <1>2, StatementTypes, ListTypes
  <2>2. <<Stamp(a, "APPROVED"), CloseOthers(a)>> \o Approved(s) \in Seq(Statements)
    <3>1. <<Stamp(a, "APPROVED"), CloseOthers(a)>> \in Seq(Statements)
      BY <1>1, <1>2, StatementTypes, ListTypes
    <3> QED
      BY <1>2, <3>1, ApprovedType, Concatenation
  <2>3. CASE Begin(c, <<Stamp(a, "APPROVED"), CloseOthers(a)>> \o Approved(s), "sync")
    BY <2>2, <2>3, BeginTyped
  <2>4. CASE /\ clerk' = [clerk EXCEPT ![c] = Call("remaining", <<Stamp(a, "APPROVED")>>, a,
                                                   NoRows, 0, FALSE, NoDraft)]
             /\ UNCHANGED <<flow, inst, row, approvals, due, synced, byHand, cut, crashes>>
    <3>1. Ids \subseteq Ids' /\ "remaining" \in Pcs
      BY <2>4 DEF Ids, Pcs
    <3>2. clerk' \in [Clerks -> Calls] /\ \A d \in Clerks : About(d)'
      BY <1>2, <2>1, <2>4, <3>1, CallTyped, IdleType, NoRowsType
    <3> QED
      BY <2>4, <3>2 DEF Typed
  <2> QED
    BY <1>3, <2>3, <2>4 DEF Approve
<1>4. CASE Reject(c, a)
  BY <1>4, TypeReject
<1>5. CASE ReturnForCorrection(c, a)
  <2>1. ToReturn(a) \in SUBSET Steps
    BY ToReturnType
  <2>2. <<Stamp(a, "RETURNED"), CloseOthers(a), ReturnEach(ToReturn(a))>> \in Seq(Statements)
    BY <1>1, <1>2, <2>1, StatementTypes, ListTypes
  <2> QED
    BY <1>5, <2>2, BeginTyped DEF ReturnForCorrection
<1>6. CASE RequestInfo(c, a)
  BY <1>1, <1>2, <1>6, StatementTypes, ListTypes, BeginTyped DEF RequestInfo
<1>7. CASE Respond(c, a)
  BY <1>1, <1>2, <1>7, StatementTypes, ListTypes, BeginTyped DEF Respond
<1> QED
  BY <1>3, <1>4, <1>5, <1>6, <1>7 DEF ApprovalCall

LEMMA TypeRemaining ==
    ASSUME Typed, NEW c \in Clerks, Remaining(c)
    PROVE  Typed'
<1> DEFINE a == clerk[c].at
           s == approvals[a].step
<1>1. a \in Ids
  <2>1. clerk[c].pc = "remaining"
    BY DEF Remaining, At
  <2> QED
    BY <2>1 DEF Typed, About
<1>2. s \in Steps
  BY <1>1, ApprovalFields
<1>3. "PENDING" \in ApprovalStatuses /\ <<>> \in Seq(Statements)
  BY DEF ApprovalStatuses, OpenStatuses
<1>4. Ids \subseteq Ids'
  BY DEF Remaining, Ids
<1>5. \/ Go(c, "sync", Approved(s))
      \/ \E b \in Left(a) : Go(c, "idle", <<Stamp(b, "PENDING")>>)
      \/ Go(c, "idle", <<>>)
  BY DEF Remaining
<1>6. \A b \in Left(a) : <<Stamp(b, "PENDING")>> \in Seq(Statements)
  <2>1. \A b \in Left(a) : b \in Nat
    BY ApprovalFields DEF Left, SameRound, OfStep
  <2> QED
    BY <1>3, <2>1, StatementTypes, ListTypes
<1>7. clerk' \in [Clerks -> Calls] /\ \A d \in Clerks : About(d)'
  BY <1>2, <1>3, <1>4, <1>5, <1>6, ApprovedType, GoTyped
<1> QED
  BY <1>7 DEF Remaining, Typed

-----------------------------------------------------------------------------
LEMMA TypeInit == Init => Typed
<1> SUFFICES ASSUME Init PROVE Typed
  OBVIOUS
<1>1. row \in [Steps -> StepRows] /\ clerk \in [Clerks -> Calls]
  BY NoRowsType, IdleType DEF Init
<1>2. \A c \in Clerks : About(c)
  BY DEF Init, About, Idle, Call
<1>3. flow \in Templates /\ inst \in InstStatuses
  BY FlowAssumption DEF Init, InstStatuses
<1> QED
  BY <1>1, <1>2, <1>3 DEF Init, Typed

LEMMA TypeNext == Typed /\ [Next]_vars => Typed'
<1> SUFFICES ASSUME Typed, [Next]_vars PROVE Typed'
  OBVIOUS
<1>1. ASSUME NEW c \in Clerks, Crash(c) PROVE Typed'
  <2>1. Ids \subseteq Ids'
    BY <1>1 DEF Crash, Ids
  <2>2. clerk' \in [Clerks -> Calls] /\ \A d \in Clerks : About(d)'
    BY <1>1, <2>1, IdleTyped DEF Crash
  <2>3. crashes' \in Nat
    <3>1. crashes \in Nat
      BY DEF Typed
    <3>2. crashes' = crashes + 1
      BY <1>1 DEF Crash
    <3> QED
      BY <3>1, <3>2
  <2>4. synced' \in BOOLEAN
    BY <1>1 DEF Crash
  <2>5. UNCHANGED <<flow, inst, row, approvals, due, byHand, cut>>
    BY <1>1 DEF Crash
  <2> QED
    BY <2>2, <2>3, <2>4, <2>5 DEF Typed
<1>2. ASSUME NEW s \in Steps, TimerElapses(s) PROVE Typed'
  BY <1>2 DEF TimerElapses, Typed, About, Ids
<1>3. CASE UNCHANGED vars
  BY <1>3 DEF vars, Typed, About, Ids
<1> QED
  BY <1>1, <1>2, <1>3, TypeExecute, TypeAdvance, TypeInstanceCall, TypeStepCall, TypeRetry,
     TypeApprovalCall, TypeRemaining DEF Next

\* In every reachable state the rows, the approvals and the calls hold values of
\* their kind and calls are about steps and approvals that exist, for every
\* template, however many calls are in flight and wherever they die.
THEOREM TypeCorrect == Spec => []TypeOK
<1>1. Spec => []Typed
  BY TypeInit, TypeNext, PTL DEF Spec
<1> QED
  BY <1>1, TypedIsTypeOK, PTL
=============================================================================
