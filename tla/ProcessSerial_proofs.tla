------------------------- MODULE ProcessSerial_proofs -------------------------
(***************************************************************************)
(* Proofs about ProcessEngine when calls on the instance do not overlap:   *)
(* whatever the template, and wherever calls die, an instance that has     *)
(* been advanced has the right steps open, is closed when it is done, and  *)
(* has somebody deciding each pending review; and, until a call dies, a    *)
(* review approved was approved by all of its last round: everyone its     *)
(* template asks, unless inserting one of the approvals failed.            *)
(***************************************************************************)
EXTENDS ProcessEngine_proofs, FiniteSetTheorems

OneClerk == \E c : Clerks = {c}

-----------------------------------------------------------------------------
(* What the advance of an instance must leave behind.                      *)

Ordered(rows) ==
    \A s \in Steps :
        /\ rows[s].status \in {"PENDING", "IN_PROGRESS"} => \A t \in Needs(s) : Done(rows, t)
        /\ rows[s].status = "WAITING" => \E t \in Needs(s) : ~Done(rows, t)

Good(rows, status) ==
    /\ status = "IN_PROGRESS" => Ordered(rows) /\ Unfinished(rows) # {}
    /\ status = "COMPLETED" => Unfinished(rows) = {}

SameStatuses(rows, others) == \A s \in Steps : rows[s].status = others[s].status

\* The statements of a list, and those that write the status of the instance.
Elements(todo) == {todo[i] : i \in DOMAIN todo}
InstOf(todo)   == {w \in Elements(todo) : w.op = "inst"}

\* The instance is, or will be, suspended or cancelled, and stays so.
Leaving(todo, status) ==
    /\ \A w \in InstOf(todo) : w.status \in {"ON_HOLD", "CANCELLED"}
    /\ InstOf(todo) # {} \/ status \notin {"IN_PROGRESS", "COMPLETED"}

\* The instance is as it was advanced, and what is left to write opens and
\* finishes no step.
Settled(todo, table, status) ==
    /\ Good(table, status)
    /\ \A w \in Elements(todo) :
          \/ w.op \in {"stamp", "closeOf", "closeOthers"}
          \/ /\ w.op = "steps"
             /\ w.status \in {"BLOCKED", "ESCALATED"}
             /\ \A s \in w.on : ~Done(table, s)

\* The rows in memory are those of the table once `todo' is executed.
Tracks(todo, table, rows) ==
    /\ \A s \in Steps : \/ table[s].status = rows[s].status
                        \/ \E w \in Elements(todo) : w.op = "steps" /\ s \in w.on
    /\ \A w \in Elements(todo) : w.op = "steps" => \A s \in w.on : rows[s].status = w.status

\* Between the writes of a pass that has moved no step.
Passing(todo, table, status, rows) ==
    /\ Tracks(todo, table, rows)
    /\ status = "IN_PROGRESS"
    /\ Good(rows, "IN_PROGRESS")
    /\ \A w \in Elements(todo) : w.op \in {"steps", "timer"}

\* Between the writes of syncStepActivation.
Syncing(todo, table, status, rows) ==
    /\ Tracks(todo, table, rows)
    /\ \A w \in Elements(todo) : w.op \in {"steps", "inst"}
    /\ \A w \in InstOf(todo) : w.status = "IN_PROGRESS"
    /\ IF InstOf(todo) = {} THEN Good(rows, status) ELSE Good(rows, "IN_PROGRESS")

Closing(todo, table, status) ==
    \/ todo = <<>> /\ Good(table, status)
    \/ todo = <<SetInst("COMPLETED")>> /\ Unfinished(table) = {}

\* What a call knows at each statement, of the table and the instance.
Fine(k, table, status, quiet) ==
    /\ k.pc \in {"idle", "remaining"} /\ quiet =>
          Leaving(k.todo, status) \/ Settled(k.todo, table, status)
    /\ k.pc = "plan" => k.todo = <<>> /\ k.rows = table
    /\ k.pc = "load" => Syncing(k.todo, table, status, k.rows)
    /\ k.pc \in {"special", "round", "number", "open"} /\ ~k.changed =>
          Leaving(k.todo, status) \/ Passing(k.todo, table, status, k.rows)
    /\ k.pc \in {"round", "number", "open"} => ~Done(k.rows, k.at)
    /\ k.pc = "cleanup" /\ ~k.changed => Closing(k.todo, table, status)

Sound(c) == Fine(clerk[c], row, inst, synced)

-----------------------------------------------------------------------------
(* Rows.                                                                   *)

LEMMA SameIsGood ==
    ASSUME NEW rows, NEW others, NEW status, SameStatuses(rows, others), Good(others, status),
           \A s \in Steps : Needs(s) \subseteq Steps
    PROVE  Good(rows, status)
<1>1. \A s \in Steps : Done(rows, s) <=> Done(others, s)
  BY DEF SameStatuses, Done
<1>2. Unfinished(rows) = Unfinished(others)
  BY <1>1 DEF Unfinished
<1>3. Ordered(others) => Ordered(rows)
  BY <1>1 DEF Ordered, SameStatuses
<1> QED
  BY <1>2, <1>3 DEF Good

\* A step that is open in no order keeps the rest in order.
LEMMA HeldIsGood ==
    ASSUME NEW rows, NEW others, NEW S, NEW status, Good(others, status),
           \A s \in Steps : Needs(s) \subseteq Steps,
           \A s \in Steps : s \in S => /\ ~Done(others, s)
                                       /\ rows[s].status \in {"BLOCKED", "ESCALATED"},
           \A s \in Steps : s \notin S => rows[s].status = others[s].status
    PROVE  Good(rows, status) /\ \A s \in Steps : Done(rows, s) <=> Done(others, s)
<1>1. \A s \in Steps : Done(rows, s) <=> Done(others, s)
  BY DEF Done, DoneStatuses
<1>2. Unfinished(rows) = Unfinished(others)
  BY <1>1 DEF Unfinished
<1>3. Ordered(others) => Ordered(rows)
  BY <1>1 DEF Ordered
<1> QED
  BY <1>1, <1>2, <1>3 DEF Good

LEMMA PlannedFacts ==
    ASSUME NEW rows \in [Steps -> StepRows], \A s \in Steps : Needs(s) \subseteq Steps
    PROVE  /\ Ordered(Planned(rows))
           /\ Unfinished(Planned(rows)) = Unfinished(rows)
           /\ \A s \in Steps : Planned(rows)[s].status =
                 IF s \in Activate(rows) THEN "PENDING"
                 ELSE IF s \in Demote(rows) THEN "WAITING"
                 ELSE rows[s].status
           /\ Activate(rows) \subseteq Unfinished(rows) /\ Demote(rows) \subseteq Unfinished(rows)
<1> DEFINE after == Planned(rows)
<1>1. Activate(rows) \cap Demote(rows) = {}
  BY DEF Activate, Demote
<1>2. \A s \in Steps : after[s].status =
         IF s \in Activate(rows) THEN "PENDING"
         ELSE IF s \in Demote(rows) THEN "WAITING"
         ELSE rows[s].status
  BY <1>1 DEF Planned, SetStatus, Row
<1>3. Activate(rows) \subseteq Unfinished(rows) /\ Demote(rows) \subseteq Unfinished(rows)
  BY DEF Activate, Demote, Unfinished, Done, DoneStatuses
<1> HIDE DEF after
<1>4. \A s \in Steps : Done(after, s) <=> Done(rows, s)
  <2> SUFFICES ASSUME NEW s \in Steps PROVE Done(after, s) <=> Done(rows, s)
    OBVIOUS
  <2>1. CASE s \in Activate(rows) \/ s \in Demote(rows)
    <3>1. ~Done(rows, s)
      BY <1>3, <2>1 DEF Unfinished
    <3>2. after[s].status \in {"PENDING", "WAITING"}
      BY <1>2, <2>1
    <3> QED
      BY <3>1, <3>2 DEF Done, DoneStatuses
  <2>2. CASE s \notin Activate(rows) /\ s \notin Demote(rows)
    BY <1>2, <2>2 DEF Done
  <2> QED
    BY <2>1, <2>2
<1>5. Unfinished(after) = Unfinished(rows)
  BY <1>4 DEF Unfinished
<1>6. \A s \in Steps : Ready(rows, s) <=> \A t \in Needs(s) : Done(after, t)
  BY <1>4 DEF Ready
<1>7. Ordered(after)
  <2> SUFFICES ASSUME NEW s \in Steps
               PROVE  /\ after[s].status \in {"PENDING", "IN_PROGRESS"} => Ready(rows, s)
                      /\ after[s].status = "WAITING" => ~Ready(rows, s)
    BY <1>6 DEF Ordered
  <2>1. CASE s \in Activate(rows)
    BY <1>2, <2>1 DEF Activate
  <2>2. CASE s \notin Activate(rows) /\ s \in Demote(rows)
    BY <1>2, <2>2 DEF Demote
  <2>3. CASE s \notin Activate(rows) /\ s \notin Demote(rows)
    BY <1>2, <2>3 DEF Activate, Demote
  <2> QED
    BY <2>1, <2>2, <2>3
<1> QED
  BY <1>2, <1>3, <1>5, <1>7 DEF after

LEMMA AllNeeds ==
    ASSUME Typed PROVE \A s \in Steps : Needs(s) \subseteq Steps
  BY NeedsType DEF Typed

-----------------------------------------------------------------------------
(* Lists of statements.                                                    *)

LEMMA TupleElements ==
    /\ Elements(<<>>) = {}
    /\ \A v : Elements(<<v>>) = {v}
    /\ \A v, w : Elements(<<v, w>>) = {v, w}
    /\ \A v, w, x : Elements(<<v, w, x>>) = {v, w, x}
<1>1. Elements(<<>>) = {}
  BY DEF Elements
<1>2. \A v : Elements(<<v>>) = {v}
  BY DEF Elements
<1>3. \A v, w : Elements(<<v, w>>) = {v, w}
  <2> TAKE v, w
  <2>1. DOMAIN <<v, w>> = {1, 2}
    OBVIOUS
  <2> QED
    BY <2>1 DEF Elements
<1>4. \A v, w, x : Elements(<<v, w, x>>) = {v, w, x}
  <2> TAKE v, w, x
  <2>1. DOMAIN <<v, w, x>> = {1, 2, 3}
    OBVIOUS
  <2> QED
    BY <2>1 DEF Elements
<1> QED
  BY <1>1, <1>2, <1>3, <1>4

LEMMA JoinElements ==
    ASSUME NEW s \in Seq(Statements), NEW t \in Seq(Statements)
    PROVE  Elements(s \o t) = Elements(s) \cup Elements(t)
<1>1. Len(s) \in Nat /\ Len(t) \in Nat /\ Len(s \o t) = Len(s) + Len(t)
  OBVIOUS
<1>2. /\ DOMAIN s = 1 .. Len(s) /\ DOMAIN t = 1 .. Len(t)
      /\ DOMAIN (s \o t) = 1 .. (Len(s) + Len(t))
  BY <1>1
<1>3. \A i \in 1 .. Len(s) : (s \o t)[i] = s[i]
  OBVIOUS
<1>4. \A i \in 1 .. Len(t) : (s \o t)[Len(s) + i] = t[i]
  BY <1>1
<1>5. ASSUME NEW i \in 1 .. (Len(s) + Len(t))
      PROVE  (s \o t)[i] \in Elements(s) \cup Elements(t)
  <2>1. CASE i <= Len(s)
    BY <1>1, <1>2, <1>3, <2>1 DEF Elements
  <2>2. CASE i > Len(s)
    <3>1. i - Len(s) \in 1 .. Len(t) /\ i = Len(s) + (i - Len(s))
      BY <1>1, <2>2
    <3>2. (s \o t)[i] = t[i - Len(s)]
      BY <1>4, <3>1
    <3> QED
      BY <1>2, <3>1, <3>2 DEF Elements
  <2> QED
    BY <1>1, <2>1, <2>2
<1>6. Elements(s) \subseteq Elements(s \o t)
  BY <1>1, <1>2, <1>3 DEF Elements
<1>7. Elements(t) \subseteq Elements(s \o t)
  <2> SUFFICES ASSUME NEW i \in 1 .. Len(t) PROVE t[i] \in Elements(s \o t)
    BY <1>2 DEF Elements
  <2>1. Len(s) + i \in 1 .. (Len(s) + Len(t))
    BY <1>1
  <2> QED
    BY <1>2, <1>4, <2>1 DEF Elements
<1>8. Elements(s \o t) \subseteq Elements(s) \cup Elements(t)
  BY <1>2, <1>5 DEF Elements
<1> QED
  BY <1>6, <1>7, <1>8

LEMMA RestElements ==
    ASSUME NEW todo \in Seq(Statements), todo # <<>>
    PROVE  Elements(todo) = {Head(todo)} \cup Elements(Tail(todo))
<1>1. Len(todo) \in Nat /\ Len(todo) > 0 /\ Len(Tail(todo)) = Len(todo) - 1
  OBVIOUS
<1>2. DOMAIN todo = 1 .. Len(todo) /\ DOMAIN Tail(todo) = 1 .. (Len(todo) - 1)
  BY <1>1
<1>3. \A i \in 1 .. (Len(todo) - 1) : Tail(todo)[i] = todo[i + 1]
  BY <1>1
<1>4. Head(todo) = todo[1]
  OBVIOUS
<1>5. Elements(todo) \subseteq {Head(todo)} \cup Elements(Tail(todo))
  <2> SUFFICES ASSUME NEW i \in 1 .. Len(todo), i # 1
               PROVE  todo[i] \in Elements(Tail(todo))
    BY <1>2, <1>4 DEF Elements
  <2>1. i - 1 \in 1 .. (Len(todo) - 1) /\ i = (i - 1) + 1
    BY <1>1
  <2> QED
    BY <1>2, <1>3, <2>1 DEF Elements
<1>6. {Head(todo)} \cup Elements(Tail(todo)) \subseteq Elements(todo)
  <2>1. \A i \in 1 .. (Len(todo) - 1) : i + 1 \in 1 .. Len(todo)
    BY <1>1
  <2> QED
    BY <1>1, <1>2, <1>3, <1>4, <2>1 DEF Elements
<1> QED
  BY <1>5, <1>6

-----------------------------------------------------------------------------
(* From values to states.                                                  *)

LEMMA SoundNext ==
    ASSUME flow' = flow, NEW c, Fine(clerk'[c], row', inst', synced')
    PROVE  Sound(c)'
<1>1. \A s \in Steps : Needs(s)' = Needs(s)
  BY DEF Needs, Previous
<1> QED
  BY <1>1 DEF Sound, Fine, Leaving, Settled, Syncing, Passing, Closing, Tracks, Good, Ordered

LEMMA CallValues ==
    ASSUME Typed, NEW c \in Clerks
    PROVE  /\ clerk[c].todo \in Seq(Statements) /\ clerk[c].rows \in [Steps -> StepRows]
           /\ row \in [Steps -> StepRows]
  BY CallFields DEF Typed

\* A call that becomes `k'.
LEMMA Becomes ==
    ASSUME Typed, NEW c \in Clerks, NEW k, clerk' = [clerk EXCEPT ![c] = k]
    PROVE  clerk'[c] = k
  BY DEF Typed

LEMMA TodoBecomes ==
    ASSUME Typed, NEW c \in Clerks, NEW todo, Todo(c, todo)
    PROVE  /\ clerk'[c].pc = clerk[c].pc /\ clerk'[c].rows = clerk[c].rows
           /\ clerk'[c].changed = clerk[c].changed /\ clerk'[c].todo = todo
           /\ clerk'[c].at = clerk[c].at /\ clerk'[c].draft = clerk[c].draft
<1> DEFINE old == clerk[c]
           k   == Call(old.pc, todo, old.at, old.rows, old.pass, old.changed, old.draft)
<1>1. /\ k.pc = old.pc /\ k.rows = old.rows /\ k.changed = old.changed /\ k.todo = todo
      /\ k.at = old.at /\ k.draft = old.draft
  BY DEF Call
<1>2. clerk' = [clerk EXCEPT ![c] = k]
  BY DEF Todo
<1> HIDE DEF k
<1>3. clerk'[c] = k
  BY <1>2, Becomes
<1> QED
  BY <1>1, <1>3

\* What the first of the statements of a call writes.
LEMMA ExecuteFacts ==
    ASSUME Typed, NEW c \in Clerks, Execute(c)
    PROVE  LET k == clerk[c]
               n == clerk'[c]
               w == Writes(c)
           IN  /\ k.todo # <<>> /\ w = Head(k.todo) /\ w \in Statements
               /\ n.pc = k.pc /\ n.rows = k.rows /\ n.changed = k.changed
               /\ n.at = k.at /\ n.draft = k.draft
               /\ \/ n.todo = Tail(k.todo)
                  \/ /\ w.op = "returnEach"
                     /\ \E S \in SUBSET Steps : n.todo = <<ReturnEach(S)>> \o Tail(k.todo)
               /\ flow' = flow /\ synced' = synced
               /\ inst' = IF w.op = "inst" THEN w.status ELSE inst
               /\ w.op \in {"stamp", "closeOf", "closeOthers", "inst"} => row' = row
               /\ w.op = "steps" =>
                     \A s \in Steps : row'[s].status =
                                         IF s \in w.on THEN w.status ELSE row[s].status
               /\ w.op = "timer" => SameStatuses(row', row)
<1> DEFINE k == clerk[c]
           n == clerk'[c]
           w == Writes(c)
<1>1. PICK op : Doing(c, op) /\ op \in {"steps", "byHand", "timer", "returnEach", "returnAll",
                                        "returnRejected", "drop", "inst", "stamp", "closeOf",
                                        "closeOthers"}
  BY DEF Execute, WriteSteps, WriteTimer, WriteReturn, WriteReturnAll, WriteReturnRejected,
         WriteDrop, WriteInst, WriteStamp, WriteClose
<1>2. k.todo # <<>> /\ w = Head(k.todo) /\ w \in Statements /\ w.op = op
  BY <1>1, DoingTyped DEF Doing, Writes
<1>3. \A o : Doing(c, o) => o = op
  BY <1>1 DEF Doing
<1>4. \/ Todo(c, Tail(k.todo))
      \/ /\ w.op = "returnEach"
         /\ \E S \in SUBSET Steps : Todo(c, <<ReturnEach(S)>> \o Tail(k.todo))
  <2>1. CASE \E s \in Steps : WriteReturn(c, s)
    <3>1. PICK s \in Steps : WriteReturn(c, s)
      BY <2>1
    <3>2. w.on \ {s} \in SUBSET Steps /\ w.op = "returnEach"
      BY <1>2, <1>3, <3>1, StatementFields DEF WriteReturn
    <3>3. \/ Todo(c, Tail(k.todo)) \/ Todo(c, <<ReturnEach(w.on \ {s})>> \o Tail(k.todo))
      BY <3>1 DEF WriteReturn
    <3> QED
      BY <3>2, <3>3
  <2>2. CASE ~\E s \in Steps : WriteReturn(c, s)
    BY <2>2 DEF Execute, WriteSteps, WriteTimer, WriteReturnAll, WriteReturnRejected,
                WriteDrop, WriteInst, WriteStamp, WriteClose
  <2> QED
    BY <2>1, <2>2
<1>5. \A todo : Todo(c, todo) => /\ n.pc = k.pc /\ n.rows = k.rows /\ n.changed = k.changed
                                 /\ n.todo = todo /\ n.at = k.at /\ n.draft = k.draft
  BY TodoBecomes
<1>6. flow' = flow /\ synced' = synced
  BY DEF Execute, WriteSteps, WriteTimer, WriteReturn, WriteReturns, WriteReturnAll,
         WriteReturnRejected, WriteDrop, WriteInst, WriteStamp, WriteClose
<1>7. inst' = IF w.op = "inst" THEN w.status ELSE inst
  <2>1. CASE WriteInst(c)
    BY <1>2, <1>3, <2>1 DEF WriteInst
  <2>2. CASE ~WriteInst(c)
    <3>1. PICK o \in {"steps", "byHand", "timer", "returnEach", "returnAll", "returnRejected",
                      "drop", "stamp", "closeOf", "closeOthers"} : Doing(c, o) /\ inst' = inst
      BY <2>2 DEF Execute, WriteSteps, WriteTimer, WriteReturn, WriteReturns, WriteReturnAll,
                  WriteReturnRejected, WriteDrop, WriteStamp, WriteClose
    <3> QED
      BY <1>2, <1>3, <3>1
  <2> QED
    BY <2>1, <2>2
<1>8. ASSUME w.op \in {"stamp", "closeOf", "closeOthers", "inst"} PROVE row' = row
  <2>1. WriteInst(c) \/ WriteStamp(c) \/ WriteClose(c)
    BY <1>2, <1>3, <1>8 DEF Execute, WriteSteps, WriteTimer, WriteReturn, WriteReturnAll,
                            WriteReturnRejected, WriteDrop
  <2> QED
    BY <2>1 DEF WriteInst, WriteStamp, WriteClose
<1>9. ASSUME w.op = "steps"
      PROVE  \A s \in Steps : row'[s].status = IF s \in w.on THEN w.status ELSE row[s].status
  <2>1. WriteSteps(c, "steps")
    BY <1>2, <1>3, <1>9 DEF Execute, WriteSteps, WriteTimer, WriteReturn, WriteReturnAll,
                            WriteReturnRejected, WriteDrop, WriteInst, WriteStamp, WriteClose
  <2>2. row' = [s \in Steps |->
                 IF s \notin w.on THEN row[s]
                 ELSE IF w.result = "KEEP" THEN Row(w.status, row[s].result, row[s].returns)
                 ELSE Row(w.status, w.result, row[s].returns)]
    BY <2>1 DEF WriteSteps
  <2> HIDE DEF w
  <2> QED
    BY <2>2 DEF Row
<1>10. ASSUME w.op = "timer" PROVE SameStatuses(row', row)
  <2>1. WriteTimer(c)
    BY <1>2, <1>3, <1>10 DEF Execute, WriteSteps, WriteReturn, WriteReturnAll,
                             WriteReturnRejected, WriteDrop, WriteInst, WriteStamp, WriteClose
  <2> QED
    BY <2>1 DEF WriteTimer, SameStatuses, Row
<1> HIDE DEF k, n, w
<1>11. /\ n.pc = k.pc /\ n.rows = k.rows /\ n.changed = k.changed
       /\ n.at = k.at /\ n.draft = k.draft
       /\ \/ n.todo = Tail(k.todo)
          \/ /\ w.op = "returnEach"
             /\ \E S \in SUBSET Steps : n.todo = <<ReturnEach(S)>> \o Tail(k.todo)
  BY <1>4, <1>5
<1> QED
  BY <1>2, <1>6, <1>7, <1>8, <1>9, <1>10, <1>11 DEF k, n, w

-----------------------------------------------------------------------------
(* Executing a statement.                                                  *)

LEMMA NextElements ==
    ASSUME Typed, NEW c \in Clerks, Execute(c)
    PROVE  LET k == clerk[c]
               n == clerk'[c]
               w == Writes(c)
           IN  /\ w.op # "returnEach" =>
                     n.todo = Tail(k.todo) /\ Elements(k.todo) = {w} \cup Elements(n.todo)
               /\ InstOf(k.todo) = IF w.op = "inst" THEN {w} \cup InstOf(n.todo)
                                   ELSE InstOf(n.todo)
<1> DEFINE k == clerk[c]
           n == clerk'[c]
           w == Writes(c)
           rest == Tail(k.todo)
<1>1. k.todo \in Seq(Statements) /\ k.todo # <<>> /\ w = Head(k.todo)
  BY CallValues, ExecuteFacts
<1>2. Elements(k.todo) = {w} \cup Elements(rest) /\ rest \in Seq(Statements)
  BY <1>1, RestElements, HeadTail
<1>3. w.op # "returnEach" => n.todo = rest
  BY ExecuteFacts
<1>4. InstOf(n.todo) = InstOf(rest)
  <2>1. CASE n.todo = rest
    BY <2>1
  <2>2. CASE n.todo # rest
    <3>1. PICK S \in SUBSET Steps : n.todo = <<ReturnEach(S)>> \o rest
      BY <2>2, ExecuteFacts
    <3>2. ReturnEach(S) \in Statements
      BY StatementTypes
    <3>3. <<ReturnEach(S)>> \in Seq(Statements)
      BY <3>2, ListTypes
    <3>4. Elements(n.todo) = {ReturnEach(S)} \cup Elements(rest)
      BY <1>2, <3>1, <3>3, JoinElements, TupleElements
    <3>5. ReturnEach(S).op # "inst"
      BY DEF ReturnEach, Statement
    <3> QED
      BY <3>4, <3>5 DEF InstOf
  <2> QED
    BY <2>1, <2>2
<1>5. InstOf(k.todo) = IF w.op = "inst" THEN {w} \cup InstOf(rest) ELSE InstOf(rest)
  BY <1>2 DEF InstOf
<1> HIDE DEF k, n, w, rest
<1> QED
  BY <1>2, <1>3, <1>4, <1>5 DEF k, n, w, rest

LEMMA LeavingKept ==
    ASSUME Typed, NEW c \in Clerks, Execute(c), Leaving(clerk[c].todo, inst)
    PROVE  Leaving(clerk'[c].todo, inst')
<1> DEFINE w    == Writes(c)
           todo == clerk[c].todo
           next == clerk'[c].todo
<1>1. /\ InstOf(todo) = IF w.op = "inst" THEN {w} \cup InstOf(next) ELSE InstOf(next)
      /\ inst' = IF w.op = "inst" THEN w.status ELSE inst
  BY NextElements, ExecuteFacts
<1> HIDE DEF w, todo, next
<1>2. Leaving(todo, inst)
  BY DEF todo
<1>3. Leaving(next, inst')
  BY <1>1, <1>2 DEF Leaving
<1> QED
  BY <1>3 DEF next

LEMMA SettledKept ==
    ASSUME Typed, NEW c \in Clerks, Execute(c), Settled(clerk[c].todo, row, inst)
    PROVE  Settled(clerk'[c].todo, row', inst')
<1> DEFINE w    == Writes(c)
           todo == clerk[c].todo
           next == clerk'[c].todo
<1>1. todo \in Seq(Statements) /\ todo # <<>> /\ w = Head(todo)
  BY CallValues, ExecuteFacts
<1>2. w \in Elements(todo)
  BY <1>1, RestElements
<1>3. \/ w.op \in {"stamp", "closeOf", "closeOthers"}
      \/ w.op = "steps" /\ w.status \in {"BLOCKED", "ESCALATED"} /\ \A s \in w.on : ~Done(row, s)
  BY <1>2 DEF Settled
<1>4. Elements(next) \subseteq Elements(todo)
  BY <1>3, NextElements
<1>5. inst' = inst /\ w \in Statements
  BY <1>3, ExecuteFacts
<1>6. w.on \subseteq Steps
  BY <1>5, StatementFields
<1>7. Good(row', inst) /\ \A s \in Steps : Done(row', s) <=> Done(row, s)
  <2>1. CASE w.op \in {"stamp", "closeOf", "closeOthers"}
    <3>1. row' = row
      BY <2>1, ExecuteFacts
    <3> QED
      BY <3>1 DEF Settled
  <2>2. CASE w.op = "steps"
    <3>1. \A s \in Steps : row'[s].status = IF s \in w.on THEN w.status ELSE row[s].status
      BY <2>2, ExecuteFacts
    <3>2. w.status \in {"BLOCKED", "ESCALATED"} /\ \A s \in w.on : ~Done(row, s)
      BY <1>3, <2>2
    <3>3. Good(row, inst)
      BY DEF Settled
    <3> HIDE DEF w
    <3> QED
      BY <3>1, <3>2, <3>3, AllNeeds, HeldIsGood
  <2> QED
    BY <1>3, <2>1, <2>2
<1>8. \A v \in Elements(todo) : v.on \subseteq Steps
  BY <1>1, StatementFields DEF Elements
<1>9. \A v \in Elements(todo) :
          \/ v.op \in {"stamp", "closeOf", "closeOthers"}
          \/ v.op = "steps" /\ v.status \in {"BLOCKED", "ESCALATED"} /\ \A s \in v.on : ~Done(row, s)
  BY DEF Settled
<1> HIDE DEF w, todo, next
<1>10. Settled(next, row', inst')
  BY <1>4, <1>5, <1>7, <1>8, <1>9 DEF Settled
<1> QED
  BY <1>10 DEF next

LEMMA TracksKept ==
    ASSUME Typed, NEW c \in Clerks, Execute(c), Writes(c).op \in {"steps", "timer", "inst"},
           NEW rows, Tracks(clerk[c].todo, row, rows)
    PROVE  Tracks(clerk'[c].todo, row', rows)
<1> DEFINE w    == Writes(c)
           todo == clerk[c].todo
           next == clerk'[c].todo
<1>1. Elements(todo) = {w} \cup Elements(next)
  BY NextElements
<1>2. w.op # "steps" => SameStatuses(row', row)
  BY ExecuteFacts DEF SameStatuses
<1>3. w.op = "steps" =>
         \A s \in Steps : row'[s].status = IF s \in w.on THEN w.status ELSE row[s].status
  BY ExecuteFacts
<1>4. Tracks(todo, row, rows)
  OBVIOUS
<1> HIDE DEF w, todo, next
<1>5. CASE w.op = "steps"
  <2>1. \A s \in w.on : rows[s].status = w.status
    BY <1>1, <1>4, <1>5 DEF Tracks
  <2>2. ASSUME NEW s \in Steps
        PROVE  \/ row'[s].status = rows[s].status
               \/ \E v \in Elements(next) : v.op = "steps" /\ s \in v.on
    BY <1>1, <1>3, <1>4, <1>5, <2>1 DEF Tracks
  <2>3. Tracks(next, row', rows)
    BY <1>1, <1>4, <2>2 DEF Tracks
  <2> QED
    BY <2>3 DEF next
<1>6. CASE w.op # "steps"
  <2>1. Tracks(next, row', rows)
    BY <1>1, <1>2, <1>4, <1>6 DEF Tracks, SameStatuses
  <2> QED
    BY <2>1 DEF next
<1> QED
  BY <1>5, <1>6

LEMMA PassingKept ==
    ASSUME Typed, NEW c \in Clerks, Execute(c),
           NEW rows, Passing(clerk[c].todo, row, inst, rows)
    PROVE  Passing(clerk'[c].todo, row', inst', rows)
<1> DEFINE w    == Writes(c)
           todo == clerk[c].todo
           next == clerk'[c].todo
<1>1. todo \in Seq(Statements) /\ todo # <<>> /\ w = Head(todo)
  BY CallValues, ExecuteFacts
<1>2. w \in Elements(todo)
  BY <1>1, RestElements
<1>3. w.op \in {"steps", "timer"}
  BY <1>2 DEF Passing
<1>4. Elements(todo) = {w} \cup Elements(next) /\ inst' = inst
  BY <1>3, NextElements, ExecuteFacts
<1>5. Tracks(next, row', rows)
  BY <1>3, TracksKept DEF Passing
<1>6. Passing(todo, row, inst, rows)
  OBVIOUS
<1> HIDE DEF w, todo, next
<1>7. Passing(next, row', inst', rows)
  BY <1>4, <1>5, <1>6 DEF Passing
<1> QED
  BY <1>7 DEF next

LEMMA SyncingKept ==
    ASSUME Typed, NEW c \in Clerks, Execute(c),
           NEW rows, Syncing(clerk[c].todo, row, inst, rows)
    PROVE  Syncing(clerk'[c].todo, row', inst', rows)
<1> DEFINE w    == Writes(c)
           todo == clerk[c].todo
           next == clerk'[c].todo
<1>1. todo \in Seq(Statements) /\ todo # <<>> /\ w = Head(todo)
  BY CallValues, ExecuteFacts
<1>2. w \in Elements(todo)
  BY <1>1, RestElements
<1>3. w.op \in {"steps", "inst"}
  BY <1>2 DEF Syncing
<1>4. /\ Elements(todo) = {w} \cup Elements(next)
      /\ InstOf(todo) = IF w.op = "inst" THEN {w} \cup InstOf(next) ELSE InstOf(next)
      /\ inst' = IF w.op = "inst" THEN w.status ELSE inst
  BY <1>3, NextElements, ExecuteFacts
<1>5. Tracks(next, row', rows)
  BY <1>3, TracksKept DEF Syncing
<1>6. Syncing(todo, row, inst, rows)
  OBVIOUS
<1> HIDE DEF w, todo, next
<1>7. Syncing(next, row', inst', rows)
  BY <1>4, <1>5, <1>6 DEF Syncing
<1> QED
  BY <1>7 DEF next

LEMMA ClosingKept ==
    ASSUME Typed, NEW c \in Clerks, Execute(c), Closing(clerk[c].todo, row, inst)
    PROVE  Closing(clerk'[c].todo, row', inst')
<1> DEFINE w    == Writes(c)
           todo == clerk[c].todo
           next == clerk'[c].todo
<1>1. todo # <<>> /\ w = Head(todo)
  BY ExecuteFacts
<1>2. todo = <<SetInst("COMPLETED")>> /\ Unfinished(row) = {}
  BY <1>1 DEF Closing
<1>3. w = SetInst("COMPLETED") /\ Tail(todo) = <<>>
  BY <1>1, <1>2
<1>4. w.op = "inst" /\ w.status = "COMPLETED"
  BY <1>3 DEF SetInst, Statement
<1>5. next = <<>> /\ row' = row /\ inst' = "COMPLETED"
  BY <1>3, <1>4, NextElements, ExecuteFacts
<1>6. Good(row', inst')
  BY <1>2, <1>5 DEF Good
<1> QED
  BY <1>5, <1>6 DEF Closing

LEMMA ExecuteKeeps ==
    ASSUME Typed, NEW c \in Clerks, Execute(c), Sound(c)
    PROVE  Sound(c)'
<1> DEFINE k == clerk[c]
           n == clerk'[c]
<1>1. /\ k.todo # <<>> /\ n.pc = k.pc /\ n.rows = k.rows /\ n.changed = k.changed
      /\ n.at = k.at /\ flow' = flow /\ synced' = synced
  BY ExecuteFacts
<1>2. /\ Leaving(k.todo, inst) => Leaving(n.todo, inst')
      /\ Settled(k.todo, row, inst) => Settled(n.todo, row', inst')
      /\ Syncing(k.todo, row, inst, k.rows) => Syncing(n.todo, row', inst', k.rows)
      /\ Passing(k.todo, row, inst, k.rows) => Passing(n.todo, row', inst', k.rows)
      /\ Closing(k.todo, row, inst) => Closing(n.todo, row', inst')
  BY LeavingKept, SettledKept, SyncingKept, PassingKept, ClosingKept
<1>3. Fine(k, row, inst, synced)
  BY DEF Sound
<1> HIDE DEF k, n
<1>4. Fine(n, row', inst', synced')
  BY <1>1, <1>2, <1>3 DEF Fine
<1> QED
  BY <1>1, <1>4, SoundNext DEF n

-----------------------------------------------------------------------------
(* Advancing the instance.                                                 *)

LEMMA RememberSound ==
    ASSUME Typed, NEW c \in Clerks, NEW pc, NEW todo, NEW at, NEW rows, NEW changed,
           Remember(c, pc, todo, at, rows, changed),
           flow' = flow, row' = row, inst' = inst, synced' = synced,
           pc \notin {"idle", "remaining"},
           pc = "plan" => todo = <<>> /\ rows = row,
           pc = "load" => Syncing(todo, row, inst, rows),
           pc \in {"special", "round", "number", "open"} /\ ~changed =>
              Leaving(todo, inst) \/ Passing(todo, row, inst, rows),
           pc \in {"round", "number", "open"} => ~Done(rows, at),
           pc = "cleanup" /\ ~changed => Closing(todo, row, inst)
    PROVE  Sound(c)'
<1> DEFINE k == Call(pc, todo, at, rows, clerk[c].pass, changed, NoDraft)
<1>1. k.pc = pc /\ k.todo = todo /\ k.at = at /\ k.rows = rows /\ k.changed = changed
  BY DEF Call
<1>2. clerk' = [clerk EXCEPT ![c] = k]
  BY DEF Remember
<1> HIDE DEF k
<1>3. clerk'[c] = k
  BY <1>2, Becomes
<1>4. Fine(k, row, inst, synced)
  BY <1>1 DEF Fine
<1> QED
  BY <1>3, <1>4, SoundNext

LEMMA MemorySound ==
    ASSUME Typed, NEW c \in Clerks, NEW pc, NEW todo, NEW at, NEW rows, NEW changed,
           Memory(c, pc, todo, at, rows, changed),
           pc \notin {"idle", "remaining"},
           pc = "plan" => todo = <<>> /\ rows = row,
           pc = "load" => Syncing(todo, row, inst, rows),
           pc \in {"special", "round", "number", "open"} /\ ~changed =>
              Leaving(todo, inst) \/ Passing(todo, row, inst, rows),
           pc \in {"round", "number", "open"} => ~Done(rows, at),
           pc = "cleanup" /\ ~changed => Closing(todo, row, inst)
    PROVE  Sound(c)'
<1>1. /\ Remember(c, pc, todo, at, rows, changed)
      /\ flow' = flow /\ row' = row /\ inst' = inst /\ synced' = synced
  BY DEF Memory
<1> QED
  BY <1>1, RememberSound

LEMMA MemoryLoadSound ==
    ASSUME Typed, NEW c \in Clerks, NEW todo, NEW rows,
           Memory(c, "load", todo, 0, rows, FALSE), Syncing(todo, row, inst, rows)
    PROVE  Sound(c)'
<1> DEFINE pc == "load"
<1>1. pc \notin {"idle", "remaining", "plan", "special", "round", "number", "open", "cleanup"}
  OBVIOUS
<1>2. Memory(c, pc, todo, 0, rows, FALSE)
  OBVIOUS
<1> HIDE DEF pc
<1> QED
  BY <1>1, <1>2, MemorySound

LEMMA MemoryCleanupSound ==
    ASSUME Typed, NEW c \in Clerks, NEW todo, NEW rows, NEW changed,
           Memory(c, "cleanup", todo, 0, rows, changed), ~changed => Closing(todo, row, inst)
    PROVE  Sound(c)'
<1> DEFINE pc == "cleanup"
<1>1. pc \notin {"idle", "remaining", "plan", "special", "round", "number", "open", "load"}
  OBVIOUS
<1>2. Memory(c, pc, todo, 0, rows, changed)
  OBVIOUS
<1> HIDE DEF pc
<1> QED
  BY <1>1, <1>2, MemorySound

LEMMA MemorySpecialSound ==
    ASSUME Typed, NEW c \in Clerks, NEW pc \in {"special", "round"}, NEW todo, NEW at, NEW rows,
           NEW changed, Memory(c, pc, todo, at, rows, changed),
           ~changed => Leaving(todo, inst) \/ Passing(todo, row, inst, rows),
           pc = "round" => ~Done(rows, at)
    PROVE  Sound(c)'
<1>1. pc \notin {"idle", "remaining", "plan", "load", "cleanup", "number", "open"}
  OBVIOUS
<1> QED
  BY <1>1, MemorySound

LEMMA DraftingSound ==
    ASSUME Typed, NEW c \in Clerks, NEW pc \in {"number", "open", "special"}, NEW draft,
           Drafting(c, pc, draft), clerk[c].pc \in {"round", "number", "open"},
           clerk[c].todo = <<>>, Sound(c),
           flow' = flow, row' = row, inst' = inst, synced' = synced
    PROVE  Sound(c)'
<1> DEFINE old == clerk[c]
           k   == Call(pc, <<>>, old.at, old.rows, old.pass, old.changed, draft)
<1>1. /\ k.pc = pc /\ k.todo = <<>> /\ k.at = old.at /\ k.rows = old.rows
      /\ k.changed = old.changed
  BY DEF Call
<1>2. clerk' = [clerk EXCEPT ![c] = k]
  BY DEF Drafting
<1>3. Fine(old, row, inst, synced) /\ old.pc \in {"round", "number", "open"} /\ old.todo = <<>>
  BY DEF Sound
<1> HIDE DEF k, old
<1>4. clerk'[c] = k
  BY <1>2, Becomes
<1>5. Fine(k, row, inst, synced)
  BY <1>1, <1>3 DEF Fine
<1> QED
  BY <1>4, <1>5, SoundNext

\* Without a statement left the rows in memory are those of the table.
LEMMA TracksSame ==
    ASSUME NEW table, NEW rows, NEW status, Tracks(<<>>, table, rows), Good(rows, status), Typed
    PROVE  Good(table, status)
<1>1. SameStatuses(table, rows)
  BY TupleElements DEF Tracks, SameStatuses
<1> QED
  BY <1>1, AllNeeds, SameIsGood

LEMMA AtSpecial ==
    ASSUME NEW c \in Clerks, At(c, "special"), Sound(c), ~clerk[c].changed
    PROVE  Leaving(<<>>, inst) \/ Passing(<<>>, row, inst, clerk[c].rows)
  BY DEF At, Sound, Fine

LEMMA PlanSound ==
    ASSUME Typed, NEW c \in Clerks, Plan(c), Sound(c)
    PROVE  Sound(c)'
<1> DEFINE up    == ToStatus(Activate(row), "PENDING")
           down  == ToStatus(Demote(row), "WAITING")
           moves == inst \in {"IN_PROGRESS", "COMPLETED"}
           steps == IF moves THEN up \o down ELSE <<>>
           after == IF moves THEN Planned(row) ELSE row
           open  == Unfinished(after)
<1>1. clerk[c].rows = row
  BY DEF Plan, At, Sound, Fine
<1>2. row \in [Steps -> StepRows] /\ Activate(row) \in SUBSET Steps /\ Demote(row) \in SUBSET Steps
  BY CallValues DEF Activate, Demote
<1>3. /\ Ordered(Planned(row))
      /\ Unfinished(Planned(row)) = Unfinished(row)
      /\ \A s \in Steps : Planned(row)[s].status =
            IF s \in Activate(row) THEN "PENDING"
            ELSE IF s \in Demote(row) THEN "WAITING"
            ELSE row[s].status
      /\ Activate(row) \subseteq Unfinished(row) /\ Demote(row) \subseteq Unfinished(row)
  BY <1>2, AllNeeds, PlannedFacts
<1>4. /\ up \in Seq(Statements) /\ down \in Seq(Statements)
      /\ \A w \in Elements(up) : /\ w.op = "steps" /\ w.on = Activate(row)
                                 /\ w.status = "PENDING"
      /\ \A w \in Elements(down) : /\ w.op = "steps" /\ w.on = Demote(row)
                                   /\ w.status = "WAITING"
      /\ Activate(row) # {} => Elements(up) # {}
      /\ Demote(row) # {} => Elements(down) # {}
      /\ Activate(row) = {} => up = <<>>
      /\ Demote(row) = {} => down = <<>>
  <2>1. ASSUME NEW S \in SUBSET Steps, NEW status \in {"PENDING", "WAITING"}
        PROVE  /\ ToStatus(S, status) \in Seq(Statements)
               /\ \A w \in Elements(ToStatus(S, status)) :
                     w.op = "steps" /\ w.on = S /\ w.status = status
               /\ S # {} => Elements(ToStatus(S, status)) # {}
               /\ S = {} => ToStatus(S, status) = <<>>
    <3>1. CASE S = {}
      <4>1. ToStatus(S, status) = <<>>
        BY <3>1 DEF ToStatus
      <4> QED
        BY <3>1, <4>1, TupleElements, ListTypes
    <3>2. CASE S # {}
      <4> DEFINE w == SetSteps(S, status, "KEEP")
      <4>1. ToStatus(S, status) = <<w>>
        BY <3>2 DEF ToStatus
      <4>2. w \in Statements
        BY StatementTypes DEF StepStatuses
      <4>3. w.op = "steps" /\ w.on = S /\ w.status = status
        BY DEF SetSteps, Statement
      <4> HIDE DEF w
      <4>4. Elements(<<w>>) = {w} /\ <<w>> \in Seq(Statements)
        BY <4>2, TupleElements, ListTypes
      <4> QED
        BY <3>2, <4>1, <4>3, <4>4
    <3> QED
      BY <3>1, <3>2
  <2> QED
    BY <1>2, <2>1
<1>5. Elements(up \o down) = Elements(up) \cup Elements(down) /\ up \o down \in Seq(Statements)
  BY <1>4, JoinElements, Concatenation
<1>6. moves => Tracks(steps, row, after)
  <2> SUFFICES ASSUME moves PROVE Tracks(up \o down, row, Planned(row))
    OBVIOUS
  <2>1. Activate(row) \cap Demote(row) = {}
    BY DEF Activate, Demote
  <2> HIDE DEF up, down
  <2>2. ASSUME NEW s \in Steps
        PROVE  \/ row[s].status = Planned(row)[s].status
               \/ \E w \in Elements(up \o down) : w.op = "steps" /\ s \in w.on
    BY <1>3, <1>4, <1>5
  <2>3. ASSUME NEW w \in Elements(up \o down), NEW s \in w.on
        PROVE  Planned(row)[s].status = w.status
    BY <1>2, <1>3, <1>4, <1>5, <2>1, <2>3
  <2> QED
    BY <2>2, <2>3 DEF Tracks
<1>7. ~moves => steps = <<>> /\ after = row
  OBVIOUS
<1>8. /\ steps \in Seq(Statements)
      /\ \A w \in Elements(steps) : w.op = "steps"
      /\ Tracks(steps, row, after)
  <2>1. CASE moves
    <3>1. steps = up \o down
      BY <2>1
    <3> HIDE DEF up, down, steps
    <3> QED
      BY <1>4, <1>5, <1>6, <2>1, <3>1
  <2>2. CASE ~moves
    <3>1. Tracks(<<>>, row, row)
      BY TupleElements DEF Tracks
    <3> QED
      BY <1>7, <2>2, <3>1, TupleElements, ListTypes
  <2> QED
    BY <2>1, <2>2
<1>9. moves => Ordered(after)
  BY <1>3
<1>10. open = Unfinished(row)
  BY <1>3
<1>11. InstOf(steps) = {}
  BY <1>8 DEF InstOf
<1>12. \/ open = {} /\ inst = "IN_PROGRESS" /\
            Memory(c, "cleanup", steps \o <<SetInst("COMPLETED")>>, 0, after, FALSE)
       \/ open # {} /\ inst = "COMPLETED" /\
            Memory(c, "load", steps \o <<SetInst("IN_PROGRESS")>>, 0, after, FALSE)
       \/ /\ ~(open = {} /\ inst = "IN_PROGRESS") /\ ~(open # {} /\ inst = "COMPLETED")
          /\ Memory(c, "load", steps, 0, after, FALSE)
  BY <1>1 DEF Plan
<1>13. CASE open = {} /\ inst = "IN_PROGRESS" /\
              Memory(c, "cleanup", steps \o <<SetInst("COMPLETED")>>, 0, after, FALSE)
  <2>1. Activate(row) = {} /\ Demote(row) = {}
    BY <1>3, <1>10, <1>13
  <2>2. up = <<>> /\ down = <<>>
    BY <1>4, <2>1
  <2>3. steps = <<>>
    BY <2>2
  <2>4. steps \o <<SetInst("COMPLETED")>> = <<SetInst("COMPLETED")>>
    <3> DEFINE w == SetInst("COMPLETED")
    <3>1. w \in Statements
      BY InstType DEF InstStatuses
    <3>2. <<w>> \in Seq(Statements)
      BY <3>1, ListTypes
    <3> HIDE DEF w, steps
    <3>3. <<>> \o <<w>> = <<w>>
      BY <3>2
    <3> QED
      BY <2>3, <3>3 DEF w
  <2>5. Closing(<<SetInst("COMPLETED")>>, row, inst)
    BY <1>10, <1>13 DEF Closing
  <2> HIDE DEF steps, after, open
  <2> QED
    BY <1>13, <2>4, <2>5, MemoryCleanupSound
<1>14. CASE open # {} /\ inst = "COMPLETED" /\
              Memory(c, "load", steps \o <<SetInst("IN_PROGRESS")>>, 0, after, FALSE)
  <2> DEFINE w    == SetInst("IN_PROGRESS")
             todo == steps \o <<w>>
  <2>1. w \in Statements
    BY InstType DEF InstStatuses
  <2>2. w.op = "inst" /\ w.status = "IN_PROGRESS"
    BY DEF SetInst, Statement
  <2>3. Elements(todo) = Elements(steps) \cup {w}
    <3>1. <<w>> \in Seq(Statements) /\ Elements(<<w>>) = {w}
      BY <2>1, ListTypes, TupleElements
    <3> HIDE DEF steps, w
    <3> QED
      BY <1>8, <3>1, JoinElements
  <2>4. moves /\ Memory(c, "load", todo, 0, after, FALSE)
    BY <1>14
  <2> HIDE DEF w, todo, steps, after, moves
  <2>5. InstOf(todo) = {w}
    BY <1>8, <2>2, <2>3 DEF InstOf
  <2>6. Tracks(todo, row, after)
    BY <1>8, <2>2, <2>3 DEF Tracks
  <2>7. Good(after, "IN_PROGRESS")
    BY <1>9, <1>14, <2>4 DEF Good
  <2>8. Syncing(todo, row, inst, after)
    BY <1>8, <2>2, <2>3, <2>5, <2>6, <2>7 DEF Syncing
  <2> QED
    BY <2>4, <2>8, MemoryLoadSound
<1>15. CASE /\ ~(open = {} /\ inst = "IN_PROGRESS") /\ ~(open # {} /\ inst = "COMPLETED")
            /\ Memory(c, "load", steps, 0, after, FALSE)
  <2>1. Good(after, inst)
    <3>1. CASE inst = "IN_PROGRESS"
      BY <1>9, <1>15, <3>1 DEF Good
    <3>2. CASE inst # "IN_PROGRESS"
      BY <1>15, <3>2 DEF Good
    <3> QED
      BY <3>1, <3>2
  <2> HIDE DEF steps, after, moves, open
  <2>2. Syncing(steps, row, inst, after)
    BY <1>8, <1>11, <2>1 DEF Syncing
  <2> QED
    BY <1>15, <2>2, MemoryLoadSound
<1> QED
  BY <1>12, <1>13, <1>14, <1>15

LEMMA LoadSound ==
    ASSUME Typed, NEW c \in Clerks, Load(c), Sound(c)
    PROVE  Sound(c)'
<1> DEFINE rows == clerk[c].rows
<1>1. Syncing(<<>>, row, inst, rows)
  BY DEF Load, At, Sound, Fine
<1>2. Good(rows, inst) /\ Tracks(<<>>, row, rows)
  BY <1>1, TupleElements DEF Syncing, InstOf
<1>3. Good(row, inst)
  BY <1>2, TracksSame
<1>4. CASE inst = "IN_PROGRESS"
  <2>1. Tracks(<<>>, row, row)
    BY TupleElements DEF Tracks
  <2>2. Passing(<<>>, row, inst, row)
    BY <1>3, <1>4, <2>1, TupleElements DEF Passing
  <2>3. Memory(c, "special", <<>>, 0, row, FALSE)
    BY <1>4 DEF Load
  <2> QED
    BY <2>2, <2>3, MemorySpecialSound
<1>5. CASE inst # "IN_PROGRESS"
  <2>1. Closing(<<>>, row, inst)
    BY <1>3 DEF Closing
  <2>2. Memory(c, "cleanup", <<>>, 0, clerk[c].rows, FALSE)
    BY <1>5 DEF Load
  <2> QED
    BY <2>1, <2>2, MemoryCleanupSound
<1> QED
  BY <1>4, <1>5

LEMMA EffectLeaves ==
    \A e : /\ Effect(e) = <<>> \/ InstOf(Effect(e)) # {}
           /\ \A w \in InstOf(Effect(e)) : w.status \in {"ON_HOLD", "CANCELLED"}
<1> TAKE e
<1>1. CASE e = "CANCEL"
  <2>1. Effect(e) = <<SetInst("CANCELLED"), DropSteps, CloseOf(Steps)>>
    BY <1>1 DEF Effect, Cancellation
  <2>2. Elements(Effect(e)) = {SetInst("CANCELLED"), DropSteps, CloseOf(Steps)}
    BY <2>1, TupleElements
  <2>3. InstOf(Effect(e)) = {SetInst("CANCELLED")}
    BY <2>2 DEF InstOf, SetInst, DropSteps, CloseOf, Statement
  <2> QED
    BY <2>3 DEF SetInst, Statement
<1>2. CASE e = "SUSPEND"
  <2>1. Elements(Effect(e)) = {SetInst("ON_HOLD")}
    BY <1>2, TupleElements DEF Effect
  <2>2. InstOf(Effect(e)) = {SetInst("ON_HOLD")}
    BY <2>1 DEF InstOf, SetInst, Statement
  <2> QED
    BY <2>2 DEF SetInst, Statement
<1>3. CASE e # "CANCEL" /\ e # "SUSPEND"
  BY <1>3, TupleElements DEF Effect, InstOf
<1> QED
  BY <1>1, <1>2, <1>3

LEMMA EffectOps ==
    ASSUME NEW e
    PROVE  /\ \A w \in Elements(Effect(e)) :
                 /\ w.op \in {"inst", "drop", "closeOf"}
                 /\ w.op = "drop" =>
                       \E v \in Elements(Effect(e)) : v.op = "closeOf" /\ v.on = Steps
           /\ (\E w \in Elements(Effect(e)) : w.op \in {"drop", "closeOf"}) =>
                 InstOf(Effect(e)) # {}
<1>1. CASE e = "CANCEL"
  <2> DEFINE u == SetInst("CANCELLED")
             v == DropSteps
             w == CloseOf(Steps)
  <2>1. Effect(e) = <<u, v, w>>
    BY <1>1 DEF Effect, Cancellation
  <2>2. u.op = "inst" /\ v.op = "drop" /\ w.op = "closeOf" /\ w.on = Steps
    BY DEF SetInst, DropSteps, CloseOf, Statement
  <2> HIDE DEF u, v, w
  <2>3. Elements(Effect(e)) = {u, v, w}
    BY <2>1, TupleElements
  <2> QED
    BY <2>2, <2>3 DEF InstOf
<1>2. CASE e = "SUSPEND"
  <2>1. Elements(Effect(e)) = {SetInst("ON_HOLD")}
    BY <1>2, TupleElements DEF Effect
  <2>2. SetInst("ON_HOLD").op = "inst"
    BY DEF SetInst, Statement
  <2> QED
    BY <2>1, <2>2
<1>3. CASE e # "CANCEL" /\ e # "SUSPEND"
  BY <1>3, TupleElements DEF Effect
<1> QED
  BY <1>1, <1>2, <1>3

LEMMA EmptyJoin ==
    ASSUME NEW s \in Seq(Statements)
    PROVE  <<>> \o s = s
  OBVIOUS

\* What may have been executed before the failure.
Attempted(before) == before = <<>> \/ \E e : before = Effect(e)

\* The statements of a step that failed: it is blocked, and the effects before and
\* after are to suspend or cancel.
Fails(todo, s) ==
    \E w : /\ w.op = "steps" /\ w.on = {s} /\ w.status = "BLOCKED" /\ w \in Elements(todo)
           /\ \A v \in Elements(todo) : v = w \/ v.op \in {"inst", "drop", "closeOf"}
           /\ \A v \in InstOf(todo) : v.status \in {"ON_HOLD", "CANCELLED"}
           /\ InstOf(todo) = {} => Elements(todo) = {w}

LEMMA FailureStatements ==
    ASSUME Typed, NEW s \in Steps, NEW result \in {"KEEP", "SKIPPED"},
           NEW before, Attempted(before),
           NEW todo, todo = before \o Blocked(s, result)
    PROVE  Fails(todo, s)
<1> DEFINE w    == SetSteps({s}, "BLOCKED", result)
           then == Effect(flow.failure[s])
           tail == Blocked(s, result)
<1>1. w \in Statements /\ w.op = "steps" /\ w.on = {s} /\ w.status = "BLOCKED"
  BY StatementTypes DEF StepStatuses, Results, SetSteps, Statement
<1>2. /\ then \in Seq(Statements) /\ before \in Seq(Statements)
      /\ \A v \in Elements(before) \cup Elements(then) : v.op \in {"inst", "drop", "closeOf"}
  BY EffectType, EffectOps, TupleElements, ListTypes DEF Attempted
<1>3. /\ then = <<>> \/ InstOf(then) # {}
      /\ \A v \in InstOf(then) : v.status \in {"ON_HOLD", "CANCELLED"}
      /\ before = <<>> \/ InstOf(before) # {}
      /\ \A v \in InstOf(before) : v.status \in {"ON_HOLD", "CANCELLED"}
  BY EffectLeaves, TupleElements DEF Attempted, InstOf
<1>4. tail = <<w>> \o then
  BY DEF Blocked
<1> HIDE DEF w, then, tail
<1>5. tail \in Seq(Statements) /\ Elements(tail) = {w} \cup Elements(then)
  <2>1. <<w>> \in Seq(Statements) /\ Elements(<<w>>) = {w}
    BY <1>1, ListTypes, TupleElements
  <2> QED
    BY <1>2, <1>4, <2>1, JoinElements, Concatenation
<1>6. Elements(todo) = Elements(before) \cup {w} \cup Elements(then)
  BY <1>2, <1>5, JoinElements DEF tail
<1>7. InstOf(todo) = InstOf(before) \cup InstOf(then)
  BY <1>1, <1>6 DEF InstOf
<1>8. InstOf(todo) = {} => Elements(before) = {} /\ Elements(then) = {}
  BY <1>3, <1>7, TupleElements
<1>9. /\ w \in Elements(todo)
      /\ \A v \in Elements(todo) : v = w \/ v.op \in {"inst", "drop", "closeOf"}
      /\ \A v \in InstOf(todo) : v.status \in {"ON_HOLD", "CANCELLED"}
      /\ InstOf(todo) = {} => Elements(todo) = {w}
  BY <1>2, <1>3, <1>6, <1>7, <1>8
<1> QED
  BY <1>1, <1>9 DEF Fails

LEMMA FailureSound ==
    ASSUME Typed, NEW c \in Clerks, NEW s \in Steps, NEW result \in {"KEEP", "SKIPPED"},
           NEW before, Attempted(before), NEW after,
           Remember(c, "special", before \o Blocked(s, result), s, after, clerk[c].changed),
           flow' = flow, row' = row, inst' = inst, synced' = synced,
           ~Done(clerk[c].rows, s),
           \A t \in Steps : after[t].status = IF t = s THEN "BLOCKED" ELSE clerk[c].rows[t].status,
           ~clerk[c].changed => Leaving(<<>>, inst) \/ Passing(<<>>, row, inst, clerk[c].rows)
    PROVE  Sound(c)'
<1> DEFINE k    == clerk[c]
           todo == before \o Blocked(s, result)
           pc   == "special"
<1>1. todo = before \o Blocked(s, result)
  OBVIOUS
<1>2. /\ Remember(c, pc, todo, s, after, k.changed) /\ pc = "special"
      /\ pc \notin {"idle", "remaining", "plan", "load", "round", "number", "open", "cleanup"}
  OBVIOUS
<1> HIDE DEF todo, pc
<1>3. PICK w : /\ w.op = "steps" /\ w.on = {s} /\ w.status = "BLOCKED"
               /\ \A v \in InstOf(todo) : v.status \in {"ON_HOLD", "CANCELLED"}
               /\ InstOf(todo) = {} => Elements(todo) = {w}
  <2>1. Fails(todo, s)
    BY <1>1, FailureStatements
  <2> QED
    BY <2>1 DEF Fails
<1>4. Leaving(<<>>, inst) => Leaving(todo, inst)
  BY <1>3, TupleElements DEF Leaving, InstOf
<1>5. ASSUME Passing(<<>>, row, inst, k.rows)
      PROVE  Leaving(todo, inst) \/ Passing(todo, row, inst, after)
  <2>1. CASE InstOf(todo) # {}
    BY <1>3, <2>1 DEF Leaving
  <2>2. CASE InstOf(todo) = {}
    <3>1. \A t \in Steps : row[t].status = k.rows[t].status
      BY <1>5, TupleElements DEF Passing, Tracks
    <3>2. Tracks(todo, row, after)
      BY <1>3, <2>2, <3>1 DEF Tracks
    <3>3. Good(k.rows, "IN_PROGRESS") /\ inst = "IN_PROGRESS"
      BY <1>5 DEF Passing
    <3>4. Good(after, "IN_PROGRESS")
      <4>1. \A t \in Steps : t \in {s} => ~Done(k.rows, t) /\ after[t].status = "BLOCKED"
        OBVIOUS
      <4>2. \A t \in Steps : t \notin {s} => after[t].status = k.rows[t].status
        OBVIOUS
      <4> HIDE DEF k
      <4> QED
        BY <3>3, <4>1, <4>2, AllNeeds, HeldIsGood
    <3> QED
      BY <1>3, <2>2, <3>2, <3>3, <3>4 DEF Passing
  <2> QED
    BY <2>1, <2>2
<1> QED
  BY <1>2, <1>4, <1>5, RememberSound

\* Whatever fails while the engine handles a step blocks it.
LEMMA StepFailsSound ==
    ASSUME Typed, NEW c \in Clerks, NEW s \in Steps, StepFails(c, s), Sound(c)
    PROVE  Sound(c)'
<1> DEFINE old == clerk[c].rows
<1>1. PICK ran \in BOOLEAN, result \in {"KEEP", "SKIPPED"} :
         Memory(c, "special",
                (IF ran THEN Effect(flow.act[s]) ELSE <<>>) \o Blocked(s, result), s,
                [old EXCEPT ![s] = Row("BLOCKED", IF result = "KEEP" THEN @.result ELSE result,
                                       @.returns)],
                clerk[c].changed)
  BY DEF StepFails
<1> DEFINE before == IF ran THEN Effect(flow.act[s]) ELSE <<>>
           new    == Row("BLOCKED", IF result = "KEEP" THEN old[s].result ELSE result,
                         old[s].returns)
           after  == [old EXCEPT ![s] = new]
<1>2. /\ Remember(c, "special", before \o Blocked(s, result), s, after, clerk[c].changed)
      /\ flow' = flow /\ row' = row /\ inst' = inst /\ synced' = synced
  BY <1>1 DEF Memory
<1>3. Attempted(before)
  BY DEF Attempted
<1>4. ~Done(old, s) /\ old \in [Steps -> StepRows]
  BY CallValues DEF StepFails, OnStep, Work, Done, DoneStatuses
<1>5. new.status = "BLOCKED"
  BY DEF Row
<1>6. ~clerk[c].changed => Leaving(<<>>, inst) \/ Passing(<<>>, row, inst, old)
  BY AtSpecial DEF StepFails, OnStep
<1> HIDE DEF before, new
<1>7. \A t \in Steps : after[t].status = IF t = s THEN "BLOCKED" ELSE old[t].status
  BY <1>4, <1>5
<1> HIDE DEF after
<1> QED
  BY <1>1, <1>2, <1>3, <1>4, <1>6, <1>7, FailureSound

LEMMA RoundFailsSound ==
    ASSUME Typed, NEW c \in Clerks, RoundFails(c), Sound(c)
    PROVE  Sound(c)'
<1> DEFINE k      == clerk[c]
           s      == k.at
           before == <<>>
           result == "KEEP"
           todo   == before \o Blocked(s, result)
           after  == SetStatus(k.rows, {s}, "BLOCKED")
<1>1. k.pc \in {"round", "number", "open"} /\ k.todo = <<>>
  BY DEF RoundFails, At
<1>2. s \in Steps
  BY <1>1 DEF Typed, About
<1>3. Blocked(s, result) \in Seq(Statements)
  BY <1>2, BlockedType
<1>4. todo = Blocked(s, result)
  <2> DEFINE then == Blocked(s, result)
  <2> HIDE DEF then
  <2> QED
    BY <1>3, EmptyJoin DEF then
<1>5. /\ Remember(c, "special", todo, s, after, k.changed)
      /\ flow' = flow /\ row' = row /\ inst' = inst /\ synced' = synced
  BY <1>4 DEF RoundFails
<1>6. /\ ~Done(k.rows, s)
      /\ ~k.changed => Leaving(<<>>, inst) \/ Passing(<<>>, row, inst, k.rows)
  BY <1>1 DEF Sound, Fine
<1>7. \A t \in Steps : after[t].status = IF t = s THEN "BLOCKED" ELSE k.rows[t].status
  BY DEF SetStatus, Row
<1>8. result \in {"KEEP", "SKIPPED"} /\ Attempted(before)
  BY DEF Attempted
<1>9. Remember(c, "special", before \o Blocked(s, result), s, after, k.changed)
  BY <1>5
<1> HIDE DEF before, result, after, s
<1> QED
  BY <1>2, <1>5, <1>6, <1>7, <1>8, <1>9, FailureSound

LEMMA StartTimerSound ==
    ASSUME Typed, NEW c \in Clerks, NEW s \in Steps, StartTimer(c, s), Sound(c)
    PROVE  Sound(c)'
<1> DEFINE k     == clerk[c]
           after == [k.rows EXCEPT ![s] = Row(@.status, "TIMER_SET", @.returns)]
           w     == SetTimer(s)
<1>1. Memory(c, "special", <<w>>, s, after, k.changed)
  BY DEF StartTimer
<1>2. w.op = "timer" /\ Elements(<<w>>) = {w}
  BY TupleElements DEF SetTimer, Statement
<1>3. k.rows \in [Steps -> StepRows]
  BY CallValues
<1>4. SameStatuses(after, k.rows)
  BY <1>3 DEF SameStatuses, Row
<1>5. ~k.changed => Leaving(<<>>, inst) \/ Passing(<<>>, row, inst, k.rows)
  BY AtSpecial DEF StartTimer, OnStep
<1> HIDE DEF w, after, k
<1>6. Leaving(<<>>, inst) => Leaving(<<w>>, inst)
  BY <1>2, TupleElements DEF Leaving, InstOf
<1>7. Passing(<<>>, row, inst, k.rows) => Passing(<<w>>, row, inst, after)
  <2> SUFFICES ASSUME Passing(<<>>, row, inst, k.rows) PROVE Passing(<<w>>, row, inst, after)
    OBVIOUS
  <2>1. \A t \in Steps : row[t].status = k.rows[t].status
    BY TupleElements DEF Passing, Tracks
  <2>2. Tracks(<<w>>, row, after)
    BY <1>2, <1>4, <2>1 DEF Tracks, SameStatuses
  <2>3. Good(k.rows, "IN_PROGRESS") /\ inst = "IN_PROGRESS"
    BY DEF Passing
  <2>4. Good(after, "IN_PROGRESS")
    BY <1>4, <2>3, AllNeeds, SameIsGood
  <2> QED
    BY <1>2, <2>2, <2>3, <2>4 DEF Passing
<1> QED
  BY <1>1, <1>5, <1>6, <1>7, MemorySpecialSound

LEMMA OnStepSound ==
    ASSUME Typed, NEW c \in Clerks, NEW s \in Steps, Sound(c),
           \/ Skip(c, s) \/ RunStep(c, s) \/ ElapseTimer(c, s) \/ CountOpen(c, s)
    PROVE  Sound(c)'
<1>1. CASE CountOpen(c, s)
  <2> DEFINE pc == IF OpenOf(s) = {} THEN "round" ELSE "special"
  <2>1. Memory(c, pc, <<>>, s, clerk[c].rows, clerk[c].changed) /\ pc \in {"special", "round"}
    BY <1>1 DEF CountOpen
  <2>2. ~clerk[c].changed => Leaving(<<>>, inst) \/ Passing(<<>>, row, inst, clerk[c].rows)
    BY <1>1, AtSpecial DEF CountOpen, OnStep
  <2>3. ~Done(clerk[c].rows, s)
    BY <1>1 DEF CountOpen, OnStep, Work, Done, DoneStatuses
  <2> HIDE DEF pc
  <2> QED
    BY <2>1, <2>2, <2>3, MemorySpecialSound
<1>2. CASE Skip(c, s) \/ RunStep(c, s) \/ ElapseTimer(c, s)
  <2>1. PICK todo, rows : Memory(c, "special", todo, s, rows, TRUE)
    BY <1>2 DEF Skip, RunStep, ElapseTimer, Settle
  <2> QED
    BY <2>1, MemorySpecialSound
<1> QED
  BY <1>1, <1>2

LEMMA RoundSound ==
    ASSUME Typed, NEW c \in Clerks, LastRound(c) \/ CountAll(c) \/ OpenApproval(c), Sound(c)
    PROVE  Sound(c)'
<1>1. clerk[c].pc \in {"round", "number", "open"} /\ clerk[c].todo = <<>>
  BY DEF LastRound, CountAll, OpenApproval, At
<1>2. flow' = flow /\ row' = row /\ inst' = inst /\ synced' = synced
  BY DEF LastRound, CountAll, OpenApproval
<1>3. PICK pc \in {"number", "open", "special"} : \E draft : Drafting(c, pc, draft)
  <2>1. CASE LastRound(c)
    <3>1. \E draft : Drafting(c, "number", draft)
      BY <2>1 DEF LastRound
    <3> QED
      BY <3>1
  <2>2. CASE CountAll(c)
    <3>1. \E draft : Drafting(c, "open", draft)
      BY <2>2 DEF CountAll
    <3> QED
      BY <3>1
  <2>3. CASE OpenApproval(c)
    <3>1. \/ \E draft : Drafting(c, "special", draft)
          \/ \E draft : Drafting(c, "open", draft)
      BY <2>3 DEF OpenApproval
    <3> QED
      BY <3>1
  <2> QED
    BY <2>1, <2>2, <2>3
<1> QED
  BY <1>1, <1>2, <1>3, DraftingSound

LEMMA PassEndsSound ==
    ASSUME Typed, NEW c \in Clerks, PassEnds(c), Sound(c)
    PROVE  Sound(c)'
<1> DEFINE k    == clerk[c]
           more == k.changed /\ k.pass + 1 < MaxPasses
           next == IF more THEN Call("sync", <<>>, 0, NoRows, k.pass + 1, FALSE, NoDraft)
                   ELSE Call("cleanup", <<>>, 0, NoRows, k.pass, k.changed, NoDraft)
<1>1. clerk'[c] = next
  <2>1. clerk' = [clerk EXCEPT ![c] = next]
    BY DEF PassEnds
  <2> HIDE DEF next
  <2> QED
    BY <2>1, Becomes
<1>2. \/ next.pc = "sync"
      \/ next.pc = "cleanup" /\ next.todo = <<>> /\ next.changed = k.changed
  BY DEF Call
<1>3. ~k.changed => Leaving(<<>>, inst) \/ Passing(<<>>, row, inst, k.rows)
  BY AtSpecial DEF PassEnds
<1>4. Leaving(<<>>, inst) => Good(row, inst)
  BY TupleElements DEF Leaving, InstOf, Good
<1>5. Passing(<<>>, row, inst, k.rows) => Good(row, inst)
  BY TracksSame DEF Passing
<1>6. flow' = flow /\ row' = row /\ inst' = inst /\ synced' = synced
  BY DEF PassEnds
<1> HIDE DEF next, k
<1>7. Fine(next, row, inst, synced)
  BY <1>2, <1>3, <1>4, <1>5 DEF Fine, Closing
<1> QED
  BY <1>1, <1>6, <1>7, SoundNext

LEMMA CleanupSound ==
    ASSUME Typed, NEW c \in Clerks, Cleanup(c), Sound(c)
    PROVE  Sound(c)'
<1>1. clerk'[c] = Idle
  <2>1. clerk' = [clerk EXCEPT ![c] = Idle]
    BY DEF Cleanup
  <2> QED
    BY <2>1, Becomes
<1>2. Idle.pc = "idle" /\ Idle.todo = <<>>
  BY DEF Idle, Call
<1>3. synced' => ~clerk[c].changed
  BY DEF Cleanup
<1>4. ~clerk[c].changed => Closing(<<>>, row, inst)
  BY DEF Cleanup, At, Sound, Fine
<1>5. Closing(<<>>, row, inst) => Good(row, inst)
  BY DEF Closing
<1>6. flow' = flow /\ row' = row /\ inst' = inst
  BY DEF Cleanup
<1>7. Good(row, inst) => Settled(<<>>, row, inst)
  BY TupleElements DEF Settled
<1> HIDE DEF Idle
<1>8. synced' => Settled(Idle.todo, row, inst)
  BY <1>2, <1>3, <1>4, <1>5, <1>7
<1>9. Fine(Idle, row', inst', synced')
  BY <1>2, <1>6, <1>8 DEF Fine
<1> QED
  BY <1>1, <1>6, <1>9, SoundNext

LEMMA AdvanceSound ==
    ASSUME Typed, NEW c \in Clerks, Advance(c), Sound(c)
    PROVE  Sound(c)'
<1>1. CASE SyncRead(c)
  <2> DEFINE pc == "plan"
  <2>1. pc \notin {"idle", "remaining", "load", "special", "round", "number", "open", "cleanup"}
    OBVIOUS
  <2>2. Memory(c, pc, <<>>, 0, row, FALSE)
    BY <1>1 DEF SyncRead
  <2> HIDE DEF pc
  <2> QED
    BY <2>1, <2>2, MemorySound
<1> QED
  BY <1>1, PlanSound, LoadSound, StepFailsSound, RoundFailsSound, StartTimerSound, OnStepSound,
     RoundSound, PassEndsSound, CleanupSound DEF Advance

-----------------------------------------------------------------------------
(* Calls.                                                                  *)

LEMMA GoSound ==
    ASSUME Typed, NEW c \in Clerks, NEW pc \in {"idle", "sync"}, NEW todo, Go(c, pc, todo),
           flow' = flow,
           pc = "idle" /\ synced' => Leaving(todo, inst') \/ Settled(todo, row', inst')
    PROVE  Sound(c)'
<1> DEFINE k == Call(pc, todo, 0, NoRows, 0, FALSE, NoDraft)
<1>1. k.pc = pc /\ k.todo = todo
  BY DEF Call
<1>2. clerk'[c] = k
  <2>1. clerk' = [clerk EXCEPT ![c] = k]
    BY DEF Go
  <2> HIDE DEF k
  <2> QED
    BY <2>1, Becomes
<1> HIDE DEF k
<1>3. Fine(k, row', inst', synced')
  BY <1>1 DEF Fine
<1> QED
  BY <1>2, <1>3, SoundNext

LEMMA BeginSync ==
    ASSUME Typed, NEW c \in Clerks, NEW todo, Begin(c, todo, "sync")
    PROVE  Sound(c)'
<1> DEFINE pc == "sync"
<1>1. Go(c, pc, todo) /\ flow' = flow /\ pc \in {"idle", "sync"} /\ pc # "idle"
  BY DEF Begin
<1> HIDE DEF pc
<1> QED
  BY <1>1, GoSound

LEMMA BeginIdle ==
    ASSUME Typed, NEW c \in Clerks, NEW todo, Begin(c, todo, "idle"), Sound(c),
           Good(row, inst) => Leaving(todo, inst) \/ Settled(todo, row, inst)
    PROVE  Sound(c)'
<1> DEFINE pc == "idle"
<1>1. Go(c, pc, todo) /\ Free(c) /\ pc \in {"idle", "sync"}
  BY DEF Begin
<1>2. flow' = flow /\ row' = row /\ inst' = inst /\ synced' = synced
  BY DEF Begin
<1>3. clerk[c].pc = "idle" /\ clerk[c].todo = <<>>
  BY <1>1 DEF Free, Idle, Call
<1>4. synced => Leaving(<<>>, inst) \/ Settled(<<>>, row, inst)
  BY <1>3 DEF Sound, Fine
<1>5. synced => Good(row, inst)
  BY <1>4, TupleElements DEF Leaving, Settled, InstOf, Good
<1> HIDE DEF pc
<1> QED
  BY <1>1, <1>2, <1>5, GoSound

LEMMA CancellationLeaves ==
    /\ Cancellation \in Seq(Statements) /\ InstOf(Cancellation) # {}
    /\ \A w \in InstOf(Cancellation) : w.status \in {"ON_HOLD", "CANCELLED"}
<1> DEFINE e == "CANCEL"
<1>1. Effect(e) = Cancellation
  BY DEF Effect
<1>2. Cancellation # <<>>
  BY DEF Cancellation
<1> HIDE DEF e
<1> QED
  BY <1>1, <1>2, EffectLeaves, EffectType

LEMMA StampSettles ==
    ASSUME NEW a, NEW status, Good(row, inst)
    PROVE  Settled(<<Stamp(a, status)>>, row, inst)
  BY TupleElements DEF Settled, Stamp, Statement

LEMMA HoldSettles ==
    ASSUME NEW s \in Steps, NEW status \in {"BLOCKED", "ESCALATED"}, ~Done(row, s),
           Good(row, inst)
    PROVE  Settled(<<SetSteps({s}, status, "KEEP")>>, row, inst)
  BY TupleElements DEF Settled, SetSteps, Statement

\* A list that suspends or cancels and writes the status no other way.
LEMMA JoinLeaves ==
    ASSUME NEW s \in Seq(Statements), NEW t \in Seq(Statements),
           \A w \in InstOf(s) \cup InstOf(t) : w.status \in {"ON_HOLD", "CANCELLED"},
           InstOf(s) # {} \/ InstOf(t) # {}
    PROVE  Leaving(s \o t, inst)
<1>1. InstOf(s \o t) = InstOf(s) \cup InstOf(t)
  BY JoinElements DEF InstOf
<1> QED
  BY <1>1 DEF Leaving

LEMMA InstanceCallSound ==
    ASSUME Typed, NEW c \in Clerks, InstanceCall(c), Sound(c)
    PROVE  Sound(c)'
<1>1. CASE Start(c)
  <2> DEFINE pc == "sync"
  <2>1. Go(c, pc, <<>>) /\ flow' = flow /\ pc \in {"idle", "sync"} /\ pc # "idle"
    BY <1>1 DEF Start
  <2> HIDE DEF pc
  <2> QED
    BY <2>1, GoSound
<1>2. CASE Suspend(c)
  <2> DEFINE w == SetInst("ON_HOLD")
  <2>1. w.op = "inst" /\ w.status = "ON_HOLD"
    BY DEF SetInst, Statement
  <2>2. Begin(c, <<w>>, "idle")
    BY <1>2 DEF Suspend
  <2> HIDE DEF w
  <2>3. InstOf(<<w>>) = {w}
    BY <2>1, TupleElements DEF InstOf
  <2>4. Leaving(<<w>>, inst)
    BY <2>1, <2>3 DEF Leaving
  <2> QED
    BY <2>2, <2>4, BeginIdle
<1>3. CASE Cancel(c)
  <2>1. Leaving(Cancellation, inst)
    BY CancellationLeaves DEF Leaving
  <2> QED
    BY <1>3, <2>1, BeginIdle DEF Cancel
<1> QED
  BY <1>1, <1>2, <1>3, BeginSync DEF InstanceCall, Resume, AdvanceTimers

LEMMA RejectStepSound ==
    ASSUME Typed, NEW c \in Clerks, NEW s \in Steps, RejectStep(c, s), Sound(c)
    PROVE  Sound(c)'
<1> DEFINE v == SetSteps({s}, "REJECTED", "KEEP")
           w == SetInst("ON_HOLD")
           x == CloseOf({s})
           failed == Effect(flow.failure[s])
<1>1. v \in Statements /\ w \in Statements /\ x \in Statements
  BY StatementTypes, InstType DEF StepStatuses, InstStatuses
<1>2. v.op = "steps" /\ w.op = "inst" /\ w.status = "ON_HOLD" /\ x.op = "closeOf"
  BY DEF SetSteps, SetInst, CloseOf, Statement
<1>3. Begin(c, <<v, w, x>> \o failed, "idle")
  BY DEF RejectStep
<1>4. failed \in Seq(Statements) /\ \A y \in InstOf(failed) : y.status \in {"ON_HOLD", "CANCELLED"}
  BY EffectType, EffectLeaves
<1> HIDE DEF v, w, x, failed
<1>5. InstOf(<<v, w, x>>) = {w} /\ <<v, w, x>> \in Seq(Statements)
  BY <1>1, <1>2, TupleElements, ListTypes DEF InstOf
<1>6. Leaving(<<v, w, x>> \o failed, inst)
  BY <1>2, <1>4, <1>5, JoinLeaves
<1> QED
  BY <1>3, <1>6, BeginIdle

LEMMA StepCallSound ==
    ASSUME Typed, NEW c \in Clerks, NEW s \in Steps, StepCall(c, s), Sound(c)
    PROVE  Sound(c)'
<1>1. CASE RejectStep(c, s)
  BY <1>1, RejectStepSound
<1>2. CASE Block(c, s)
  <2>1. ~Done(row, s) /\ Begin(c, <<SetSteps({s}, "BLOCKED", "KEEP")>>, "idle")
    BY <1>2 DEF Block, Done, Completable, DoneStatuses
  <2>2. Good(row, inst) => Settled(<<SetSteps({s}, "BLOCKED", "KEEP")>>, row, inst)
    BY <2>1, HoldSettles
  <2> QED
    BY <2>1, <2>2, BeginIdle
<1>3. CASE Escalate(c, s)
  <2>1. ~Done(row, s) /\ Begin(c, <<SetSteps({s}, "ESCALATED", "KEEP")>>, "idle")
    BY <1>3 DEF Escalate, Done, DoneStatuses
  <2>2. Good(row, inst) => Settled(<<SetSteps({s}, "ESCALATED", "KEEP")>>, row, inst)
    BY <2>1, HoldSettles
  <2> QED
    BY <2>1, <2>2, BeginIdle
<1>4. CASE Unblock(c, s)
  <2> DEFINE pc == "idle"
             todo == <<SetSteps({s}, "PENDING", "KEEP")>>
  <2>1. Go(c, pc, todo) /\ flow' = flow /\ pc \in {"idle", "sync"}
    BY <1>4 DEF Unblock
  <2>2. ~synced'
    BY <1>4 DEF Unblock
  <2> HIDE DEF pc, todo
  <2> QED
    BY <2>1, <2>2, GoSound
<1> QED
  BY <1>1, <1>2, <1>3, <1>4, BeginSync
     DEF StepCall, DeliverEvent, CompleteStep, StartStep, Reassign, ReturnStep, Reopen

LEMMA RejectSound ==
    ASSUME Typed, NEW c \in Clerks, NEW a \in Ids, Reject(c, a), Sound(c)
    PROVE  Sound(c)'
<1> DEFINE s       == approvals[a].step
           v       == Stamp(a, "REJECTED")
           w       == CloseOthers(a)
           x       == SetSteps({s}, "REJECTED", "KEEP")
           y       == SetInst("ON_HOLD")
           decided == <<v, w>>
           held    == <<x, y>>
           failed  == Effect(flow.failure[s])
           branch  == <<SetSteps({s}, "COMPLETED", "REJECTED")>>
           back    == <<ReturnEach(ToReturn(a))>>
<1>1. s \in Steps /\ a \in Nat
  BY ApprovalFields
<1>2. v \in Statements /\ w \in Statements /\ x \in Statements /\ y \in Statements
  BY <1>1, StatementTypes, InstType DEF StepStatuses, InstStatuses, ApprovalStatuses
<1>3. v.op = "stamp" /\ w.op = "closeOthers" /\ x.op = "steps" /\ y.op = "inst" /\ y.status = "ON_HOLD"
  BY DEF Stamp, CloseOthers, SetSteps, SetInst, Statement
<1>4. RejectRule(a) \in {"CANCEL", "RETURN", "BRANCH", "HOLD"}
  <2>1. flow.onReject[s] \in {"CANCEL", "RETURN", "BRANCH", "HOLD"}
    BY <1>1 DEF Typed, Templates
  <2> QED
    BY <2>1 DEF RejectRule
<1>5. \/ Begin(c, decided \o Cancellation, "idle")
      \/ Begin(c, decided \o back, "sync")
      \/ Begin(c, decided \o branch \o failed, "sync")
      \/ Begin(c, decided \o held \o failed, "idle")
  BY <1>4 DEF Reject
<1>6. failed \in Seq(Statements) /\ \A z \in InstOf(failed) : z.status \in {"ON_HOLD", "CANCELLED"}
  BY EffectType, EffectLeaves
<1> HIDE DEF s, v, w, x, y, failed, branch, back
<1>7. decided \in Seq(Statements) /\ InstOf(decided) = {}
  BY <1>2, <1>3, ListTypes, TupleElements DEF InstOf
<1>8. held \in Seq(Statements) /\ InstOf(held) = {y}
  BY <1>2, <1>3, ListTypes, TupleElements DEF InstOf
<1> HIDE DEF decided, held
<1>9. decided \o held \in Seq(Statements) /\ InstOf(decided \o held) = {y}
  BY <1>7, <1>8, Concatenation, JoinElements DEF InstOf
<1>10. Leaving(decided \o Cancellation, inst)
  BY <1>7, CancellationLeaves, JoinLeaves
<1>11. Leaving(decided \o held \o failed, inst)
  BY <1>3, <1>6, <1>9, JoinLeaves
<1> QED
  BY <1>5, <1>10, <1>11, BeginIdle, BeginSync

LEMMA ApproveSound ==
    ASSUME Typed, NEW c \in Clerks, NEW a \in Ids, Approve(c, a), Sound(c)
    PROVE  Sound(c)'
<1> DEFINE k == Call("remaining", <<Stamp(a, "APPROVED")>>, a, NoRows, 0, FALSE, NoDraft)
<1>1. CASE flow.mode[approvals[a].step] = "ANY"
  BY <1>1, BeginSync DEF Approve
<1>2. CASE flow.mode[approvals[a].step] # "ANY"
  <2>1. Free(c) /\ clerk' = [clerk EXCEPT ![c] = k]
    BY <1>2 DEF Approve
  <2>2. flow' = flow /\ row' = row /\ inst' = inst /\ synced' = synced
    BY <1>2 DEF Approve
  <2>3. k.pc = "remaining" /\ k.todo = <<Stamp(a, "APPROVED")>>
    BY DEF Call
  <2>4. clerk[c].pc = "idle" /\ clerk[c].todo = <<>>
    BY <2>1 DEF Free, Idle, Call
  <2>5. synced => Leaving(<<>>, inst) \/ Settled(<<>>, row, inst)
    BY <2>4 DEF Sound, Fine
  <2>6. synced => Good(row, inst)
    BY <2>5, TupleElements DEF Leaving, Settled, InstOf, Good
  <2> HIDE DEF k
  <2>7. clerk'[c] = k
    BY <2>1, Becomes
  <2>8. synced => Settled(k.todo, row, inst)
    BY <2>3, <2>6, StampSettles
  <2>9. Fine(k, row, inst, synced)
    BY <2>3, <2>8 DEF Fine
  <2> QED
    BY <2>2, <2>7, <2>9, SoundNext
<1> QED
  BY <1>1, <1>2

LEMMA RemainingSound ==
    ASSUME Typed, NEW c \in Clerks, Remaining(c), Sound(c)
    PROVE  Sound(c)'
<1>1. flow' = flow /\ row' = row /\ inst' = inst /\ synced' = synced
  BY DEF Remaining
<1>2. PICK pc \in {"idle", "sync"} : \E todo :
         /\ Go(c, pc, todo)
         /\ pc = "idle" => todo = <<>> \/ \E b : todo = <<Stamp(b, "PENDING")>>
  <2> DEFINE a == clerk[c].at
             s == approvals[a].step
  <2>1. \/ Go(c, "sync", Approved(s))
        \/ \E b \in Left(a) : Go(c, "idle", <<Stamp(b, "PENDING")>>)
        \/ Go(c, "idle", <<>>)
    BY DEF Remaining
  <2> HIDE DEF s, a
  <2> QED
    BY <2>1
<1>3. synced => Leaving(<<>>, inst) \/ Settled(<<>>, row, inst)
  BY DEF Remaining, At, Sound, Fine
<1>4. synced => Good(row, inst)
  BY <1>3, TupleElements DEF Leaving, Settled, InstOf, Good
<1>5. Good(row, inst) => Settled(<<>>, row, inst)
  BY TupleElements DEF Settled
<1>6. PICK todo : /\ Go(c, pc, todo)
                  /\ pc = "idle" => todo = <<>> \/ \E b : todo = <<Stamp(b, "PENDING")>>
  BY <1>2
<1>7. pc = "idle" /\ synced => Settled(todo, row, inst)
  BY <1>4, <1>5, <1>6, StampSettles
<1> QED
  BY <1>1, <1>6, <1>7, GoSound

LEMMA ApprovalCallSound ==
    ASSUME Typed, NEW c \in Clerks, NEW a \in Ids, ApprovalCall(c, a), Sound(c)
    PROVE  Sound(c)'
<1>1. CASE RequestInfo(c, a)
  BY <1>1, StampSettles, BeginIdle DEF RequestInfo
<1>2. CASE Respond(c, a)
  BY <1>2, StampSettles, BeginIdle DEF Respond
<1>3. CASE ReturnForCorrection(c, a)
  BY <1>3, BeginSync DEF ReturnForCorrection
<1> QED
  BY <1>1, <1>2, <1>3, ApproveSound, RejectSound DEF ApprovalCall

LEMMA CrashSound ==
    ASSUME Typed, NEW c \in Clerks, Crash(c)
    PROVE  Sound(c)'
<1>1. clerk'[c] = Idle
  <2>1. clerk' = [clerk EXCEPT ![c] = Idle]
    BY DEF Crash
  <2> QED
    BY <2>1, Becomes
<1>2. Idle.pc = "idle"
  BY DEF Idle, Call
<1>3. ~synced' /\ flow' = flow
  BY DEF Crash
<1> HIDE DEF Idle
<1>4. Fine(Idle, row', inst', synced')
  BY <1>2, <1>3 DEF Fine
<1> QED
  BY <1>1, <1>3, <1>4, SoundNext

-----------------------------------------------------------------------------
(* The only call in flight is sound, so a quiet instance is good.          *)

Correct == Typed /\ \A c \in Clerks : Sound(c)

LEMMA CorrectInit == Init => Correct
<1> SUFFICES ASSUME Init, NEW c \in Clerks PROVE Sound(c)
  BY TypeInit DEF Correct
<1>1. clerk[c] = Idle /\ inst = "NONE"
  BY DEF Init
<1>2. Idle.pc = "idle" /\ Idle.todo = <<>>
  BY DEF Idle, Call
<1>3. Leaving(<<>>, inst)
  BY <1>1, TupleElements DEF Leaving, InstOf
<1> HIDE DEF Idle
<1> QED
  BY <1>1, <1>2, <1>3 DEF Sound, Fine

LEMMA CorrectNext == OneClerk /\ Correct /\ [Next]_vars => Correct'
<1> SUFFICES ASSUME OneClerk, Correct, [Next]_vars, NEW d \in Clerks PROVE Sound(d)'
  BY TypeNext DEF Correct
<1>1. Typed /\ Sound(d) /\ \A c \in Clerks : c = d
  BY DEF Correct, OneClerk
<1>2. CASE \E s \in Steps : TimerElapses(s)
  <2>1. flow' = flow /\ clerk' = clerk /\ row' = row /\ inst' = inst /\ synced' = synced
    BY <1>2 DEF TimerElapses
  <2> QED
    BY <1>1, <2>1, SoundNext DEF Sound
<1>3. CASE UNCHANGED vars
  <2>1. flow' = flow /\ clerk' = clerk /\ row' = row /\ inst' = inst /\ synced' = synced
    BY <1>3 DEF vars
  <2> QED
    BY <1>1, <2>1, SoundNext DEF Sound
<1>4. ASSUME NEW S \in SUBSET Steps, Retry(d, S) PROVE Sound(d)'
  BY <1>1, <1>4, BeginSync DEF Retry
<1> QED
  BY <1>1, <1>2, <1>3, <1>4, ExecuteKeeps, AdvanceSound, InstanceCallSound, StepCallSound,
     ApprovalCallSound, RemainingSound, CrashSound DEF Next

LEMMA QuietIsGood == OneClerk /\ Correct /\ Quiet => Good(row, inst)
<1> SUFFICES ASSUME OneClerk, Correct, Quiet PROVE Good(row, inst)
  OBVIOUS
<1>1. PICK c : c \in Clerks
  BY DEF OneClerk
<1>2. Fine(clerk[c], row, inst, synced) /\ clerk[c] = Idle /\ synced
  BY <1>1 DEF Correct, Sound, Quiet, Free
<1>3. Idle.pc = "idle" /\ Idle.todo = <<>>
  BY DEF Idle, Call
<1> HIDE DEF Idle
<1>4. Leaving(<<>>, inst) \/ Settled(<<>>, row, inst)
  BY <1>2, <1>3 DEF Fine
<1> QED
  BY <1>4, TupleElements DEF Leaving, Settled, InstOf, Good

\* When calls on the instance do not overlap, whatever they are and wherever they
\* die, a running instance that has been advanced has open the steps it depends on
\* no other step for, and only these (syncStepActivation), for every template.
THEOREM StepsInOrder == OneClerk /\ Spec => []InOrder
<1> SUFFICES ASSUME OneClerk PROVE Spec => []InOrder
  OBVIOUS
<1>1. Init => Correct
  BY CorrectInit
<1>2. Correct /\ [Next]_vars => Correct'
  BY CorrectNext
<1>3. Correct => InOrder
  BY QuietIsGood DEF InOrder, Quiet, Good, Ordered
<1> QED
  BY <1>1, <1>2, <1>3, PTL DEF Spec

\* When calls on the instance do not overlap, wherever they die, an advanced
\* instance is completed exactly when none of its steps is left to do, for every
\* template: the engine closes it, and opens it again if a step is reopened.
THEOREM InstanceClosed == OneClerk /\ Spec => []ClosedWhenDone
<1> SUFFICES ASSUME OneClerk PROVE Spec => []ClosedWhenDone
  OBVIOUS
<1>1. Init => Correct
  BY CorrectInit
<1>2. Correct /\ [Next]_vars => Correct'
  BY CorrectNext
<1>3. Correct => ClosedWhenDone
  BY QuietIsGood DEF ClosedWhenDone, Quiet, Good
<1> QED
  BY <1>1, <1>2, <1>3, PTL DEF Spec

-----------------------------------------------------------------------------
(* The approvals of an instance that is advanced by one call at a time.    *)
(* `book' is process_approvals, `table' step_progress, `hand' the reviews  *)
(* completed by hand, and `k' the call.                                    *)

Open(book, a) == book[a].status \in OpenStatuses

\* In the last round of its step.
Newest(book, a) ==
    \A b \in DOMAIN book : book[b].step = book[a].step => book[b].round <= book[a].round

Peers(book, a, b) == book[b].step = book[a].step /\ book[b].round = book[a].round

\* An approval is numbered by its place, is about a review, is open only in the
\* last round of its step, and waits only in a sequence.
Booked(book) ==
    \A a \in DOMAIN book :
        /\ book[a].code = a
        /\ flow.kind[book[a].step] = "REVIEW"
        /\ Open(book, a) => Newest(book, a)
        /\ book[a].status = "WAITING" => flow.mode[book[a].step] = "SEQUENTIAL"

\* While the engine looks at steps, one that is pending in memory is pending in
\* the table, unless the instance is being cancelled.
Remembers(k, table) ==
    /\ k.pc \in {"special", "round", "number", "open"} =>
          \A s \in Steps : k.rows[s].status = "PENDING" =>
              /\ table[s].status \in {"PENDING", "CANCELLED"}
              /\ \A w \in Elements(k.todo) : w.op \in {"steps", "byHand"} => s \notin w.on
    /\ k.pc \in {"round", "number", "open"} =>
          k.todo = <<>> /\ flow.kind[k.at] = "REVIEW" /\ k.rows[k.at].status = "PENDING"

\* The approvals of the round that is being opened are the last ones.
InRound(k, book, a) == a > Len(book) + 1 - k.draft.seq

Opening(k, book) ==
    /\ k.pc \in {"round", "number"} =>
          \A a \in DOMAIN book : book[a].step = k.at => ~Open(book, a)
    /\ k.pc = "number" =>
          /\ k.draft.seq = 1
          /\ \A a \in DOMAIN book : book[a].step = k.at => book[a].round < k.draft.round
    /\ k.pc = "open" =>
          /\ k.draft.code = Len(book) + 1
          /\ k.draft.seq \in 1 .. flow.approvers[k.at] /\ k.draft.seq <= Len(book) + 1
          /\ \A a \in DOMAIN book :
                /\ InRound(k, book, a) => /\ book[a].step = k.at /\ Open(book, a)
                                          /\ book[a].round = k.draft.round
                /\ book[a].step = k.at /\ ~InRound(k, book, a) =>
                      ~Open(book, a) /\ book[a].round < k.draft.round
                /\ a = Len(book) + 2 - k.draft.seq => book[a].status = "PENDING"

\* A decision comes first, is about an approval that is open, of a step somebody
\* can complete, and is followed by what it entails.
Stamping(k, book, table) ==
    \A w \in Elements(k.todo) : w.op = "stamp" =>
          /\ \A v \in Elements(Tail(k.todo)) : v.op # "stamp"
          /\ w.id \in DOMAIN book /\ Open(book, w.id)
          /\ table[book[w.id].step].status \in Completable
          /\ w.status # "WAITING"
          /\ w.status \notin OpenStatuses =>
                \/ k.pc = "remaining" /\ k.at = w.id
                \/ \E v \in Elements(k.todo) : v.op = "closeOthers" /\ v.id = w.id

ClosingOthers(k, book) ==
    \A w \in Elements(k.todo) : w.op = "closeOthers" =>
        /\ w.id \in DOMAIN book /\ Newest(book, w.id)
        /\ Open(book, w.id) => \E v \in Elements(k.todo) : /\ v.op = "stamp" /\ v.id = w.id
                                                           /\ v.status \notin OpenStatuses

Counting(k, book, table) ==
    k.pc = "remaining" =>
        /\ k.at \in DOMAIN book /\ Newest(book, k.at)
        /\ table[book[k.at].step].status \in Completable
        /\ flow.mode[book[k.at].step] # "ANY"
        /\ \A w \in Elements(k.todo) : w = Stamp(k.at, "APPROVED")
        /\ k.todo = <<>> => book[k.at].status = "APPROVED"

Tidy(k, book, table) ==
    /\ Booked(book)
    /\ Remembers(k, table) /\ Opening(k, book)
    /\ Stamping(k, book, table) /\ ClosingOthers(k, book) /\ Counting(k, book, table)

-----------------------------------------------------------------------------
(* Where no call has died.                                                 *)

Closes(w, book, s) == \/ w.op = "closeOf" /\ s \in w.on
                      \/ w.op = "closeOthers" /\ book[w.id].step = s

\* The call has given, or will give, the step one of these statuses.
Moves(w, s, statuses) ==
    \/ w.op = "drop" /\ "CANCELLED" \in statuses
    \/ w.op \in {"steps", "byHand"} /\ s \in w.on /\ w.status \in statuses
Ends(todo, table, s, statuses) ==
    table[s].status \in statuses \/ \E w \in Elements(todo) : Moves(w, s, statuses)

\* A step out of reach of its approvers loses its open approvals.
Over(k)   == {"COMPLETED", "REJECTED"} \cup
                IF k.pc \in {"idle", "remaining"} THEN {"WAITING", "SKIPPED", "CANCELLED"} ELSE {}
Withdrawn(k, book, table) ==
    \A a \in DOMAIN book :
        Open(book, a) /\ Ends(k.todo, table, book[a].step, Over(k))
            => \E w \in Elements(k.todo) : Closes(w, book, book[a].step)

\* A step with open approvals has one somebody can decide.
Called(k, book) ==
    \A a \in DOMAIN book : Open(book, a) =>
        \/ \E b \in DOMAIN book : /\ book[b].step = book[a].step /\ Open(book, b)
                                  /\ book[b].status # "WAITING"
        \/ k.pc = "remaining" /\ book[k.at].step = book[a].step
        \/ \E w \in Elements(k.todo) : /\ w.op \in {"stamp", "closeOthers"}
                                       /\ book[w.id].step = book[a].step

\* In a round that is open everybody who decided approved.
Agrees(book, b) == Open(book, b) \/ book[b].status = "APPROVED"
Agreed(k, book) ==
    /\ \A a \in DOMAIN book : Open(book, a) =>
          \/ \A b \in DOMAIN book : Peers(book, a, b) => Agrees(book, b)
          \/ \E w \in Elements(k.todo) : /\ w.op = "closeOthers"
                                         /\ book[w.id].step = book[a].step
    /\ k.pc = "remaining" =>
          \A b \in DOMAIN book : Peers(book, k.at, b) => Agrees(book, b)

\* The last round of a step has as many approvals as the step has approvers.
Last(book, s) == {a \in DOMAIN book : book[a].step = s /\ Newest(book, a)}
Whole(book, s) ==
    \E f \in DOMAIN book : Last(book, s) = f .. (f + flow.approvers[s] - 1)
\* Except where an insertion failed (`short'), or the round is being opened.
Partly(k, s) == k.pc = "open" /\ k.draft.seq > 1 /\ k.at = s
Complete(k, book, short) ==
    \A a \in DOMAIN book : \/ Whole(book, book[a].step) \/ book[a].step \in short
                          \/ Partly(k, book[a].step)
WholeBut(book, short) ==
    \A a \in DOMAIN book : Whole(book, book[a].step) \/ book[a].step \in short

\* The step has been approved as its template asks.
Consent(book, s) ==
    /\ \E a \in Last(book, s) : book[a].status = "APPROVED"
    /\ flow.mode[s] # "ANY" => \A a \in Last(book, s) : book[a].status = "APPROVED"

Grants(k, w, book, s) ==
    w.op = "steps" /\ s \in w.on /\ w.status = "COMPLETED" =>
        /\ w.result # "KEEP"
        /\ w.result = "APPROVED" =>
              \/ Consent(book, s)
              \/ /\ flow.mode[s] = "ANY"
                 /\ \E v \in Elements(k.todo) : /\ v.op = "stamp" /\ v.status = "APPROVED"
                                                /\ book[v.id].step = s
Granted(k, book, table, hand) ==
    \A s \in Steps : flow.kind[s] = "REVIEW" =>
        /\ table[s].status = "COMPLETED" /\ table[s].result = "APPROVED" /\ s \notin hand
              => Consent(book, s)
        /\ \A w \in Elements(k.todo) : Grants(k, w, book, s)

Decided(k, book, table, hand, short) ==
    /\ Withdrawn(k, book, table) /\ Called(k, book) /\ Agreed(k, book)
    /\ Complete(k, book, short) /\ Granted(k, book, table, hand)

-----------------------------------------------------------------------------
(* Every review that is pending is open, once the instance is advanced.    *)

Asked(book, s) == \E a \in DOMAIN book : book[a].step = s /\ Open(book, a)
Reviewing(rows, s) == flow.kind[s] = "REVIEW" /\ rows[s].status = "PENDING"

Waited(k, book, table, status, quiet) ==
    /\ k.pc = "special" /\ ~k.changed /\ ~Leaving(k.todo, status) =>
          \A s \in Steps : s <= k.at /\ Reviewing(k.rows, s) => Asked(book, s)
    /\ k.pc \in {"round", "number", "open"} /\ ~k.changed /\ ~Leaving(k.todo, status) =>
          \A s \in Steps : s < k.at /\ Reviewing(k.rows, s) => Asked(book, s)
    /\ k.pc = "cleanup" /\ k.todo = <<>> /\ ~k.changed /\ status = "IN_PROGRESS" =>
          \A s \in Steps : Reviewing(table, s) => Asked(book, s)
    /\ k.pc \in {"idle", "remaining"} /\ quiet /\ status = "IN_PROGRESS"
          /\ ~Leaving(k.todo, status) =>
          /\ \A s \in Steps : Reviewing(table, s) =>
                Asked(book, s) \/ (k.pc = "remaining" /\ book[k.at].step = s)
          /\ \A w \in Elements(k.todo) :
                /\ w.op \notin {"closeOf", "closeOthers"}
                /\ w.op = "stamp" /\ k.pc = "idle" => w.status \in OpenStatuses

\* What the only call in flight knows of the approvals.
Reviewed(c) ==
    /\ Tidy(clerk[c], approvals, row)
    /\ crashes = 0 => Decided(clerk[c], approvals, row, byHand, cut)
    /\ Waited(clerk[c], approvals, row, inst, synced)

-----------------------------------------------------------------------------
(* What executing a statement does, as a relation between values.          *)

SameBook(book, next) ==
    /\ DOMAIN next = DOMAIN book
    /\ \A a \in DOMAIN book : /\ next[a].step = book[a].step /\ next[a].round = book[a].round
                              /\ next[a].code = book[a].code

\* The statement closes the approval.
Hits(w, book, a) ==
    /\ Open(book, a)
    /\ \/ w.op = "closeOf" /\ book[a].step \in w.on
       \/ w.op = "closeOthers" /\ a # w.id /\ Peers(book, w.id, a)

BookWritten(w, book, next) ==
    /\ SameBook(book, next)
    /\ \A a \in DOMAIN book :
          next[a].status = IF w.op = "stamp" /\ a = w.id THEN w.status
                           ELSE IF Hits(w, book, a) THEN "CANCELLED"
                           ELSE book[a].status

\* One step: it keeps its status, or is written by the statement.
StepWritten(w, s, old, new, was, is) ==
    \/ /\ new.status = old.status
       /\ new.result = old.result \/ new.result # "APPROVED"
       /\ was => is
    \/ /\ w.op = "steps" /\ s \in w.on /\ new.status = w.status
       /\ new.result = IF w.result = "KEEP" THEN old.result ELSE w.result
    \/ w.op = "byHand" /\ s \in w.on /\ new.status = w.status /\ (flow.kind[s] = "REVIEW" => is)
    \/ w.op \in {"returnEach", "returnAll", "returnRejected"} /\ new.status = "PENDING"
    \/ w.op = "drop" /\ new.status = "CANCELLED"
TableWritten(w, table, next, hand, after) ==
    \A s \in Steps : StepWritten(w, s, table[s], next[s], s \in hand, s \in after)

\* The call after its first statement.
CallWritten(w, k, n) ==
    /\ k.todo # <<>> /\ w = Head(k.todo)
    /\ n.pc = k.pc /\ n.at = k.at /\ n.rows = k.rows /\ n.changed = k.changed
    /\ n.draft = k.draft
    /\ w \in Elements(k.todo) /\ Elements(Tail(k.todo)) \subseteq Elements(k.todo)
    /\ \A v \in Elements(k.todo) : v = w \/ v \in Elements(n.todo)
    /\ \A v \in Elements(n.todo) :
          v \in Elements(Tail(k.todo)) \/ (v.op = "returnEach" /\ w.op = "returnEach")

LEMMA ListWritten ==
    ASSUME Typed, NEW c \in Clerks, Execute(c)
    PROVE  LET k == clerk[c]
               n == clerk'[c]
               w == Writes(c)
           IN  /\ w \in Elements(k.todo) /\ Elements(Tail(k.todo)) \subseteq Elements(k.todo)
               /\ \A v \in Elements(k.todo) : v = w \/ v \in Elements(n.todo)
               /\ \A v \in Elements(n.todo) :
                     v \in Elements(Tail(k.todo)) \/ (v.op = "returnEach" /\ w.op = "returnEach")
<1> DEFINE k == clerk[c]
           n == clerk'[c]
           w == Writes(c)
           rest == Tail(k.todo)
<1>1. k.todo \in Seq(Statements) /\ k.todo # <<>> /\ w = Head(k.todo)
  BY CallValues, ExecuteFacts
<1>2. Elements(k.todo) = {w} \cup Elements(rest) /\ rest \in Seq(Statements)
  BY <1>1, RestElements, HeadTail
<1>3. \/ n.todo = rest
      \/ w.op = "returnEach" /\ \E S \in SUBSET Steps : n.todo = <<ReturnEach(S)>> \o rest
  BY ExecuteFacts
<1>4. n.todo # rest => \E S \in SUBSET Steps : Elements(n.todo) = {ReturnEach(S)} \cup Elements(rest)
  <2> SUFFICES ASSUME NEW S \in SUBSET Steps, n.todo = <<ReturnEach(S)>> \o rest
               PROVE  Elements(n.todo) = {ReturnEach(S)} \cup Elements(rest)
    BY <1>3
  <2>1. <<ReturnEach(S)>> \in Seq(Statements)
    BY StatementTypes, ListTypes
  <2> QED
    BY <1>2, <2>1, JoinElements, TupleElements
<1>5. \A S : ReturnEach(S).op = "returnEach"
  BY DEF ReturnEach, Statement
<1> HIDE DEF k, n, w, rest
<1>6. CASE n.todo = rest
  BY <1>2, <1>6 DEF k, n, w, rest
<1>7. CASE n.todo # rest
  <2>1. PICK S \in SUBSET Steps : Elements(n.todo) = {ReturnEach(S)} \cup Elements(rest)
    BY <1>4, <1>7
  <2> QED
    BY <1>2, <1>3, <1>5, <1>7, <2>1 DEF k, n, w, rest
<1> QED
  BY <1>6, <1>7

LEMMA ExecutesCall ==
    ASSUME Typed, NEW c \in Clerks, Execute(c)
    PROVE  CallWritten(Writes(c), clerk[c], clerk'[c])
  BY ListWritten, ExecuteFacts DEF CallWritten

LEMMA ExecutesBook ==
    ASSUME Typed, NEW c \in Clerks, Execute(c)
    PROVE  BookWritten(Writes(c), approvals, approvals')
<1> DEFINE w == Writes(c)
<1>1. w \in Statements /\ clerk[c].todo # <<>> /\ \A op : Doing(c, op) <=> op = w.op
  BY ExecuteFacts DEF Doing, Writes
<1>2. CASE WriteStamp(c)
  <2>1. w.op = "stamp" /\ approvals' = [approvals EXCEPT ![w.id] = Moved(@, w.status)]
    BY <1>1, <1>2 DEF WriteStamp
  <2>2. \A a : Moved(a, w.status).step = a.step /\ Moved(a, w.status).round = a.round
               /\ Moved(a, w.status).code = a.code /\ Moved(a, w.status).status = w.status
    BY DEF Moved, Approval
  <2>3. DOMAIN approvals' = DOMAIN approvals
    BY <2>1
  <2>4. \A a \in DOMAIN approvals :
           approvals'[a] = IF a = w.id THEN Moved(approvals[a], w.status) ELSE approvals[a]
    BY <2>1
  <2> HIDE DEF w
  <2>5. \A a : ~Hits(w, approvals, a)
    BY <2>1 DEF Hits
  <2>6. BookWritten(w, approvals, approvals')
    BY <2>1, <2>2, <2>3, <2>4, <2>5 DEF BookWritten, SameBook
  <2> QED
    BY <2>6 DEF w
<1>3. CASE WriteClose(c)
  <2>1. PICK S : /\ \/ w.op = "closeOf" /\ S = {a \in Ids : approvals[a].step \in w.on}
                    \/ w.op = "closeOthers" /\ S = SameRound(w.id) \ {w.id}
                 /\ approvals' = CloseAll(S)
    BY <1>1, <1>3 DEF WriteClose
  <2>2. \A a : /\ Moved(a, "CANCELLED").step = a.step /\ Moved(a, "CANCELLED").round = a.round
               /\ Moved(a, "CANCELLED").code = a.code /\ Moved(a, "CANCELLED").status = "CANCELLED"
    BY DEF Moved, Approval
  <2>3. DOMAIN approvals' = DOMAIN approvals
    BY <2>1 DEF CloseAll, Ids
  <2>4. \A a \in DOMAIN approvals :
           approvals'[a] = IF a \in S /\ Open(approvals, a) THEN Moved(approvals[a], "CANCELLED")
                           ELSE approvals[a]
    BY <2>1 DEF CloseAll, Ids, IsOpen, Open
  <2> HIDE DEF w
  <2>5. \A a \in DOMAIN approvals : Hits(w, approvals, a) <=> a \in S /\ Open(approvals, a)
    BY <2>1 DEF Hits, Ids, SameRound, OfStep, Peers
  <2>6. w.op # "stamp"
    BY <2>1
  <2>7. BookWritten(w, approvals, approvals')
    BY <2>2, <2>3, <2>4, <2>5, <2>6 DEF BookWritten, SameBook
  <2> QED
    BY <2>7 DEF w
<1>4. CASE ~WriteStamp(c) /\ ~WriteClose(c)
  <2>1. approvals' = approvals /\ w.op \notin {"stamp", "closeOf", "closeOthers"}
    BY <1>1, <1>4 DEF Execute, WriteSteps, WriteTimer, WriteReturn, WriteReturns, WriteReturnAll,
                      WriteReturnRejected, WriteDrop, WriteInst
  <2> HIDE DEF w
  <2>2. BookWritten(w, approvals, approvals')
    BY <2>1 DEF BookWritten, SameBook, Hits
  <2> QED
    BY <2>2 DEF w
<1> QED
  BY <1>2, <1>3, <1>4

LEMMA ReturnsTable ==
    ASSUME NEW S, WriteReturns(S), NEW w, w.op \in {"returnEach", "returnAll", "returnRejected"}
    PROVE  TableWritten(w, row, row', byHand, byHand')
<1> SUFFICES ASSUME NEW s \in Steps
             PROVE  StepWritten(w, s, row[s], row'[s], s \in byHand, s \in byHand')
  BY DEF TableWritten
<1>1. row'[s] = IF s \in S THEN Row("PENDING", row[s].result, row[s].returns + 1) ELSE row[s]
  BY DEF WriteReturns
<1>2. s \in byHand' <=> s \in byHand /\ s \notin S
  BY DEF WriteReturns
<1>3. Row("PENDING", row[s].result, row[s].returns + 1).status = "PENDING"
  BY DEF Row
<1> QED
  BY <1>1, <1>2, <1>3 DEF StepWritten

LEMMA ExecutesTable ==
    ASSUME Typed, NEW c \in Clerks, Execute(c)
    PROVE  TableWritten(Writes(c), row, row', byHand, byHand')
<1> DEFINE w == Writes(c)
<1>1. w \in Statements /\ clerk[c].todo # <<>> /\ \A op : Doing(c, op) <=> op = w.op
  BY ExecuteFacts DEF Doing, Writes
<1>2. \A status, result, n : Row(status, result, n).status = status /\ Row(status, result, n).result = result
  BY DEF Row
<1>3. CASE \E op \in {"steps", "byHand"} : WriteSteps(c, op)
  <2>1. /\ w.op \in {"steps", "byHand"}
        /\ row' = [s \in Steps |->
                 IF s \notin w.on THEN row[s]
                 ELSE IF w.result = "KEEP" THEN Row(w.status, row[s].result, row[s].returns)
                 ELSE Row(w.status, w.result, row[s].returns)]
        /\ byHand' = IF w.op = "byHand" THEN byHand \cup {s \in w.on : flow.kind[s] = "REVIEW"}
                     ELSE byHand \ w.on
    BY <1>1, <1>3 DEF WriteSteps
  <2> HIDE DEF w
  <2>2. ASSUME NEW s \in Steps
        PROVE  StepWritten(w, s, row[s], row'[s], s \in byHand, s \in byHand')
    <3>1. CASE s \notin w.on
      <4>1. row'[s] = row[s] /\ (s \in byHand => s \in byHand')
        BY <2>1, <3>1
      <4> QED
        BY <4>1 DEF StepWritten
    <3>2. CASE s \in w.on /\ w.op = "steps"
      BY <1>2, <2>1, <3>2 DEF StepWritten
    <3>3. CASE s \in w.on /\ w.op = "byHand"
      <4>1. row'[s].status = w.status
        BY <1>2, <2>1, <3>3
      <4>2. flow.kind[s] = "REVIEW" => s \in byHand'
        BY <2>1, <3>3
      <4> QED
        BY <3>3, <4>1, <4>2 DEF StepWritten
    <3> QED
      BY <2>1, <3>1, <3>2, <3>3
  <2>3. TableWritten(w, row, row', byHand, byHand')
    BY <2>2 DEF TableWritten
  <2> QED
    BY <2>3 DEF w
<1>4. CASE WriteTimer(c)
  <2>1. row' = [s \in Steps |-> IF s \in w.on THEN Row(row[s].status, "TIMER_SET", row[s].returns)
                                ELSE row[s]]
    BY <1>4 DEF WriteTimer
  <2>2. byHand' = byHand
    BY <1>4 DEF WriteTimer
  <2> HIDE DEF w
  <2>3. TableWritten(w, row, row', byHand, byHand')
    BY <1>2, <2>1, <2>2 DEF TableWritten, StepWritten
  <2> QED
    BY <2>3 DEF w
<1>5. CASE (\E s \in Steps : WriteReturn(c, s)) \/ WriteReturnAll(c) \/ WriteReturnRejected(c)
  <2>1. w.op \in {"returnEach", "returnAll", "returnRejected"} /\ \E S : WriteReturns(S)
    BY <1>1, <1>5 DEF WriteReturn, WriteReturnAll, WriteReturnRejected
  <2> HIDE DEF w
  <2>2. TableWritten(w, row, row', byHand, byHand')
    BY <2>1, ReturnsTable
  <2> QED
    BY <2>2 DEF w
<1>6. CASE WriteDrop(c)
  <2>1. w.op = "drop" /\ row' = SetStatus(row, Unfinished(row), "CANCELLED") /\ byHand' = byHand
    BY <1>1, <1>6 DEF WriteDrop
  <2> HIDE DEF w
  <2>2. TableWritten(w, row, row', byHand, byHand')
    BY <1>2, <2>1 DEF TableWritten, StepWritten, SetStatus
  <2> QED
    BY <2>2 DEF w
<1>7. CASE WriteInst(c) \/ WriteStamp(c) \/ WriteClose(c)
  <2>1. row' = row /\ byHand' = byHand
    BY <1>7 DEF WriteInst, WriteStamp, WriteClose
  <2> HIDE DEF w
  <2>2. TableWritten(w, row, row', byHand, byHand')
    BY <2>1 DEF TableWritten, StepWritten
  <2> QED
    BY <2>2 DEF w
<1> QED
  BY <1>3, <1>4, <1>5, <1>6, <1>7 DEF Execute

-----------------------------------------------------------------------------
(* Executing a statement keeps what the call knows.                        *)

\* One statement of a call, seen from its approvals.
Executes(w, k, n, book, next) ==
    /\ CallWritten(w, k, n) /\ BookWritten(w, book, next) /\ book \in Seq(Approvals)

LEMMA RoundType ==
    ASSUME NEW book \in Seq(Approvals), NEW a \in DOMAIN book
    PROVE  book[a].round \in Nat /\ book[a].step \in Steps
<1>1. book[a] \in Approvals
  OBVIOUS
<1> QED
  BY <1>1 DEF Approvals

LEMMA SameNewest ==
    ASSUME NEW book, NEW next, SameBook(book, next)
    PROVE  /\ \A a \in DOMAIN book : Newest(next, a) <=> Newest(book, a)
           /\ \A a, b \in DOMAIN book : Peers(next, a, b) <=> Peers(book, a, b)
           /\ \A s : Last(next, s) = Last(book, s)
           /\ \A s : Whole(next, s) <=> Whole(book, s)
<1>1. \A a \in DOMAIN book : Newest(next, a) <=> Newest(book, a)
  BY DEF SameBook, Newest
<1>2. \A s : Last(next, s) = Last(book, s)
  BY <1>1 DEF SameBook, Last
<1>3. \A s : Whole(next, s) <=> Whole(book, s)
  BY <1>2 DEF SameBook, Whole
<1> QED
  BY <1>1, <1>2, <1>3 DEF SameBook, Peers

\* Approvals are only closed, or answered.
LEMMA BookShrinks ==
    ASSUME NEW w, NEW k, NEW n, NEW book, NEW next, NEW table,
           Executes(w, k, n, book, next), Tidy(k, book, table)
    PROVE  /\ SameBook(book, next)
           /\ \A v \in Elements(k.todo) : v.op = "stamp" => v = w
           /\ \A v \in Elements(n.todo) :
                 v.op # "stamp" /\ (v.op # "returnEach" => v \in Elements(k.todo))
           /\ \A a \in DOMAIN book : /\ Open(next, a) => Open(book, a)
                                     /\ next[a].status = book[a].status \/ Open(book, a)
           /\ \A s : Closes(w, book, s) =>
                 \A a \in DOMAIN book : book[a].step = s => ~Open(next, a)
<1>1. SameBook(book, next) /\ DOMAIN next = DOMAIN book
  BY DEF Executes, BookWritten, SameBook
<1>2. \A v \in Elements(n.todo) :
         v.op # "stamp" /\ (v.op # "returnEach" => v \in Elements(k.todo))
  BY DEF Executes, CallWritten, Tidy, Stamping
<1>3. \A v \in Elements(k.todo) : v.op = "stamp" => v = w
  BY <1>2 DEF Executes, CallWritten
<1>4. w.op = "stamp" => w.id \in DOMAIN book /\ Open(book, w.id)
  BY DEF Executes, CallWritten, Tidy, Stamping
<1>5. \A a \in DOMAIN book : /\ Open(next, a) => Open(book, a)
                             /\ next[a].status = book[a].status \/ Open(book, a)
  BY <1>4 DEF Executes, BookWritten, Hits, Open, OpenStatuses
<1>6. ASSUME NEW s, Closes(w, book, s), NEW a \in DOMAIN book, book[a].step = s, Open(next, a)
      PROVE  FALSE
  <2>1. Open(book, a) /\ Newest(book, a)
    BY <1>5, <1>6 DEF Tidy, Booked
  <2>2. ~Hits(w, book, a)
    BY <1>6 DEF Executes, BookWritten, Open, OpenStatuses, Closes
  <2>3. w.op = "closeOthers" /\ book[w.id].step = s
    BY <1>6, <2>1, <2>2 DEF Hits, Closes
  <2>4. w.id \in DOMAIN book /\ Newest(book, w.id)
    BY <2>3 DEF Executes, CallWritten, Tidy, ClosingOthers
  <2>5. book[a].round \in Nat /\ book[w.id].round \in Nat
    BY <2>4, RoundType DEF Executes
  <2>6. book[a].round = book[w.id].round
    BY <1>6, <2>1, <2>3, <2>4, <2>5 DEF Newest
  <2>7. a = w.id
    BY <1>6, <2>1, <2>2, <2>3, <2>6 DEF Hits, Peers
  <2>8. \E v \in Elements(k.todo) : v.op = "stamp"
    BY <2>1, <2>3, <2>7 DEF Executes, CallWritten, Tidy, ClosingOthers
  <2> QED
    BY <1>3, <2>3, <2>8
<1> QED
  BY <1>1, <1>2, <1>3, <1>5, <1>6

LEMMA BookedKept ==
    ASSUME NEW w, NEW k, NEW n, NEW book, NEW next, NEW table,
           Executes(w, k, n, book, next), Tidy(k, book, table)
    PROVE  Booked(next)
<1>1. SameBook(book, next) /\ \A a \in DOMAIN book : Open(next, a) => Open(book, a)
  BY BookShrinks
<1>2. \A a \in DOMAIN book : Newest(next, a) <=> Newest(book, a)
  BY <1>1, SameNewest
<1>3. \A a \in DOMAIN book : next[a].status = "WAITING" => book[a].status = "WAITING"
  BY DEF Executes, BookWritten, CallWritten, Tidy, Stamping
<1> QED
  BY <1>1, <1>2, <1>3 DEF Tidy, Booked, SameBook

\* Nothing is executed while a round is opened.
LEMMA RemembersKept ==
    ASSUME NEW w, NEW k, NEW n, NEW book, NEW next, NEW table, NEW after, NEW hand, NEW hands,
           Executes(w, k, n, book, next), Tidy(k, book, table),
           TableWritten(w, table, after, hand, hands)
    PROVE  /\ k.pc \notin {"round", "number", "open"}
           /\ Remembers(n, after) /\ Opening(n, next)
<1>1. k.todo # <<>> /\ n.pc = k.pc /\ n.rows = k.rows /\ w \in Elements(k.todo)
  BY DEF Executes, CallWritten
<1>2. k.pc \notin {"round", "number", "open"}
  BY <1>1 DEF Tidy, Remembers
<1>3. Opening(n, next)
  BY <1>1, <1>2 DEF Opening
<1>4. ASSUME k.pc = "special", NEW s \in Steps, k.rows[s].status = "PENDING"
      PROVE  /\ after[s].status \in {"PENDING", "CANCELLED"}
             /\ \A v \in Elements(n.todo) : v.op \in {"steps", "byHand"} => s \notin v.on
  <2>1. /\ table[s].status \in {"PENDING", "CANCELLED"}
        /\ \A v \in Elements(k.todo) : v.op \in {"steps", "byHand"} => s \notin v.on
    BY <1>4 DEF Tidy, Remembers
  <2>2. StepWritten(w, s, table[s], after[s], s \in hand, s \in hands)
    BY DEF TableWritten
  <2>3. after[s].status \in {"PENDING", "CANCELLED"}
    BY <1>1, <2>1, <2>2 DEF StepWritten
  <2>4. \A v \in Elements(n.todo) : v.op # "returnEach" => v \in Elements(k.todo)
    BY BookShrinks
  <2> QED
    BY <2>1, <2>3, <2>4
<1>5. Remembers(n, after)
  BY <1>1, <1>2, <1>4 DEF Remembers
<1> QED
  BY <1>2, <1>3, <1>5

LEMMA StampingKept ==
    ASSUME NEW w, NEW k, NEW n, NEW book, NEW next, NEW table, NEW after,
           Executes(w, k, n, book, next), Tidy(k, book, table),
           w.op = "stamp" => after = table
    PROVE  Stamping(n, next, after) /\ ClosingOthers(n, next) /\ Counting(n, next, after)
<1>1. /\ \A v \in Elements(n.todo) :
            v.op # "stamp" /\ (v.op # "returnEach" => v \in Elements(k.todo))
      /\ \A v \in Elements(k.todo) : v.op = "stamp" => v = w
      /\ SameBook(book, next) /\ DOMAIN next = DOMAIN book
  BY BookShrinks DEF SameBook
<1>2. /\ n.pc = k.pc /\ n.at = k.at /\ w \in Elements(k.todo) /\ w = Head(k.todo)
      /\ k.todo # <<>>
  BY DEF Executes, CallWritten
<1>3. Stamping(n, next, after)
  BY <1>1 DEF Stamping
<1>4. ASSUME NEW v \in Elements(n.todo), v.op = "closeOthers"
      PROVE  v.id \in DOMAIN next /\ Newest(next, v.id) /\ ~Open(next, v.id)
  <2>1. v \in Elements(k.todo) /\ v.id \in DOMAIN book /\ Newest(book, v.id)
    BY <1>1, <1>4 DEF Tidy, ClosingOthers
  <2>2. ASSUME Open(next, v.id) PROVE FALSE
    <3>1. Open(book, v.id)
      BY <2>1, <2>2, BookShrinks
    <3>2. PICK u \in Elements(k.todo) : u.op = "stamp" /\ u.id = v.id /\ u.status \notin OpenStatuses
      BY <1>4, <2>1, <3>1 DEF Tidy, ClosingOthers
    <3>3. next[v.id].status = u.status
      BY <1>1, <2>1, <3>2 DEF Executes, BookWritten
    <3> QED
      BY <2>2, <3>2, <3>3 DEF Open
  <2> QED
    BY <1>1, <2>1, <2>2, SameNewest
<1>5. ClosingOthers(n, next)
  BY <1>4 DEF ClosingOthers
<1>6. ASSUME k.pc = "remaining" PROVE Counting(n, next, after)
  <2>1. /\ k.at \in DOMAIN book /\ Newest(book, k.at)
        /\ table[book[k.at].step].status \in Completable
        /\ flow.mode[book[k.at].step] # "ANY"
        /\ \A v \in Elements(k.todo) : v = Stamp(k.at, "APPROVED")
    BY <1>6 DEF Tidy, Counting
  <2>2. w = Stamp(k.at, "APPROVED")
    BY <1>2, <2>1
  <2>3. w.op = "stamp" /\ w.id = k.at /\ w.status = "APPROVED"
    BY <2>2 DEF Stamp, Statement
  <2>4. next[k.at].status = "APPROVED"
    BY <2>1, <2>3 DEF Executes, BookWritten
  <2>5. Newest(next, k.at) /\ next[k.at].step = book[k.at].step
    BY <1>1, <2>1, SameNewest DEF SameBook
  <2>6. \A v \in Elements(n.todo) : v = Stamp(k.at, "APPROVED")
    BY <1>1, <2>1, <2>3 DEF Executes, CallWritten
  <2> QED
    BY <1>1, <1>2, <2>1, <2>3, <2>4, <2>5, <2>6 DEF Counting
<1> QED
  BY <1>2, <1>3, <1>5, <1>6 DEF Counting

LEMMA WithdrawnKept ==
    ASSUME NEW w, NEW k, NEW n, NEW book, NEW next, NEW table, NEW after, NEW hand, NEW hands,
           Executes(w, k, n, book, next), Tidy(k, book, table),
           TableWritten(w, table, after, hand, hands), Withdrawn(k, book, table)
    PROVE  Withdrawn(n, next, after)
<1> SUFFICES ASSUME NEW a \in DOMAIN book, Open(next, a),
                    Ends(n.todo, after, next[a].step, Over(n))
             PROVE  \E v \in Elements(n.todo) : Closes(v, next, next[a].step)
  BY BookShrinks DEF Withdrawn, SameBook
<1> DEFINE s == book[a].step
<1>1. next[a].step = s /\ Open(book, a) /\ s \in Steps /\ Over(n) = Over(k)
  BY BookShrinks, RoundType DEF Executes, CallWritten, SameBook, Over
<1>2. Over(k) \subseteq {"COMPLETED", "REJECTED", "WAITING", "SKIPPED", "CANCELLED"}
  BY DEF Over
<1>3. /\ w \in Elements(k.todo)
      /\ \A v \in Elements(k.todo) : v = w \/ v \in Elements(n.todo)
  BY DEF Executes, CallWritten
<1>4. \A v \in Elements(n.todo) : v.op # "returnEach" => v \in Elements(k.todo)
  BY BookShrinks
<1>5. StepWritten(w, s, table[s], after[s], s \in hand, s \in hands)
  BY <1>1 DEF TableWritten
<1>6. Ends(n.todo, after, s, Over(k))
  BY <1>1
<1> HIDE DEF s
<1>7. Ends(k.todo, table, s, Over(k))
  <2>1. CASE \E v \in Elements(n.todo) : Moves(v, s, Over(k))
    BY <1>4, <2>1 DEF Ends, Moves
  <2>2. CASE after[s].status \in Over(k)
    BY <1>2, <1>3, <1>5, <2>2 DEF StepWritten, Ends, Moves
  <2> QED
    BY <1>6, <2>1, <2>2 DEF Ends
<1>8. PICK v \in Elements(k.todo) : Closes(v, book, s)
  BY <1>1, <1>7 DEF Withdrawn, s
<1>9. v # w
  BY <1>8, BookShrinks DEF s
<1>10. v \in Elements(n.todo)
  BY <1>3, <1>9
<1>11. Closes(v, next, s)
  <2>1. v.op = "closeOthers" => v.id \in DOMAIN book
    BY DEF Tidy, ClosingOthers
  <2>2. v.op = "closeOthers" => next[v.id].step = book[v.id].step
    BY <2>1, BookShrinks DEF SameBook
  <2> QED
    BY <1>8, <2>2 DEF Closes
<1> QED
  BY <1>1, <1>10, <1>11

\* An approval that is open stays so, or its step is closed with it.
LEMMA CalledKept ==
    ASSUME NEW w, NEW k, NEW n, NEW book, NEW next, NEW table,
           Executes(w, k, n, book, next), Tidy(k, book, table), Called(k, book)
    PROVE  Called(n, next)
<1> SUFFICES ASSUME NEW a \in DOMAIN book, Open(next, a)
             PROVE  \/ \E b \in DOMAIN book : /\ next[b].step = next[a].step /\ Open(next, b)
                                              /\ next[b].status # "WAITING"
                    \/ n.pc = "remaining" /\ next[n.at].step = next[a].step
                    \/ \E v \in Elements(n.todo) : /\ v.op \in {"stamp", "closeOthers"}
                                                   /\ next[v.id].step = next[a].step
  BY BookShrinks DEF Called, SameBook
<1> DEFINE s == book[a].step
<1>1. /\ \A b \in DOMAIN book : next[b].step = book[b].step
      /\ Open(book, a) /\ DOMAIN next = DOMAIN book
      /\ n.pc = k.pc /\ n.at = k.at /\ w \in Elements(k.todo)
      /\ \A v \in Elements(k.todo) : v = w \/ v \in Elements(n.todo)
  BY BookShrinks DEF Executes, CallWritten, SameBook
<1>2. ~Closes(w, book, s)
  BY BookShrinks
<1>3. k.pc = "remaining" => k.at \in DOMAIN book
  BY DEF Tidy, Counting
<1>4. \A v \in Elements(k.todo) : v.op \in {"stamp", "closeOthers"} => v.id \in DOMAIN book
  BY DEF Tidy, Stamping, ClosingOthers
<1>5. CASE w.op = "stamp" /\ book[w.id].step = s
  <2>1. /\ w.id \in DOMAIN book /\ next[w.id].status = w.status /\ w.status # "WAITING"
        /\ w.status \notin OpenStatuses =>
              \/ k.pc = "remaining" /\ k.at = w.id
              \/ \E v \in Elements(k.todo) : v.op = "closeOthers" /\ v.id = w.id
    BY <1>1, <1>5 DEF Tidy, Stamping, Executes, BookWritten
  <2>2. CASE w.status \in OpenStatuses
    BY <1>1, <1>5, <2>1, <2>2 DEF Open
  <2>3. CASE w.status \notin OpenStatuses
    BY <1>1, <1>5, <2>1, <2>3
  <2> QED
    BY <2>2, <2>3
<1>6. CASE ~(w.op = "stamp" /\ book[w.id].step = s)
  <2>1. \/ \E b \in DOMAIN book : /\ book[b].step = s /\ Open(book, b)
                                  /\ book[b].status # "WAITING"
        \/ k.pc = "remaining" /\ book[k.at].step = s
        \/ \E v \in Elements(k.todo) : v.op \in {"stamp", "closeOthers"} /\ book[v.id].step = s
    BY <1>1 DEF Called
  <2>2. ASSUME NEW b \in DOMAIN book, book[b].step = s, Open(book, b), book[b].status # "WAITING"
        PROVE  Open(next, b) /\ next[b].status # "WAITING"
    <3>1. ~Hits(w, book, b)
      <4>1. ~(w.op = "closeOthers" /\ Peers(book, w.id, b))
        BY <1>2, <2>2 DEF Closes, Peers
      <4> QED
        BY <1>2, <2>2, <4>1 DEF Hits, Closes
    <3>2. next[b].status = book[b].status
      BY <1>6, <2>2, <3>1 DEF Executes, BookWritten
    <3> QED
      BY <2>2, <3>2 DEF Open
  <2>3. \A v \in Elements(k.todo) :
           v.op \in {"stamp", "closeOthers"} /\ book[v.id].step = s => v # w
    BY <1>2, <1>6 DEF Closes
  <2> QED
    BY <1>1, <1>3, <1>4, <2>1, <2>2, <2>3
<1> QED
  BY <1>5, <1>6

LEMMA AgreedKept ==
    ASSUME NEW w, NEW k, NEW n, NEW book, NEW next, NEW table,
           Executes(w, k, n, book, next), Tidy(k, book, table), Agreed(k, book)
    PROVE  Agreed(n, next)
<1>1. /\ \A b \in DOMAIN book : next[b].step = book[b].step
      /\ \A a, b \in DOMAIN book : Peers(next, a, b) <=> Peers(book, a, b)
      /\ DOMAIN next = DOMAIN book
      /\ n.pc = k.pc /\ n.at = k.at /\ w \in Elements(k.todo)
      /\ \A v \in Elements(k.todo) : v = w \/ v \in Elements(n.todo)
  <2>1. SameBook(book, next)
    BY BookShrinks
  <2>2. \A a, b \in DOMAIN book : Peers(next, a, b) <=> Peers(book, a, b)
    BY <2>1, SameNewest
  <2> QED
    BY <2>1, <2>2 DEF Executes, CallWritten, SameBook
<1>2. \A v \in Elements(k.todo) : v.op \in {"stamp", "closeOthers"} => v.id \in DOMAIN book
  BY DEF Tidy, Stamping, ClosingOthers
<1>3. ASSUME k.pc = "remaining", NEW b \in DOMAIN book, Agrees(book, b)
      PROVE  Agrees(next, b)
  <2>1. w = Stamp(k.at, "APPROVED")
    BY <1>1, <1>3 DEF Tidy, Counting
  <2>2. w.op = "stamp" /\ w.status = "APPROVED"
    BY <2>1 DEF Stamp, Statement
  <2>3. next[b].status \in {"APPROVED", book[b].status}
    BY <2>2 DEF Executes, BookWritten, Hits
  <2> QED
    BY <1>3, <2>3 DEF Agrees, Open
<1>4. ASSUME NEW a \in DOMAIN book, Open(next, a), k.pc # "remaining"
      PROVE  \/ \A b \in DOMAIN book : Peers(book, a, b) => Agrees(next, b)
             \/ \E v \in Elements(n.todo) : /\ v.op = "closeOthers"
                                            /\ next[v.id].step = book[a].step
  <2>1. Open(book, a) /\ ~Closes(w, book, book[a].step)
    BY <1>4, BookShrinks
  <2>2. CASE \E v \in Elements(k.todo) : v.op = "closeOthers" /\ book[v.id].step = book[a].step
    BY <1>1, <1>2, <2>1, <2>2 DEF Closes
  <2>3. CASE \A b \in DOMAIN book : Peers(book, a, b) => Agrees(book, b)
    <3>1. CASE w.op = "stamp" /\ w.status \notin OpenStatuses /\ book[w.id].step = book[a].step
      <4>1. PICK v \in Elements(k.todo) : v.op = "closeOthers" /\ v.id = w.id
        BY <1>1, <1>4, <3>1 DEF Tidy, Stamping
      <4>2. v \in Elements(n.todo) /\ next[v.id].step = book[a].step
        BY <1>1, <1>2, <3>1, <4>1
      <4> QED
        BY <4>1, <4>2
    <3>2. CASE ~(w.op = "stamp" /\ w.status \notin OpenStatuses /\ book[w.id].step = book[a].step)
      <4>1. ASSUME NEW b \in DOMAIN book, Peers(book, a, b) PROVE Agrees(next, b)
        <5>1. Agrees(book, b) /\ book[b].step = book[a].step
          BY <2>3, <4>1 DEF Peers
        <5>2. ~Hits(w, book, b)
          <6>1. ~(w.op = "closeOthers" /\ Peers(book, w.id, b))
            BY <2>1, <5>1 DEF Closes, Peers
          <6> QED
            BY <2>1, <5>1, <6>1 DEF Hits, Closes
        <5>3. next[b].status = book[b].status \/ next[b].status \in OpenStatuses
          BY <3>2, <5>1, <5>2 DEF Executes, BookWritten
        <5> QED
          BY <5>1, <5>3 DEF Agrees, Open
      <4> QED
        BY <4>1
    <3> QED
      BY <3>1, <3>2
  <2> QED
    BY <2>1, <2>2, <2>3 DEF Agreed
<1>5. CASE k.pc = "remaining"
  <2>1. k.at \in DOMAIN book /\ \A b \in DOMAIN book : Peers(book, k.at, b) => Agrees(book, b)
    BY <1>5 DEF Tidy, Counting, Agreed
  <2>2. \A v \in Elements(k.todo) : v.op # "closeOthers"
    BY <1>5 DEF Tidy, Counting, Stamp, Statement
  <2>3. ASSUME NEW a \in DOMAIN book, Open(next, a)
        PROVE  \A b \in DOMAIN book : Peers(book, a, b) => Agrees(book, b)
    BY <2>2, <2>3, BookShrinks DEF Agreed
  <2> QED
    BY <1>1, <1>3, <1>5, <2>1, <2>3 DEF Agreed
<1>6. CASE k.pc # "remaining"
  BY <1>1, <1>4, <1>6 DEF Agreed
<1> QED
  BY <1>5, <1>6

LEMMA ConsentKept ==
    ASSUME NEW book, NEW next, NEW s, SameBook(book, next),
           \A a \in DOMAIN book : next[a].status = book[a].status \/ Open(book, a),
           Consent(book, s)
    PROVE  Consent(next, s)
<1>1. Last(next, s) = Last(book, s) /\ Last(book, s) \subseteq DOMAIN book
  BY SameNewest DEF Last
<1>2. \A a \in DOMAIN book : book[a].status = "APPROVED" => next[a].status = "APPROVED"
  BY DEF Open, OpenStatuses
<1> QED
  BY <1>1, <1>2 DEF Consent

LEMMA GrantedKept ==
    ASSUME NEW w, NEW k, NEW n, NEW book, NEW next, NEW table, NEW after, NEW hand, NEW hands,
           Executes(w, k, n, book, next), Tidy(k, book, table),
           TableWritten(w, table, after, hand, hands), Granted(k, book, table, hand)
    PROVE  Granted(n, next, after, hands)
<1> SUFFICES ASSUME NEW s \in Steps, flow.kind[s] = "REVIEW"
             PROVE  /\ after[s].status = "COMPLETED" /\ after[s].result = "APPROVED" /\ s \notin hands
                          => Consent(next, s)
                    /\ \A v \in Elements(n.todo) : Grants(n, v, next, s)
  BY DEF Granted
<1>1. /\ SameBook(book, next)
      /\ \A a \in DOMAIN book : next[a].status = book[a].status \/ Open(book, a)
      /\ \A v \in Elements(n.todo) : v.op # "returnEach" => v \in Elements(k.todo)
      /\ \A v \in Elements(k.todo) : v.op = "stamp" => v = w
  BY BookShrinks
<1>2. w \in Elements(k.todo) /\ Consent(book, s) => Consent(next, s)
  BY <1>1, ConsentKept
<1>3. w \in Elements(k.todo) /\ n.pc = k.pc
  BY DEF Executes, CallWritten
<1>4. ASSUME NEW v \in Elements(k.todo), Grants(k, v, book, s) PROVE Grants(n, v, next, s)
  <2> SUFFICES ASSUME flow.mode[s] = "ANY", NEW u \in Elements(k.todo), u.op = "stamp",
                      u.status = "APPROVED", book[u.id].step = s
               PROVE  Consent(next, s)
    BY <1>2, <1>3, <1>4 DEF Grants
  <2>1. u = w /\ u.id \in DOMAIN book /\ Open(book, u.id)
    BY <1>1 DEF Tidy, Stamping
  <2>2. next[u.id].status = "APPROVED" /\ next[u.id].step = s
    BY <1>1, <2>1 DEF Executes, BookWritten, SameBook
  <2>3. Newest(next, u.id)
    BY <1>1, <2>1, SameNewest DEF Tidy, Booked
  <2>4. u.id \in Last(next, s)
    BY <1>1, <2>1, <2>2, <2>3 DEF Last, SameBook
  <2> QED
    BY <2>2, <2>4 DEF Consent
<1>5. \A v \in Elements(k.todo) : Grants(k, v, book, s)
  BY DEF Granted
<1>6. \A v \in Elements(n.todo) : Grants(n, v, next, s)
  <2>1. \A v : v.op = "returnEach" => Grants(n, v, next, s)
    BY DEF Grants
  <2> QED
    BY <1>1, <1>4, <1>5, <2>1
<1>7. ASSUME after[s].status = "COMPLETED", after[s].result = "APPROVED", s \notin hands
      PROVE  Consent(next, s)
  <2>1. StepWritten(w, s, table[s], after[s], s \in hand, s \in hands)
    BY DEF TableWritten
  <2>2. CASE /\ w.op = "steps" /\ s \in w.on /\ w.status = "COMPLETED"
             /\ after[s].result = IF w.result = "KEEP" THEN table[s].result ELSE w.result
    <3>1. Grants(n, w, next, s) /\ Grants(k, w, book, s)
      BY <1>3, <1>4, <1>5
    <3>2. w.result = "APPROVED"
      BY <1>7, <2>2, <3>1 DEF Grants
    <3>3. \A v \in Elements(k.todo) : v.op # "stamp"
      BY <1>1, <2>2
    <3>4. Consent(book, s)
      BY <2>2, <3>1, <3>2, <3>3 DEF Grants
    <3> QED
      BY <1>2, <1>3, <3>4
  <2>3. CASE ~(/\ w.op = "steps" /\ s \in w.on /\ w.status = "COMPLETED"
               /\ after[s].result = IF w.result = "KEEP" THEN table[s].result ELSE w.result)
    <3>1. table[s].status = "COMPLETED" /\ table[s].result = "APPROVED" /\ s \notin hand
      BY <1>7, <2>1, <2>3 DEF StepWritten
    <3> QED
      BY <1>2, <1>3, <3>1 DEF Granted
  <2> QED
    BY <2>2, <2>3
<1> QED
  BY <1>6, <1>7

LEMMA DecidedKept ==
    ASSUME NEW w, NEW k, NEW n, NEW book, NEW next, NEW table, NEW after, NEW hand, NEW hands,
           Executes(w, k, n, book, next), Tidy(k, book, table),
           TableWritten(w, table, after, hand, hands), NEW short,
           Decided(k, book, table, hand, short)
    PROVE  Decided(n, next, after, hands, short)
<1>1. /\ Withdrawn(n, next, after) /\ Called(n, next) /\ Agreed(n, next)
      /\ Granted(n, next, after, hands)
  BY WithdrawnKept, CalledKept, AgreedKept, GrantedKept DEF Decided
<1>2. Complete(n, next, short)
  <2>1. SameBook(book, next) /\ \A s : Whole(next, s) <=> Whole(book, s)
    BY BookShrinks, SameNewest
  <2>2. n.pc = k.pc /\ n.at = k.at /\ n.draft = k.draft
    BY DEF Executes, CallWritten
  <2> QED
    BY <2>1, <2>2 DEF Decided, Complete, Partly, SameBook
<1> QED
  BY <1>1, <1>2 DEF Decided

LEMMA AskedKept ==
    ASSUME NEW w, NEW book, NEW next, BookWritten(w, book, next), NEW s, Asked(book, s),
           w.op \notin {"closeOf", "closeOthers"},
           w.op = "stamp" /\ w.id \in DOMAIN book /\ book[w.id].step = s => w.status \in OpenStatuses
    PROVE  Asked(next, s)
<1>1. PICK a \in DOMAIN book : book[a].step = s /\ Open(book, a)
  BY DEF Asked
<1>2. ~Hits(w, book, a)
  BY DEF Hits
<1>3. next[a].step = s /\ a \in DOMAIN next
  BY <1>1 DEF BookWritten, SameBook
<1>4. next[a].status \in OpenStatuses
  BY <1>1, <1>2 DEF BookWritten, Open
<1> QED
  BY <1>3, <1>4 DEF Asked, Open

LEMMA WaitedKept ==
    ASSUME Typed, NEW c \in Clerks, Execute(c), Sound(c), Tidy(clerk[c], approvals, row),
           Waited(clerk[c], approvals, row, inst, synced)
    PROVE  Waited(clerk'[c], approvals', row', inst', synced')
<1> DEFINE w     == Writes(c)
           k     == clerk[c]
           n     == clerk'[c]
           book  == approvals
           next  == approvals'
           table == row
           after == row'
           then  == inst'
<1>1. CallWritten(w, k, n) /\ BookWritten(w, book, next) /\ synced' = synced
  BY ExecutesCall, ExecutesBook, ExecuteFacts
<1>2. Leaving(k.todo, inst) => Leaving(n.todo, then)
  BY LeavingKept
<1>3. /\ then = IF w.op = "inst" THEN w.status ELSE inst
      /\ w.op \in {"stamp", "closeOf", "closeOthers"} => after = table
      /\ w.op = "steps" =>
            \A s \in Steps : after[s].status = IF s \in w.on THEN w.status ELSE table[s].status
  BY ExecuteFacts
<1>4. Fine(k, table, inst, synced) /\ Tidy(k, book, table) /\ Waited(k, book, table, inst, synced)
  BY DEF Sound
<1>5. book \in Seq(Approvals)
  BY DEF Typed
<1> HIDE DEF w, k, n, book, next, table, after, then
<1>6. Executes(w, k, n, book, next) /\ n.pc = k.pc /\ n.at = k.at /\ n.rows = k.rows
      /\ n.changed = k.changed /\ w \in Elements(k.todo) /\ k.todo # <<>> /\ w = Head(k.todo)
  BY <1>1, <1>5 DEF Executes, CallWritten
<1>7. k.pc \notin {"round", "number", "open"}
  BY <1>4, <1>6 DEF Tidy, Remembers
<1>8. ASSUME k.pc = "special", ~k.changed, ~Leaving(n.todo, then),
             NEW s \in Steps, s <= k.at, Reviewing(k.rows, s)
      PROVE  Asked(next, s)
  <2>1. ~Leaving(k.todo, inst)
    BY <1>2, <1>8
  <2>2. w.op \in {"steps", "timer"}
    BY <1>4, <1>6, <1>8, <2>1 DEF Fine, Passing
  <2>3. Asked(book, s)
    BY <1>4, <1>8, <2>1 DEF Waited
  <2> QED
    BY <1>1, <2>2, <2>3, AskedKept
<1>9. k.pc = "cleanup" /\ ~k.changed => then # "IN_PROGRESS"
  <2> SUFFICES ASSUME k.pc = "cleanup", ~k.changed PROVE then # "IN_PROGRESS"
    OBVIOUS
  <2>1. k.todo = <<SetInst("COMPLETED")>>
    BY <1>4, <1>6 DEF Fine, Closing
  <2>2. w = SetInst("COMPLETED")
    BY <1>6, <2>1
  <2>3. w.op = "inst" /\ w.status = "COMPLETED"
    BY <2>2 DEF SetInst, Statement
  <2> QED
    BY <1>3, <2>3
<1>10. ASSUME k.pc \in {"idle", "remaining"}, synced, then = "IN_PROGRESS", ~Leaving(n.todo, then)
       PROVE  /\ \A s \in Steps : Reviewing(after, s) =>
                    Asked(next, s) \/ (k.pc = "remaining" /\ next[k.at].step = s)
              /\ \A v \in Elements(n.todo) :
                    /\ v.op \notin {"closeOf", "closeOthers"}
                    /\ v.op = "stamp" /\ k.pc = "idle" => v.status \in OpenStatuses
  <2>1. ~Leaving(k.todo, inst)
    BY <1>2, <1>10
  <2>2. \A v \in Elements(k.todo) : \/ v.op \in {"stamp", "closeOf", "closeOthers"}
                                    \/ v.op = "steps" /\ v.status \in {"BLOCKED", "ESCALATED"}
    BY <1>4, <1>10, <2>1 DEF Fine, Settled
  <2>3. inst = "IN_PROGRESS"
    BY <1>3, <1>6, <1>10, <2>2
  <2>4. /\ \A s \in Steps : Reviewing(table, s) =>
              Asked(book, s) \/ (k.pc = "remaining" /\ book[k.at].step = s)
        /\ \A v \in Elements(k.todo) :
              /\ v.op \notin {"closeOf", "closeOthers"}
              /\ v.op = "stamp" /\ k.pc = "idle" => v.status \in OpenStatuses
    BY <1>4, <1>10, <2>1, <2>3 DEF Waited
  <2>5. \A v \in Elements(n.todo) : v.op # "stamp" /\ (v.op # "returnEach" => v \in Elements(k.todo))
    BY <1>4, <1>6, BookShrinks
  <2>6. SameBook(book, next)
    BY <1>4, <1>6, BookShrinks
  <2>7. ASSUME NEW s \in Steps, Reviewing(after, s)
        PROVE  Asked(next, s) \/ (k.pc = "remaining" /\ next[k.at].step = s)
    <3>1. Reviewing(table, s)
      BY <1>3, <1>6, <2>2, <2>7 DEF Reviewing
    <3>2. k.pc = "remaining" => k.at \in DOMAIN book /\ next[k.at].step = book[k.at].step
      BY <1>4, <2>6 DEF Tidy, Counting, SameBook
    <3>3. k.pc = "remaining" => w = Stamp(k.at, "APPROVED")
      BY <1>4, <1>6 DEF Tidy, Counting
    <3>4. k.pc = "remaining" => w.id = k.at
      BY <3>3 DEF Stamp, Statement
    <3>5. w.op \notin {"closeOf", "closeOthers"} /\ (w.op = "stamp" /\ k.pc = "idle" => w.status \in OpenStatuses)
      BY <1>6, <2>4
    <3>6. CASE k.pc = "remaining" /\ book[k.at].step = s
      BY <3>2, <3>6
    <3>7. CASE ~(k.pc = "remaining" /\ book[k.at].step = s)
      <4>1. Asked(book, s)
        BY <2>4, <3>1, <3>7
      <4>2. w.op = "stamp" /\ w.id \in DOMAIN book /\ book[w.id].step = s => w.status \in OpenStatuses
        BY <1>10, <3>4, <3>5, <3>7
      <4> QED
        BY <1>1, <3>5, <4>1, <4>2, AskedKept
    <3> QED
      BY <3>6, <3>7
  <2> QED
    BY <2>4, <2>5, <2>7
<1>11. Waited(n, next, after, then, synced)
  BY <1>6, <1>7, <1>8, <1>9, <1>10 DEF Waited
<1> QED
  BY <1>1, <1>11 DEF n, next, after, then

-----------------------------------------------------------------------------
(* From values to states, and one statement.                               *)

LEMMA ReviewedNext ==
    ASSUME flow' = flow, NEW c,
           Tidy(clerk'[c], approvals', row'),
           crashes' = 0 => Decided(clerk'[c], approvals', row', byHand', cut'),
           Waited(clerk'[c], approvals', row', inst', synced')
    PROVE  Reviewed(c)'
<1>1. Tidy(clerk[c], approvals, row)'
  BY DEF Tidy, Booked, Open, Newest, Remembers, InRound, Opening, Stamping, ClosingOthers, Counting,
         Elements
<1>2. Decided(clerk'[c], approvals', row', byHand', cut') => Decided(clerk[c], approvals, row, byHand, cut)'
  BY DEF Decided, Withdrawn, Called, Agreed, Complete, Partly, Granted, Grants, Consent, Whole, Last,
         Agrees, Peers, Closes, Moves, Ends, Over, Open, Newest, Elements
<1>3. Waited(clerk[c], approvals, row, inst, synced)'
  BY DEF Waited, Asked, Reviewing, Open, Leaving, InstOf, Elements
<1> QED
  BY <1>1, <1>2, <1>3 DEF Reviewed

LEMMA ExecuteReviewed ==
    ASSUME Typed, NEW c \in Clerks, Execute(c), Sound(c), Reviewed(c)
    PROVE  Reviewed(c)'
<1> DEFINE w     == Writes(c)
           k     == clerk[c]
           n     == clerk'[c]
           book  == approvals
           next  == approvals'
           table == row
           after == row'
           hand  == byHand
           hands == byHand'
           short == cut
<1>1. /\ CallWritten(w, k, n) /\ BookWritten(w, book, next)
      /\ TableWritten(w, table, after, hand, hands)
  BY ExecutesCall, ExecutesBook, ExecutesTable
<1>2. w.op = "stamp" => after = table
  BY ExecuteFacts
<1>3. Tidy(k, book, table) /\ (crashes = 0 => Decided(k, book, table, hand, short)) /\ book \in Seq(Approvals)
  BY DEF Reviewed, Typed
<1>4. Waited(n, next, after, inst', synced')
  BY WaitedKept DEF Reviewed
<1>5. flow' = flow /\ crashes' = crashes /\ cut' = short
  BY DEF Execute, WriteSteps, WriteTimer, WriteReturn, WriteReturns, WriteReturnAll,
         WriteReturnRejected, WriteDrop, WriteInst, WriteStamp, WriteClose
<1> HIDE DEF w, k, n, book, next, table, after, hand, hands, short
<1>6. Executes(w, k, n, book, next)
  BY <1>1, <1>3 DEF Executes
<1>7. Tidy(n, next, after)
  BY <1>1, <1>2, <1>3, <1>6, BookedKept, RemembersKept, StampingKept DEF Tidy
<1>8. crashes = 0 => Decided(n, next, after, hands, short)
  BY <1>1, <1>3, <1>6, DecidedKept
<1> QED
  BY <1>4, <1>5, <1>7, <1>8, ReviewedNext DEF n, next, after, hands

-----------------------------------------------------------------------------
(* Calls that begin, and the engine between two lists of statements.       *)

\* What holds of the approvals when no statement is left.
Clear(book, table, hand) ==
    /\ \A a \in DOMAIN book : Open(book, a) =>
          /\ table[book[a].step].status \notin {"COMPLETED", "REJECTED"}
          /\ \E b \in DOMAIN book : /\ book[b].step = book[a].step /\ Open(book, b)
                                    /\ book[b].status # "WAITING"
          /\ \A b \in DOMAIN book : Peers(book, a, b) => Agrees(book, b)
    /\ \A s \in Steps :
          flow.kind[s] = "REVIEW" /\ table[s].status = "COMPLETED"
             /\ table[s].result = "APPROVED" /\ s \notin hand => Consent(book, s)

LEMMA ClearFacts ==
    ASSUME NEW k, NEW book, NEW table, NEW hand, NEW short,
           Decided(k, book, table, hand, short), k.todo = <<>>, k.pc # "remaining"
    PROVE  Clear(book, table, hand)
<1>1. Elements(k.todo) = {}
  BY TupleElements
<1>2. ASSUME NEW a \in DOMAIN book, Open(book, a)
      PROVE  table[book[a].step].status \notin {"COMPLETED", "REJECTED"}
  BY <1>1, <1>2 DEF Decided, Withdrawn, Ends, Over
<1>3. ASSUME NEW a \in DOMAIN book, Open(book, a)
      PROVE  \E b \in DOMAIN book : /\ book[b].step = book[a].step /\ Open(book, b)
                                     /\ book[b].status # "WAITING"
  BY <1>1, <1>3 DEF Decided, Called
<1>4. ASSUME NEW a \in DOMAIN book, Open(book, a)
      PROVE  \A b \in DOMAIN book : Peers(book, a, b) => Agrees(book, b)
  BY <1>1, <1>4 DEF Decided, Agreed
<1>5. \A s \in Steps :
         flow.kind[s] = "REVIEW" /\ table[s].status = "COMPLETED"
            /\ table[s].result = "APPROVED" /\ s \notin hand => Consent(book, s)
  BY DEF Decided, Granted
<1> QED
  BY <1>2, <1>3, <1>4, <1>5 DEF Clear

LEMMA ClearDecided ==
    ASSUME NEW k, NEW book, NEW table, NEW hand, NEW short, Clear(book, table, hand),
           k.pc # "remaining", Complete(k, book, short), Withdrawn(k, book, table),
           \A s \in Steps : flow.kind[s] = "REVIEW" =>
               \A w \in Elements(k.todo) : Grants(k, w, book, s)
    PROVE  Decided(k, book, table, hand, short)
  BY DEF Clear, Decided, Called, Agreed, Granted

\* The rounds are whole but for those an insertion failed in, and the one that is
\* being opened.
LEMMA RestWhole ==
    ASSUME NEW c, Reviewed(c), crashes = 0
    PROVE  /\ Complete(clerk[c], approvals, cut)
           /\ clerk[c].pc # "open" => WholeBut(approvals, cut)
<1>1. Complete(clerk[c], approvals, cut)
  BY DEF Reviewed, Decided
<1> QED
  BY <1>1 DEF Complete, Partly, WholeBut

\* The engine goes on in memory.
LEMMA RememberReviewed ==
    ASSUME Typed, NEW c \in Clerks, NEW pc \in {"plan", "load", "special", "round", "cleanup"},
           NEW todo, NEW at, NEW rows, NEW changed,
           Remember(c, pc, todo, at, rows, changed), Reviewed(c),
           UNCHANGED <<flow, inst, row, approvals, synced, byHand, crashes>>,
           clerk[c].todo = <<>>,
           clerk[c].pc \in {"sync", "plan", "load", "special", "round", "number", "open"},
           crashes = 0 => WholeBut(approvals, cut'),
           \A w \in Elements(todo) : w.op \notin {"stamp", "closeOthers"},
           \A s \in Steps : flow.kind[s] = "REVIEW" => \A w \in Elements(todo) :
               w.op \in {"steps", "byHand"} /\ s \in w.on => w.status \notin {"COMPLETED", "REJECTED"},
           pc \in {"special", "round"} => \A s \in Steps : rows[s].status = "PENDING" =>
               /\ row[s].status \in {"PENDING", "CANCELLED"}
               /\ \A w \in Elements(todo) : w.op \in {"steps", "byHand"} => s \notin w.on,
           pc = "round" =>
               /\ todo = <<>> /\ flow.kind[at] = "REVIEW" /\ rows[at].status = "PENDING"
               /\ \A a \in Ids : approvals[a].step = at => ~Open(approvals, a),
           pc = "special" /\ ~changed /\ ~Leaving(todo, inst) =>
               \A s \in Steps : s <= at /\ Reviewing(rows, s) => Asked(approvals, s),
           pc = "round" /\ ~changed /\ ~Leaving(todo, inst) =>
               \A s \in Steps : s < at /\ Reviewing(rows, s) => Asked(approvals, s),
           pc = "cleanup" => todo # <<>> \/ inst # "IN_PROGRESS"
    PROVE  Reviewed(c)'
<1> DEFINE k    == Call(pc, todo, at, rows, clerk[c].pass, changed, NoDraft)
           book == approvals
           old  == clerk[c]
<1>1. k.pc = pc /\ k.todo = todo /\ k.at = at /\ k.rows = rows /\ k.changed = changed
  BY DEF Call
<1>2. clerk' = [clerk EXCEPT ![c] = k]
  BY DEF Remember
<1>3. /\ flow' = flow /\ row' = row /\ inst' = inst /\ synced' = synced /\ approvals' = approvals
      /\ byHand' = byHand /\ crashes' = crashes
  OBVIOUS
<1>4. /\ Tidy(old, book, row) /\ (crashes = 0 => Decided(old, book, row, byHand, cut))
      /\ \A a \in DOMAIN book : approvals[a].step = book[a].step
  BY DEF Reviewed
<1>5. \A a \in DOMAIN book : book[a].step \in Steps /\ flow.kind[book[a].step] = "REVIEW"
  BY <1>4, ApprovalFields DEF Tidy, Booked, Ids
<1>6. pc = "round" => \A a \in DOMAIN book : book[a].step = at => ~Open(book, a)
  BY DEF Ids
<1>7. old.pc # "remaining" /\ old.todo = <<>> /\ (crashes = 0 => WholeBut(book, cut'))
  OBVIOUS
<1> HIDE DEF k, book, old
<1>8. clerk'[c] = k
  BY <1>2, Becomes
<1>9. Tidy(k, book, row)
  BY <1>1, <1>4, <1>6 DEF Tidy, Remembers, Opening, Stamping, ClosingOthers, Counting
<1>10. ASSUME crashes = 0 PROVE Decided(k, book, row, byHand, cut')
  <2>1. Clear(book, row, byHand)
    BY <1>4, <1>7, <1>10, ClearFacts
  <2>2. Complete(k, book, cut')
    BY <1>7, <1>10 DEF Complete, WholeBut
  <2>3. Withdrawn(k, book, row)
    BY <1>1, <1>5, <2>1 DEF Withdrawn, Ends, Moves, Over, Clear
  <2>4. \A s \in Steps : flow.kind[s] = "REVIEW" =>
           \A w \in Elements(k.todo) : Grants(k, w, book, s)
    BY <1>1 DEF Grants
  <2> QED
    BY <1>1, <2>1, <2>2, <2>3, <2>4, ClearDecided
<1>11. Waited(k, book, row, inst, synced)
  BY <1>1 DEF Waited, book
<1> QED
  BY <1>3, <1>8, <1>9, <1>10, <1>11, ReviewedNext DEF book

LEMMA MemoryReviewed ==
    ASSUME Typed, NEW c \in Clerks, NEW pc \in {"plan", "load", "special", "round", "cleanup"},
           NEW todo, NEW at, NEW rows, NEW changed,
           Memory(c, pc, todo, at, rows, changed), Reviewed(c),
           clerk[c].todo = <<>>, clerk[c].pc \in {"sync", "plan", "load", "special"},
           \A w \in Elements(todo) : w.op \notin {"stamp", "closeOthers"},
           \A s \in Steps : flow.kind[s] = "REVIEW" => \A w \in Elements(todo) :
               w.op \in {"steps", "byHand"} /\ s \in w.on => w.status \notin {"COMPLETED", "REJECTED"},
           pc \in {"special", "round"} => \A s \in Steps : rows[s].status = "PENDING" =>
               /\ row[s].status \in {"PENDING", "CANCELLED"}
               /\ \A w \in Elements(todo) : w.op \in {"steps", "byHand"} => s \notin w.on,
           pc = "round" =>
               /\ todo = <<>> /\ flow.kind[at] = "REVIEW" /\ rows[at].status = "PENDING"
               /\ \A a \in Ids : approvals[a].step = at => ~Open(approvals, a),
           pc = "special" /\ ~changed /\ ~Leaving(todo, inst) =>
               \A s \in Steps : s <= at /\ Reviewing(rows, s) => Asked(approvals, s),
           pc = "round" /\ ~changed /\ ~Leaving(todo, inst) =>
               \A s \in Steps : s < at /\ Reviewing(rows, s) => Asked(approvals, s),
           pc = "cleanup" => todo # <<>> \/ inst # "IN_PROGRESS"
    PROVE  Reviewed(c)'
<1>1. /\ Remember(c, pc, todo, at, rows, changed)
      /\ UNCHANGED <<flow, inst, row, approvals, synced, byHand, crashes>> /\ cut' = cut
  BY DEF Memory
<1>2. crashes = 0 => WholeBut(approvals, cut')
  BY <1>1, RestWhole
<1>3. clerk[c].pc \in {"sync", "plan", "load", "special", "round", "number", "open"}
  OBVIOUS
<1> QED
  BY <1>1, <1>2, <1>3, RememberReviewed

\* A call that has checked its guards, or has counted.
LEMMA GoReviewed ==
    ASSUME Typed, NEW c \in Clerks, NEW pc \in {"idle", "sync"}, NEW todo, Go(c, pc, todo),
           UNCHANGED <<flow, inst, row, approvals, byHand, cut, crashes>>, Booked(approvals),
           \A k : k.pc = pc /\ k.todo = todo =>
               /\ Stamping(k, approvals, row) /\ ClosingOthers(k, approvals)
               /\ crashes = 0 => Decided(k, approvals, row, byHand, cut),
           pc = "idle" /\ synced' /\ inst = "IN_PROGRESS" /\ ~Leaving(todo, inst) =>
               /\ \A s \in Steps : Reviewing(row, s) => Asked(approvals, s)
               /\ \A w \in Elements(todo) :
                     /\ w.op \notin {"closeOf", "closeOthers"}
                     /\ w.op = "stamp" => w.status \in OpenStatuses
    PROVE  Reviewed(c)'
<1> DEFINE k    == Call(pc, todo, 0, NoRows, 0, FALSE, NoDraft)
           book == approvals
<1>1. k.pc = pc /\ k.todo = todo
  BY DEF Call
<1>2. clerk' = [clerk EXCEPT ![c] = k]
  BY DEF Go
<1> HIDE DEF k
<1>3. clerk'[c] = k
  BY <1>2, Becomes
<1>4. /\ Stamping(k, book, row) /\ ClosingOthers(k, book)
      /\ crashes = 0 => Decided(k, book, row, byHand, cut)
  BY <1>1
<1>5. Tidy(k, book, row)
  BY <1>1, <1>4 DEF Tidy, Remembers, Opening, Counting
<1>6. Waited(k, book, row, inst, synced')
  BY <1>1 DEF Waited
<1> QED
  BY <1>3, <1>4, <1>5, <1>6, ReviewedNext

-----------------------------------------------------------------------------
(* A call that finds nobody else at work.                                  *)

LEMMA AtRest ==
    ASSUME Typed, NEW c \in Clerks, Free(c), Reviewed(c)
    PROVE  /\ Booked(approvals)
           /\ crashes = 0 =>
                 /\ Clear(approvals, row, byHand)
                 /\ WholeBut(approvals, cut)
                 /\ \A a \in Ids : Open(approvals, a) =>
                       row[approvals[a].step].status
                          \notin {"COMPLETED", "REJECTED", "WAITING", "SKIPPED", "CANCELLED"}
           /\ synced /\ inst = "IN_PROGRESS" =>
                 \A s \in Steps : Reviewing(row, s) => Asked(approvals, s)
<1> DEFINE k    == clerk[c]
           book == approvals
<1>1. k.pc = "idle" /\ k.todo = <<>>
  BY DEF Free, Idle, Call
<1>2. /\ Tidy(k, book, row) /\ (crashes = 0 => Decided(k, book, row, byHand, cut))
      /\ Waited(k, book, row, inst, synced)
  BY DEF Reviewed
<1>3. Ids = DOMAIN book
  BY DEF Ids
<1> HIDE DEF k, book
<1>4. ~Leaving(<<>>, "IN_PROGRESS")
  BY TupleElements DEF Leaving, InstOf
<1>5. crashes = 0 => Clear(book, row, byHand)
  BY <1>1, <1>2, ClearFacts
<1>6. crashes = 0 => WholeBut(book, cut)
  BY <1>1, <1>2 DEF Decided, Complete, Partly, WholeBut
<1>7. ASSUME crashes = 0, NEW a \in DOMAIN book, Open(book, a)
      PROVE  row[book[a].step].status
                \notin {"COMPLETED", "REJECTED", "WAITING", "SKIPPED", "CANCELLED"}
  BY <1>1, <1>2, <1>7, TupleElements DEF Decided, Withdrawn, Ends, Over
<1>8. synced /\ inst = "IN_PROGRESS" => \A s \in Steps : Reviewing(row, s) => Asked(book, s)
  BY <1>1, <1>2, <1>4 DEF Waited
<1> QED
  BY <1>2, <1>3, <1>5, <1>6, <1>7, <1>8 DEF Tidy, book

LEMMA BeginReviewed ==
    ASSUME Typed, NEW c \in Clerks, NEW pc \in {"idle", "sync"}, NEW todo, Free(c), Reviewed(c),
           Go(c, pc, todo), UNCHANGED <<flow, inst, row, approvals, byHand, cut, crashes>>,
           synced' => synced,
           \A k : k.pc = pc /\ k.todo = todo =>
               /\ Stamping(k, approvals, row) /\ ClosingOthers(k, approvals)
               /\ crashes = 0 => Withdrawn(k, approvals, row)
               /\ \A s \in Steps : flow.kind[s] = "REVIEW" =>
                     \A w \in Elements(todo) : Grants(k, w, approvals, s),
           pc = "idle" => \/ Leaving(todo, inst)
                          \/ \A w \in Elements(todo) :
                                /\ w.op \notin {"closeOf", "closeOthers"}
                                /\ w.op = "stamp" => w.status \in OpenStatuses
    PROVE  Reviewed(c)'
<1> DEFINE book == approvals
<1>1. /\ Booked(book)
      /\ crashes = 0 => /\ Clear(book, row, byHand)
                        /\ WholeBut(book, cut)
      /\ synced /\ inst = "IN_PROGRESS" =>
            \A s \in Steps : Reviewing(row, s) => Asked(book, s)
  BY AtRest
<1>2. ASSUME NEW k, k.pc = pc, k.todo = todo, crashes = 0
      PROVE  Decided(k, book, row, byHand, cut)
  <2>1. Complete(k, book, cut)
    BY <1>1, <1>2 DEF Complete, WholeBut
  <2>2. /\ Withdrawn(k, book, row)
        /\ \A s \in Steps : flow.kind[s] = "REVIEW" =>
              \A w \in Elements(k.todo) : Grants(k, w, book, s)
    BY <1>2
  <2>3. Clear(book, row, byHand) /\ k.pc # "remaining"
    BY <1>1, <1>2
  <2> HIDE DEF book
  <2> QED
    BY <2>1, <2>2, <2>3, ClearDecided
<1>3. \A k : k.pc = pc /\ k.todo = todo =>
               /\ Stamping(k, book, row) /\ ClosingOthers(k, book)
               /\ crashes = 0 => Decided(k, book, row, byHand, cut)
  BY <1>2
<1>4. pc = "idle" /\ synced' /\ inst = "IN_PROGRESS" /\ ~Leaving(todo, inst) =>
               /\ \A s \in Steps : Reviewing(row, s) => Asked(book, s)
               /\ \A w \in Elements(todo) :
                     /\ w.op \notin {"closeOf", "closeOthers"}
                     /\ w.op = "stamp" => w.status \in OpenStatuses
  BY <1>1
<1> QED
  BY <1>1, <1>3, <1>4, GoReviewed

\* A call that decides no approval.
LEMMA BeginPlain ==
    ASSUME Typed, NEW c \in Clerks, NEW pc \in {"idle", "sync"}, NEW todo, Free(c), Reviewed(c),
           Go(c, pc, todo), UNCHANGED <<flow, inst, row, approvals, byHand, cut, crashes>>,
           synced' => synced,
           \A w \in Elements(todo) :
               /\ w.op \notin {"stamp", "closeOthers"}
               /\ w.op \in {"steps", "byHand"} => \A s \in w.on :
                     /\ flow.kind[s] = "REVIEW" /\ w.op = "steps" => w.status # "COMPLETED"
                     /\ w.status \in {"COMPLETED", "REJECTED", "WAITING", "SKIPPED", "CANCELLED"} =>
                           \/ \A a \in Ids : approvals[a].step = s => ~Open(approvals, a)
                           \/ \E v \in Elements(todo) : v.op = "closeOf" /\ s \in v.on
               /\ w.op = "drop" => \E v \in Elements(todo) : v.op = "closeOf" /\ v.on = Steps,
           pc = "idle" => Leaving(todo, inst) \/ \A w \in Elements(todo) : w.op # "closeOf"
    PROVE  Reviewed(c)'
<1> DEFINE book == approvals
<1>1. crashes = 0 => \A a \in DOMAIN book : Open(book, a) =>
         row[book[a].step].status
            \notin {"COMPLETED", "REJECTED", "WAITING", "SKIPPED", "CANCELLED"}
  BY AtRest DEF Ids
<1>2. \A a \in DOMAIN book : book[a].step \in Steps
  BY ApprovalFields DEF Ids
<1>3. Ids = DOMAIN book
  BY DEF Ids
<1>4. ASSUME NEW k, k.pc = pc, k.todo = todo
      PROVE  /\ Stamping(k, book, row) /\ ClosingOthers(k, book)
             /\ crashes = 0 => Withdrawn(k, book, row)
             /\ \A s \in Steps : flow.kind[s] = "REVIEW" =>
                   \A w \in Elements(todo) : Grants(k, w, book, s)
  <2>1. Stamping(k, book, row) /\ ClosingOthers(k, book)
    BY <1>4 DEF Stamping, ClosingOthers
  <2>2. \A s \in Steps : flow.kind[s] = "REVIEW" =>
           \A w \in Elements(todo) : Grants(k, w, book, s)
    BY DEF Grants
  <2>3. ASSUME crashes = 0, NEW a \in DOMAIN book, Open(book, a),
               Ends(k.todo, row, book[a].step, Over(k))
        PROVE  \E v \in Elements(k.todo) : Closes(v, book, book[a].step)
    <3> DEFINE s == book[a].step
    <3>1. Over(k) \subseteq {"COMPLETED", "REJECTED", "WAITING", "SKIPPED", "CANCELLED"}
      BY DEF Over
    <3>2. row[s].status \notin Over(k)
      BY <1>1, <2>3, <3>1
    <3>3. PICK w \in Elements(todo) : Moves(w, s, Over(k))
      BY <1>4, <2>3, <3>2 DEF Ends
    <3>4. s \in Steps
      BY <1>2
    <3> HIDE DEF s
    <3>5. CASE w.op = "drop"
      BY <1>4, <3>4, <3>5 DEF Closes, s
    <3>6. CASE w.op # "drop"
      <4>1. w.op \in {"steps", "byHand"} /\ s \in w.on /\ w.status \in Over(k)
        BY <3>3, <3>6 DEF Moves
      <4>2. \E v \in Elements(todo) : v.op = "closeOf" /\ s \in v.on
        BY <1>3, <2>3, <3>1, <4>1 DEF s
      <4> QED
        BY <1>4, <4>2 DEF Closes, s
    <3> QED
      BY <3>5, <3>6
  <2>4. crashes = 0 => Withdrawn(k, book, row)
    BY <2>3 DEF Withdrawn
  <2> QED
    BY <2>1, <2>2, <2>4
<1> QED
  BY <1>4, BeginReviewed

-----------------------------------------------------------------------------
(* Advancing the instance, seen from its approvals.                        *)

LEMMA MemoryPlain ==
    ASSUME Typed, NEW c \in Clerks, NEW pc \in {"plan", "load", "cleanup"},
           NEW todo, NEW at, NEW rows, NEW changed,
           Memory(c, pc, todo, at, rows, changed), Reviewed(c),
           clerk[c].todo = <<>>, clerk[c].pc \in {"sync", "plan", "load", "special"},
           \A w \in Elements(todo) :
               /\ w.op \notin {"stamp", "closeOthers", "byHand"}
               /\ w.op = "steps" => w.status \in {"PENDING", "WAITING"},
           pc = "cleanup" => todo # <<>> \/ inst # "IN_PROGRESS"
    PROVE  Reviewed(c)'
  BY MemoryReviewed

LEMMA MemorySpecial ==
    ASSUME Typed, NEW c \in Clerks, NEW todo, NEW at, NEW rows, NEW changed,
           Memory(c, "special", todo, at, rows, changed), Reviewed(c),
           clerk[c].todo = <<>>, clerk[c].pc \in {"load", "special"},
           \A w \in Elements(todo) : w.op \notin {"stamp", "closeOthers"},
           \A s \in Steps : flow.kind[s] = "REVIEW" => \A w \in Elements(todo) :
               w.op \in {"steps", "byHand"} /\ s \in w.on => w.status \notin {"COMPLETED", "REJECTED"},
           \A s \in Steps : rows[s].status = "PENDING" =>
               /\ row[s].status \in {"PENDING", "CANCELLED"}
               /\ \A w \in Elements(todo) : w.op \in {"steps", "byHand"} => s \notin w.on,
           ~changed /\ ~Leaving(todo, inst) =>
               \A s \in Steps : s <= at /\ Reviewing(rows, s) => Asked(approvals, s)
    PROVE  Reviewed(c)'
<1> DEFINE pc == "special"
<1>1. /\ pc \in {"plan", "load", "special", "round", "cleanup"} /\ pc # "round" /\ pc # "cleanup"
      /\ Memory(c, pc, todo, at, rows, changed)
  OBVIOUS
<1> HIDE DEF pc
<1> QED
  BY <1>1, MemoryReviewed

LEMMA MemoryRound ==
    ASSUME Typed, NEW c \in Clerks, NEW s \in Steps,
           Memory(c, "round", <<>>, s, clerk[c].rows, clerk[c].changed), Reviewed(c),
           clerk[c].todo = <<>>, clerk[c].pc = "special",
           flow.kind[s] = "REVIEW", clerk[c].rows[s].status = "PENDING",
           \A a \in Ids : approvals[a].step = s => ~Open(approvals, a),
           ~clerk[c].changed /\ ~Leaving(<<>>, inst) =>
               \A t \in Steps : t < s /\ Reviewing(clerk[c].rows, t) => Asked(approvals, t)
    PROVE  Reviewed(c)'
<1> DEFINE pc      == "round"
           todo    == <<>>
           rows    == clerk[c].rows
           changed == clerk[c].changed
<1>1. /\ pc \in {"plan", "load", "special", "round", "cleanup"} /\ pc # "special" /\ pc # "cleanup"
      /\ Memory(c, pc, todo, s, rows, changed)
  OBVIOUS
<1>2. Elements(todo) = {} /\ todo = <<>>
  BY TupleElements
<1>3. \A t \in Steps : rows[t].status = "PENDING" => row[t].status \in {"PENDING", "CANCELLED"}
  BY DEF Reviewed, Tidy, Remembers
<1>4. /\ flow.kind[s] = "REVIEW" /\ rows[s].status = "PENDING"
      /\ ~changed /\ ~Leaving(todo, inst) =>
             \A t \in Steps : t < s /\ Reviewing(rows, t) => Asked(approvals, t)
  OBVIOUS
<1> HIDE DEF pc, todo, rows, changed
<1> QED
  BY <1>1, <1>2, <1>3, <1>4, MemoryReviewed

LEMMA PlanReviewed ==
    ASSUME Typed, NEW c \in Clerks, Plan(c), Reviewed(c)
    PROVE  Reviewed(c)'
<1> DEFINE rows  == clerk[c].rows
           up    == ToStatus(Activate(rows), "PENDING")
           down  == ToStatus(Demote(rows), "WAITING")
           moves == inst \in {"IN_PROGRESS", "COMPLETED"}
           steps == IF moves THEN up \o down ELSE <<>>
           after == IF moves THEN Planned(rows) ELSE rows
           Plain(todo) == \A w \in Elements(todo) :
                             /\ w.op \notin {"stamp", "closeOthers", "byHand"}
                             /\ w.op = "steps" => w.status \in {"PENDING", "WAITING"}
<1>1. clerk[c].pc = "plan" /\ clerk[c].todo = <<>>
  BY DEF Plan, At
<1>2. ASSUME NEW S \in SUBSET Steps, NEW status \in {"PENDING", "WAITING"}
      PROVE  ToStatus(S, status) \in Seq(Statements) /\ Plain(ToStatus(S, status))
  <2>1. ToStatus(S, status) \in Seq(Statements)
    BY ToStatusType DEF StepStatuses
  <2>2. SetSteps(S, status, "KEEP").op = "steps" /\ SetSteps(S, status, "KEEP").status = status
    BY DEF SetSteps, Statement
  <2>3. \A w \in Elements(ToStatus(S, status)) : w = SetSteps(S, status, "KEEP")
    BY TupleElements DEF ToStatus
  <2> QED
    BY <2>1, <2>2, <2>3
<1>3. Activate(rows) \in SUBSET Steps /\ Demote(rows) \in SUBSET Steps
  BY DEF Activate, Demote
<1>4. steps \in Seq(Statements) /\ Plain(steps)
  <2>1. up \in Seq(Statements) /\ Plain(up) /\ down \in Seq(Statements) /\ Plain(down)
    BY <1>2, <1>3
  <2>2. up \o down \in Seq(Statements) /\ Elements(up \o down) = Elements(up) \cup Elements(down)
    BY <2>1, JoinElements, Concatenation
  <2>3. <<>> \in Seq(Statements) /\ Plain(<<>>)
    BY TupleElements
  <2> HIDE DEF up, down
  <2> QED
    BY <2>1, <2>2, <2>3
<1>5. ASSUME NEW status \in InstStatuses
      PROVE  Plain(steps \o <<SetInst(status)>>) /\ steps \o <<SetInst(status)>> # <<>>
  <2> DEFINE w == SetInst(status)
  <2>1. w \in Statements /\ w.op = "inst"
    BY InstType DEF SetInst, Statement
  <2> HIDE DEF w, steps
  <2>2. <<w>> \in Seq(Statements) /\ Elements(<<w>>) = {w}
    BY <2>1, ListTypes, TupleElements
  <2>3. Elements(steps \o <<w>>) = Elements(steps) \cup {w}
    BY <1>4, <2>2, JoinElements
  <2>4. w \in Elements(steps \o <<w>>)
    BY <2>3
  <2>5. steps \o <<w>> # <<>>
    BY <2>4, TupleElements
  <2> QED
    BY <1>4, <2>1, <2>3, <2>5 DEF w
<1>6. \/ Memory(c, "cleanup", steps \o <<SetInst("COMPLETED")>>, 0, after, FALSE)
      \/ Memory(c, "load", steps \o <<SetInst("IN_PROGRESS")>>, 0, after, FALSE)
      \/ Memory(c, "load", steps, 0, after, FALSE)
  BY DEF Plan
<1> HIDE DEF steps, after
<1>7. PICK pc \in {"load", "cleanup"} : \E todo :
         /\ Memory(c, pc, todo, 0, after, FALSE) /\ Plain(todo)
         /\ pc = "cleanup" => todo # <<>>
  BY <1>4, <1>5, <1>6 DEF InstStatuses
<1>8. PICK todo : /\ Memory(c, pc, todo, 0, after, FALSE) /\ Plain(todo)
                  /\ pc = "cleanup" => todo # <<>>
  BY <1>7
<1> QED
  BY <1>1, <1>8, MemoryPlain

LEMMA LoadReviewed ==
    ASSUME Typed, NEW c \in Clerks, Load(c), Reviewed(c)
    PROVE  Reviewed(c)'
<1>1. clerk[c].pc = "load" /\ clerk[c].todo = <<>> /\ Elements(<<>>) = {}
  BY TupleElements DEF Load, At
<1>2. CASE inst = "IN_PROGRESS"
  <2>1. Memory(c, "special", <<>>, 0, row, FALSE)
    BY <1>2 DEF Load
  <2>2. \A s \in Steps : ~(s <= 0)
    BY StepAssumption
  <2> QED
    BY <1>1, <2>1, <2>2, MemorySpecial
<1>3. CASE inst # "IN_PROGRESS"
  <2>1. Memory(c, "cleanup", <<>>, 0, clerk[c].rows, FALSE)
    BY <1>3 DEF Load
  <2> QED
    BY <1>1, <1>3, <2>1, MemoryPlain
<1> QED
  BY <1>2, <1>3

LEMMA OnStepFacts ==
    ASSUME Typed, NEW c \in Clerks, NEW s \in Steps, OnStep(c, s), Reviewed(c)
    PROVE  /\ clerk[c].pc = "special" /\ clerk[c].todo = <<>>
           /\ clerk[c].rows[s].status = "PENDING"
           /\ clerk[c].rows \in [Steps -> StepRows]
           /\ \A t \in Steps : clerk[c].rows[t].status = "PENDING" =>
                 row[t].status \in {"PENDING", "CANCELLED"}
<1>1. clerk[c].pc = "special" /\ clerk[c].todo = <<>> /\ clerk[c].rows[s].status = "PENDING"
  BY DEF OnStep, At, Work
<1> QED
  BY <1>1, CallValues DEF Reviewed, Tidy, Remembers

\* A review that is pending is work for the engine.
LEMMA ReviewIsWork ==
    ASSUME Typed, NEW c \in Clerks, At(c, "special"), Reviewed(c), ~clerk[c].changed,
           ~Leaving(<<>>, inst), NEW t \in Steps, Reviewing(clerk[c].rows, t)
    PROVE  Asked(approvals, t) \/ t \in Work(c)
<1>1. clerk[c].pc = "special" /\ clerk[c].todo = <<>> /\ clerk[c].at \in Nat /\ t \in Nat
  BY CallFields, StepAssumption DEF At, Typed
<1>2. t <= clerk[c].at => Asked(approvals, t)
  BY <1>1 DEF Reviewed, Waited
<1>3. t > clerk[c].at => t \in Work(c)
  BY DEF Work, Reviewing
<1> QED
  BY <1>1, <1>2, <1>3

LEMMA EarlierAsked ==
    ASSUME Typed, NEW c \in Clerks, NEW s \in Steps, OnStep(c, s), Reviewed(c), ~clerk[c].changed,
           ~Leaving(<<>>, inst), NEW t \in Steps, t < s, Reviewing(clerk[c].rows, t)
    PROVE  Asked(approvals, t)
<1>1. At(c, "special") /\ (t \in Work(c) => s <= t)
  BY DEF OnStep
<1>2. s \in Nat /\ t \in Nat
  BY StepAssumption
<1> QED
  BY <1>1, <1>2, ReviewIsWork

\* The engine moves a step, with the effects of the template.
LEMMA SettleReviewed ==
    ASSUME Typed, NEW c \in Clerks, NEW s \in Steps, OnStep(c, s), Reviewed(c),
           NEW status \in {"SKIPPED", "COMPLETED"}, NEW result \in Results,
           status = "COMPLETED" => flow.kind[s] # "REVIEW",
           NEW before, NEW then, before = <<>> \/ (\E e : before = Effect(e)),
           then = <<>> \/ (\E e : then = Effect(e)),
           Settle(c, s, status, result, before, then)
    PROVE  Reviewed(c)'
<1> DEFINE w    == SetSteps({s}, status, result)
           todo == before \o <<w>> \o then
           old  == clerk[c].rows
           rows == [old EXCEPT ![s] = Row(status, result, @.returns)]
<1>1. Memory(c, "special", todo, s, rows, TRUE)
  BY DEF Settle
<1>2. /\ before \in Seq(Statements) /\ then \in Seq(Statements)
      /\ \A v \in Elements(before) \cup Elements(then) : v.op \in {"inst", "drop", "closeOf"}
  BY EffectType, EffectOps, TupleElements, ListTypes
<1>3. w \in Statements /\ w.op = "steps" /\ w.on = {s} /\ w.status = status
  BY StatementTypes DEF StepStatuses, SetSteps, Statement
<1>4. Row(status, result, old[s].returns).status = status
  BY DEF Row
<1>5. clerk[c].todo = <<>> /\ clerk[c].pc = "special" /\ old \in [Steps -> StepRows]
      /\ \A t \in Steps : old[t].status = "PENDING" => row[t].status \in {"PENDING", "CANCELLED"}
  BY OnStepFacts
<1> HIDE DEF w, old
<1>6. Elements(todo) = Elements(before) \cup {w} \cup Elements(then)
  <2>1. <<w>> \in Seq(Statements) /\ Elements(<<w>>) = {w}
    BY <1>3, ListTypes, TupleElements
  <2>2. /\ before \o <<w>> \in Seq(Statements)
        /\ Elements(before \o <<w>>) = Elements(before) \cup {w}
    BY <1>2, <2>1, JoinElements, Concatenation
  <2> QED
    BY <1>2, <2>2, JoinElements
<1>7. \A t \in Steps : rows[t].status = "PENDING" => t # s /\ old[t].status = "PENDING"
  BY <1>4, <1>5
<1> HIDE DEF todo, rows
<1>8. \A v \in Elements(todo) : v = w \/ v.op \in {"inst", "drop", "closeOf"}
  BY <1>2, <1>6
<1>9. \A t \in Steps : flow.kind[t] = "REVIEW" => \A v \in Elements(todo) :
          v.op \in {"steps", "byHand"} /\ t \in v.on => v.status \notin {"COMPLETED", "REJECTED"}
  BY <1>3, <1>8
<1>10. \A t \in Steps : rows[t].status = "PENDING" =>
          /\ row[t].status \in {"PENDING", "CANCELLED"}
          /\ \A v \in Elements(todo) : v.op \in {"steps", "byHand"} => t \notin v.on
  BY <1>3, <1>5, <1>7, <1>8
<1> DEFINE changed == TRUE
<1>11. changed /\ Memory(c, "special", todo, s, rows, changed)
  BY <1>1
<1> HIDE DEF changed
<1> QED
  BY <1>3, <1>5, <1>8, <1>9, <1>10, <1>11, MemorySpecial

LEMMA OnStepSettles ==
    ASSUME Typed, NEW c \in Clerks, NEW s \in Steps, Reviewed(c),
           Skip(c, s) \/ RunStep(c, s) \/ ElapseTimer(c, s)
    PROVE  Reviewed(c)'
<1>1. CASE Skip(c, s)
  <2>1. OnStep(c, s) /\ Settle(c, s, "SKIPPED", "SKIPPED", <<>>, <<>>)
    BY <1>1 DEF Skip
  <2> DEFINE before == <<>>
             then   == <<>>
  <2>2. before = <<>> /\ then = <<>> /\ Settle(c, s, "SKIPPED", "SKIPPED", before, then)
    BY <2>1
  <2> HIDE DEF before, then
  <2> QED
    BY <2>1, <2>2, SettleReviewed DEF Results
<1>2. CASE RunStep(c, s)
  <2>1. /\ OnStep(c, s) /\ flow.kind[s] = "AUTO"
        /\ Settle(c, s, "COMPLETED", "AUTO", Effect(flow.act[s]), Effect(flow.success[s]))
    BY <1>2 DEF RunStep
  <2> QED
    BY <2>1, SettleReviewed DEF Results
<1>3. CASE ElapseTimer(c, s)
  <2>1. /\ OnStep(c, s) /\ flow.kind[s] = "TIMER"
        /\ Settle(c, s, "COMPLETED", "ELAPSED", <<>>, Effect(flow.success[s]))
    BY <1>3 DEF ElapseTimer
  <2> DEFINE before == <<>>
  <2>2. before = <<>> /\ Settle(c, s, "COMPLETED", "ELAPSED", before, Effect(flow.success[s]))
    BY <2>1
  <2> HIDE DEF before
  <2> QED
    BY <2>1, <2>2, SettleReviewed DEF Results
<1> QED
  BY <1>1, <1>2, <1>3

LEMMA FailureReviewed ==
    ASSUME Typed, NEW c \in Clerks, NEW s \in Steps, NEW result \in {"KEEP", "SKIPPED"},
           NEW before, Attempted(before), NEW after, Reviewed(c),
           Remember(c, "special", before \o Blocked(s, result), s, after, clerk[c].changed),
           UNCHANGED <<flow, inst, row, approvals, synced, byHand, crashes>>,
           clerk[c].todo = <<>>, clerk[c].pc \in {"special", "round", "number", "open"},
           crashes = 0 => WholeBut(approvals, cut'),
           \A t \in Steps : after[t].status = IF t = s THEN "BLOCKED" ELSE clerk[c].rows[t].status,
           ~clerk[c].changed /\ ~Leaving(<<>>, inst) =>
               \A t \in Steps : t < s /\ Reviewing(clerk[c].rows, t) => Asked(approvals, t)
    PROVE  Reviewed(c)'
<1> DEFINE pc      == "special"
           todo    == before \o Blocked(s, result)
           old     == clerk[c].rows
           changed == clerk[c].changed
<1>1. /\ Remember(c, pc, todo, s, after, changed) /\ pc = "special"
      /\ pc \in {"plan", "load", "special", "round", "cleanup"}
      /\ clerk[c].pc \in {"sync", "plan", "load", "special", "round", "number", "open"}
      /\ todo = before \o Blocked(s, result)
  OBVIOUS
<1>2. \A t \in Steps : old[t].status = "PENDING" => row[t].status \in {"PENDING", "CANCELLED"}
  BY DEF Reviewed, Tidy, Remembers
<1> HIDE DEF pc, todo
<1>3. Fails(todo, s)
  BY <1>1, FailureStatements
<1>4. PICK w : /\ w.op = "steps" /\ w.on = {s} /\ w.status = "BLOCKED"
               /\ \A v \in Elements(todo) : v = w \/ v.op \in {"inst", "drop", "closeOf"}
               /\ \A v \in InstOf(todo) : v.status \in {"ON_HOLD", "CANCELLED"}
  BY <1>3 DEF Fails
<1>5. Leaving(<<>>, inst) => Leaving(todo, inst)
  BY <1>4, TupleElements DEF Leaving, InstOf
<1>6. \A t \in Steps : after[t].status = "PENDING" => t # s /\ old[t].status = "PENDING"
  OBVIOUS
<1>7. ASSUME ~changed, ~Leaving(todo, inst), NEW t \in Steps, t <= s, Reviewing(after, t)
      PROVE  Asked(approvals, t)
  <2>1. t # s /\ Reviewing(old, t) /\ t \in Nat /\ s \in Nat
    BY <1>6, <1>7, StepAssumption DEF Reviewing
  <2> QED
    BY <1>5, <1>7, <2>1
<1>8. \A t \in Steps : flow.kind[t] = "REVIEW" => \A v \in Elements(todo) :
          v.op \in {"steps", "byHand"} /\ t \in v.on => v.status \notin {"COMPLETED", "REJECTED"}
  BY <1>4
<1>9. \A t \in Steps : after[t].status = "PENDING" =>
          /\ row[t].status \in {"PENDING", "CANCELLED"}
          /\ \A v \in Elements(todo) : v.op \in {"steps", "byHand"} => t \notin v.on
  BY <1>2, <1>4, <1>6
<1>10. \A v \in Elements(todo) : v.op \notin {"stamp", "closeOthers"}
  BY <1>4
<1> HIDE DEF old, changed
<1> QED
  BY <1>1, <1>7, <1>8, <1>9, <1>10, RememberReviewed

LEMMA StepFailsReviewed ==
    ASSUME Typed, NEW c \in Clerks, NEW s \in Steps, Reviewed(c), StepFails(c, s)
    PROVE  Reviewed(c)'
<1> DEFINE old == clerk[c].rows
<1>1. PICK ran \in BOOLEAN, result \in {"KEEP", "SKIPPED"} :
         Memory(c, "special",
                (IF ran THEN Effect(flow.act[s]) ELSE <<>>) \o Blocked(s, result), s,
                [old EXCEPT ![s] = Row("BLOCKED", IF result = "KEEP" THEN @.result ELSE result,
                                       @.returns)],
                clerk[c].changed)
  BY DEF StepFails
<1> DEFINE before == IF ran THEN Effect(flow.act[s]) ELSE <<>>
           new    == Row("BLOCKED", IF result = "KEEP" THEN old[s].result ELSE result,
                         old[s].returns)
           after  == [old EXCEPT ![s] = new]
<1>2. /\ Remember(c, "special", before \o Blocked(s, result), s, after, clerk[c].changed)
      /\ UNCHANGED <<flow, inst, row, approvals, synced, byHand, crashes>> /\ cut' = cut
  BY <1>1 DEF Memory
<1>3. Attempted(before)
  BY DEF Attempted
<1>4. OnStep(c, s) /\ clerk[c].todo = <<>> /\ clerk[c].pc = "special" /\ old \in [Steps -> StepRows]
  BY OnStepFacts DEF StepFails
<1>5. crashes = 0 => WholeBut(approvals, cut')
  BY <1>2, <1>4, RestWhole
<1>6. new.status = "BLOCKED"
  BY DEF Row
<1> HIDE DEF before, new
<1>7. \A t \in Steps : after[t].status = IF t = s THEN "BLOCKED" ELSE old[t].status
  BY <1>4, <1>6
<1>8. ~clerk[c].changed /\ ~Leaving(<<>>, inst) =>
         \A t \in Steps : t < s /\ Reviewing(old, t) => Asked(approvals, t)
  BY <1>4, EarlierAsked
<1> HIDE DEF after
<1> QED
  BY <1>1, <1>2, <1>3, <1>4, <1>5, <1>7, <1>8, FailureReviewed

LEMMA StartTimerReviewed ==
    ASSUME Typed, NEW c \in Clerks, NEW s \in Steps, Reviewed(c), StartTimer(c, s)
    PROVE  Reviewed(c)'
<1> DEFINE w    == SetTimer(s)
           old  == clerk[c].rows
           rows == [old EXCEPT ![s] = Row(@.status, "TIMER_SET", @.returns)]
<1>1. Memory(c, "special", <<w>>, s, rows, clerk[c].changed) /\ OnStep(c, s) /\ flow.kind[s] = "TIMER"
  BY DEF StartTimer
<1>2. w.op = "timer"
  BY DEF SetTimer, Statement
<1>3. clerk[c].todo = <<>> /\ clerk[c].pc = "special" /\ old \in [Steps -> StepRows]
      /\ \A t \in Steps : old[t].status = "PENDING" => row[t].status \in {"PENDING", "CANCELLED"}
  BY <1>1, OnStepFacts
<1>4. Row(old[s].status, "TIMER_SET", old[s].returns).status = old[s].status
  BY DEF Row
<1> HIDE DEF w, old
<1>5. \A t \in Steps : rows[t].status = old[t].status
  BY <1>3, <1>4
<1> HIDE DEF rows
<1>6. Elements(<<w>>) = {w}
  BY TupleElements
<1>7. Leaving(<<>>, inst) => Leaving(<<w>>, inst)
  BY <1>2, <1>6, TupleElements DEF Leaving, InstOf
<1>8. ASSUME ~clerk[c].changed, ~Leaving(<<w>>, inst), NEW t \in Steps, t <= s, Reviewing(rows, t)
      PROVE  Asked(approvals, t)
  <2>1. t # s /\ Reviewing(old, t) /\ t \in Nat /\ s \in Nat
    BY <1>1, <1>5, <1>8, StepAssumption DEF Reviewing
  <2> QED
    BY <1>1, <1>7, <1>8, <2>1, EarlierAsked DEF old
<1> QED
  BY <1>1, <1>2, <1>3, <1>5, <1>6, <1>8, MemorySpecial

\* ensureApprovals begins: a step with an open approval keeps its round.
LEMMA CountOpenReviewed ==
    ASSUME Typed, NEW c \in Clerks, NEW s \in Steps, Reviewed(c), CountOpen(c, s)
    PROVE  Reviewed(c)'
<1> DEFINE rows == clerk[c].rows
           pc   == IF OpenOf(s) = {} THEN "round" ELSE "special"
<1>1. Memory(c, pc, <<>>, s, rows, clerk[c].changed) /\ OnStep(c, s) /\ flow.kind[s] = "REVIEW"
  BY DEF CountOpen
<1>2. /\ clerk[c].todo = <<>> /\ clerk[c].pc = "special" /\ rows[s].status = "PENDING"
      /\ \A t \in Steps : rows[t].status = "PENDING" => row[t].status \in {"PENDING", "CANCELLED"}
  BY <1>1, OnStepFacts
<1>3. ASSUME ~clerk[c].changed, ~Leaving(<<>>, inst), NEW t \in Steps, t < s, Reviewing(rows, t)
      PROVE  Asked(approvals, t)
  BY <1>1, <1>3, EarlierAsked
<1>4. OpenOf(s) # {} <=> Asked(approvals, s)
  BY DEF OpenOf, OfStep, IsOpen, Ids, Asked, Open
<1>5. CASE OpenOf(s) = {}
  <2>1. \A a \in Ids : approvals[a].step = s => ~Open(approvals, a)
    BY <1>4, <1>5 DEF Asked, Ids
  <2>2. Memory(c, "round", <<>>, s, rows, clerk[c].changed)
    BY <1>1, <1>5
  <2> QED
    BY <1>1, <1>2, <1>3, <2>1, <2>2, MemoryRound
<1>6. CASE OpenOf(s) # {}
  <2>1. Memory(c, "special", <<>>, s, rows, clerk[c].changed)
    BY <1>1, <1>6
  <2>2. ASSUME ~clerk[c].changed, ~Leaving(<<>>, inst), NEW t \in Steps, t <= s, Reviewing(rows, t)
        PROVE  Asked(approvals, t)
    <3>1. t = s \/ t < s
      BY <2>2, StepAssumption
    <3> QED
      BY <1>3, <1>4, <1>6, <2>2, <3>1
  <2>3. Elements(<<>>) = {}
    BY TupleElements
  <2> HIDE DEF rows
  <2> QED
    BY <1>2, <2>1, <2>2, <2>3, MemorySpecial
<1> QED
  BY <1>5, <1>6

-----------------------------------------------------------------------------
(* Opening a round (ensureApprovals).                                      *)

LEMMA DraftingReviewed ==
    ASSUME Typed, NEW c \in Clerks, NEW pc \in {"number", "open", "special"}, NEW draft,
           Drafting(c, pc, draft), Reviewed(c),
           clerk[c].pc \in {"round", "number", "open"},
           UNCHANGED <<flow, row, inst, synced, byHand, crashes>>, Booked(approvals'),
           \A k : k.pc = pc /\ k.at = clerk[c].at /\ k.draft = draft =>
               /\ Opening(k, approvals')
               /\ crashes = 0 => Clear(approvals', row, byHand) /\ Complete(k, approvals', cut'),
           \A s \in Steps : Asked(approvals, s) => Asked(approvals', s),
           pc = "special" => Asked(approvals', clerk[c].at)
    PROVE  Reviewed(c)'
<1> DEFINE old  == clerk[c]
           k    == Call(pc, <<>>, old.at, old.rows, old.pass, old.changed, draft)
           book == approvals
           next == approvals'
<1>1. /\ k.pc = pc /\ k.todo = <<>> /\ k.at = old.at /\ k.rows = old.rows
      /\ k.changed = old.changed /\ k.draft = draft
  BY DEF Call
<1>2. clerk' = [clerk EXCEPT ![c] = k]
  BY DEF Drafting
<1>3. Tidy(old, book, row) /\ Waited(old, book, row, inst, synced)
  BY DEF Reviewed
<1>4. old.todo = <<>> /\ old.pc \in {"round", "number", "open"} /\ old.at \in Nat
  BY <1>3, CallFields DEF Tidy, Remembers, Typed
<1>5. Booked(next) /\ (\A s \in Steps : Asked(book, s) => Asked(next, s))
      /\ (pc = "special" => Asked(next, old.at))
  OBVIOUS
<1>6. Opening(k, next) /\ (crashes = 0 => Clear(next, row, byHand) /\ Complete(k, next, cut'))
  BY <1>1
<1> HIDE DEF k, old, book, next
<1>7. clerk'[c] = k
  BY <1>2, Becomes
<1>8. Elements(k.todo) = {}
  BY <1>1, TupleElements
<1>9. Remembers(k, row)
  BY <1>1, <1>3, <1>4, <1>8 DEF Tidy, Remembers
<1>10. Tidy(k, next, row)
  BY <1>1, <1>5, <1>6, <1>8, <1>9 DEF Tidy, Stamping, ClosingOthers, Counting
<1>11. ASSUME crashes = 0 PROVE Decided(k, next, row, byHand, cut')
  <2>1. Withdrawn(k, next, row)
    BY <1>1, <1>6, <1>8, <1>11 DEF Withdrawn, Ends, Over, Clear
  <2> QED
    BY <1>1, <1>6, <1>8, <1>11, <2>1, ClearDecided
<1>12. Waited(k, next, row, inst, synced)
  <2> SUFFICES ASSUME ~k.changed, ~Leaving(k.todo, inst)
               PROVE  /\ pc = "special" => \A s \in Steps :
                             s <= k.at /\ Reviewing(k.rows, s) => Asked(next, s)
                      /\ pc \in {"round", "number", "open"} => \A s \in Steps :
                             s < k.at /\ Reviewing(k.rows, s) => Asked(next, s)
    BY <1>1 DEF Waited
  <2>1. \A s \in Steps : s < old.at /\ Reviewing(old.rows, s) => Asked(book, s)
    BY <1>1, <1>3, <1>4 DEF Waited
  <2>2. \A s \in Steps : s <= old.at => s < old.at \/ s = old.at
    BY <1>4, StepAssumption
  <2> QED
    BY <1>1, <1>5, <2>1, <2>2
<1> QED
  BY <1>7, <1>10, <1>11, <1>12, ReviewedNext DEF next

\* Where a round is being opened: nothing else is left to write.
LEMMA AtRound ==
    ASSUME Typed, NEW c \in Clerks, Reviewed(c), clerk[c].pc \in {"round", "number", "open"}
    PROVE  /\ clerk[c].at \in Steps /\ flow.kind[clerk[c].at] = "REVIEW"
           /\ row[clerk[c].at].status \in {"PENDING", "CANCELLED"}
           /\ Booked(approvals) /\ Opening(clerk[c], approvals)
           /\ crashes = 0 => Clear(approvals, row, byHand) /\ Complete(clerk[c], approvals, cut)
<1> DEFINE k    == clerk[c]
           book == approvals
<1>1. /\ Tidy(k, book, row) /\ (crashes = 0 => Decided(k, book, row, byHand, cut))
      /\ k.pc \in {"round", "number", "open"} /\ k.at \in Steps
  BY DEF Reviewed, Typed, About
<1> HIDE DEF k, book
<1>2. k.todo = <<>> /\ flow.kind[k.at] = "REVIEW" /\ k.rows[k.at].status = "PENDING"
  BY <1>1 DEF Tidy, Remembers
<1>3. row[k.at].status \in {"PENDING", "CANCELLED"}
  BY <1>1, <1>2 DEF Tidy, Remembers
<1>4. crashes = 0 => Clear(book, row, byHand) /\ Complete(k, book, cut)
  BY <1>1, <1>2, ClearFacts DEF Decided
<1> QED
  BY <1>1, <1>2, <1>3, <1>4 DEF Tidy, k, book

\* A round that fails keeps what was inserted, and its step is blocked.
LEMMA RoundFailsReviewed ==
    ASSUME Typed, NEW c \in Clerks, Reviewed(c), RoundFails(c)
    PROVE  Reviewed(c)'
<1> DEFINE k      == clerk[c]
           s      == k.at
           before == <<>>
           result == "KEEP"
           after  == SetStatus(k.rows, {s}, "BLOCKED")
<1>1. k.pc \in {"round", "number", "open"} /\ k.todo = <<>>
  BY DEF RoundFails, At
<1>2. /\ s \in Steps
      /\ crashes = 0 => Complete(k, approvals, cut)
  BY <1>1, AtRound
<1>3. Blocked(s, result) \in Seq(Statements)
  BY <1>2, BlockedType
<1>4. before \o Blocked(s, result) = Blocked(s, result)
  <2> DEFINE then == Blocked(s, result)
  <2> HIDE DEF then
  <2> QED
    BY <1>3, EmptyJoin DEF then
<1>5. /\ Remember(c, "special", before \o Blocked(s, result), s, after, k.changed)
      /\ UNCHANGED <<flow, inst, row, approvals, synced, byHand, crashes>>
  BY <1>4 DEF RoundFails
<1>6. crashes = 0 => WholeBut(approvals, cut')
  BY <1>2 DEF RoundFails, Complete, Partly, WholeBut
<1>7. \A t \in Steps : after[t].status = IF t = s THEN "BLOCKED" ELSE k.rows[t].status
  BY DEF SetStatus, Row
<1>8. result \in {"KEEP", "SKIPPED"} /\ Attempted(before)
  BY DEF Attempted
<1>9. ~k.changed /\ ~Leaving(<<>>, inst) =>
         \A t \in Steps : t < s /\ Reviewing(k.rows, t) => Asked(approvals, t)
  BY <1>1 DEF Reviewed, Waited
<1>10. k.pc \in {"special", "round", "number", "open"} /\ k.todo = <<>>
  BY <1>1
<1> HIDE DEF before, result, after, s
<1> QED
  BY <1>2, <1>5, <1>6, <1>7, <1>8, <1>9, <1>10, FailureReviewed

LEMMA LastRoundReviewed ==
    ASSUME Typed, NEW c \in Clerks, Reviewed(c), LastRound(c)
    PROVE  Reviewed(c)'
<1> DEFINE pc == "number"
           at == clerk[c].at
<1>1. clerk[c].pc = "round" /\ clerk[c].todo = <<>>
  BY DEF LastRound, At
<1>2. PICK r \in {0} \cup {approvals[a].round : a \in OfStep(at)} :
         /\ \A a \in OfStep(at) : approvals[a].round <= r
         /\ Drafting(c, "number", Draft(r + 1, 0, 1))
  BY DEF LastRound
<1> DEFINE draft == Draft(r + 1, 0, 1)
<1>3. /\ Drafting(c, pc, draft) /\ draft.round = r + 1 /\ draft.seq = 1 /\ pc = "number"
      /\ approvals' = approvals /\ UNCHANGED <<flow, row, inst, synced, byHand, cut, crashes>>
  BY <1>2 DEF Draft, LastRound
<1>4. \A a \in Ids : approvals[a].round \in Nat
  BY ApprovalFields
<1>5. r \in Nat
  BY <1>2, <1>4 DEF OfStep
<1>6. \A a \in Ids : approvals[a].step = at => approvals[a].round < r + 1
  BY <1>2, <1>4, <1>5 DEF OfStep
<1>7. /\ Booked(approvals) /\ Opening(clerk[c], approvals)
      /\ crashes = 0 => Clear(approvals, row, byHand) /\ Complete(clerk[c], approvals, cut)
  BY <1>1, AtRound
<1> HIDE DEF pc, draft, at
<1>8. ASSUME NEW k, k.pc = pc, k.at = at, k.draft = draft
      PROVE  /\ Opening(k, approvals)
             /\ crashes = 0 => Clear(approvals, row, byHand) /\ Complete(k, approvals, cut)
  <2>1. Opening(k, approvals)
    BY <1>1, <1>3, <1>6, <1>7, <1>8 DEF Opening, Ids, at
  <2>2. crashes = 0 => Complete(k, approvals, cut)
    BY <1>1, <1>7 DEF Complete, Partly
  <2> QED
    BY <1>7, <2>1, <2>2
<1> QED
  BY <1>1, <1>3, <1>7, <1>8, DraftingReviewed DEF at

LEMMA CountAllReviewed ==
    ASSUME Typed, NEW c \in Clerks, Reviewed(c), CountAll(c)
    PROVE  Reviewed(c)'
<1> DEFINE pc    == "open"
           at    == clerk[c].at
           round == clerk[c].draft.round
           draft == Draft(round, Len(approvals) + 1, 1)
<1>1. clerk[c].pc = "number" /\ clerk[c].todo = <<>>
  BY DEF CountAll, At
<1>2. /\ Drafting(c, pc, draft) /\ draft.round = round /\ draft.seq = 1 /\ pc = "open"
      /\ draft.code = Len(approvals) + 1
      /\ approvals' = approvals /\ UNCHANGED <<flow, row, inst, synced, byHand, cut, crashes>>
  BY DEF Draft, CountAll
<1>3. /\ Booked(approvals) /\ Opening(clerk[c], approvals) /\ at \in Steps
      /\ crashes = 0 => Clear(approvals, row, byHand) /\ Complete(clerk[c], approvals, cut)
  BY <1>1, AtRound
<1>4. flow.approvers[at] \in Nat \ {0}
  BY <1>3 DEF Typed, Templates
<1>5. Len(approvals) \in Nat /\ DOMAIN approvals = 1 .. Len(approvals)
  BY DEF Typed
<1>6. \A a \in DOMAIN approvals :
         approvals[a].step = at => ~Open(approvals, a) /\ approvals[a].round < round
  BY <1>1, <1>3 DEF Opening
<1> HIDE DEF pc, draft, at, round
<1>7. ASSUME NEW k, k.pc = pc, k.at = at, k.draft = draft
      PROVE  /\ Opening(k, approvals)
             /\ crashes = 0 => Clear(approvals, row, byHand) /\ Complete(k, approvals, cut)
  <2>1. \A a \in DOMAIN approvals : ~InRound(k, approvals, a) /\ a # Len(approvals) + 1
    BY <1>2, <1>5, <1>7 DEF InRound
  <2>2. k.draft.seq \in 1 .. flow.approvers[k.at] /\ k.draft.seq <= Len(approvals) + 1
    BY <1>2, <1>4, <1>5, <1>7
  <2>3. Len(approvals) + 2 - k.draft.seq = Len(approvals) + 1
    BY <1>2, <1>5, <1>7
  <2>4. Opening(k, approvals)
    BY <1>2, <1>6, <1>7, <2>1, <2>2, <2>3 DEF Opening
  <2>5. crashes = 0 => Complete(k, approvals, cut)
    BY <1>1, <1>3 DEF Complete, Partly
  <2> QED
    BY <1>3, <2>4, <2>5
<1> QED
  BY <1>1, <1>2, <1>3, <1>7, DraftingReviewed DEF at

\* The approval `n' is added to the round that is being opened.
Adds(k, book, next, n) ==
    /\ k.pc = "open" /\ Opening(k, book) /\ flow.kind[k.at] = "REVIEW"
    /\ n = Len(book) + 1 /\ Len(book) \in Nat /\ DOMAIN book = 1 .. Len(book)
    /\ DOMAIN next = 1 .. n /\ Len(next) = n
    /\ \A a \in DOMAIN book : next[a] = book[a] /\ book[a].round \in Nat
    /\ next[n].step = k.at /\ next[n].round = k.draft.round /\ next[n].code = n
    /\ next[n].status = IF flow.mode[k.at] = "SEQUENTIAL" /\ k.draft.seq > 1 THEN "WAITING"
                        ELSE "PENDING"
    /\ k.draft.round \in Nat /\ k.draft.seq \in Nat \ {0}

\* Where the first of `q' approvals is, in a list that ends at `n'.
LEMMA Places ==
    ASSUME NEW l \in Nat, NEW q \in Nat
    PROVE  LET n == l + 1
           IN  /\ l + 2 - q = n + 1 - q /\ l + 1 - q = n - q
               /\ n + 1 - (q + 1) = n - q /\ n + 2 - (q + 1) = n + 1 - q
               /\ n + 1 - q + q - 1 = n
               /\ q <= n /\ q # 0 => n + 1 - q \in 1 .. n
  OBVIOUS

LEMMA AddsFacts ==
    ASSUME NEW k, NEW book, NEW next, NEW n, Adds(k, book, next, n)
    PROVE  /\ n \in Nat /\ n \notin DOMAIN book /\ DOMAIN next = DOMAIN book \cup {n}
           /\ Open(next, n) /\ k.draft.seq <= n
           /\ \A a \in DOMAIN book : Open(next, a) <=> Open(book, a)
<1>1. n \in Nat /\ n \notin DOMAIN book /\ DOMAIN next = DOMAIN book \cup {n}
  BY DEF Adds
<1>2. Open(next, n) /\ k.draft.seq <= n
  BY DEF Adds, Open, OpenStatuses, Opening
<1>3. \A a \in DOMAIN book : Open(next, a) <=> Open(book, a)
  BY DEF Adds, Open
<1> QED
  BY <1>1, <1>2, <1>3

LEMMA AddsPlaces ==
    ASSUME NEW k, NEW book, NEW next, NEW n, Adds(k, book, next, n)
    PROVE  /\ Len(book) + 2 - k.draft.seq = n + 1 - k.draft.seq
           /\ Len(book) + 1 - k.draft.seq = n - k.draft.seq
<1>1. n = Len(book) + 1 /\ Len(book) \in Nat /\ k.draft.seq \in Nat
  BY DEF Adds
<1> QED
  BY <1>1, Places

\* The round is the last approvals, and the last round of the step.
LEMMA AddsRound ==
    ASSUME NEW k, NEW book, NEW next, NEW n, Adds(k, book, next, n), NEW a \in DOMAIN book
    PROVE  /\ a > n - k.draft.seq => /\ book[a].step = k.at /\ Open(book, a)
                                     /\ book[a].round = k.draft.round
           /\ book[a].step = k.at /\ ~(a > n - k.draft.seq) =>
                 ~Open(book, a) /\ book[a].round < k.draft.round
           /\ book[a].step = k.at => book[a].round <= k.draft.round
<1>1. book[a].round \in Nat /\ k.draft.round \in Nat
  BY DEF Adds
<1> QED
  BY <1>1, AddsPlaces DEF Adds, Opening, InRound

\* Its first approval can be decided.
LEMMA AddsFirst ==
    ASSUME NEW k, NEW book, NEW next, NEW n, Adds(k, book, next, n)
    PROVE  /\ k.draft.seq = 1 => next[n].status = "PENDING"
           /\ \A a \in DOMAIN book : a = n + 1 - k.draft.seq => book[a].status = "PENDING"
<1>1. k.draft.seq = 1 => next[n].status = "PENDING"
  BY DEF Adds
<1>2. \A a \in DOMAIN book : a = n + 1 - k.draft.seq => book[a].status = "PENDING"
  BY AddsPlaces DEF Adds, Opening
<1> QED
  BY <1>1, <1>2

LEMMA AddedBooked ==
    ASSUME NEW k, NEW book, NEW next, NEW n, Adds(k, book, next, n), Booked(book)
    PROVE  Booked(next)
<1>5. DOMAIN next = DOMAIN book \cup {n} /\ \A a \in DOMAIN book : Open(next, a) <=> Open(book, a)
  BY AddsFacts
<1>6. ASSUME NEW a \in DOMAIN book
      PROVE  /\ book[a].step = k.at => book[a].round <= k.draft.round
             /\ book[a].step = k.at /\ Open(book, a) => book[a].round = k.draft.round
  BY AddsRound
<1>1. /\ DOMAIN next = DOMAIN book \cup {n}
      /\ \A a \in DOMAIN book :
            /\ Open(next, a) <=> Open(book, a)
            /\ book[a].step = k.at /\ Open(book, a) => book[a].round = k.draft.round
            /\ book[a].step = k.at => book[a].round <= k.draft.round
  BY <1>5, <1>6
<1>2. /\ \A a \in DOMAIN book : next[a] = book[a]
      /\ next[n].step = k.at /\ next[n].round = k.draft.round /\ next[n].code = n
      /\ k.draft.round \in Nat /\ flow.kind[k.at] = "REVIEW"
      /\ next[n].status = "WAITING" => flow.mode[k.at] = "SEQUENTIAL"
  BY DEF Adds
<1>3. Newest(next, n)
  BY <1>1, <1>2 DEF Newest
<1>4. ASSUME NEW a \in DOMAIN book, Open(book, a) PROVE Newest(next, a)
  <2>1. Newest(book, a)
    BY <1>4 DEF Booked
  <2>2. book[a].step = k.at => book[a].round = k.draft.round
    BY <1>1, <1>4
  <2> QED
    BY <1>1, <1>2, <2>1, <2>2 DEF Newest
<1> QED
  BY <1>1, <1>2, <1>3, <1>4 DEF Booked

LEMMA AddedOpening ==
    ASSUME NEW k, NEW book, NEW next, NEW n, Adds(k, book, next, n),
           k.draft.seq # flow.approvers[k.at], flow.approvers[k.at] \in Nat
    PROVE  \A j : /\ j.pc = "open" /\ j.at = k.at
                  /\ j.draft = Draft(k.draft.round, n + 1, k.draft.seq + 1)
              => Opening(j, next)
<1> DEFINE q == k.draft.seq
<1>8. /\ n \in Nat /\ DOMAIN next = DOMAIN book \cup {n} /\ Open(next, n) /\ q <= n
      /\ \A a \in DOMAIN book : Open(next, a) <=> Open(book, a)
  BY AddsFacts
<1>9. ASSUME NEW a \in DOMAIN book
      PROVE  /\ a > n - q => /\ book[a].step = k.at /\ Open(book, a)
                             /\ book[a].round = k.draft.round
             /\ book[a].step = k.at /\ ~(a > n - q) =>
                   ~Open(book, a) /\ book[a].round < k.draft.round
  BY AddsRound
<1>10. /\ q = 1 => next[n].status = "PENDING"
       /\ \A a \in DOMAIN book : a = n + 1 - q => book[a].status = "PENDING"
  BY AddsFirst
<1>1. /\ n \in Nat /\ DOMAIN next = DOMAIN book \cup {n} /\ Open(next, n) /\ q <= n
      /\ q = 1 => next[n].status = "PENDING"
      /\ \A a \in DOMAIN book :
            /\ Open(next, a) <=> Open(book, a)
            /\ a > n - q => /\ book[a].step = k.at /\ Open(book, a)
                            /\ book[a].round = k.draft.round
            /\ book[a].step = k.at /\ ~(a > n - q) => ~Open(book, a) /\ book[a].round < k.draft.round
      /\ \A a \in DOMAIN book : a = n + 1 - q => book[a].status = "PENDING"
  BY <1>8, <1>9, <1>10
<1>2. /\ \A a \in DOMAIN book : next[a] = book[a]
      /\ next[n].step = k.at /\ next[n].round = k.draft.round
      /\ q \in 1 .. flow.approvers[k.at] /\ q \in Nat \ {0} /\ Len(next) = n
      /\ n \notin DOMAIN book /\ n = Len(book) + 1 /\ Len(book) \in Nat
  BY AddsFacts DEF Adds, Opening
<1> TAKE j
<1> HAVE /\ j.pc = "open" /\ j.at = k.at
         /\ j.draft = Draft(k.draft.round, n + 1, k.draft.seq + 1)
<1>7. j.draft.round = k.draft.round /\ j.draft.code = n + 1 /\ j.draft.seq = q + 1
  BY DEF Draft
<1>3. j.draft.code = Len(next) + 1 /\ j.draft.seq \in 1 .. flow.approvers[j.at]
      /\ j.draft.seq <= Len(next) + 1
  BY <1>1, <1>2, <1>7
<1>4. Len(next) + 1 - j.draft.seq = n - q /\ Len(next) + 2 - j.draft.seq = n + 1 - q
  BY <1>2, <1>7, Places
<1>5. n > n - q /\ (n = n + 1 - q => q = 1)
  BY <1>1, <1>2
<1>6. \A a \in DOMAIN next :
         /\ InRound(j, next, a) => /\ next[a].step = j.at /\ Open(next, a)
                                   /\ next[a].round = j.draft.round
         /\ next[a].step = j.at /\ ~InRound(j, next, a) =>
               ~Open(next, a) /\ next[a].round < j.draft.round
         /\ a = Len(next) + 2 - j.draft.seq => next[a].status = "PENDING"
  BY <1>1, <1>2, <1>4, <1>5, <1>7 DEF InRound
<1> QED
  BY <1>3, <1>6 DEF Opening

\* The rounds of other steps stay as they are.
LEMMA AddedLast ==
    ASSUME NEW k, NEW book, NEW next, NEW n, Adds(k, book, next, n), NEW s, s # k.at
    PROVE  /\ Last(next, s) = Last(book, s) /\ (Whole(book, s) => Whole(next, s))
           /\ Consent(book, s) => Consent(next, s)
<1>1. DOMAIN next = DOMAIN book \cup {n} /\ next[n].step # s
      /\ \A a \in DOMAIN book : next[a] = book[a]
  BY AddsFacts DEF Adds
<1>2. \A a \in DOMAIN book : book[a].step = s => (Newest(next, a) <=> Newest(book, a))
  BY <1>1 DEF Newest
<1>3. Last(next, s) = Last(book, s)
  BY <1>1, <1>2 DEF Last
<1>4. Whole(book, s) => Whole(next, s)
  BY <1>1, <1>3 DEF Whole
<1>5. \A a \in Last(book, s) : next[a] = book[a]
  BY <1>1 DEF Last
<1> QED
  BY <1>3, <1>4, <1>5 DEF Consent

\* The last approval makes the round whole.
LEMMA AddedWhole ==
    ASSUME NEW k, NEW book, NEW next, NEW n, Adds(k, book, next, n),
           k.draft.seq = flow.approvers[k.at]
    PROVE  Whole(next, k.at)
<1> DEFINE q == k.draft.seq
           f == n + 1 - q
<1>6. n \in Nat /\ DOMAIN next = DOMAIN book \cup {n} /\ q <= n
  BY AddsFacts
<1>7. ASSUME NEW a \in DOMAIN book
      PROVE  /\ a > n - q => /\ book[a].step = k.at /\ book[a].round = k.draft.round
             /\ book[a].step = k.at /\ ~(a > n - q) => book[a].round < k.draft.round
             /\ book[a].step = k.at => book[a].round <= k.draft.round
  BY AddsRound
<1>1. /\ n \in Nat /\ DOMAIN next = DOMAIN book \cup {n} /\ q <= n
      /\ \A a \in DOMAIN book :
            /\ a > n - q => /\ book[a].step = k.at /\ book[a].round = k.draft.round
            /\ book[a].step = k.at /\ ~(a > n - q) => book[a].round < k.draft.round
      /\ \A a \in DOMAIN book : book[a].step = k.at => book[a].round <= k.draft.round
  BY <1>6, <1>7
<1>2. /\ \A a \in DOMAIN book : next[a] = book[a] /\ book[a].round \in Nat
      /\ next[n].step = k.at /\ next[n].round = k.draft.round /\ k.draft.round \in Nat
      /\ q \in Nat \ {0} /\ DOMAIN next = 1 .. n /\ n = Len(book) + 1 /\ Len(book) \in Nat
  BY DEF Adds
<1>3. ASSUME NEW a \in DOMAIN next
      PROVE  next[a].step = k.at /\ Newest(next, a) <=> a > n - q
  <2>1. a > n - q => next[a].step = k.at /\ next[a].round = k.draft.round
    BY <1>1, <1>2
  <2>2. \A b \in DOMAIN next : next[b].step = k.at => next[b].round <= k.draft.round
    BY <1>1, <1>2
  <2>3. a > n - q => Newest(next, a)
    BY <2>1, <2>2 DEF Newest
  <2>4. next[a].step = k.at /\ ~(a > n - q) => next[a].round < k.draft.round /\ next[a].round \in Nat
    <3>1. n > n - q
      BY <1>1, <1>2
    <3>2. ~(a > n - q) => a \in DOMAIN book
      BY <1>1, <3>1
    <3> QED
      BY <1>1, <1>2, <3>2
  <2>5. next[a].step = k.at /\ ~(a > n - q) => ~Newest(next, a)
    BY <1>1, <1>2, <2>4 DEF Newest
  <2> QED
    BY <2>1, <2>3, <2>5
<1>4. f \in DOMAIN next /\ f + q - 1 = n
  BY <1>1, <1>2, Places
<1>5. Last(next, k.at) = f .. n
  <2>1. \A a \in 1 .. n : a > n - q <=> a \in f .. n
    BY <1>1, <1>2
  <2>2. f .. n \subseteq 1 .. n
    BY <1>1, <1>2
  <2> QED
    BY <1>2, <1>3, <2>1, <2>2 DEF Last
<1> QED
  BY <1>4, <1>5 DEF Whole

LEMMA AddedClear ==
    ASSUME NEW k, NEW book, NEW next, NEW n, Adds(k, book, next, n), NEW table, NEW hand,
           Clear(book, table, hand), table[k.at].status \in {"PENDING", "CANCELLED"}
    PROVE  Clear(next, table, hand)
<1> DEFINE q == k.draft.seq
           s == k.at
<1>1. DOMAIN next = DOMAIN book \cup {n} /\ Open(next, n) /\ n \notin DOMAIN book
  BY AddsFacts
<1>9. \A a \in DOMAIN book : Open(next, a) <=> Open(book, a)
  BY AddsFacts
<1>10. ASSUME NEW a \in DOMAIN book
       PROVE  /\ a > n - q => book[a].step = s /\ Open(book, a) /\ book[a].round = k.draft.round
              /\ book[a].step = s /\ ~(a > n - q) => ~Open(book, a) /\ book[a].round < k.draft.round
  BY AddsRound
<1>2. \A a \in DOMAIN book :
         /\ Open(next, a) <=> Open(book, a)
         /\ a > n - q => book[a].step = s /\ Open(book, a) /\ book[a].round = k.draft.round
         /\ book[a].step = s /\ ~(a > n - q) => ~Open(book, a) /\ book[a].round < k.draft.round
  BY <1>9, <1>10
<1>3. /\ \A a \in DOMAIN book : next[a] = book[a] /\ book[a].round \in Nat
      /\ next[n].step = s /\ next[n].round = k.draft.round /\ k.draft.round \in Nat
  BY DEF Adds
\* The first of the round can be decided.
<1>4. \E b \in DOMAIN next : next[b].step = s /\ Open(next, b) /\ next[b].status # "WAITING"
  <2>1. CASE q = 1
    <3>1. next[n].status = "PENDING"
      BY <2>1, AddsFirst
    <3> QED
      BY <1>1, <1>3, <3>1
  <2>2. CASE q # 1
    <3> DEFINE b == n + 1 - q
    <3>1. n \in Nat /\ q <= n
      BY AddsFacts
    <3>4. q \in Nat \ {0} /\ n = Len(book) + 1 /\ Len(book) \in Nat /\ DOMAIN book = 1 .. Len(book)
      BY DEF Adds
    <3>2. b \in DOMAIN book /\ b > n - q
      BY <2>2, <3>1, <3>4
    <3>3. book[b].status = "PENDING"
      BY <3>2, AddsFirst
    <3> QED
      BY <1>1, <1>2, <1>3, <3>2, <3>3
  <2> QED
    BY <2>1, <2>2
\* Whoever is in a round that is open for the step is in this one, undecided.
<1>5. ASSUME NEW a \in DOMAIN next, next[a].step = s, Open(next, a)
      PROVE  next[a].round = k.draft.round
  BY <1>1, <1>2, <1>3, <1>5
<1>6. ASSUME NEW b \in DOMAIN next, next[b].step = s, next[b].round = k.draft.round
      PROVE  Open(next, b)
  BY <1>1, <1>2, <1>3, <1>6
<1> HIDE DEF q, s
<1>7. ASSUME NEW a \in DOMAIN next, Open(next, a)
      PROVE  /\ table[next[a].step].status \notin {"COMPLETED", "REJECTED"}
             /\ \E b \in DOMAIN next : /\ next[b].step = next[a].step /\ Open(next, b)
                                       /\ next[b].status # "WAITING"
             /\ \A b \in DOMAIN next : Peers(next, a, b) => Agrees(next, b)
  <2>1. CASE next[a].step = s
    <3>1. \A b \in DOMAIN next : Peers(next, a, b) => Agrees(next, b)
      BY <1>5, <1>6, <1>7, <2>1 DEF Peers, Agrees
    <3> QED
      BY <1>4, <2>1, <3>1 DEF s
  <2>2. CASE next[a].step # s
    <3>1. a \in DOMAIN book /\ Open(book, a) /\ next[a] = book[a]
      BY <1>1, <1>2, <1>3, <1>7, <2>2
    <3>2. /\ table[book[a].step].status \notin {"COMPLETED", "REJECTED"}
          /\ \E b \in DOMAIN book : /\ book[b].step = book[a].step /\ Open(book, b)
                                    /\ book[b].status # "WAITING"
          /\ \A b \in DOMAIN book : Peers(book, a, b) => Agrees(book, b)
      BY <3>1 DEF Clear
    <3>3. ASSUME NEW b \in DOMAIN next, Peers(next, a, b) PROVE Agrees(next, b)
      <4>1. b \in DOMAIN book /\ next[b] = book[b]
        BY <1>1, <1>3, <2>2, <3>3 DEF Peers
      <4> QED
        BY <3>1, <3>2, <3>3, <4>1 DEF Peers, Agrees, Open
    <3> QED
      BY <1>1, <1>2, <1>3, <3>1, <3>2, <3>3
  <2> QED
    BY <2>1, <2>2
<1>8. ASSUME NEW t \in Steps, flow.kind[t] = "REVIEW", table[t].status = "COMPLETED",
             table[t].result = "APPROVED", t \notin hand
      PROVE  Consent(next, t)
  <2>1. Consent(book, t) /\ t # s
    BY <1>8 DEF Clear, s
  <2> QED
    BY <2>1, AddedLast DEF s
<1> QED
  BY <1>7, <1>8 DEF Clear

\* Whether the round is whole or not, the other steps keep theirs.
LEMMA AddedComplete ==
    ASSUME NEW k, NEW book, NEW next, NEW n, Adds(k, book, next, n), NEW short,
           Complete(k, book, short)
    PROVE  \A j : /\ j.at = k.at
                  /\ \/ j.pc = "open" /\ j.draft.seq > 1
                     \/ k.draft.seq = flow.approvers[k.at]
              => Complete(j, next, IF k.draft.seq = 1 THEN short \ {k.at} ELSE short)
<1> SUFFICES ASSUME NEW j, j.at = k.at,
                    \/ j.pc = "open" /\ j.draft.seq > 1
                    \/ k.draft.seq = flow.approvers[k.at]
             PROVE  Complete(j, next, IF k.draft.seq = 1 THEN short \ {k.at} ELSE short)
  OBVIOUS
<1>1. k.draft.seq = flow.approvers[k.at] => Whole(next, k.at)
  BY AddedWhole
<1>2. /\ DOMAIN next = DOMAIN book \cup {n} /\ next[n].step = k.at
      /\ \A a \in DOMAIN book : next[a] = book[a]
  BY AddsFacts DEF Adds
<1>3. \A a \in DOMAIN book : book[a].step # k.at =>
         Whole(next, book[a].step) \/ book[a].step \in short
  BY AddedLast DEF Complete, Partly
<1> QED
  BY <1>1, <1>2, <1>3 DEF Complete, Partly

LEMMA OpenApprovalReviewed ==
    ASSUME Typed, NEW c \in Clerks, Reviewed(c), OpenApproval(c)
    PROVE  Reviewed(c)'
<1> DEFINE k     == clerk[c]
           s     == k.at
           d     == k.draft
           book  == approvals
           next  == approvals'
           n     == Len(book) + 1
           first == IF flow.mode[s] = "SEQUENTIAL" /\ d.seq > 1 THEN "WAITING" ELSE "PENDING"
           v     == Approval(s, d.round, d.seq, d.code, first)
<1>1. k.pc = "open" /\ k.todo = <<>> /\ k \in Calls
  BY DEF OpenApproval, At, Typed
<1>2. /\ s \in Steps /\ flow.kind[s] = "REVIEW" /\ row[s].status \in {"PENDING", "CANCELLED"}
      /\ Booked(book) /\ Opening(k, book)
      /\ crashes = 0 => Clear(book, row, byHand) /\ Complete(k, book, cut)
  BY <1>1, AtRound
<1>3. d.round \in Nat /\ d.code \in Nat /\ d.seq \in Nat
  BY <1>1, CallFields DEF Drafts
<1>4. /\ Len(book) \in Nat /\ DOMAIN book = 1 .. Len(book) /\ book \in Seq(Approvals)
      /\ \A a \in DOMAIN book : book[a].round \in Nat
  BY ApprovalFields DEF Typed, Ids
<1>5. d.code = n /\ d.seq \in 1 .. flow.approvers[s] /\ flow.approvers[s] \in Nat \ {0}
  BY <1>1, <1>2 DEF Opening, Typed, Templates
<1>6. ~\E a \in Ids : approvals[a].code = d.code
  BY <1>2, <1>4, <1>5 DEF Booked, Ids
<1>7. v \in Approvals
  BY <1>2, <1>3, ApprovalType DEF ApprovalStatuses, OpenStatuses
<1>8. v.step = s /\ v.round = d.round /\ v.code = n /\ v.status = first
  BY <1>5 DEF Approval
<1>9. next = Append(book, v)
  BY <1>6 DEF OpenApproval
<1>10. \/ d.seq = flow.approvers[s] /\ Drafting(c, "special", NoDraft)
       \/ d.seq # flow.approvers[s] /\ Drafting(c, "open", Draft(d.round, n + 1, d.seq + 1))
  BY <1>5, <1>6 DEF OpenApproval
<1>11. /\ UNCHANGED <<flow, row, inst, synced, byHand, crashes>>
       /\ cut' = IF d.seq = 1 THEN cut \ {s} ELSE cut
  BY <1>6 DEF OpenApproval
<1> HIDE DEF v, book, next
<1>12. /\ DOMAIN next = 1 .. n /\ Len(next) = n /\ next[n] = v
       /\ \A a \in DOMAIN book : next[a] = book[a]
  BY <1>4, <1>7, <1>9
<1>13. Adds(k, book, next, n)
  BY <1>1, <1>2, <1>3, <1>4, <1>5, <1>8, <1>12 DEF Adds
<1> HIDE DEF k, n
<1>14. Booked(next) /\ (crashes = 0 => Clear(next, row, byHand))
  BY <1>2, <1>13, AddedBooked, AddedClear
<1>15. Asked(next, s) /\ \A t \in Steps : Asked(book, t) => Asked(next, t)
  <2>1. DOMAIN next = DOMAIN book \cup {n} /\ Open(next, n) /\ next[n].step = s
    BY <1>13, AddsFacts DEF Adds
  <2> QED
    BY <1>12, <2>1 DEF Asked, Open
<1>16. CASE d.seq = flow.approvers[s] /\ Drafting(c, "special", NoDraft)
  <2> DEFINE pc    == "special"
             draft == NoDraft
  <2>1. pc = "special" /\ Drafting(c, pc, draft) /\ pc \in {"number", "open", "special"}
    BY <1>16
  <2> HIDE DEF pc, draft
  <2>2. ASSUME NEW j, j.pc = pc, j.at = s
        PROVE  Opening(j, next) /\ (crashes = 0 => Complete(j, next, cut'))
    BY <1>2, <1>11, <1>13, <1>16, <2>1, <2>2, AddedComplete DEF Opening
  <2> QED
    BY <1>1, <1>11, <1>14, <1>15, <2>1, <2>2, DraftingReviewed DEF k, book, next
<1>17. CASE d.seq # flow.approvers[s] /\ Drafting(c, "open", Draft(d.round, n + 1, d.seq + 1))
  <2> DEFINE pc    == "open"
             draft == Draft(d.round, n + 1, d.seq + 1)
  <2>1. pc = "open" /\ Drafting(c, pc, draft) /\ pc \in {"number", "open", "special"}
        /\ draft = Draft(d.round, n + 1, d.seq + 1)
    BY <1>17
  <2> HIDE DEF pc, draft
  <2>2. ASSUME NEW j, j.pc = pc, j.at = s, j.draft = draft
        PROVE  Opening(j, next) /\ (crashes = 0 => Complete(j, next, cut'))
    <3>1. j.draft.seq > 1
      BY <1>5, <2>1, <2>2 DEF Draft
    <3>2. Opening(j, next)
      BY <1>2, <1>5, <1>13, <1>17, <2>1, <2>2, AddedOpening
    <3>3. crashes = 0 => Complete(j, next, cut')
      BY <1>2, <1>11, <1>13, <2>1, <2>2, <3>1, AddedComplete
    <3> QED
      BY <3>2, <3>3
  <2>3. pc # "special"
    BY <2>1
  <2> QED
    BY <1>1, <1>11, <1>14, <1>15, <2>1, <2>2, <2>3, DraftingReviewed DEF k, book, next
<1> QED
  BY <1>10, <1>16, <1>17

-----------------------------------------------------------------------------
(* The end of a pass and of the advance.                                   *)

LEMMA PassEndsReviewed ==
    ASSUME Typed, NEW c \in Clerks, PassEnds(c), Sound(c), Reviewed(c)
    PROVE  Reviewed(c)'
<1> DEFINE k    == clerk[c]
           more == k.changed /\ k.pass + 1 < MaxPasses
           n    == IF more THEN Call("sync", <<>>, 0, NoRows, k.pass + 1, FALSE, NoDraft)
                   ELSE Call("cleanup", <<>>, 0, NoRows, k.pass, k.changed, NoDraft)
           book == approvals
<1>1. clerk'[c] = n
  <2>1. clerk' = [clerk EXCEPT ![c] = n]
    BY DEF PassEnds
  <2> HIDE DEF n
  <2> QED
    BY <2>1, Becomes
<1>2. /\ n.pc \in {"sync", "cleanup"} /\ n.todo = <<>>
      /\ n.pc = "cleanup" => n.changed = k.changed
  BY DEF Call
<1>3. k.pc = "special" /\ k.todo = <<>> /\ At(c, "special") /\ Work(c) = {}
  BY DEF PassEnds, At
<1>4. Tidy(k, book, row) /\ (crashes = 0 => Decided(k, book, row, byHand, cut))
  BY DEF Reviewed
<1>5. UNCHANGED <<flow, row, inst, synced, approvals, byHand, cut, crashes>>
  BY DEF PassEnds
<1>6. ASSUME ~k.changed, inst = "IN_PROGRESS", NEW s \in Steps, Reviewing(row, s)
      PROVE  Asked(book, s)
  <2>1. ~Leaving(<<>>, inst)
    BY <1>6, TupleElements DEF Leaving, InstOf
  <2>2. Tracks(<<>>, row, k.rows)
    BY <1>3, <1>6, <2>1, AtSpecial DEF Passing
  <2>3. Reviewing(k.rows, s)
    BY <1>6, <2>2, TupleElements DEF Tracks, Reviewing
  <2> QED
    BY <1>3, <1>6, <2>1, <2>3, ReviewIsWork
<1> HIDE DEF n, k, book
<1>7. Elements(n.todo) = {}
  BY <1>2, TupleElements
<1>8. Tidy(n, book, row)
  BY <1>2, <1>4, <1>7 DEF Tidy, Remembers, Opening, Stamping, ClosingOthers, Counting
<1>9. ASSUME crashes = 0 PROVE Decided(n, book, row, byHand, cut)
  <2>1. Clear(book, row, byHand) /\ Complete(k, book, cut)
    BY <1>3, <1>4, <1>9, ClearFacts DEF Decided
  <2>2. Complete(n, book, cut)
    BY <1>3, <2>1 DEF Complete, Partly
  <2>3. Withdrawn(n, book, row)
    BY <1>2, <1>7, <2>1 DEF Withdrawn, Ends, Over, Clear
  <2> QED
    BY <1>2, <1>7, <2>1, <2>2, <2>3, ClearDecided
<1>10. Waited(n, book, row, inst, synced)
  BY <1>2, <1>6 DEF Waited
<1> QED
  BY <1>1, <1>5, <1>8, <1>9, <1>10, ReviewedNext DEF book

\* Approvals of steps that wait, were skipped or cancelled are closed.
Withdraws(book, table, next) ==
    /\ SameBook(book, next)
    /\ \A a \in DOMAIN book :
          next[a].status =
              IF Open(book, a) /\ table[book[a].step].status \in {"WAITING", "SKIPPED", "CANCELLED"}
              THEN "CANCELLED" ELSE book[a].status

LEMMA WithdrawsBook ==
    ASSUME NEW book, NEW table, NEW next, Withdraws(book, table, next)
    PROVE  /\ Booked(book) => Booked(next)
           /\ \A s \in Steps : Asked(book, s) /\ Reviewing(table, s) => Asked(next, s)
<1>1. SameBook(book, next) /\ \A a \in DOMAIN book : Newest(next, a) <=> Newest(book, a)
  BY SameNewest DEF Withdraws
<1>2. \A a \in DOMAIN book : Open(next, a) => Open(book, a)
  BY DEF Withdraws, Open, OpenStatuses
<1>3. \A a \in DOMAIN book : next[a].status = "WAITING" => book[a].status = "WAITING"
  BY DEF Withdraws
<1>4. Booked(book) => Booked(next)
  BY <1>1, <1>2, <1>3 DEF Booked, SameBook
<1>5. ASSUME NEW s \in Steps, Asked(book, s), Reviewing(table, s) PROVE Asked(next, s)
  <2>1. PICK a \in DOMAIN book : book[a].step = s /\ Open(book, a)
    BY <1>5 DEF Asked
  <2>2. next[a].status = book[a].status
    BY <1>5, <2>1 DEF Withdraws, Reviewing
  <2> QED
    BY <1>1, <2>1, <2>2 DEF Asked, Open, SameBook
<1> QED
  BY <1>4, <1>5

LEMMA WithdrawsClear ==
    ASSUME NEW book, NEW table, NEW next, NEW hand, Withdraws(book, table, next),
           Clear(book, table, hand)
    PROVE  /\ Clear(next, table, hand)
           /\ \A a \in DOMAIN book : Open(next, a) =>
                 table[book[a].step].status \notin {"WAITING", "SKIPPED", "CANCELLED"}
<1>1. /\ SameBook(book, next) /\ \A a \in DOMAIN book : next[a].step = book[a].step
      /\ DOMAIN next = DOMAIN book
      /\ \A a, b \in DOMAIN book : Peers(next, a, b) <=> Peers(book, a, b)
  BY SameNewest DEF Withdraws, SameBook
<1>2. \A a \in DOMAIN book : Open(next, a) =>
         Open(book, a) /\ table[book[a].step].status \notin {"WAITING", "SKIPPED", "CANCELLED"}
  BY DEF Withdraws, Open, OpenStatuses
<1>3. \A a \in DOMAIN book : next[a].status = book[a].status \/ Open(book, a)
  BY DEF Withdraws
<1>4. ASSUME NEW a \in DOMAIN book, Open(next, a)
      PROVE  /\ table[book[a].step].status \notin {"COMPLETED", "REJECTED"}
             /\ \E b \in DOMAIN book : /\ book[b].step = book[a].step /\ Open(next, b)
                                       /\ next[b].status # "WAITING"
             /\ \A b \in DOMAIN book : Peers(book, a, b) => Agrees(next, b)
  <2>1. /\ table[book[a].step].status \notin {"COMPLETED", "REJECTED"}
        /\ \A b \in DOMAIN book : Peers(book, a, b) => Agrees(book, b)
    BY <1>2, <1>4 DEF Clear
  <2>2. PICK b \in DOMAIN book : /\ book[b].step = book[a].step /\ Open(book, b)
                                 /\ book[b].status # "WAITING"
    BY <1>2, <1>4 DEF Clear
  <2>3. \A d \in DOMAIN book : book[d].step = book[a].step => next[d].status = book[d].status
    BY <1>2, <1>4 DEF Withdraws
  <2>4. Open(next, b) /\ next[b].status # "WAITING"
    BY <2>2, <2>3 DEF Open
  <2>5. \A d \in DOMAIN book : Peers(book, a, d) => Agrees(next, d)
    BY <2>1, <2>3 DEF Peers, Agrees, Open
  <2> QED
    BY <2>1, <2>2, <2>4, <2>5
<1>5. \A s : Consent(book, s) => Consent(next, s)
  BY <1>1, <1>3, ConsentKept
<1>6. Clear(next, table, hand)
  BY <1>1, <1>4, <1>5 DEF Clear
<1> QED
  BY <1>2, <1>6

LEMMA CleanupReviewed ==
    ASSUME Typed, NEW c \in Clerks, Cleanup(c), Reviewed(c)
    PROVE  Reviewed(c)'
<1> DEFINE k    == clerk[c]
           n    == Idle
           book == approvals
           next == approvals'
<1>1. clerk'[c] = n
  <2>1. clerk' = [clerk EXCEPT ![c] = n]
    BY DEF Cleanup
  <2> HIDE DEF n
  <2> QED
    BY <2>1, Becomes
<1>2. n.pc = "idle" /\ n.todo = <<>>
  BY DEF Idle, Call
<1>3. k.pc = "cleanup" /\ k.todo = <<>>
  BY DEF Cleanup, At
<1>4. /\ Tidy(k, book, row) /\ (crashes = 0 => Decided(k, book, row, byHand, cut))
      /\ Waited(k, book, row, inst, synced)
  BY DEF Reviewed
<1>5. UNCHANGED <<flow, row, inst, byHand, cut, crashes>> /\ (synced' => ~k.changed)
  BY DEF Cleanup
<1>6. Withdraws(book, row, next)
  <2> DEFINE S == {a \in Ids : row[approvals[a].step].status \in {"WAITING", "SKIPPED", "CANCELLED"}}
  <2>1. next = CloseAll(S)
    BY DEF Cleanup
  <2>2. \A a : /\ Moved(a, "CANCELLED").step = a.step /\ Moved(a, "CANCELLED").round = a.round
               /\ Moved(a, "CANCELLED").code = a.code /\ Moved(a, "CANCELLED").status = "CANCELLED"
    BY DEF Moved, Approval
  <2>3. DOMAIN next = DOMAIN book
    BY <2>1 DEF CloseAll, Ids
  <2>4. \A a \in DOMAIN book :
           next[a] = IF a \in S /\ Open(book, a) THEN Moved(book[a], "CANCELLED") ELSE book[a]
    BY <2>1 DEF CloseAll, Ids, IsOpen, Open
  <2>5. \A a \in DOMAIN book :
           a \in S <=> row[book[a].step].status \in {"WAITING", "SKIPPED", "CANCELLED"}
    BY DEF Ids
  <2> HIDE DEF S, next, book
  <2> QED
    BY <2>2, <2>3, <2>4, <2>5 DEF Withdraws, SameBook
<1> HIDE DEF k, n, book, next
<1>7. Elements(n.todo) = {}
  BY <1>2, TupleElements
<1>8. Tidy(n, next, row)
  BY <1>2, <1>4, <1>6, <1>7, WithdrawsBook
     DEF Tidy, Remembers, Opening, Stamping, ClosingOthers, Counting
<1>9. ASSUME crashes = 0 PROVE Decided(n, next, row, byHand, cut)
  <2>1. Clear(book, row, byHand) /\ Complete(k, book, cut)
    BY <1>3, <1>4, <1>9, ClearFacts DEF Decided
  <2>2. Clear(next, row, byHand)
    BY <1>6, <2>1, WithdrawsClear
  <2>3. SameBook(book, next)
    BY <1>6 DEF Withdraws
  <2>4. \A s : Whole(next, s) <=> Whole(book, s)
    BY <2>3, SameNewest
  <2>5. Complete(n, next, cut)
    BY <1>3, <2>1, <2>3, <2>4 DEF Complete, Partly, SameBook
  <2>6. \A a \in DOMAIN next : Open(next, a) =>
           row[next[a].step].status \notin {"WAITING", "SKIPPED", "CANCELLED"}
    BY <1>6, <2>1, <2>3, WithdrawsClear DEF SameBook
  <2>7. Withdrawn(n, next, row)
    BY <1>2, <1>7, <2>2, <2>6 DEF Withdrawn, Ends, Over, Clear
  <2> QED
    BY <1>2, <1>7, <2>2, <2>5, <2>7, ClearDecided
<1>10. Waited(n, next, row, inst, synced')
  <2>1. ASSUME synced', inst = "IN_PROGRESS", NEW s \in Steps, Reviewing(row, s)
        PROVE  Asked(next, s)
    <3>1. Asked(book, s)
      BY <1>3, <1>4, <1>5, <2>1 DEF Waited
    <3> QED
      BY <1>6, <2>1, <3>1, WithdrawsBook
  <2> QED
    BY <1>2, <1>7, <2>1 DEF Waited
<1> QED
  BY <1>1, <1>5, <1>8, <1>9, <1>10, ReviewedNext DEF next

LEMMA AdvanceReviewed ==
    ASSUME Typed, NEW c \in Clerks, Advance(c), Sound(c), Reviewed(c)
    PROVE  Reviewed(c)'
<1>1. CASE SyncRead(c)
  <2> DEFINE pc   == "plan"
             todo == <<>>
  <2>1. pc \in {"plan", "load", "cleanup"} /\ pc # "cleanup" /\ Elements(todo) = {}
    BY TupleElements
  <2>2. Memory(c, pc, todo, 0, row, FALSE) /\ clerk[c].todo = <<>> /\ clerk[c].pc = "sync"
    BY <1>1 DEF SyncRead, At
  <2> HIDE DEF pc, todo
  <2> QED
    BY <2>1, <2>2, MemoryPlain
<1>2. ASSUME NEW s \in Steps,
             \/ Skip(c, s) \/ RunStep(c, s) \/ StepFails(c, s)
             \/ StartTimer(c, s) \/ ElapseTimer(c, s) \/ CountOpen(c, s)
      PROVE  Reviewed(c)'
  BY <1>2, OnStepSettles, StepFailsReviewed, StartTimerReviewed, CountOpenReviewed
<1> QED
  BY <1>1, <1>2, PlanReviewed, LoadReviewed, LastRoundReviewed, CountAllReviewed,
     OpenApprovalReviewed, RoundFailsReviewed, PassEndsReviewed, CleanupReviewed DEF Advance

-----------------------------------------------------------------------------
(* Calls that decide no approval.                                          *)

\* Nothing decides an approval, or completes a review, and a step that ends
\* loses its open approvals.
Plain(todo) ==
    \A w \in Elements(todo) :
        /\ w.op \notin {"stamp", "closeOthers"}
        /\ w.op \in {"steps", "byHand"} => \A s \in w.on :
              /\ flow.kind[s] = "REVIEW" /\ w.op = "steps" => w.status # "COMPLETED"
              /\ w.status \in {"COMPLETED", "REJECTED", "WAITING", "SKIPPED", "CANCELLED"} =>
                    \/ \A a \in Ids : approvals[a].step = s => ~Open(approvals, a)
                    \/ \E v \in Elements(todo) : v.op = "closeOf" /\ s \in v.on
        /\ w.op = "drop" => \E v \in Elements(todo) : v.op = "closeOf" /\ v.on = Steps

LEMMA PlainSync ==
    ASSUME Typed, NEW c \in Clerks, NEW todo, Begin(c, todo, "sync"), Plain(todo), Reviewed(c)
    PROVE  Reviewed(c)'
<1> DEFINE pc == "sync"
<1>1. /\ Go(c, pc, todo) /\ Free(c) /\ pc \in {"idle", "sync"} /\ pc # "idle"
      /\ UNCHANGED <<flow, inst, row, approvals, synced, byHand, cut, crashes>>
  BY DEF Begin
<1> HIDE DEF pc
<1> QED
  BY <1>1, BeginPlain DEF Plain

LEMMA PlainIdle ==
    ASSUME Typed, NEW c \in Clerks, NEW todo, Begin(c, todo, "idle"), Plain(todo), Reviewed(c),
           Leaving(todo, inst) \/ \A w \in Elements(todo) : w.op # "closeOf"
    PROVE  Reviewed(c)'
<1> DEFINE pc == "idle"
<1>1. /\ Go(c, pc, todo) /\ Free(c) /\ pc \in {"idle", "sync"}
      /\ UNCHANGED <<flow, inst, row, approvals, synced, byHand, cut, crashes>>
  BY DEF Begin
<1> HIDE DEF pc
<1> QED
  BY <1>1, BeginPlain DEF Plain

LEMMA PlainJoins ==
    ASSUME NEW s \in Seq(Statements), NEW t \in Seq(Statements), Plain(s), Plain(t)
    PROVE  Plain(s \o t)
  BY JoinElements DEF Plain

LEMMA PlainEffect == \A e : Plain(Effect(e))
  BY EffectOps DEF Plain

LEMMA PlainCancellation == Plain(Cancellation)
<1> DEFINE e == "CANCEL"
<1>1. Effect(e) = Cancellation
  BY DEF Effect
<1> HIDE DEF e
<1> QED
  BY <1>1, PlainEffect

LEMMA PlainOne ==
    ASSUME NEW w, w.op \in {"inst", "timer", "returnEach", "returnAll", "returnRejected"}
    PROVE  Plain(<<w>>)
  BY TupleElements DEF Plain

\* A step that goes on keeps its approvals.
LEMMA PlainSteps ==
    ASSUME NEW s, NEW status \in {"PENDING", "IN_PROGRESS", "BLOCKED", "ESCALATED"}
    PROVE  LET todo == <<SetSteps({s}, status, "KEEP")>>
           IN  Plain(todo) /\ \A w \in Elements(todo) : w.op # "closeOf"
<1> DEFINE w == SetSteps({s}, status, "KEEP")
<1>1. w.op = "steps" /\ w.status = status
  BY DEF SetSteps, Statement
<1> HIDE DEF w
<1>2. Plain(<<w>>) /\ \A v \in Elements(<<w>>) : v.op # "closeOf"
  BY <1>1, TupleElements DEF Plain
<1> QED
  BY <1>2 DEF w

LEMMA NotAReview ==
    ASSUME NEW c, Reviewed(c), NEW s, flow.kind[s] # "REVIEW" \/ OpenOf(s) = {}
    PROVE  \A a \in Ids : approvals[a].step = s => ~Open(approvals, a)
  BY DEF Reviewed, Tidy, Booked, OpenOf, OfStep, IsOpen, Ids, Open

LEMMA StartReviewed ==
    ASSUME Typed, NEW c \in Clerks, Start(c), Reviewed(c)
    PROVE  Reviewed(c)'
<1> DEFINE n     == Call("sync", <<>>, 0, NoRows, 0, FALSE, NoDraft)
           book  == approvals
           after == row'
<1>1. clerk'[c] = n
  <2>1. clerk' = [clerk EXCEPT ![c] = n]
    BY DEF Start, Go
  <2> HIDE DEF n
  <2> QED
    BY <2>1, Becomes
<1>2. n.pc = "sync" /\ n.todo = <<>>
  BY DEF Call
<1>3. UNCHANGED <<flow, approvals, synced, byHand, cut, crashes>> /\ Free(c)
  BY DEF Start
<1>4. ASSUME NEW s \in Steps
      PROVE  after[s].status = "PENDING" \/ after[s] = row[s]
  BY DEF Start, SetStatus, Row
<1>5. /\ Booked(book)
      /\ crashes = 0 => Clear(book, row, byHand) /\ WholeBut(book, cut)
  BY <1>3, AtRest
<1>6. \A a \in DOMAIN book : book[a].step \in Steps
  BY ApprovalFields DEF Ids
<1> HIDE DEF n, book, after
<1>7. Elements(n.todo) = {}
  BY <1>2, TupleElements
<1>8. Tidy(n, book, after)
  BY <1>2, <1>5, <1>7 DEF Tidy, Remembers, Opening, Stamping, ClosingOthers, Counting
<1>9. ASSUME crashes = 0 PROVE Decided(n, book, after, byHand, cut)
  <2>1. Clear(book, after, byHand)
    BY <1>4, <1>5, <1>6, <1>9 DEF Clear
  <2>2. Complete(n, book, cut) /\ Withdrawn(n, book, after)
    BY <1>2, <1>5, <1>7, <1>9, <2>1 DEF Complete, WholeBut, Withdrawn, Ends, Over, Clear
  <2> QED
    BY <1>2, <1>7, <2>1, <2>2, ClearDecided
<1>10. Waited(n, book, after, inst', synced)
  BY <1>2 DEF Waited
<1> QED
  BY <1>1, <1>3, <1>8, <1>9, <1>10, ReviewedNext DEF book, after

LEMMA InstanceCallReviewed ==
    ASSUME Typed, NEW c \in Clerks, InstanceCall(c), Reviewed(c)
    PROVE  Reviewed(c)'
<1>1. CASE Suspend(c)
  <2> DEFINE w == SetInst("ON_HOLD")
  <2>1. w.op = "inst" /\ Begin(c, <<w>>, "idle")
    BY <1>1 DEF Suspend, SetInst, Statement
  <2> HIDE DEF w
  <2>2. Elements(<<w>>) = {w}
    BY TupleElements
  <2> QED
    BY <2>1, <2>2, PlainOne, PlainIdle
<1>2. CASE Resume(c)
  <2> DEFINE v == SetInst("IN_PROGRESS")
             w == ReturnRejected
  <2>1. v.op = "inst" /\ w.op = "returnRejected" /\ Begin(c, <<v, w>>, "sync")
    BY <1>2 DEF Resume, SetInst, ReturnRejected, Statement
  <2> HIDE DEF v, w
  <2>2. Plain(<<v, w>>)
    BY <2>1, TupleElements DEF Plain
  <2> QED
    BY <2>1, <2>2, PlainSync
<1>3. CASE Cancel(c)
  <2>1. Leaving(Cancellation, inst)
    BY CancellationLeaves DEF Leaving
  <2>2. Begin(c, Cancellation, "idle")
    BY <1>3 DEF Cancel
  <2> QED
    BY <2>1, <2>2, PlainCancellation, PlainIdle
<1>4. CASE AdvanceTimers(c)
  <2> DEFINE todo == <<>>
  <2>1. Begin(c, todo, "sync") /\ Plain(todo)
    BY <1>4, TupleElements DEF AdvanceTimers, Plain
  <2> HIDE DEF todo
  <2> QED
    BY <2>1, PlainSync
<1> QED
  BY <1>1, <1>2, <1>3, <1>4, StartReviewed DEF InstanceCall

\* A step that a call completes has nobody left to decide.
LEMMA CompletesReviewed ==
    ASSUME Typed, NEW c \in Clerks, NEW s \in Steps, Reviewed(c), NEW w \in Statements, NEW e,
           w.op \in {"steps", "byHand"}, w.on = {s}, w.op = "steps" => flow.kind[s] # "REVIEW",
           flow.kind[s] = "REVIEW" => OpenOf(s) = {},
           Begin(c, <<w>> \o Effect(e), "sync")
    PROVE  Reviewed(c)'
<1>1. \A a \in Ids : approvals[a].step = s => ~Open(approvals, a)
  BY NotAReview
<1>2. Plain(<<w>>)
  BY <1>1, TupleElements DEF Plain
<1>3. <<w>> \in Seq(Statements) /\ Effect(e) \in Seq(Statements)
  BY ListTypes, EffectType
<1>4. Plain(<<w>> \o Effect(e))
  BY <1>2, <1>3, PlainEffect, PlainJoins
<1> QED
  BY <1>4, PlainSync

LEMMA RejectStepReviewed ==
    ASSUME Typed, NEW c \in Clerks, NEW s \in Steps, RejectStep(c, s), Reviewed(c)
    PROVE  Reviewed(c)'
<1> DEFINE v == SetSteps({s}, "REJECTED", "KEEP")
           w == SetInst("ON_HOLD")
           x == CloseOf({s})
           failed == Effect(flow.failure[s])
<1>1. v \in Statements /\ w \in Statements /\ x \in Statements
  BY StatementTypes, InstType DEF StepStatuses, InstStatuses
<1>2. /\ v.op = "steps" /\ v.on = {s} /\ v.status = "REJECTED"
      /\ w.op = "inst" /\ w.status = "ON_HOLD" /\ x.op = "closeOf" /\ x.on = {s}
  BY DEF SetSteps, SetInst, CloseOf, Statement
<1>3. Begin(c, <<v, w, x>> \o failed, "idle")
  BY DEF RejectStep
<1>4. /\ failed \in Seq(Statements) /\ Plain(failed)
      /\ \A y \in InstOf(failed) : y.status \in {"ON_HOLD", "CANCELLED"}
  BY EffectType, EffectLeaves, PlainEffect
<1> HIDE DEF v, w, x, failed
<1>5. <<v, w, x>> \in Seq(Statements) /\ Elements(<<v, w, x>>) = {v, w, x}
  BY <1>1, TupleElements, ListTypes
<1>6. InstOf(<<v, w, x>>) = {w} /\ Plain(<<v, w, x>>)
  BY <1>2, <1>5 DEF InstOf, Plain
<1>7. Leaving(<<v, w, x>> \o failed, inst) /\ Plain(<<v, w, x>> \o failed)
  BY <1>2, <1>4, <1>5, <1>6, JoinLeaves, PlainJoins
<1> QED
  BY <1>3, <1>7, PlainIdle

LEMMA UnblockReviewed ==
    ASSUME Typed, NEW c \in Clerks, NEW s \in Steps, Unblock(c, s), Reviewed(c)
    PROVE  Reviewed(c)'
<1> DEFINE pc   == "idle"
           todo == <<SetSteps({s}, "PENDING", "KEEP")>>
<1>1. /\ Go(c, pc, todo) /\ Free(c) /\ pc \in {"idle", "sync"} /\ synced' = FALSE
      /\ UNCHANGED <<flow, inst, row, approvals, byHand, cut, crashes>>
  BY DEF Unblock
<1>2. Plain(todo) /\ \A w \in Elements(todo) : w.op # "closeOf"
  BY PlainSteps
<1> HIDE DEF pc, todo
<1> QED
  BY <1>1, <1>2, BeginPlain DEF Plain

LEMMA StepCallReviewed ==
    ASSUME Typed, NEW c \in Clerks, NEW s \in Steps, StepCall(c, s), Reviewed(c)
    PROVE  Reviewed(c)'
<1>1. CASE DeliverEvent(c, s)
  <2> DEFINE w == SetSteps({s}, "COMPLETED", "EVENT")
  <2>1. w \in Statements /\ w.op = "steps" /\ w.on = {s}
    BY StatementTypes DEF StepStatuses, Results, SetSteps, Statement
  <2>2. Begin(c, <<w>> \o Effect(flow.success[s]), "sync") /\ flow.kind[s] = "EVENT"
    BY <1>1 DEF DeliverEvent
  <2> HIDE DEF w
  <2> QED
    BY <2>1, <2>2, CompletesReviewed
<1>2. ASSUME NEW result \in Answers, CompleteStep(c, s, result) PROVE Reviewed(c)'
  <2> DEFINE w == ByHand(s, result)
  <2>1. w \in Statements
    BY <1>2, AnswerAssumption, StatementTypes
  <2>2. w.op = "byHand" /\ w.on = {s}
    BY DEF ByHand, Statement
  <2>3. Begin(c, <<w>> \o Effect(flow.success[s]), "sync") /\ (flow.kind[s] = "REVIEW" => OpenOf(s) = {})
    BY <1>2 DEF CompleteStep
  <2> HIDE DEF w
  <2> QED
    BY <2>1, <2>2, <2>3, CompletesReviewed
<1>3. CASE StartStep(c, s)
  <2>1. Begin(c, <<SetSteps({s}, "IN_PROGRESS", "KEEP")>>, "sync")
    BY <1>3 DEF StartStep
  <2> QED
    BY <2>1, PlainSteps, PlainSync
<1>4. CASE Block(c, s)
  <2>1. Begin(c, <<SetSteps({s}, "BLOCKED", "KEEP")>>, "idle")
    BY <1>4 DEF Block
  <2> QED
    BY <2>1, PlainSteps, PlainIdle
<1>5. CASE Escalate(c, s)
  <2>1. Begin(c, <<SetSteps({s}, "ESCALATED", "KEEP")>>, "idle")
    BY <1>5 DEF Escalate
  <2> QED
    BY <2>1, PlainSteps, PlainIdle
<1>6. CASE Reassign(c, s)
  <2> DEFINE todo == <<>>
  <2>1. Begin(c, todo, "sync") /\ Plain(todo)
    BY <1>6, TupleElements DEF Reassign, Plain
  <2> HIDE DEF todo
  <2> QED
    BY <2>1, PlainSync
<1>7. CASE ReturnStep(c, s) \/ Reopen(c, s)
  <2> DEFINE w == ReturnEach({s})
  <2>1. w.op = "returnEach" /\ Begin(c, <<w>>, "sync")
    BY <1>7 DEF ReturnStep, Reopen, ReturnEach, Statement
  <2> HIDE DEF w
  <2> QED
    BY <2>1, PlainOne, PlainSync
<1> QED
  BY <1>1, <1>2, <1>3, <1>4, <1>5, <1>6, <1>7, RejectStepReviewed, UnblockReviewed DEF StepCall

LEMMA RetryReviewed ==
    ASSUME Typed, NEW c \in Clerks, NEW S \in SUBSET Steps, Retry(c, S), Reviewed(c)
    PROVE  Reviewed(c)'
<1> DEFINE w == ReturnAll(S)
<1>1. w.op = "returnAll" /\ Begin(c, <<w>>, "sync")
  BY DEF Retry, ReturnAll, Statement
<1> HIDE DEF w
<1> QED
  BY <1>1, PlainOne, PlainSync

LEMMA CrashReviewed ==
    ASSUME Typed, NEW c \in Clerks, Crash(c), Reviewed(c)
    PROVE  Reviewed(c)'
<1> DEFINE n    == Idle
           book == approvals
<1>1. clerk'[c] = n
  <2>1. clerk' = [clerk EXCEPT ![c] = n]
    BY DEF Crash
  <2> HIDE DEF n
  <2> QED
    BY <2>1, Becomes
<1>2. n.pc = "idle" /\ n.todo = <<>>
  BY DEF Idle, Call
<1>3. UNCHANGED <<flow, row, approvals>> /\ ~synced' /\ crashes' = crashes + 1 /\ crashes \in Nat
  BY DEF Crash, Typed
<1>4. Booked(book)
  BY DEF Reviewed, Tidy
<1> HIDE DEF n, book
<1>5. Elements(n.todo) = {}
  BY <1>2, TupleElements
<1>6. Tidy(n, book, row)
  BY <1>2, <1>4, <1>5 DEF Tidy, Remembers, Opening, Stamping, ClosingOthers, Counting
<1>7. Waited(n, book, row, inst', synced')
  BY <1>2, <1>3 DEF Waited
<1> QED
  BY <1>1, <1>3, <1>6, <1>7, ReviewedNext DEF book

-----------------------------------------------------------------------------
(* Decisions on approvals.                                                 *)

\* What may follow a decision about an approval of the step `s'.
Follows(todo, s, status) ==
    \A w \in Elements(todo) :
        /\ w.op \notin {"stamp", "closeOthers", "byHand"}
        /\ w.op = "steps" =>
              /\ w.on = {s}
              /\ w.status = "COMPLETED" =>
                    /\ w.result # "KEEP"
                    /\ w.result = "APPROVED" => flow.mode[s] = "ANY" /\ status = "APPROVED"
        /\ w.op = "drop" => \E v \in Elements(todo) : v.op = "closeOf" /\ v.on = Steps

LEMMA FollowsJoin ==
    ASSUME NEW u \in Seq(Statements), NEW t \in Seq(Statements), NEW s, NEW status,
           Follows(u, s, status), Follows(t, s, status)
    PROVE  Follows(u \o t, s, status)
  BY JoinElements DEF Follows

LEMMA FollowsEffect ==
    ASSUME NEW s, NEW status
    PROVE  Follows(Cancellation, s, status) /\ \A e : Follows(Effect(e), s, status)
<1>1. \A e : Follows(Effect(e), s, status)
  BY EffectOps DEF Follows
<1>2. Follows(Cancellation, s, status)
  <2> DEFINE e == "CANCEL"
  <2>1. Effect(e) = Cancellation
    BY DEF Effect
  <2> HIDE DEF e
  <2> QED
    BY <1>1, <2>1
<1> QED
  BY <1>1, <1>2

\* The statements after the first.
LEMMA AfterFirst ==
    ASSUME NEW v \in Statements, NEW w \in Statements, NEW rest \in Seq(Statements)
    PROVE  /\ Elements(<<v, w>> \o rest) = {v, w} \cup Elements(rest)
           /\ Elements(Tail(<<v, w>> \o rest)) = {w} \cup Elements(rest)
<1>1. <<v, w>> \in Seq(Statements) /\ <<w>> \in Seq(Statements)
  BY ListTypes
<1>2. Elements(<<v, w>> \o rest) = {v, w} \cup Elements(rest)
  <2> DEFINE u == <<v, w>>
  <2>1. u \in Seq(Statements) /\ Elements(u) = {v, w}
    BY <1>1, TupleElements
  <2> HIDE DEF u
  <2>2. Elements(u \o rest) = {v, w} \cup Elements(rest)
    BY <2>1, JoinElements
  <2> QED
    BY <2>2 DEF u
<1>3. Tail(<<v, w>> \o rest) = <<w>> \o rest
  OBVIOUS
<1>4. Elements(<<w>> \o rest) = {w} \cup Elements(rest)
  BY <1>1, JoinElements, TupleElements
<1> QED
  BY <1>2, <1>3, <1>4

\* An approval that can be decided or answered.
LEMMA LiveFacts ==
    ASSUME Typed, NEW c, NEW a \in Ids, Live(a), Open(approvals, a), Reviewed(c)
    PROVE  /\ a \in Nat /\ a \in DOMAIN approvals /\ Newest(approvals, a)
           /\ approvals[a].step \in Steps /\ flow.kind[approvals[a].step] = "REVIEW"
           /\ row[approvals[a].step].status \in Completable
<1>1. a \in Nat /\ approvals[a].step \in Steps
  BY ApprovalFields
<1> QED
  BY <1>1 DEF Live, Ids, Reviewed, Tidy, Booked

LEMMA DecisionReviewed ==
    ASSUME Typed, NEW c \in Clerks, NEW a \in Ids, Decidable(a), Reviewed(c),
           NEW pc \in {"idle", "sync"}, NEW status \in {"APPROVED", "REJECTED", "RETURNED"},
           NEW rest \in Seq(Statements), Follows(rest, approvals[a].step, status),
           Begin(c, <<Stamp(a, status), CloseOthers(a)>> \o rest, pc),
           pc = "idle" => Leaving(<<Stamp(a, status), CloseOthers(a)>> \o rest, inst)
    PROVE  Reviewed(c)'
<1> DEFINE v    == Stamp(a, status)
           x    == CloseOthers(a)
           todo == <<v, x>> \o rest
           book == approvals
           s    == approvals[a].step
<1>1. Open(book, a) /\ Live(a)
  BY DEF Decidable, Open, OpenStatuses
<1>2. /\ a \in Nat /\ a \in DOMAIN book /\ Newest(book, a)
      /\ row[s].status \in Completable
  BY <1>1, LiveFacts
<1>3. v \in Statements /\ x \in Statements
  BY <1>2, StatementTypes DEF ApprovalStatuses
<1>4. /\ v.op = "stamp" /\ v.id = a /\ v.status = status
      /\ x.op = "closeOthers" /\ x.id = a
  BY DEF Stamp, CloseOthers, Statement
<1>5. /\ Go(c, pc, todo) /\ Free(c)
      /\ UNCHANGED <<flow, inst, row, approvals, synced, byHand, cut, crashes>>
  BY DEF Begin
<1>6. Follows(rest, s, status) /\ (pc = "idle" => Leaving(todo, inst))
  OBVIOUS
<1>7. crashes = 0 => \A b \in DOMAIN book : Open(book, b) =>
         row[book[b].step].status
            \notin {"COMPLETED", "REJECTED", "WAITING", "SKIPPED", "CANCELLED"}
  BY <1>5, AtRest DEF Ids
<1>8. \A b \in DOMAIN book : book[b].step \in Steps
  BY ApprovalFields DEF Ids
<1> HIDE DEF v, x, s
<1>9. /\ Elements(todo) = {v, x} \cup Elements(rest)
      /\ Elements(Tail(todo)) = {x} \cup Elements(rest)
  BY <1>3, AfterFirst
<1> HIDE DEF todo
<1>10. ASSUME NEW k, k.pc = pc, k.todo = todo
       PROVE  /\ Stamping(k, book, row) /\ ClosingOthers(k, book)
              /\ crashes = 0 => Withdrawn(k, book, row)
              /\ \A t \in Steps : flow.kind[t] = "REVIEW" =>
                    \A w \in Elements(todo) : Grants(k, w, book, t)
  <2>1. \A w \in Elements(todo) : w.op = "stamp" => w = v
    BY <1>4, <1>6, <1>9 DEF Follows
  <2>2. \A w \in Elements(todo) : w.op = "closeOthers" => w = x
    BY <1>4, <1>6, <1>9 DEF Follows
  <2>3. v \in Elements(todo) /\ x \in Elements(todo) /\ status \notin OpenStatuses
    BY <1>9 DEF OpenStatuses
  <2>4. \A w \in Elements(Tail(todo)) : w.op # "stamp"
    BY <1>4, <1>6, <1>9 DEF Follows
  <2>5. Stamping(k, book, row)
    BY <1>1, <1>2, <1>4, <1>10, <2>1, <2>3, <2>4 DEF Stamping, s
  <2>6. ClosingOthers(k, book)
    BY <1>2, <1>4, <1>10, <2>2, <2>3 DEF ClosingOthers
  <2>7. ASSUME crashes = 0, NEW b \in DOMAIN book, Open(book, b),
               Ends(k.todo, row, book[b].step, Over(k))
        PROVE  \E w \in Elements(k.todo) : Closes(w, book, book[b].step)
    <3>1. row[book[b].step].status \notin Over(k)
      BY <1>7, <2>7 DEF Over
    <3>2. PICK w \in Elements(todo) : Moves(w, book[b].step, Over(k))
      BY <1>10, <2>7, <3>1 DEF Ends
    <3>3. w \in Elements(rest) /\ w.op \in {"drop", "steps"}
      BY <1>4, <1>6, <1>9, <3>2 DEF Moves, Follows
    <3>4. CASE w.op = "drop"
      <4>1. PICK u \in Elements(rest) : u.op = "closeOf" /\ u.on = Steps
        BY <1>6, <3>3, <3>4 DEF Follows
      <4> QED
        BY <1>8, <1>9, <1>10, <4>1 DEF Closes
    <3>5. CASE w.op = "steps"
      <4>1. book[b].step = s
        BY <1>6, <3>2, <3>3, <3>5 DEF Moves, Follows
      <4> QED
        BY <1>4, <1>10, <2>3, <4>1 DEF Closes, s
    <3> QED
      BY <3>3, <3>4, <3>5
  <2>8. crashes = 0 => Withdrawn(k, book, row)
    BY <2>7 DEF Withdrawn
  <2>9. ASSUME NEW t \in Steps, NEW w \in Elements(todo) PROVE Grants(k, w, book, t)
    <3> SUFFICES ASSUME w.op = "steps", t \in w.on, w.status = "COMPLETED"
                 PROVE  /\ w.result # "KEEP"
                        /\ w.result = "APPROVED" =>
                              /\ flow.mode[t] = "ANY"
                              /\ \E u \in Elements(k.todo) : /\ u.op = "stamp" /\ u.status = "APPROVED"
                                                             /\ book[u.id].step = t
      BY DEF Grants
    <3>1. w \in Elements(rest)
      BY <1>4, <1>9
    <3>2. /\ t = s /\ w.result # "KEEP"
          /\ w.result = "APPROVED" => flow.mode[s] = "ANY" /\ status = "APPROVED"
      BY <1>6, <3>1 DEF Follows
    <3> QED
      BY <1>4, <1>10, <2>3, <3>2 DEF s
  <2> QED
    BY <2>5, <2>6, <2>8, <2>9
<1> QED
  BY <1>5, <1>6, <1>10, BeginReviewed

\* Information is asked for, or given: the approval stays open.
LEMMA AnswerReviewed ==
    ASSUME Typed, NEW c \in Clerks, NEW a \in Ids, Live(a), Open(approvals, a), Reviewed(c),
           NEW status \in {"PENDING", "INFO_REQUESTED"},
           Begin(c, <<Stamp(a, status)>>, "idle")
    PROVE  Reviewed(c)'
<1> DEFINE w    == Stamp(a, status)
           todo == <<w>>
           pc   == "idle"
           book == approvals
<1>1. a \in DOMAIN book /\ row[book[a].step].status \in Completable
  BY LiveFacts
<1>2. w.op = "stamp" /\ w.id = a /\ w.status = status
  BY DEF Stamp, Statement
<1>3. /\ Go(c, pc, todo) /\ Free(c) /\ pc \in {"idle", "sync"} /\ Open(book, a)
      /\ UNCHANGED <<flow, inst, row, approvals, synced, byHand, cut, crashes>>
  BY DEF Begin
<1>4. crashes = 0 => \A b \in DOMAIN book : Open(book, b) =>
         row[book[b].step].status
            \notin {"COMPLETED", "REJECTED", "WAITING", "SKIPPED", "CANCELLED"}
  BY <1>3, AtRest DEF Ids
<1> HIDE DEF w, pc
<1>5. Elements(todo) = {w} /\ Elements(Tail(todo)) = {}
  <2>1. Tail(todo) = <<>>
    OBVIOUS
  <2> QED
    BY <2>1, TupleElements
<1> HIDE DEF todo
<1>6. ASSUME NEW k, k.pc = pc, k.todo = todo
      PROVE  /\ Stamping(k, book, row) /\ ClosingOthers(k, book)
             /\ crashes = 0 => Withdrawn(k, book, row)
             /\ \A t \in Steps : flow.kind[t] = "REVIEW" =>
                   \A v \in Elements(todo) : Grants(k, v, book, t)
  <2>1. Stamping(k, book, row)
    BY <1>1, <1>2, <1>3, <1>5, <1>6 DEF Stamping, OpenStatuses
  <2>2. ClosingOthers(k, book) /\ \A t \in Steps : Grants(k, w, book, t)
    BY <1>2, <1>5, <1>6 DEF ClosingOthers, Grants
  <2>3. crashes = 0 => Withdrawn(k, book, row)
    BY <1>2, <1>4, <1>5, <1>6 DEF Withdrawn, Ends, Moves, Over
  <2> QED
    BY <1>5, <2>1, <2>2, <2>3
<1>7. \A v \in Elements(todo) : v.op \notin {"closeOf", "closeOthers"}
                                /\ (v.op = "stamp" => v.status \in OpenStatuses)
  BY <1>2, <1>5 DEF OpenStatuses
<1> QED
  BY <1>3, <1>6, <1>7, BeginReviewed

\* One of several approves: whether it was the last is counted next.
LEMMA ApproveOneReviewed ==
    ASSUME Typed, NEW c \in Clerks, NEW a \in Ids, Approve(c, a), Reviewed(c),
           flow.mode[approvals[a].step] # "ANY"
    PROVE  Reviewed(c)'
<1> DEFINE w    == Stamp(a, "APPROVED")
           k    == Call("remaining", <<w>>, a, NoRows, 0, FALSE, NoDraft)
           book == approvals
           s    == approvals[a].step
<1>1. /\ Free(c) /\ clerk' = [clerk EXCEPT ![c] = k] /\ Decidable(a)
      /\ UNCHANGED <<flow, inst, row, approvals, synced, byHand, cut, crashes>>
  BY DEF Approve
<1>2. k.pc = "remaining" /\ k.todo = <<w>> /\ k.at = a
  BY DEF Call
<1>3. w.op = "stamp" /\ w.id = a /\ w.status = "APPROVED"
  BY DEF Stamp, Statement
<1>4. Live(a) /\ Open(book, a)
  BY <1>1 DEF Decidable, Open, OpenStatuses
<1>5. a \in DOMAIN book /\ Newest(book, a) /\ row[s].status \in Completable
  BY <1>4, LiveFacts
<1>6. /\ Booked(book)
      /\ crashes = 0 =>
            /\ Clear(book, row, byHand)
            /\ WholeBut(book, cut)
            /\ \A b \in DOMAIN book : Open(book, b) =>
                  row[book[b].step].status
                     \notin {"COMPLETED", "REJECTED", "WAITING", "SKIPPED", "CANCELLED"}
      /\ synced /\ inst = "IN_PROGRESS" => \A t \in Steps : Reviewing(row, t) => Asked(book, t)
  BY <1>1, AtRest DEF Ids
<1>7. flow.mode[s] # "ANY" /\ w = Stamp(a, "APPROVED")
  OBVIOUS
<1> HIDE DEF k, w
<1>8. clerk'[c] = k
  BY <1>1, Becomes
<1>9. Elements(k.todo) = {w} /\ Elements(Tail(k.todo)) = {} /\ k.todo # <<>>
  <2>1. Tail(k.todo) = <<>> /\ k.todo # <<>>
    BY <1>2
  <2> QED
    BY <1>2, <2>1, TupleElements
<1>10. Tidy(k, book, row)
  <2>1. Stamping(k, book, row)
    BY <1>2, <1>3, <1>4, <1>5, <1>9 DEF Stamping
  <2>2. Counting(k, book, row)
    BY <1>2, <1>5, <1>7, <1>9 DEF Counting
  <2>3. Remembers(k, row) /\ Opening(k, book) /\ ClosingOthers(k, book)
    BY <1>2, <1>3, <1>9 DEF Remembers, Opening, ClosingOthers
  <2> QED
    BY <1>6, <2>1, <2>2, <2>3 DEF Tidy
<1>11. ASSUME crashes = 0 PROVE Decided(k, book, row, byHand, cut)
  <2>1. Withdrawn(k, book, row)
    BY <1>3, <1>6, <1>9, <1>11 DEF Withdrawn, Ends, Moves, Over
  <2>2. Called(k, book) /\ Complete(k, book, cut)
    BY <1>6, <1>11 DEF Clear, Called, Complete, WholeBut
  <2>3. Agreed(k, book)
    BY <1>2, <1>4, <1>5, <1>6, <1>11 DEF Clear, Agreed
  <2>4. Granted(k, book, row, byHand)
    BY <1>3, <1>6, <1>9, <1>11 DEF Clear, Granted, Grants
  <2> QED
    BY <2>1, <2>2, <2>3, <2>4 DEF Decided
<1>12. Waited(k, book, row, inst, synced)
  BY <1>2, <1>3, <1>6, <1>9 DEF Waited
<1> QED
  BY <1>1, <1>8, <1>10, <1>11, <1>12, ReviewedNext DEF book

LEMMA ApproveReviewed ==
    ASSUME Typed, NEW c \in Clerks, NEW a \in Ids, Approve(c, a), Reviewed(c)
    PROVE  Reviewed(c)'
<1> DEFINE s      == approvals[a].step
           status == "APPROVED"
           w      == SetSteps({s}, "COMPLETED", "APPROVED")
           rest   == <<w>> \o Effect(flow.success[s])
           pc     == "sync"
<1>1. CASE flow.mode[s] # "ANY"
  BY <1>1, ApproveOneReviewed
<1>2. CASE flow.mode[s] = "ANY"
  <2>1. Begin(c, <<Stamp(a, status), CloseOthers(a)>> \o rest, pc) /\ Decidable(a)
    BY <1>2 DEF Approve, Approved
  <2>2. pc \in {"idle", "sync"} /\ pc # "idle" /\ status \in {"APPROVED", "REJECTED", "RETURNED"}
        /\ status = "APPROVED"
    OBVIOUS
  <2>3. s \in Steps
    BY ApprovalFields
  <2>4. w \in Statements /\ w.op = "steps" /\ w.on = {s} /\ w.result = "APPROVED"
    BY <2>3, StatementTypes DEF StepStatuses, Results, SetSteps, Statement
  <2> HIDE DEF status, pc, w
  <2>5. Follows(<<w>>, s, status)
    BY <1>2, <2>2, <2>4, TupleElements DEF Follows
  <2>6. <<w>> \in Seq(Statements) /\ Effect(flow.success[s]) \in Seq(Statements)
    BY <2>4, ListTypes, EffectType
  <2>7. rest \in Seq(Statements) /\ Follows(rest, s, status)
    BY <2>5, <2>6, FollowsEffect, FollowsJoin, Concatenation
  <2> HIDE DEF rest
  <2> QED
    BY <2>1, <2>2, <2>7, DecisionReviewed
<1> QED
  BY <1>1, <1>2

LEMMA JoinsAgain ==
    ASSUME NEW s \in Seq(Statements), NEW t \in Seq(Statements), NEW u \in Seq(Statements)
    PROVE  s \o t \o u = s \o (t \o u)
  OBVIOUS

LEMMA RejectReviewed ==
    ASSUME Typed, NEW c \in Clerks, NEW a \in Ids, Reject(c, a), Reviewed(c)
    PROVE  Reviewed(c)'
<1> DEFINE s       == approvals[a].step
           status  == "REJECTED"
           v       == Stamp(a, status)
           w       == CloseOthers(a)
           x       == SetSteps({s}, "REJECTED", "KEEP")
           y       == SetInst("ON_HOLD")
           z       == SetSteps({s}, "COMPLETED", "REJECTED")
           u       == ReturnEach(ToReturn(a))
           failed  == Effect(flow.failure[s])
           decided == <<v, w>>
           held    == <<x, y>>
           branch  == <<z>>
           back    == <<u>>
           sync    == "sync"
           idle    == "idle"
<1>1. s \in Steps /\ a \in Nat /\ ToReturn(a) \in SUBSET Steps
  BY ApprovalFields, ToReturnType
<1>2. /\ v \in Statements /\ w \in Statements /\ x \in Statements /\ y \in Statements
      /\ z \in Statements /\ u \in Statements
  BY <1>1, StatementTypes, InstType DEF StepStatuses, InstStatuses, ApprovalStatuses, Results
<1>3. /\ v.op = "stamp" /\ w.op = "closeOthers"
      /\ x.op = "steps" /\ x.on = {s} /\ x.status = "REJECTED"
      /\ y.op = "inst" /\ y.status = "ON_HOLD"
      /\ z.op = "steps" /\ z.on = {s} /\ z.result = "REJECTED" /\ u.op = "returnEach"
  BY DEF Stamp, CloseOthers, SetSteps, SetInst, ReturnEach, Statement
<1>4. Decidable(a) /\ status \in {"APPROVED", "REJECTED", "RETURNED"}
      /\ sync \in {"idle", "sync"} /\ idle \in {"idle", "sync"} /\ sync # "idle"
  BY DEF Reject
<1>5. \/ Begin(c, decided \o Cancellation, idle)
      \/ Begin(c, decided \o back, sync)
      \/ Begin(c, decided \o branch \o failed, sync)
      \/ Begin(c, decided \o held \o failed, idle)
  <2>1. flow.onReject[s] \in {"CANCEL", "RETURN", "BRANCH", "HOLD"}
    BY <1>1 DEF Typed, Templates
  <2>2. RejectRule(a) \in {"CANCEL", "RETURN", "BRANCH", "HOLD"}
    BY <2>1 DEF RejectRule
  <2> QED
    BY <2>2 DEF Reject
<1>6. /\ failed \in Seq(Statements) /\ Follows(failed, s, status)
      /\ \A i \in InstOf(failed) : i.status \in {"ON_HOLD", "CANCELLED"}
  BY EffectType, EffectLeaves, FollowsEffect
<1>7. Cancellation \in Seq(Statements) /\ Follows(Cancellation, s, status)
  BY EffectType, FollowsEffect
<1> HIDE DEF s, status, v, w, x, y, z, u, failed, sync, idle
<1>8. decided \in Seq(Statements) /\ InstOf(decided) = {}
  BY <1>2, <1>3, ListTypes, TupleElements DEF InstOf
<1>9. held \in Seq(Statements) /\ InstOf(held) = {y} /\ Follows(held, s, status)
  BY <1>2, <1>3, ListTypes, TupleElements DEF InstOf, Follows
<1>10. branch \in Seq(Statements) /\ Follows(branch, s, status)
  BY <1>2, <1>3, ListTypes, TupleElements DEF Follows
<1>11. back \in Seq(Statements) /\ Follows(back, s, status)
  BY <1>2, <1>3, ListTypes, TupleElements DEF Follows
<1> HIDE DEF decided, held, branch, back
<1>12. ASSUME NEW pc \in {"idle", "sync"}, NEW rest \in Seq(Statements), Follows(rest, s, status),
              Begin(c, decided \o rest, pc), pc = "idle" => Leaving(decided \o rest, inst)
       PROVE  Reviewed(c)'
  BY <1>4, <1>12, DecisionReviewed DEF decided, v, w, s
<1>13. CASE Begin(c, decided \o Cancellation, idle)
  <2>1. Leaving(decided \o Cancellation, inst)
    BY <1>8, CancellationLeaves, JoinLeaves
  <2> QED
    BY <1>4, <1>7, <1>12, <1>13, <2>1
<1>14. CASE Begin(c, decided \o back, sync)
  BY <1>4, <1>11, <1>12, <1>14
<1>15. CASE Begin(c, decided \o branch \o failed, sync)
  <2>1. Begin(c, decided \o (branch \o failed), sync)
    BY <1>6, <1>8, <1>10, <1>15, JoinsAgain
  <2>2. branch \o failed \in Seq(Statements) /\ Follows(branch \o failed, s, status)
    BY <1>6, <1>10, Concatenation, FollowsJoin
  <2> QED
    BY <1>4, <1>12, <2>1, <2>2
<1>16. CASE Begin(c, decided \o held \o failed, idle)
  <2>1. Begin(c, decided \o (held \o failed), idle)
    BY <1>6, <1>8, <1>9, <1>16, JoinsAgain
  <2>2. held \o failed \in Seq(Statements) /\ Follows(held \o failed, s, status)
    BY <1>6, <1>9, Concatenation, FollowsJoin
  <2>3. InstOf(held \o failed) = {y} \cup InstOf(failed)
    BY <1>6, <1>9, JoinElements DEF InstOf
  <2>4. Leaving(decided \o (held \o failed), inst)
    BY <1>3, <1>6, <1>8, <2>2, <2>3, JoinLeaves
  <2> QED
    BY <1>4, <1>12, <2>1, <2>2, <2>4
<1> QED
  BY <1>5, <1>13, <1>14, <1>15, <1>16

LEMMA ReturnReviewed ==
    ASSUME Typed, NEW c \in Clerks, NEW a \in Ids, ReturnForCorrection(c, a), Reviewed(c)
    PROVE  Reviewed(c)'
<1> DEFINE s      == approvals[a].step
           status == "RETURNED"
           v      == Stamp(a, status)
           w      == CloseOthers(a)
           u      == ReturnEach(ToReturn(a))
           pc     == "sync"
<1>1. a \in Nat /\ ToReturn(a) \in SUBSET Steps
  BY ApprovalFields, ToReturnType
<1>2. v \in Statements /\ w \in Statements /\ u \in Statements /\ u.op = "returnEach"
  BY <1>1, StatementTypes DEF ApprovalStatuses, ReturnEach, Statement
<1>3. /\ Decidable(a) /\ Begin(c, <<v, w, u>>, pc) /\ status \in {"APPROVED", "REJECTED", "RETURNED"}
      /\ pc \in {"idle", "sync"} /\ pc # "idle"
  BY DEF ReturnForCorrection
<1> HIDE DEF v, w, u, s, status, pc
<1>4. <<v, w, u>> = <<v, w>> \o <<u>>
  OBVIOUS
<1>5. <<u>> \in Seq(Statements) /\ Follows(<<u>>, s, status)
  BY <1>2, ListTypes, TupleElements DEF Follows
<1>6. Begin(c, <<v, w>> \o <<u>>, pc)
  BY <1>3, <1>4
<1> QED
  BY <1>3, <1>5, <1>6, DecisionReviewed DEF v, w, s

LEMMA ApprovalCallReviewed ==
    ASSUME Typed, NEW c \in Clerks, NEW a \in Ids, ApprovalCall(c, a), Reviewed(c)
    PROVE  Reviewed(c)'
<1>1. CASE RequestInfo(c, a)
  <2> DEFINE status == "INFO_REQUESTED"
  <2>1. /\ Live(a) /\ Open(approvals, a) /\ Begin(c, <<Stamp(a, status)>>, "idle")
        /\ status \in {"PENDING", "INFO_REQUESTED"}
    BY <1>1 DEF RequestInfo, Decidable, Open, OpenStatuses
  <2> HIDE DEF status
  <2> QED
    BY <2>1, AnswerReviewed
<1>2. CASE Respond(c, a)
  <2> DEFINE status == "PENDING"
  <2>1. /\ Live(a) /\ Open(approvals, a) /\ Begin(c, <<Stamp(a, status)>>, "idle")
        /\ status \in {"PENDING", "INFO_REQUESTED"}
    BY <1>2 DEF Respond, Open, OpenStatuses
  <2> HIDE DEF status
  <2> QED
    BY <2>1, AnswerReviewed
<1> QED
  BY <1>1, <1>2, ApproveReviewed, RejectReviewed, ReturnReviewed DEF ApprovalCall

\* Who of the round is left, after one more has approved.
LEMMA RemainingFacts ==
    ASSUME Typed, NEW c \in Clerks, At(c, "remaining"), Reviewed(c)
    PROVE  LET a == clerk[c].at
               s == approvals[a].step
           IN  /\ a \in DOMAIN approvals /\ Booked(approvals) /\ s \in Steps
               /\ row[s].status \in Completable /\ flow.mode[s] # "ANY"
               /\ \A b \in DOMAIN approvals :
                     approvals[b].step = s /\ Open(approvals, b) => b \in Left(a)
               /\ \A b \in Left(a) : /\ b \in DOMAIN approvals /\ approvals[b].step = s
                                     /\ Open(approvals, b)
               /\ Last(approvals, s) = {b \in DOMAIN approvals : Peers(approvals, a, b)}
               /\ approvals[a].status = "APPROVED"
<1> DEFINE k    == clerk[c]
           book == approvals
           a    == k.at
           s    == book[a].step
<1>1. k.pc = "remaining" /\ k.todo = <<>> /\ Tidy(k, book, row)
  BY DEF At, Reviewed
<1>2. /\ a \in DOMAIN book /\ Newest(book, a) /\ Booked(book)
      /\ row[s].status \in Completable /\ flow.mode[s] # "ANY" /\ book[a].status = "APPROVED"
  BY <1>1 DEF Tidy, Counting
<1>3. s \in Steps /\ \A b \in DOMAIN book : book[b].round \in Nat
  BY <1>2, ApprovalFields DEF Ids
<1>4. \A b \in DOMAIN book : book[b].step = s /\ Newest(book, b) => book[b].round = book[a].round
  BY <1>2, <1>3 DEF Newest
<1>5. Left(a) = {b \in DOMAIN book : Peers(book, a, b) /\ Open(book, b)}
  BY DEF Left, SameRound, OfStep, IsOpen, Ids, Peers, Open
<1>6. \A b \in DOMAIN book : book[b].step = s /\ Open(book, b) => b \in Left(a)
  BY <1>2, <1>4, <1>5 DEF Booked, Peers
<1>7. \A b \in Left(a) : b \in DOMAIN book /\ book[b].step = s /\ Open(book, b)
  BY <1>5 DEF Peers
<1>8. \A b \in DOMAIN book : Peers(book, a, b) => Newest(book, b)
  BY <1>2 DEF Peers, Newest
<1>9. Last(book, s) = {b \in DOMAIN book : Peers(book, a, b)}
  BY <1>4, <1>8 DEF Last, Peers
<1> QED
  BY <1>2, <1>3, <1>6, <1>7, <1>9

\* The rest of what is known then.
LEMMA RemainingRest ==
    ASSUME Typed, NEW c \in Clerks, At(c, "remaining"), Reviewed(c)
    PROVE  /\ crashes = 0 =>
                 /\ \A b \in DOMAIN approvals : Open(approvals, b) =>
                       /\ row[approvals[b].step].status
                             \notin {"COMPLETED", "REJECTED", "WAITING", "SKIPPED", "CANCELLED"}
                       /\ \/ \E d \in DOMAIN approvals :
                                /\ approvals[d].step = approvals[b].step /\ Open(approvals, d)
                                /\ approvals[d].status # "WAITING"
                          \/ approvals[b].step = approvals[clerk[c].at].step
                       /\ \A d \in DOMAIN approvals :
                             Peers(approvals, b, d) => Agrees(approvals, d)
                 /\ \A b \in DOMAIN approvals :
                       Peers(approvals, clerk[c].at, b) => Agrees(approvals, b)
                 /\ WholeBut(approvals, cut)
                 /\ \A t \in Steps :
                       flow.kind[t] = "REVIEW" /\ row[t].status = "COMPLETED"
                          /\ row[t].result = "APPROVED" /\ t \notin byHand => Consent(approvals, t)
           /\ synced /\ inst = "IN_PROGRESS" => \A t \in Steps : Reviewing(row, t) =>
                 Asked(approvals, t) \/ approvals[clerk[c].at].step = t
<1> DEFINE k    == clerk[c]
           book == approvals
<1>1. k.pc = "remaining" /\ k.todo = <<>>
  BY DEF At
<1>2. (crashes = 0 => Decided(k, book, row, byHand, cut)) /\ Waited(k, book, row, inst, synced)
  BY DEF Reviewed
<1> HIDE DEF k, book
<1>3. Elements(k.todo) = {}
  BY <1>1, TupleElements
<1>4. ASSUME crashes = 0, NEW b \in DOMAIN book, Open(book, b)
      PROVE  /\ row[book[b].step].status
                   \notin {"COMPLETED", "REJECTED", "WAITING", "SKIPPED", "CANCELLED"}
             /\ \/ \E d \in DOMAIN book : /\ book[d].step = book[b].step /\ Open(book, d)
                                          /\ book[d].status # "WAITING"
                \/ book[b].step = book[k.at].step
             /\ \A d \in DOMAIN book : Peers(book, b, d) => Agrees(book, d)
  <2>1. row[book[b].step].status
           \notin {"COMPLETED", "REJECTED", "WAITING", "SKIPPED", "CANCELLED"}
    BY <1>1, <1>2, <1>3, <1>4 DEF Decided, Withdrawn, Ends, Over
  <2>2. \/ \E d \in DOMAIN book : /\ book[d].step = book[b].step /\ Open(book, d)
                                  /\ book[d].status # "WAITING"
        \/ book[b].step = book[k.at].step
    BY <1>2, <1>3, <1>4 DEF Decided, Called
  <2>3. \A d \in DOMAIN book : Peers(book, b, d) => Agrees(book, d)
    BY <1>2, <1>3, <1>4 DEF Decided, Agreed
  <2> QED
    BY <2>1, <2>2, <2>3
<1>5. crashes = 0 =>
         /\ \A b \in DOMAIN book : Peers(book, k.at, b) => Agrees(book, b)
         /\ WholeBut(book, cut)
  BY <1>1, <1>2 DEF Decided, Agreed, Complete, Partly, WholeBut
<1>6. crashes = 0 => \A t \in Steps :
         flow.kind[t] = "REVIEW" /\ row[t].status = "COMPLETED"
            /\ row[t].result = "APPROVED" /\ t \notin byHand => Consent(book, t)
  BY <1>2 DEF Decided, Granted
<1>7. synced /\ inst = "IN_PROGRESS" => \A t \in Steps : Reviewing(row, t) =>
         Asked(book, t) \/ book[k.at].step = t
  <2>1. inst = "IN_PROGRESS" => ~Leaving(k.todo, inst)
    BY <1>3 DEF Leaving, InstOf
  <2> QED
    BY <1>1, <1>2, <2>1 DEF Waited
<1> QED
  BY <1>4, <1>5, <1>6, <1>7 DEF k, book

\* Everybody has approved: the step is completed.
LEMMA LastApproves ==
    ASSUME Typed, NEW c \in Clerks, At(c, "remaining"), Reviewed(c), Left(clerk[c].at) = {},
           Go(c, "sync", Approved(approvals[clerk[c].at].step)),
           UNCHANGED <<flow, inst, row, approvals, byHand, cut, crashes>>
    PROVE  Reviewed(c)'
<1> DEFINE pc   == "sync"
           book == approvals
           a    == clerk[c].at
           s    == approvals[a].step
           w    == SetSteps({s}, "COMPLETED", "APPROVED")
           then == Effect(flow.success[s])
           todo == <<w>> \o then
<1>1. /\ Booked(book) /\ s \in Steps /\ a \in DOMAIN book
      /\ \A b \in DOMAIN book : ~(book[b].step = s /\ Open(book, b))
      /\ Last(book, s) = {b \in DOMAIN book : Peers(book, a, b)}
      /\ book[a].status = "APPROVED"
  BY RemainingFacts
<1>2. /\ w \in Statements /\ w.op = "steps" /\ w.on = {s} /\ w.status = "COMPLETED"
      /\ w.result = "APPROVED"
  BY <1>1, StatementTypes DEF StepStatuses, Results, SetSteps, Statement
<1>3. /\ then \in Seq(Statements)
      /\ \A v \in Elements(then) :
            /\ v.op \in {"inst", "drop", "closeOf"}
            /\ v.op = "drop" => \E u \in Elements(then) : u.op = "closeOf" /\ u.on = Steps
  BY EffectType, EffectOps
<1>4. Go(c, pc, todo) /\ pc \in {"idle", "sync"} /\ pc = "sync"
  BY DEF Approved
<1> HIDE DEF w, then
<1>5. Elements(todo) = {w} \cup Elements(then)
  <2>1. <<w>> \in Seq(Statements) /\ Elements(<<w>>) = {w}
    BY <1>2, ListTypes, TupleElements
  <2> QED
    BY <1>3, <2>1, JoinElements
<1> HIDE DEF todo, pc
<1>6. ASSUME NEW k, k.pc = pc, k.todo = todo
      PROVE  Stamping(k, book, row) /\ ClosingOthers(k, book)
  BY <1>2, <1>3, <1>5, <1>6 DEF Stamping, ClosingOthers
<1>7. ASSUME NEW k, k.pc = pc, k.todo = todo, crashes = 0
      PROVE  Decided(k, book, row, byHand, cut)
  <2>1. /\ \A b \in DOMAIN book : Open(book, b) =>
              /\ row[book[b].step].status
                    \notin {"COMPLETED", "REJECTED", "WAITING", "SKIPPED", "CANCELLED"}
              /\ \/ \E d \in DOMAIN book : /\ book[d].step = book[b].step /\ Open(book, d)
                                           /\ book[d].status # "WAITING"
                 \/ book[b].step = s
              /\ \A d \in DOMAIN book : Peers(book, b, d) => Agrees(book, d)
        /\ \A b \in DOMAIN book : Peers(book, a, b) => Agrees(book, b)
        /\ WholeBut(book, cut)
        /\ \A t \in Steps :
              flow.kind[t] = "REVIEW" /\ row[t].status = "COMPLETED"
                 /\ row[t].result = "APPROVED" /\ t \notin byHand => Consent(book, t)
    BY <1>7, RemainingRest
  <2>2. Clear(book, row, byHand)
    BY <1>1, <2>1 DEF Clear
  <2>3. Complete(k, book, cut)
    BY <2>1 DEF Complete, WholeBut
  <2>4. ASSUME NEW b \in DOMAIN book, Open(book, b), Ends(k.todo, row, book[b].step, Over(k))
        PROVE  \E v \in Elements(k.todo) : Closes(v, book, book[b].step)
    <3>1. row[book[b].step].status \notin Over(k) /\ book[b].step # s /\ book[b].step \in Steps
      BY <1>1, <2>1, <2>4, ApprovalFields DEF Over, Ids
    <3>2. PICK v \in Elements(todo) : Moves(v, book[b].step, Over(k))
      BY <1>7, <2>4, <3>1 DEF Ends
    <3>3. v \in Elements(then) /\ v.op = "drop"
      BY <1>2, <1>3, <1>5, <3>1, <3>2 DEF Moves
    <3>4. PICK u \in Elements(then) : u.op = "closeOf" /\ u.on = Steps
      BY <1>3, <3>3
    <3> QED
      BY <1>5, <1>7, <3>1, <3>4 DEF Closes
  <2>5. Withdrawn(k, book, row)
    BY <2>4 DEF Withdrawn
  <2>6. Consent(book, s)
    <3>1. \A b \in Last(book, s) : book[b].status = "APPROVED"
      BY <1>1, <2>1 DEF Agrees, Peers
    <3>2. a \in Last(book, s)
      BY <1>1 DEF Peers
    <3> QED
      BY <3>1, <3>2 DEF Consent
  <2>7. ASSUME NEW t \in Steps, NEW v \in Elements(k.todo) PROVE Grants(k, v, book, t)
    BY <1>2, <1>3, <1>5, <1>7, <2>6, <2>7 DEF Grants
  <2> QED
    BY <1>4, <1>7, <2>2, <2>3, <2>5, <2>7, ClearDecided
<1>8. pc # "idle"
  BY <1>4
<1> QED
  BY <1>1, <1>4, <1>6, <1>7, <1>8, GoReviewed

\* Somebody is left, and the next in sequence is called if nobody is.
LEMMA OthersAreLeft ==
    ASSUME Typed, NEW c \in Clerks, At(c, "remaining"), Reviewed(c),
           NEW todo, Go(c, "idle", todo),
           UNCHANGED <<flow, inst, row, approvals, byHand, cut, crashes, synced>>,
           NEW b \in Left(clerk[c].at),
           \/ todo = <<>> /\ (flow.mode[approvals[clerk[c].at].step] # "SEQUENTIAL"
                                 \/ approvals[b].status # "WAITING")
           \/ todo = <<Stamp(b, "PENDING")>>
    PROVE  Reviewed(c)'
<1> DEFINE pc   == "idle"
           book == approvals
           a    == clerk[c].at
           s    == approvals[a].step
           w    == Stamp(b, "PENDING")
<1>1. /\ Booked(book) /\ b \in DOMAIN book /\ book[b].step = s /\ Open(book, b)
      /\ row[s].status \in Completable
  BY RemainingFacts
<1>2. w.op = "stamp" /\ w.id = b /\ w.status = "PENDING"
  BY DEF Stamp, Statement
<1>3. Go(c, pc, todo) /\ pc \in {"idle", "sync"} /\ pc = "idle"
  OBVIOUS
<1>4. /\ Elements(todo) \subseteq {w}
      /\ Elements(todo) = {} \/ (Elements(todo) = {w} /\ Elements(Tail(todo)) = {})
      /\ w \notin Elements(todo) => book[b].status # "WAITING"
  <2>1. Elements(<<>>) = {} /\ Elements(<<w>>) = {w} /\ Tail(<<w>>) = <<>>
    BY TupleElements
  <2>2. flow.mode[s] # "SEQUENTIAL" => book[b].status # "WAITING"
    BY <1>1 DEF Booked
  <2> QED
    BY <2>1, <2>2
<1> HIDE DEF w, pc
<1>5. ASSUME NEW k, k.pc = pc, k.todo = todo
      PROVE  Stamping(k, book, row) /\ ClosingOthers(k, book)
  BY <1>1, <1>2, <1>4, <1>5 DEF Stamping, ClosingOthers, OpenStatuses
<1>6. ASSUME NEW k, k.pc = pc, k.todo = todo, crashes = 0
      PROVE  Decided(k, book, row, byHand, cut)
  <2>1. /\ \A d \in DOMAIN book : Open(book, d) =>
              /\ row[book[d].step].status
                    \notin {"COMPLETED", "REJECTED", "WAITING", "SKIPPED", "CANCELLED"}
              /\ \/ \E e \in DOMAIN book : /\ book[e].step = book[d].step /\ Open(book, e)
                                           /\ book[e].status # "WAITING"
                 \/ book[d].step = s
              /\ \A e \in DOMAIN book : Peers(book, d, e) => Agrees(book, e)
        /\ WholeBut(book, cut)
        /\ \A t \in Steps :
              flow.kind[t] = "REVIEW" /\ row[t].status = "COMPLETED"
                 /\ row[t].result = "APPROVED" /\ t \notin byHand => Consent(book, t)
    BY <1>6, RemainingRest
  <2>2. Withdrawn(k, book, row)
    BY <1>2, <1>4, <1>6, <2>1 DEF Withdrawn, Ends, Moves, Over
  <2>3. Called(k, book)
    BY <1>1, <1>2, <1>4, <1>6, <2>1 DEF Called
  <2>4. Agreed(k, book) /\ Complete(k, book, cut)
    BY <1>3, <1>6, <2>1 DEF Agreed, Complete, WholeBut
  <2>5. Granted(k, book, row, byHand)
    BY <1>2, <1>4, <1>6, <2>1 DEF Granted, Grants
  <2> QED
    BY <2>2, <2>3, <2>4, <2>5 DEF Decided
<1>7. synced /\ inst = "IN_PROGRESS" => \A t \in Steps : Reviewing(row, t) => Asked(book, t)
  <2>1. Asked(book, s)
    BY <1>1 DEF Asked
  <2> QED
    BY <2>1, RemainingRest
<1>8. \A v \in Elements(todo) : v.op \notin {"closeOf", "closeOthers"}
                                /\ (v.op = "stamp" => v.status \in OpenStatuses)
  BY <1>2, <1>4 DEF OpenStatuses
<1> QED
  BY <1>1, <1>3, <1>5, <1>6, <1>7, <1>8, GoReviewed

LEMMA RemainingReviewed ==
    ASSUME Typed, NEW c \in Clerks, Remaining(c), Reviewed(c)
    PROVE  Reviewed(c)'
<1> DEFINE a == clerk[c].at
           s == approvals[a].step
<1>1. At(c, "remaining") /\ UNCHANGED <<flow, inst, row, approvals, byHand, cut, crashes, synced>>
  BY DEF Remaining
<1>2. CASE Left(a) = {}
  BY <1>1, <1>2, LastApproves DEF Remaining
<1>3. CASE Left(a) # {} /\ flow.mode[s] = "SEQUENTIAL" /\ \A b \in Left(a) : approvals[b].status = "WAITING"
  <2>1. PICK b \in Left(a) : Go(c, "idle", <<Stamp(b, "PENDING")>>)
    BY <1>3 DEF Remaining
  <2> DEFINE todo == <<Stamp(b, "PENDING")>>
  <2>2. Go(c, "idle", todo) /\ todo = <<Stamp(b, "PENDING")>>
    BY <2>1
  <2> HIDE DEF todo
  <2> QED
    BY <1>1, <2>2, OthersAreLeft
<1>4. CASE Left(a) # {} /\ ~(flow.mode[s] = "SEQUENTIAL" /\ \A b \in Left(a) : approvals[b].status = "WAITING")
  <2>1. PICK b \in Left(a) : flow.mode[s] # "SEQUENTIAL" \/ approvals[b].status # "WAITING"
    BY <1>4
  <2> DEFINE todo == <<>>
  <2>2. Go(c, "idle", todo) /\ todo = <<>>
    BY <1>4 DEF Remaining
  <2> HIDE DEF todo
  <2> QED
    BY <1>1, <2>1, <2>2, OthersAreLeft
<1> QED
  BY <1>2, <1>3, <1>4

-----------------------------------------------------------------------------
(* Approvals and steps agree, wherever the call in flight is.              *)

Agreeing == Correct /\ \A c \in Clerks : Reviewed(c)

LEMMA AgreeingInit == Init => Agreeing
<1> SUFFICES ASSUME Init, NEW c \in Clerks PROVE Reviewed(c)
  BY CorrectInit DEF Agreeing
<1> DEFINE n    == Idle
           book == approvals
<1>1. clerk[c] = n /\ inst = "NONE" /\ DOMAIN book = {} /\ row = NoRows
  BY DEF Init
<1>2. n.pc = "idle" /\ n.todo = <<>>
  BY DEF Idle, Call
<1>3. \A s \in Steps : row[s].status = "WAITING"
  BY <1>1 DEF NoRows, Row
<1> HIDE DEF n, book
<1>4. Elements(n.todo) = {}
  BY <1>2, TupleElements
<1>5. Tidy(n, book, row)
  BY <1>1, <1>2, <1>4 DEF Tidy, Booked, Remembers, Opening, Stamping, ClosingOthers, Counting
<1>6. Decided(n, book, row, byHand, cut)
  <2>1. Withdrawn(n, book, row) /\ Called(n, book) /\ Complete(n, book, cut)
    BY <1>1 DEF Withdrawn, Called, Complete, Partly
  <2>2. Agreed(n, book)
    BY <1>1, <1>2 DEF Agreed
  <2>3. Granted(n, book, row, byHand)
    BY <1>3, <1>4 DEF Granted
  <2> QED
    BY <2>1, <2>2, <2>3 DEF Decided
<1>7. Waited(n, book, row, inst, synced)
  BY <1>1, <1>2 DEF Waited
<1> QED
  BY <1>1, <1>5, <1>6, <1>7 DEF Reviewed, book

LEMMA AgreeingNext == OneClerk /\ Agreeing /\ [Next]_vars => Agreeing'
<1> SUFFICES ASSUME OneClerk, Agreeing, [Next]_vars, NEW d \in Clerks PROVE Reviewed(d)'
  BY CorrectNext DEF Agreeing
<1>1. Typed /\ Sound(d) /\ Reviewed(d) /\ \A c \in Clerks : c = d
  BY DEF Agreeing, Correct, OneClerk
<1>2. CASE (\E s \in Steps : TimerElapses(s)) \/ UNCHANGED vars
  <2>1. UNCHANGED <<flow, clerk, row, approvals, inst, synced, byHand, cut, crashes>>
    BY <1>2 DEF TimerElapses, vars
  <2> QED
    BY <1>1, <2>1, ReviewedNext DEF Reviewed
<1> QED
  BY <1>1, <1>2, ExecuteReviewed, AdvanceReviewed, InstanceCallReviewed, StepCallReviewed,
     RetryReviewed, ApprovalCallReviewed, RemainingReviewed, CrashReviewed DEF Next

LEMMA QuietReviews == OneClerk /\ Agreeing => ReviewsOpen
<1> SUFFICES ASSUME OneClerk, Agreeing, Quiet, inst = "IN_PROGRESS"
             PROVE  /\ \A s \in Steps : flow.kind[s] = "REVIEW" /\ row[s].status = "PENDING" =>
                          /\ OpenOf(s) # {}
                          /\ crashes = 0 => \E a \in OpenOf(s) : approvals[a].status # "WAITING"
                    /\ crashes = 0 => \A a \in Ids : IsOpen(a) =>
                          row[approvals[a].step].status \in Completable \cup {"BLOCKED"}
  BY DEF ReviewsOpen
<1>1. PICK c \in Clerks : Typed /\ Reviewed(c) /\ Free(c) /\ synced
  BY DEF OneClerk, Agreeing, Correct, Quiet
<1>2. /\ crashes = 0 =>
            /\ Clear(approvals, row, byHand)
            /\ \A a \in Ids : Open(approvals, a) =>
                  row[approvals[a].step].status
                     \notin {"COMPLETED", "REJECTED", "WAITING", "SKIPPED", "CANCELLED"}
      /\ \A s \in Steps : Reviewing(row, s) => Asked(approvals, s)
  BY <1>1, AtRest
<1>3. \A s : OpenOf(s) = {a \in DOMAIN approvals : approvals[a].step = s /\ Open(approvals, a)}
  BY DEF OpenOf, OfStep, IsOpen, Ids, Open
<1>4. ASSUME NEW s \in Steps, flow.kind[s] = "REVIEW", row[s].status = "PENDING"
      PROVE  /\ OpenOf(s) # {}
             /\ crashes = 0 => \E a \in OpenOf(s) : approvals[a].status # "WAITING"
  <2>1. PICK a \in DOMAIN approvals : approvals[a].step = s /\ Open(approvals, a)
    BY <1>2, <1>4 DEF Reviewing, Asked
  <2>2. crashes = 0 => \E b \in DOMAIN approvals :
            approvals[b].step = s /\ Open(approvals, b) /\ approvals[b].status # "WAITING"
    BY <1>2, <2>1 DEF Clear
  <2> QED
    BY <1>3, <2>1, <2>2
<1>5. ASSUME crashes = 0, NEW a \in Ids, IsOpen(a)
      PROVE  row[approvals[a].step].status \in Completable \cup {"BLOCKED"}
  <2>1. row[approvals[a].step].status
           \notin {"COMPLETED", "REJECTED", "WAITING", "SKIPPED", "CANCELLED"}
    BY <1>2, <1>5 DEF IsOpen, Open
  <2>2. row[approvals[a].step] \in StepRows
    BY <1>1, ApprovalFields DEF Typed
  <2>3. row[approvals[a].step].status \in StepStatuses
    BY <2>2 DEF StepRows
  <2> QED
    BY <2>1, <2>3 DEF StepStatuses, Completable
<1> QED
  BY <1>4, <1>5

\* When calls on the instance do not overlap, whatever the template: in a running
\* instance that has been advanced, a review that is pending has an open approval,
\* wherever calls died (ensureApprovals); where none has died, one that somebody
\* can decide, and no open approval is of a step that is done, rejected or waiting
\* (cleanupStaleApprovals).
THEOREM ReviewsAreOpen == OneClerk /\ Spec => []ReviewsOpen
<1> SUFFICES ASSUME OneClerk PROVE Spec => []ReviewsOpen
  OBVIOUS
<1>1. Init => Agreeing
  BY AgreeingInit
<1>2. Agreeing /\ [Next]_vars => Agreeing'
  BY AgreeingNext
<1>3. Agreeing => ReviewsOpen
  BY QuietReviews
<1> QED
  BY <1>1, <1>2, <1>3, PTL DEF Spec

LEMMA IntervalSize ==
    ASSUME NEW f \in Nat, NEW m \in Nat
    PROVE  Cardinality(f .. (f + m - 1)) = m
<1>1. Cardinality(f .. (f + m - 1)) = IF f > f + m - 1 THEN 0 ELSE (f + m - 1) - f + 1
  BY FS_Interval
<1> QED
  BY <1>1

LEMMA AgreeingRounds == OneClerk /\ Agreeing => ApprovedByRound
<1> SUFFICES ASSUME OneClerk, Agreeing, crashes = 0, NEW s \in Steps \ byHand,
                    flow.kind[s] = "REVIEW", row[s].status = "COMPLETED",
                    row[s].result = "APPROVED"
             PROVE  LET yes == {a \in NewestRound(s) : approvals[a].status = "APPROVED"}
                    IN  /\ yes # {}
                        /\ flow.mode[s] # "ANY" =>
                              /\ yes = NewestRound(s)
                              /\ s \notin cut => Cardinality(yes) = flow.approvers[s]
  BY DEF ApprovedByRound
<1> DEFINE book == approvals
<1>1. PICK c \in Clerks : Typed /\ Reviewed(c)
  BY DEF OneClerk, Agreeing, Correct
<1>2. Decided(clerk[c], book, row, byHand, cut)
  BY <1>1 DEF Reviewed
<1>3. Consent(book, s)
  BY <1>2 DEF Decided, Granted
<1>4. NewestRound(s) = Last(book, s)
  BY DEF NewestRound, OfStep, Ids, Last, Newest
<1>5. {a \in NewestRound(s) : book[a].status = "APPROVED"} # {}
  BY <1>3, <1>4 DEF Consent
<1>6. ASSUME flow.mode[s] # "ANY"
      PROVE  {a \in NewestRound(s) : book[a].status = "APPROVED"} = NewestRound(s)
  BY <1>3, <1>4, <1>6 DEF Consent
<1>7. ASSUME s \notin cut PROVE Cardinality(NewestRound(s)) = flow.approvers[s]
  <2>1. PICK a \in DOMAIN book : book[a].step = s
    BY <1>3 DEF Consent, Last
  <2>2. clerk[c].pc = "open" => clerk[c].at # s
    BY <1>1, AtRound
  <2>3. Whole(book, s)
    BY <1>2, <1>7, <2>1, <2>2 DEF Decided, Complete, Partly
  <2>4. PICK f \in DOMAIN book : Last(book, s) = f .. (f + flow.approvers[s] - 1)
    BY <2>3 DEF Whole
  <2>5. f \in Nat /\ flow.approvers[s] \in Nat
    BY <1>1, ApprovalFields DEF Ids, Typed, Templates
  <2> QED
    BY <1>4, <2>4, <2>5, IntervalSize
<1> QED
  BY <1>5, <1>6, <1>7

\* When calls on the instance do not overlap and none has died, at every statement
\* and for every template: a review completed as approved, and not by hand, has
\* been approved in its last round by one where anyone may, and elsewhere by
\* everybody of that round, who are as many as the template asks unless inserting
\* one of them failed (approve, ensureApprovals and its error path).
THEOREM ApprovedByAll == OneClerk /\ Spec => []ApprovedByRound
<1> SUFFICES ASSUME OneClerk PROVE Spec => []ApprovedByRound
  OBVIOUS
<1>1. Init => Agreeing
  BY AgreeingInit
<1>2. Agreeing /\ [Next]_vars => Agreeing'
  BY AgreeingNext
<1>3. Agreeing => ApprovedByRound
  BY AgreeingRounds
<1> QED
  BY <1>1, <1>2, <1>3, PTL DEF Spec
=============================================================================
