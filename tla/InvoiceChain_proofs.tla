------------------------ MODULE InvoiceChain_proofs ------------------------
(***************************************************************************)
(* Proofs about InvoiceChain: the numbers of a series have no gaps, on any *)
(* clocks; if the clocks of the replicas agree, the hash chain is intact   *)
(* and the transactions implement InvoiceBook.                             *)
(***************************************************************************)
EXTENDS InvoiceChain, FiniteSetTheorems, TLAPS

\* The counter is taken, and not committed, by the holder of the lock alone.
Exclusive == \A c \in Calls : flight[c].pc \in InTransaction => lock = c

Numbered ==
    \A c \in Calls : flight[c].pc \in {"numbered", "chained"} =>
        flight[c].number = LastNumber(invoiceSeries(flight[c].issueDate)) + 1

NumberInv == TypeOK /\ Exclusive /\ Numbered /\ NumbersGapFree

LEMMA SeriesType == \A date \in Nat : invoiceSeries(date) \in Nat
  BY CalendarAssumption DEF invoiceSeries

LEMMA ClockType == ASSUME TypeOK, NEW r \in Replicas PROVE Clock(r) \in Nat
  BY ClockAssumption DEF TypeOK, Clock

LEMMA NumberInit == Init => NumberInv
  BY CallAssumption DEF Init, NumberInv, TypeOK, Exclusive, Numbered, NumbersGapFree,
     InTransaction, LastNumber

LEMMA NumberNext == NumberInv /\ [Next]_vars => NumberInv'
<1> SUFFICES ASSUME NumberInv, [Next]_vars PROVE NumberInv'
  OBVIOUS
<1> USE CallAssumption DEF NumberInv
<1>1. ASSUME NEW c \in Calls, NEW r \in Replicas, Begin(c, r) PROVE NumberInv'
  <2>1. Clock(r) \in Nat
    BY ClockType
  <2> QED
    BY <1>1, <2>1 DEF Begin, TypeOK, Exclusive, Numbered, NumbersGapFree,
       InTransaction, LastNumber
<1>2. ASSUME NEW c \in Calls, Lock(c) PROVE NumberInv'
  BY <1>2 DEF Lock, Go, TypeOK, Exclusive, Numbered, NumbersGapFree,
     InTransaction, LastNumber
<1>3. ASSUME NEW c \in Calls, TakeNumber(c) PROVE NumberInv'
  <2>1. LastNumber(invoiceSeries(flight[c].issueDate)) \in Nat
    BY DEF TypeOK, LastNumber
  <2> QED
    BY <1>3, <2>1 DEF TakeNumber, Go, TypeOK, Exclusive, Numbered, NumbersGapFree,
       InTransaction, LastNumber
<1>4. ASSUME NEW c \in Calls, ReadPrevious(c) PROVE NumberInv'
  BY <1>4 DEF ReadPrevious, Go, TypeOK, Exclusive, Numbered, NumbersGapFree,
     InTransaction, LastNumber
<1>5. ASSUME NEW c \in Calls, Create(c) PROVE NumberInv'
  <2> DEFINE row == NewRow(flight[c])
             s   == invoiceSeries(flight[c].issueDate)
             n   == flight[c].number
  <2>1. /\ row.series = s /\ row.number = n /\ row.issueDate = flight[c].issueDate
        /\ row.createdAt = Clock(flight[c].replica)
    BY DEF NewRow
  <2>2. s \in Nat /\ row.issueDate \in Nat /\ row.createdAt \in Nat
    BY <1>5, <2>1, SeriesType, ClockType DEF Create, TypeOK
  <2>3. n = LastNumber(s) + 1 /\ LastNumber(s) \in Nat
    BY <1>5 DEF Create, Numbered, TypeOK, LastNumber
  <2>4. /\ invoices' = invoices \cup {row}
        /\ sequence' = [x \in DOMAIN sequence \cup {s} |-> IF x = s THEN n ELSE sequence[x]]
        /\ lock' = NoCall /\ now' = now
        /\ flight' = [flight EXCEPT ![c] =
              [pc |-> "done", replica |-> flight[c].replica,
               issueDate |-> flight[c].issueDate, number |-> n,
               previous |-> flight[c].previous]]
    BY <1>5 DEF Create, Go
  <2>5. flight[c].pc = "chained" /\ flight[c].replica \in Replicas
    BY <1>5 DEF Create, TypeOK
  <2> HIDE DEF row, s, n
  <2>6. TypeOK'
    BY <2>1, <2>2, <2>3, <2>4, <2>5 DEF TypeOK, InTransaction
  <2>7. \A d \in Calls : flight'[d].pc \notin InTransaction
    <3>1. \A d \in Calls : flight[d].pc \in InTransaction => d = c
      BY <2>5 DEF Exclusive, InTransaction
    <3>2. flight'[c].pc = "done" /\ \A d \in Calls \ {c} : flight'[d] = flight[d]
      BY <2>4 DEF TypeOK
    <3> QED
      BY <3>1, <3>2 DEF InTransaction
  <2>8. Exclusive' /\ Numbered'
    BY <2>7 DEF Exclusive, Numbered, InTransaction
  <2>9. NumbersGapFree'
    <3>1. \A q \in invoices : ~(q.series = s /\ q.number = n)
      BY <2>3 DEF NumbersGapFree, LastNumber, TypeOK
    <3>2. \A x \in Nat : LastNumber(x)' = IF x = s THEN n ELSE LastNumber(x)
      BY <2>4 DEF LastNumber
    <3>3. \A r, q \in invoices' : r.series = q.series /\ r.number = q.number => r = q
      BY <2>1, <2>4, <3>1 DEF NumbersGapFree
    <3>4. \A r \in invoices' : r.number \in 1 .. LastNumber(r.series)'
      BY <2>1, <2>2, <2>3, <2>4, <3>2 DEF NumbersGapFree, TypeOK
    <3>5. \A x \in DOMAIN sequence' : \A k \in 1 .. sequence'[x] :
             \E r \in invoices' : r.series = x /\ r.number = k
      BY <2>1, <2>3, <2>4 DEF NumbersGapFree, TypeOK, LastNumber
    <3> QED
      BY <3>3, <3>4, <3>5 DEF NumbersGapFree, LastNumber
  <2> QED
    BY <2>6, <2>8, <2>9
<1>6. ASSUME NEW c \in Calls, Abort(c) PROVE NumberInv'
  <2>1. flight[c].pc # "idle" /\ lock' \in Calls \cup {NoCall}
    BY <1>6 DEF Abort, TypeOK, InTransaction
  <2>2. TypeOK'
    BY <1>6, <2>1 DEF Abort, Go, TypeOK
  <2>3. Exclusive'
    BY <1>6 DEF Abort, Go, TypeOK, Exclusive, InTransaction
  <2>4. Numbered' /\ NumbersGapFree'
    BY <1>6 DEF Abort, Go, TypeOK, Numbered, NumbersGapFree, LastNumber
  <2> QED
    BY <2>2, <2>3, <2>4
<1>7. CASE Tick
  BY <1>7 DEF Tick, TypeOK, Exclusive, Numbered, NumbersGapFree, InTransaction, LastNumber
<1>8. CASE UNCHANGED vars
  BY <1>8 DEF vars, TypeOK, Exclusive, Numbered, NumbersGapFree, InTransaction, LastNumber
<1> QED
  BY <1>1, <1>2, <1>3, <1>4, <1>5, <1>6, <1>7, <1>8 DEF Next, Step

\* Every variable keeps to its kind, and every issued number follows the last.
THEOREM NumbersInvariant == Spec => []NumberInv
  BY NumberInit, NumberNext, PTL DEF Spec

\* Rows, counters, the lock and the calls in flight keep to their kinds.
THEOREM TypeCorrect == Spec => []TypeOK
<1>1. NumberInv => TypeOK
  BY DEF NumberInv
<1> QED
  BY NumbersInvariant, <1>1, PTL

\* On any number of replicas and whatever their clocks, and however many
\* transactions roll back, the numbers of a series are 1..last without a gap.
THEOREM NumberingGapFree == Spec => []NumbersGapFree
<1>1. NumberInv => NumbersGapFree
  BY DEF NumberInv
<1> QED
  BY NumbersInvariant, <1>1, PTL

-----------------------------------------------------------------------------
\* No stamp is ahead of any clock, and a call that holds the lock will stamp
\* its row after all there are.
Stamped == \A r \in invoices, p \in Replicas : r.createdAt <= Clock(p)
Fresh ==
    \A c \in Calls : flight[c].pc \in InTransaction =>
        \A r \in invoices, p \in Replicas : r.createdAt < Clock(p)
Linked ==
    \A c \in Calls : flight[c].pc = "chained" => Follows(flight[c].previous, invoices)

ChainInv == NumberInv /\ Stamped /\ Fresh /\ Linked /\ ChainValid

LEMMA ChainInit == Init => ChainInv
  BY NumberInit DEF Init, ChainInv, Stamped, Fresh, Linked, ChainValid, InTransaction

LEMMA ChainNext == ClocksAgree /\ ChainInv /\ [Next]_vars => ChainInv'
<1> SUFFICES ASSUME ClocksAgree, ChainInv, [Next]_vars PROVE ChainInv'
  OBVIOUS
<1>0. NumberInv /\ NumberInv'
  BY NumberNext DEF ChainInv
<1>t. TypeOK /\ Exclusive /\ TypeOK'
  BY <1>0 DEF NumberInv
<1>c. \A p \in Replicas : Offset[p] \in Nat
  BY ClockAssumption
\* A step that writes no invoice and turns no clock back.
<1>k. ASSUME invoices' = invoices, now' = now \/ now' = now + 1
      PROVE  Stamped' /\ ChainValid'
  BY <1>k, <1>t, <1>c DEF ChainInv, Stamped, ChainValid, Clock, TypeOK, Follows, Latest
<1>1. ASSUME NEW c \in Calls, NEW r \in Replicas, Begin(c, r) PROVE ChainInv'
  <2>1. Fresh' /\ Linked'
    BY <1>1, <1>t DEF Begin, ChainInv, Fresh, Linked, InTransaction, Clock, TypeOK
  <2> QED
    BY <1>0, <1>1, <1>k, <2>1 DEF Begin, ChainInv
<1>2. ASSUME NEW c \in Calls, Lock(c) PROVE ChainInv'
  <2>1. Fresh'
    BY <1>2, <1>t, <1>c DEF Lock, ChainInv, Stamped, Fresh, Clock, TypeOK
  <2>2. Linked'
    BY <1>2, <1>t DEF Lock, Go, ChainInv, Linked, TypeOK
  <2> QED
    BY <1>0, <1>2, <1>k, <2>1, <2>2 DEF Lock, ChainInv
<1>3. ASSUME NEW c \in Calls, TakeNumber(c) PROVE ChainInv'
  <2>1. Fresh'
    BY <1>3, <1>t DEF TakeNumber, Go, ChainInv, Fresh, InTransaction, Clock, TypeOK
  <2>2. Linked'
    BY <1>3, <1>t DEF TakeNumber, Go, ChainInv, Linked, TypeOK
  <2> QED
    BY <1>0, <1>3, <1>k, <2>1, <2>2 DEF TakeNumber, ChainInv
<1>4. ASSUME NEW c \in Calls, ReadPrevious(c) PROVE ChainInv'
  <2>1. Fresh'
    BY <1>4, <1>t DEF ReadPrevious, Go, ChainInv, Fresh, InTransaction, Clock, TypeOK
  <2>2. Linked'
    BY <1>4, <1>t DEF ReadPrevious, Go, ChainInv, Linked, TypeOK
  <2> QED
    BY <1>0, <1>4, <1>k, <2>1, <2>2 DEF ReadPrevious, ChainInv
<1>5. ASSUME NEW c \in Calls, Create(c) PROVE ChainInv'
  <2> DEFINE row == NewRow(flight[c])
  <2>1. /\ flight[c].pc = "chained" /\ flight[c].replica \in Replicas
        /\ invoices' = invoices \cup {row} /\ now' = now /\ lock' = NoCall
    BY <1>5, <1>t DEF Create, TypeOK
  <2>2. /\ row.createdAt = Clock(flight[c].replica)
        /\ row.previousHash = flight[c].previous
        /\ row.hash = invoiceHash(row.issueDate, row.createdAt, row.number,
                                  row.previousHash)
    BY DEF NewRow
  <2>3. Follows(row.previousHash, invoices)
    BY <2>1, <2>2 DEF ChainInv, Linked
  <2>4. \A q \in invoices : q.createdAt < row.createdAt
    BY <2>1, <2>2 DEF ChainInv, Fresh, InTransaction
  <2>5. row.createdAt \in Nat /\ \A q \in invoices : q.createdAt \in Nat
    BY <1>t, <2>1 DEF TypeOK
  <2>6. Stamped'
    <3>1. \A p \in Replicas : Clock(p)' = Clock(p)
      BY <2>1 DEF Clock
    <3>2. \A p \in Replicas : Clock(p) = row.createdAt
      BY <2>1, <2>2 DEF Clock, ClocksAgree
    <3>3. \A r \in invoices, p \in Replicas : r.createdAt <= Clock(p)
      BY DEF ChainInv, Stamped
    <3>4. row.createdAt <= row.createdAt
      BY <2>5
    <3> HIDE DEF row
    <3>5. \A r \in invoices', p \in Replicas : r.createdAt <= Clock(p)
      BY <2>1, <3>2, <3>3, <3>4
    <3> QED
      BY <3>1, <3>5 DEF Stamped, Clock
  <2>7. Fresh' /\ Linked'
    <3>1. \A d \in Calls : flight'[d].pc \in InTransaction => FALSE
      BY <1>0, <2>1, CallAssumption DEF NumberInv, Exclusive
    <3> QED
      BY <3>1 DEF Fresh, Linked, InTransaction
  <2> HIDE DEF row
  <2>8. {q \in invoices' : q.createdAt < row.createdAt} = invoices
    BY <2>1, <2>4, <2>5
  <2>9. ASSUME NEW p \in invoices
        PROVE  {q \in invoices' : q.createdAt < p.createdAt}
                  = {q \in invoices : q.createdAt < p.createdAt}
    BY <2>1, <2>4, <2>5
  <2>10. ASSUME NEW p \in invoices'
         PROVE  /\ \A q \in invoices' : q.createdAt = p.createdAt => q = p
                /\ Follows(p.previousHash, {q \in invoices' : q.createdAt < p.createdAt})
                /\ p.hash = invoiceHash(p.issueDate, p.createdAt, p.number,
                                        p.previousHash)
    <3>0. \A q \in invoices : q.createdAt # row.createdAt
      BY <2>4, <2>5
    <3>1. CASE p = row
      <4>1. \A q \in invoices' : q.createdAt = p.createdAt => q = p
        BY <2>1, <3>0, <3>1
      <4> QED
        BY <2>2, <2>3, <2>8, <3>1, <4>1
    <3>2. CASE p \in invoices
      <4>1. \A q \in invoices' : q.createdAt = p.createdAt => q = p
        <5>1. \A q \in invoices : q.createdAt = p.createdAt => q = p
          BY <3>2 DEF ChainInv, ChainValid
        <5> QED
          BY <2>1, <3>0, <3>2, <5>1
      <4> QED
        BY <2>9, <3>2, <4>1 DEF ChainInv, ChainValid
    <3> QED
      BY <2>1, <3>1, <3>2
  <2>11. ChainValid'
    BY <2>10 DEF ChainValid, Follows, Latest, invoiceHash, invoiceSeries
  <2> QED
    BY <1>0, <2>6, <2>7, <2>11 DEF ChainInv
<1>6. ASSUME NEW c \in Calls, Abort(c) PROVE ChainInv'
  <2>1. flight'[c].pc = "failed" /\ \A d \in Calls \ {c} : flight'[d] = flight[d]
    BY <1>6, <1>t DEF Abort, Go, TypeOK
  <2>2. Fresh' /\ Linked'
    BY <1>6, <2>1 DEF Abort, ChainInv, Fresh, Linked, InTransaction, Clock
  <2> QED
    BY <1>0, <1>6, <1>k, <2>2 DEF Abort, ChainInv
<1>7. CASE Tick
  <2>1. Fresh' /\ Linked'
    BY <1>7, <1>t, <1>c DEF Tick, ChainInv, Fresh, Linked, Clock, TypeOK
  <2> QED
    BY <1>0, <1>7, <1>k, <2>1 DEF Tick, ChainInv
<1>8. CASE UNCHANGED vars
  <2>1. Fresh' /\ Linked'
    BY <1>8 DEF vars, ChainInv, Fresh, Linked, Clock
  <2> QED
    BY <1>0, <1>8, <1>k, <2>1 DEF vars, ChainInv
<1> QED
  BY <1>1, <1>2, <1>3, <1>4, <1>5, <1>6, <1>7, <1>8 DEF Next, Step

\* If the clocks of the replicas agree, verifyChain finds the chain intact at
\* every moment, however the calls interleave and roll back.
THEOREM ChainIntact == ClocksAgree /\ Spec => []ChainValid
<1> DEFINE J == ClocksAgree /\ ChainInv
<1>1. ClocksAgree /\ Init => J
  BY ChainInit
<1>2. J /\ [Next]_vars => J'
  BY ChainNext DEF ClocksAgree
<1>3. J => ChainValid
  BY DEF ChainInv
<1> QED
  BY <1>1, <1>2, <1>3, PTL DEF Spec
-----------------------------------------------------------------------------
(* The invoices make one book: what is issued comes after all there is.    *)

Entries == [i \in DOMAIN Ordered |-> Entry(Ordered[i])]
Pages(s) == {i \in DOMAIN Entries : Entries[i].series = s}

\* The counter of a series is the number of its entries.
Counted == \A s \in Nat : Cardinality(Pages(s)) = LastNumber(s)

BookInv == ChainInv /\ IsFiniteSet(invoices) /\ Counted

\* The last invoice goes to the end.
LEMMA OrderedNext ==
    ASSUME IsFiniteSet(invoices), NEW row, invoices' = invoices \cup {row},
           row.createdAt \in Nat,
           \A q \in invoices : q.createdAt \in Nat /\ q.createdAt < row.createdAt
    PROVE  LET n == Cardinality(invoices)
           IN  /\ n \in Nat /\ IsFiniteSet(invoices') /\ Cardinality(invoices') = n + 1
               /\ Ordered' = [i \in 1 .. n + 1 |-> IF i \in 1 .. n THEN Ordered[i] ELSE row]
<1> DEFINE n == Cardinality(invoices)
           Prior(r, S) == {q \in S : q.createdAt < r.createdAt}
           Some(i, S)  == {r \in S : Cardinality(Prior(r, S)) < i}
           Pick(i, S)  == CHOOSE r \in Latest(Some(i, S)) : TRUE
<1>1. n \in Nat /\ IsFiniteSet(invoices')
  BY FS_CardinalityType, FS_AddElement
<1>2. row \notin invoices
  <2>1. ~(row.createdAt < row.createdAt)
    OBVIOUS
  <2> QED
    BY <2>1
<1>3. Cardinality(invoices') = n + 1
  BY <1>2, FS_AddElement
<1>4. /\ Ordered = [i \in 1 .. n |-> Pick(i, invoices)]
      /\ Ordered' = [i \in 1 .. n + 1 |-> Pick(i, invoices')]
  BY <1>3 DEF Ordered, Among, Before, Latest
<1>5. Prior(row, invoices') = invoices
  <2>1. ~(row.createdAt < row.createdAt)
    OBVIOUS
  <2> QED
    BY <2>1
<1>6. \A q \in invoices : Prior(q, invoices') = Prior(q, invoices)
  <2>1. \A q \in invoices : ~(row.createdAt < q.createdAt)
    OBVIOUS
  <2> QED
    BY <2>1
<1>a. Cardinality(Prior(row, invoices')) = n
  BY <1>5
<1> HIDE DEF Prior
<1>7. ASSUME NEW i \in 1 .. n PROVE Some(i, invoices') = Some(i, invoices)
  <2>1. ~(Cardinality(Prior(row, invoices')) < i)
    BY <1>1, <1>a
  <2>2. \A q \in invoices : q \in Some(i, invoices') <=> q \in Some(i, invoices)
    BY <1>6
  <2>3. row \notin Some(i, invoices')
    BY <2>1
  <2>4. Some(i, invoices') \subseteq invoices' /\ Some(i, invoices) \subseteq invoices
    OBVIOUS
  <2> HIDE DEF Some
  <2> QED
    BY <2>2, <2>3, <2>4
<1>8. Latest(Some(n + 1, invoices')) = {row}
  <2>1. row \in Some(n + 1, invoices')
    BY <1>1, <1>a
  <2>2. Some(n + 1, invoices') \subseteq invoices'
    OBVIOUS
  <2>3. \A q \in invoices' : q.createdAt <= row.createdAt
    OBVIOUS
  <2>4. \A q \in invoices : ~(row.createdAt <= q.createdAt)
    OBVIOUS
  <2> HIDE DEF Some
  <2> QED
    BY <2>1, <2>2, <2>3, <2>4 DEF Latest
<1>9. \A i \in 1 .. n : Pick(i, invoices') = Pick(i, invoices)
  BY <1>7
<1>10. Pick(n + 1, invoices') = row
  BY <1>8
<1> HIDE DEF Pick
<1>11. \A i \in 1 .. n + 1 : Pick(i, invoices') = IF i \in 1 .. n THEN Ordered[i] ELSE row
  <2>1. \A i \in 1 .. n + 1 : i \in 1 .. n \/ i = n + 1
    BY <1>1
  <2>2. n + 1 \notin 1 .. n
    BY <1>1
  <2> QED
    BY <1>4, <1>9, <1>10, <2>1, <2>2
<1> QED
  BY <1>1, <1>3, <1>4, <1>11

LEMMA BookInit == Init => BookInv /\ Book!Init
<1> SUFFICES ASSUME Init PROVE BookInv /\ Book!Init
  OBVIOUS
<1>1. invoices = {} /\ IsFiniteSet(invoices) /\ Cardinality(invoices) = 0
  BY FS_EmptySet DEF Init
<1>2. DOMAIN Ordered = {}
  BY <1>1 DEF Ordered
<1>3. Entries = <<>>
  BY <1>2 DEF Entries
<1>4. Counted
  <2>1. \A s : Pages(s) = {} /\ LastNumber(s) = 0
    BY <1>3 DEF Pages, LastNumber, Init
  <2> QED
    BY <2>1, FS_EmptySet DEF Counted
<1> QED
  BY <1>1, <1>3, <1>4, ChainInit DEF BookInv, Book!Init, Entries

LEMMA AppendIs ==
    ASSUME NEW S, NEW seq \in Seq(S), NEW e \in S
    PROVE  Append(seq, e) = [i \in 1 .. Len(seq) + 1 |-> IF i \in 1 .. Len(seq) THEN seq[i] ELSE e]
<1>1. /\ Append(seq, e) \in Seq(S) /\ Len(Append(seq, e)) = Len(seq) + 1
      /\ \A i \in 1 .. Len(seq) : Append(seq, e)[i] = seq[i]
      /\ Append(seq, e)[Len(seq) + 1] = e
  OBVIOUS
<1>2. \A t \in Seq(S) : t = [i \in 1 .. Len(t) |-> t[i]]
  OBVIOUS
<1>3. Len(seq) \in Nat
  OBVIOUS
<1> DEFINE n == Len(seq)
           t == Append(seq, e)
<1> HIDE DEF n, t
<1>4. t = [i \in 1 .. n + 1 |-> t[i]]
  BY <1>1, <1>2 DEF n, t
<1>5. n \in Nat /\ t[n + 1] = e /\ \A i \in 1 .. n : t[i] = seq[i]
  BY <1>1, <1>3 DEF n, t
<1>6. \A i \in 1 .. n + 1 : t[i] = IF i \in 1 .. n THEN seq[i] ELSE e
  BY <1>5
<1> QED
  BY <1>4, <1>6 DEF n, t

\* A commit enters the invoice, with the next number of its series.
LEMMA CreateEnters ==
    ASSUME ClocksAgree, BookInv, ChainInv', NEW c \in Calls, Create(c)
    PROVE  BookInv' /\ Book!Next
<1> DEFINE row == NewRow(flight[c])
           s   == invoiceSeries(flight[c].issueDate)
           n   == Cardinality(invoices)
<1>0. NumberInv /\ TypeOK
  BY DEF BookInv, ChainInv, NumberInv
<1>1. /\ flight[c].pc = "chained" /\ flight[c].replica \in Replicas
      /\ flight[c].issueDate \in Nat
      /\ invoices' = invoices \cup {row}
      /\ sequence' = [x \in DOMAIN sequence \cup {s} |->
                          IF x = s THEN flight[c].number ELSE sequence[x]]
  BY <1>0 DEF Create, TypeOK
<1>2. /\ row.createdAt = Clock(flight[c].replica) /\ row.createdAt \in Nat
      /\ row.series = s /\ row.number = flight[c].number /\ s \in Nat
  BY <1>0, <1>1, ClockType, SeriesType DEF NewRow
<1>3. flight[c].number = LastNumber(s) + 1 /\ LastNumber(s) \in Nat
  BY <1>0, <1>1 DEF NumberInv, Numbered, TypeOK, LastNumber
<1>4. \A q \in invoices : q.createdAt \in Nat /\ q.createdAt < row.createdAt
  BY <1>0, <1>1, <1>2 DEF BookInv, ChainInv, Fresh, InTransaction, TypeOK
<1> HIDE DEF row
<1>5. /\ n \in Nat /\ IsFiniteSet(invoices') /\ Cardinality(invoices') = n + 1
      /\ Ordered' = [i \in 1 .. n + 1 |-> IF i \in 1 .. n THEN Ordered[i] ELSE row]
  BY <1>1, <1>2, <1>4, OrderedNext DEF BookInv
<1>6. /\ DOMAIN Entries = 1 .. n
      /\ Entries' = [i \in 1 .. n + 1 |-> IF i \in 1 .. n THEN Entries[i] ELSE Entry(row)]
  <2>1. DOMAIN Ordered = 1 .. n
    BY DEF Ordered
  <2>2. \A i \in 1 .. n : Entries[i] = Entry(Ordered[i])
    BY <2>1 DEF Entries
  <2>3. Entries' = [i \in 1 .. n + 1 |-> Entry(IF i \in 1 .. n THEN Ordered[i] ELSE row)]
    BY <1>5 DEF Entries, Entry
  <2> QED
    BY <2>1, <2>2, <2>3 DEF Entries
<1>7. Len(Entries) = n /\ Len(Entries') = n + 1 /\ Entries' = Append(Entries, Entry(row))
  <2>1. Entries = [i \in 1 .. n |-> Entries[i]]
    BY DEF Entries, Ordered
  <2> HIDE DEF Entries
  <2>2. Len(Entries) = n
    BY <1>5, <1>6
  <2>3. Len(Entries') = n + 1
    BY <1>5, <1>6
  <2>4. Entries \in Seq({Entries'[i] : i \in 1 .. n + 1})
    BY <1>5, <1>6, <2>1
  <2>5. Entry(row) \in {Entries'[i] : i \in 1 .. n + 1}
    BY <1>5, <1>6
  <2> QED
    BY <1>5, <1>6, <2>2, <2>3, <2>4, <2>5, AppendIs
<1>8. Entry(row) = [series |-> s, number |-> Cardinality(Pages(s)) + 1]
  BY <1>2, <1>3 DEF BookInv, Counted, Entry
<1>9. Book!Next
  <2>1. Entries'[n + 1] = Entry(row) /\ Entry(row).series = s
    BY <1>5, <1>6, <1>8
  <2>2. Book!Numbered(s) = Cardinality(Pages(s))
    BY DEF Book!Numbered, Entries, Pages, Book!Cardinality, Cardinality
  <2>3. Book!Enter(s)
    BY <1>7, <1>8, <2>2 DEF Book!Enter, Entries
  <2> QED
    BY <1>7, <2>1, <2>3 DEF Book!Next, Entries
<1>10. Counted'
  <2> SUFFICES ASSUME NEW t \in Nat PROVE Cardinality(Pages(t)') = LastNumber(t)'
    BY DEF Counted
  <2>1. IsFiniteSet(Pages(t)) /\ Pages(t) \subseteq 1 .. n /\ n + 1 \notin Pages(t)
    <3>1. Pages(t) \subseteq 1 .. n
      BY <1>6 DEF Pages
    <3>2. n \in Nat /\ n \in Int /\ 1 \in Int
      BY <1>5
    <3>3. IsFiniteSet(1 .. n)
      BY <3>2, FS_Interval
    <3>4. IsFiniteSet(Pages(t))
      BY <3>1, <3>3, FS_Subset
    <3>5. n + 1 \notin 1 .. n
      BY <3>2
    <3> QED
      BY <3>1, <3>4, <3>5
  <2>2. Pages(t)' = IF t = s THEN Pages(t) \cup {n + 1} ELSE Pages(t)
    <3>1. /\ DOMAIN Entries' = 1 .. n + 1 /\ Entries'[n + 1].series = s
          /\ \A i \in 1 .. n : Entries'[i] = Entries[i]
          /\ 1 .. n + 1 = (1 .. n) \cup {n + 1} /\ n + 1 \notin 1 .. n
      BY <1>5, <1>6, <1>8
    <3> QED
      BY <1>6, <3>1 DEF Pages
  <2>3. LastNumber(t)' = IF t = s THEN LastNumber(t) + 1 ELSE LastNumber(t)
    BY <1>1, <1>3 DEF LastNumber
  <2>4. Cardinality(Pages(t)) = LastNumber(t)
    BY DEF BookInv, Counted
  <2>5. Cardinality(Pages(t) \cup {n + 1}) = Cardinality(Pages(t)) + 1
    BY <2>1, FS_AddElement
  <2> QED
    BY <2>2, <2>3, <2>4, <2>5
<1> QED
  BY <1>5, <1>9, <1>10 DEF BookInv

LEMMA BookNext == ClocksAgree /\ BookInv /\ [Next]_vars
                      => BookInv' /\ (Book!Next \/ Entries' = Entries)
<1> SUFFICES ASSUME ClocksAgree, BookInv, [Next]_vars
             PROVE  BookInv' /\ (Book!Next \/ Entries' = Entries)
  OBVIOUS
<1>1. ChainInv'
  BY ChainNext DEF BookInv
<1>2. ASSUME NEW c \in Calls, Create(c) PROVE BookInv' /\ Book!Next
  BY <1>1, <1>2, CreateEnters
<1>3. ASSUME UNCHANGED <<invoices, sequence>> PROVE BookInv' /\ Entries' = Entries
  <2>1. Entries' = Entries
    BY <1>3 DEF Entries, Ordered, Among, Before, Latest, Entry
  <2>2. \A t : Pages(t)' = Pages(t) /\ LastNumber(t)' = LastNumber(t)
    BY <1>3, <2>1 DEF Pages, LastNumber
  <2> QED
    BY <1>1, <1>3, <2>1, <2>2 DEF BookInv, Counted
<1>4. UNCHANGED <<invoices, sequence>> \/ \E c \in Calls : Create(c)
  BY DEF Next, Step, Begin, Lock, TakeNumber, ReadPrevious, Abort, Tick, vars
<1> QED
  BY <1>2, <1>3, <1>4

\* If the clocks of the replicas agree, their transactions together write one
\* book: each commit enters the next number of its series after all that was
\* issued before it, for any number of calls and replicas and any rollbacks.
THEOREM OneBook == ClocksAgree /\ Spec => BookKept
<1> DEFINE J == ClocksAgree /\ BookInv
<1>1. ClocksAgree /\ Init => J /\ Book!Init
  BY BookInit
<1>2. J /\ [Next]_vars => J' /\ [Book!Next]_[i \in DOMAIN Ordered |-> Entry(Ordered[i])]
  BY BookNext DEF ClocksAgree, Entries
<1> HIDE DEF J
<1> QED
  BY <1>1, <1>2, PTL DEF Spec, BookKept, Book!Spec
=============================================================================
