---------------------------- MODULE InvoiceChain ----------------------------
(***************************************************************************)
(* Issuing an invoice (BillingInvoicesService.issue): its number in the    *)
(* yearly series and its place in the hash chain, under a Postgres         *)
(* advisory lock, on any replica of the application.                       *)
(*                                                                         *)
(* A call reads its issue date before the transaction starts.  In the      *)
(* transaction it waits for the lock, increments the counter of the        *)
(* series, reads the invoice of latest createdAt, stamps its own row with  *)
(* the clock of its replica and commits; each is an action.  A transaction *)
(* that fails, times out (waiting for the lock included) or loses its      *)
(* connection rolls back and frees the lock.                               *)
(*                                                                         *)
(* An invoice is its numbering and chaining columns, which no code updates *)
(* later.  SHA-256 is injective in its payload, so a hash is its payload.  *)
(* The total, the customer's data and the description are copied from the  *)
(* subscription and left out.                                              *)
(***************************************************************************)
EXTENDS Integers, Sequences, FiniteSets

CONSTANTS
    Calls,         \* calls of issue; each runs once
    Replicas,      \* replicas of the application
    Offset,        \* how far the clock of a replica is ahead of true time
    SecondTicks, DayTicks, YearTicks,  \* clock ticks in a second, day, year
    NoCall, NoReplica, NoHash,
    MaxNow         \* bound: idle time does not pass beyond this tick

ASSUME ClockAssumption == Offset \in [Replicas -> Nat] /\ MaxNow \in Nat
ASSUME CalendarAssumption ==
    SecondTicks \in Nat \ {0} /\ DayTicks \in Nat \ {0} /\ YearTicks \in Nat \ {0}
ASSUME CallAssumption == NoCall \notin Calls

VARIABLES
    now,           \* true time, in ticks
    lock,          \* the call that holds pg_advisory_xact_lock, or NoCall
    sequence,      \* billing_invoice_sequences: series |-> last
    invoices,      \* committed rows of billing_invoices
    flight         \* what each call holds in its local variables

vars == <<now, lock, sequence, invoices, flight>>

-----------------------------------------------------------------------------
Clock(r) == now + Offset[r]

\* One series a year: "FT <year>".
invoiceSeries(date) == date \div YearTicks

\* The payload has the issue date to the day and createdAt to the second.
invoiceHash(issueDate, createdAt, number, previous) ==
    <<issueDate \div DayTicks, createdAt \div SecondTicks,
      invoiceSeries(issueDate), number, previous>>

\* Where `last' of a series stands: the row is created with its first invoice.
LastNumber(s) == IF s \in DOMAIN sequence THEN sequence[s] ELSE 0

\* ORDER BY createdAt DESC LIMIT 1: any one of the latest, if several tie.
Latest(rows) == {r \in rows : \A q \in rows : q.createdAt <= r.createdAt}

\* The hash is what a row that comes right after `rows' must carry.
Follows(hash, rows) ==
    \/ rows = {} /\ hash = NoHash
    \/ \E r \in Latest(rows) : hash = r.hash

InTransaction == {"locked", "numbered", "chained"}

Init ==
    /\ now = 0
    /\ lock = NoCall
    /\ sequence = [s \in {} |-> 0]
    /\ invoices = {}
    /\ flight = [c \in Calls |->
          [pc |-> "idle", replica |-> NoReplica, issueDate |-> 0,
           number |-> 0, previous |-> NoHash]]

-----------------------------------------------------------------------------
\* Moves a call on, changing what it has read so far.
Go(c, pc, number, previous) ==
    flight' = [flight EXCEPT ![c] =
        [pc |-> pc, replica |-> flight[c].replica, issueDate |-> flight[c].issueDate,
         number |-> number, previous |-> previous]]

\* The issue date is taken before the lock is asked for.
Begin(c, r) ==
    /\ flight[c].pc = "idle"
    /\ flight' = [flight EXCEPT ![c] =
          [pc |-> "waiting", replica |-> r, issueDate |-> Clock(r),
           number |-> 0, previous |-> NoHash]]
    /\ UNCHANGED <<now, lock, sequence, invoices>>

\* Wrong variant: the transaction does not take the advisory lock.
LockNothing(c) ==
    /\ flight[c].pc = "waiting"
    /\ now' = now + 1
    /\ Go(c, "locked", 0, NoHash)
    /\ UNCHANGED <<lock, sequence, invoices>>

\* Getting the lock is a round trip to the database: at least one tick.
Lock(c) ==
    /\ flight[c].pc = "waiting"
    /\ lock = NoCall
    /\ lock' = c
    /\ now' = now + 1
    /\ Go(c, "locked", 0, NoHash)
    /\ UNCHANGED <<sequence, invoices>>

\* Wrong variant: the number is the counter as it was read, before its increment.
TakeLastNumber(c) ==
    /\ flight[c].pc = "locked"
    /\ Go(c, "numbered", LastNumber(invoiceSeries(flight[c].issueDate)), NoHash)
    /\ UNCHANGED <<now, lock, sequence, invoices>>

\* Wrong variant: the upsert runs outside the transaction, and is not rolled back.
TakeNumberForGood(c) ==
    /\ flight[c].pc = "locked"
    /\ LET s == invoiceSeries(flight[c].issueDate)
       IN  /\ Go(c, "numbered", LastNumber(s) + 1, NoHash)
           /\ sequence' = [x \in DOMAIN sequence \cup {s} |->
                               IF x = s THEN LastNumber(s) + 1 ELSE sequence[x]]
    /\ UNCHANGED <<now, lock, invoices>>

\* The upsert; the counter keeps its row locked until the transaction ends.
TakeNumber(c) ==
    /\ flight[c].pc = "locked"
    /\ \A d \in Calls \ {c} : flight[d].pc \in {"numbered", "chained"} =>
          invoiceSeries(flight[d].issueDate) # invoiceSeries(flight[c].issueDate)
    /\ Go(c, "numbered", LastNumber(invoiceSeries(flight[c].issueDate)) + 1, NoHash)
    /\ UNCHANGED <<now, lock, sequence, invoices>>

ReadPrevious(c) ==
    /\ flight[c].pc = "numbered"
    /\ \E hash \in {NoHash} \cup {r.hash : r \in invoices} :
          /\ Follows(hash, invoices)
          /\ Go(c, "chained", flight[c].number, hash)
    /\ UNCHANGED <<now, lock, sequence, invoices>>

\* Wrong variant: createdAt is the time read before the transaction.
NewRowStampedEarly(call) ==
    [series |-> invoiceSeries(call.issueDate), number |-> call.number,
     issueDate |-> call.issueDate, createdAt |-> call.issueDate,
     previousHash |-> call.previous,
     hash |-> invoiceHash(call.issueDate, call.issueDate, call.number, call.previous)]

NewRow(call) ==
    LET createdAt == Clock(call.replica)
    IN  [series |-> invoiceSeries(call.issueDate), number |-> call.number,
         issueDate |-> call.issueDate, createdAt |-> createdAt,
         previousHash |-> call.previous,
         hash |-> invoiceHash(call.issueDate, createdAt, call.number, call.previous)]

\* The row is stamped, inserted and committed, with the new counter.
Create(c) ==
    /\ flight[c].pc = "chained"
    /\ invoices' = invoices \cup {NewRow(flight[c])}
    /\ LET s == invoiceSeries(flight[c].issueDate)
       IN  sequence' = [x \in DOMAIN sequence \cup {s} |->
                           IF x = s THEN flight[c].number ELSE sequence[x]]
    /\ lock' = NoCall
    /\ Go(c, "done", flight[c].number, flight[c].previous)
    /\ UNCHANGED now

\* Wrong variant: a session lock, which the rollback does not release.
AbortHoldingLock(c) ==
    /\ flight[c].pc \in {"waiting"} \cup InTransaction
    /\ Go(c, "failed", 0, NoHash)
    /\ UNCHANGED <<now, lock, sequence, invoices>>

\* Rolled back: nothing was written, and the lock, if held, is free.
Abort(c) ==
    /\ flight[c].pc \in {"waiting"} \cup InTransaction
    /\ lock' = IF lock = c THEN NoCall ELSE lock
    /\ Go(c, "failed", 0, NoHash)
    /\ UNCHANGED <<now, sequence, invoices>>

Tick ==
    /\ now < MaxNow
    /\ now' = now + 1
    /\ UNCHANGED <<lock, sequence, invoices, flight>>

Step(c) == TakeNumber(c) \/ ReadPrevious(c) \/ Create(c)

Next ==
    \/ \E c \in Calls :
          (\E r \in Replicas : Begin(c, r)) \/ Lock(c) \/ Step(c) \/ Abort(c)
    \/ Tick

Spec == Init /\ [][Next]_vars

\* A transaction in the lock goes on, and Postgres queues the waiters.
FairSpec == Spec /\ \A c \in Calls : WF_vars(Step(c)) /\ SF_vars(Lock(c))

\* The replicas agree on the time.
ClocksAgree == \A r, q \in Replicas : Offset[r] = Offset[q]

-----------------------------------------------------------------------------
\* Every variable holds values of its kind.
TypeOK ==
    /\ now \in Nat
    /\ lock \in Calls \cup {NoCall}
    /\ \A s \in DOMAIN sequence : s \in Nat /\ sequence[s] \in Nat \ {0}
    /\ \A r \in invoices :
          /\ r.series \in Nat /\ r.number \in Nat \ {0}
          /\ r.issueDate \in Nat /\ r.createdAt \in Nat
    /\ DOMAIN flight = Calls
    /\ \A c \in Calls :
          /\ flight[c].pc \in {"idle", "waiting", "done", "failed"} \cup InTransaction
          /\ flight[c].issueDate \in Nat /\ flight[c].number \in Nat
          /\ flight[c].pc # "idle" => flight[c].replica \in Replicas

\* "Numeracao sem buracos": the numbers of a series are exactly 1..last, each
\* on one invoice, whatever transactions were rolled back after taking one.
NumbersGapFree ==
    /\ \A r, q \in invoices :
          r.series = q.series /\ r.number = q.number => r = q
    /\ \A r \in invoices : r.number \in 1 .. LastNumber(r.series)
    /\ \A s \in DOMAIN sequence : \A n \in 1 .. sequence[s] :
          \E r \in invoices : r.series = s /\ r.number = n

\* "Cadeia de hash integra" (verifyChain): in the order of createdAt, which two
\* invoices never share, each carries the hash of the one before it.
ChainValid ==
    \A row \in invoices :
        /\ \A q \in invoices : q.createdAt = row.createdAt => q = row
        /\ Follows(row.previousHash, {q \in invoices : q.createdAt < row.createdAt})
        /\ row.hash = invoiceHash(row.issueDate, row.createdAt, row.number,
                                  row.previousHash)

\* The invoices in the order of their stamps: the i-th is the latest of those
\* with fewer than i before them.
Before(row) == {q \in invoices : q.createdAt < row.createdAt}
Among(i)    == {row \in invoices : Cardinality(Before(row)) < i}
Ordered     == [i \in 1 .. Cardinality(invoices) |-> CHOOSE row \in Latest(Among(i)) : TRUE]

Entry(row) == [series |-> row.series, number |-> row.number]
Book == INSTANCE InvoiceBook WITH book <- [i \in DOMAIN Ordered |-> Entry(Ordered[i])]

\* The transactions of all replicas together write one book: every commit
\* enters the next number of its series after all that was issued before
\* (issue), if the clocks agree.
BookKept == Book!Spec

\* No call of issue waits for ever, whoever dies holding the lock.
IssueEnds ==
    \A c \in Calls :
        flight[c].pc = "waiting" ~> flight[c].pc \in {"done", "failed"}
=============================================================================
