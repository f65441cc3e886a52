---------------------------- MODULE InvoiceBook ----------------------------
(***************************************************************************)
(* What the issuing of invoices promises: one book, written by one hand.   *)
(* Every entry goes to the end, and its number is the next of its yearly   *)
(* series.  InvoiceChain implements it with concurrent transactions.       *)
(***************************************************************************)
EXTENDS Naturals, Sequences, FiniteSets

VARIABLE book  \* sequence of [series, number]

Numbered(s) == Cardinality({i \in DOMAIN book : book[i].series = s})

Init == book = <<>>

Enter(s) == book' = Append(book, [series |-> s, number |-> Numbered(s) + 1])

\* There is one entry more, of any series.
Next == Len(book') = Len(book) + 1 /\ Enter(book'[Len(book')].series)

Spec == Init /\ [][Next]_book
=============================================================================
