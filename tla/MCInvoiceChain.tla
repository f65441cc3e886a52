--------------------------- MODULE MCInvoiceChain ---------------------------
(***************************************************************************)
(* Instances of InvoiceChain for TLC.                                      *)
(***************************************************************************)
EXTENDS InvoiceChain

CONSTANTS c1, c2, c3, replicaA, replicaB

SameClock == [r \in Replicas |-> 0]
\* Replica A is two ticks ahead of replica B.
SkewedClocks == [r \in Replicas |-> IF r = replicaA THEN 2 ELSE 0]
=============================================================================
