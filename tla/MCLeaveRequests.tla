-------------------------- MODULE MCLeaveRequests --------------------------
(***************************************************************************)
(* Instances of LeaveRequests for TLC: up to three requests of one row.    *)
(***************************************************************************)
EXTENDS LeaveRequests, TLC

CONSTANTS r1, r2, r3, h1, h2, emp, mgr, hr1, hr2

\* Three requests of 2, 1 and 2 days against a limit of 3; the periods of the
\* last two intersect.
MCDays     == [r \in Requests |-> IF r = r2 THEN 1 ELSE 2]
MCOverlaps == {<<r2, r3>>, <<r3, r2>>}
\* The manager is away and has named a substitute, where the instance has one.
MCSubstitute ==
    [a \in Approvers |-> IF a = mgr /\ hr2 \in Approvers THEN hr2 ELSE NoOne]

\* Every call on r1; r2 competes with it for the days, and r3 is approved at
\* submission.
MCLedgerOps ==
    ({"create"} \X Requests) \cup ({"APPROVE"} \X {r1, r2})
    \cup ({"draft", "REJECT", "cancel", "ESCALATE", "DELEGATE", "reassign", "remind"}
              \X {r1})
\* The calls that change the row, and the administration of it.
MCRowOps ==
    ({"create", "draft", "APPROVE", "REJECT", "ESCALATE", "cancel"} \X Requests)
    \cup ({"carry", "accrue", "update"} \X {NoRequest})
MCApproveOps == {"create", "APPROVE"} \X Requests

Symmetry == Permutations(Handlers)
=============================================================================
