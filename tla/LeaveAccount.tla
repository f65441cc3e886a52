---------------------------- MODULE LeaveAccount ----------------------------
(***************************************************************************)
(* What the leave ledger promises: an account of days in which a request   *)
(* holds its days at most once, a hold is granted only while the days are  *)
(* available, and each hold is settled exactly one way - spent by the      *)
(* approval or released - and a spent one is refunded at most once.        *)
(*                                                                         *)
(* A request its type approves at submission takes its days without a      *)
(* hold, out of what others hold.  From then on a settled hold may find    *)
(* fewer days than it held: what it misses is taken from, or not given     *)
(* back to, the days available.                                            *)
(***************************************************************************)
EXTENDS Integers

CONSTANTS Requests, Days, AnnualLimit, AutoApproved

VARIABLES
    claim,      \* what each request has of the account
    available,  \* the days no request holds or has spent
    taken       \* the requests that took their days without a hold

vars == <<claim, available, taken>>

Init == /\ claim = [r \in Requests |-> "free"]
        /\ available = AnnualLimit
        /\ taken = {}

Move(r, from, to) == claim[r] = from /\ claim' = [claim EXCEPT ![r] = to]

\* The days available become n, less the days of r that its hold missed.
Settle(r, n) == /\ available' <= n /\ available' >= n - Days[r]
                /\ taken = {} => available' = n

Hold(r)    == Move(r, "free", "held") /\ Days[r] <= available
              /\ available' = available - Days[r] /\ UNCHANGED taken
Spend(r)   == Move(r, "held", "spent") /\ Settle(r, available) /\ UNCHANGED taken
Release(r) == Move(r, "held", "closed") /\ Settle(r, available + Days[r])
              /\ UNCHANGED taken
Refund(r)  == Move(r, "spent", "closed") /\ available' = available + Days[r]
              /\ UNCHANGED taken
\* A request that never held days, a draft, is closed.
Drop(r)    == Move(r, "free", "closed") /\ UNCHANGED <<available, taken>>
\* An automatic approval is charged.
Take(r)    == /\ r \in AutoApproved /\ Move(r, "free", "spent")
              /\ taken' = taken \cup {r}
              /\ available' <= available /\ available' >= available - Days[r]
\* The administration grants days.
Credit     == available' > available /\ UNCHANGED <<claim, taken>>

Next == \/ Credit
        \/ \E r \in Requests : \/ Hold(r) \/ Spend(r) \/ Release(r) \/ Refund(r)
                              \/ Drop(r) \/ Take(r)

Spec == Init /\ [][Next]_vars
=============================================================================
