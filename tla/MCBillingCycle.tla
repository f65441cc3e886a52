--------------------------- MODULE MCBillingCycle ---------------------------
(***************************************************************************)
(* Instances of BillingCycle for TLC.  The lead and the time to pay are    *)
(* one tick; each cfg says how long a period, a trial and the grace are,   *)
(* shortened so that the days of the run hold their ends.                  *)
(***************************************************************************)
EXTENDS BillingCycle

CONSTANT a1

=============================================================================
