---------------------------- MODULE MCPayrollRun ----------------------------
(***************************************************************************)
(* Instances of PayrollRun for TLC: two employees, one of them without a   *)
(* bank account, one call on the run and one on its payments in flight.    *)
(***************************************************************************)
EXTENDS PayrollRun

CONSTANTS e1, e2, clerk1, payer1
=============================================================================
