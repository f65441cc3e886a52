--------------------------- MODULE MCProcessEngine ---------------------------
(***************************************************************************)
(* Instances of ProcessEngine for TLC: three steps, four templates that    *)
(* between them use every kind of step, every mode of approval, every rule *)
(* for a rejection and every effect.                                       *)
(***************************************************************************)
EXTENDS ProcessEngine, TLC

CONSTANTS clerk1

Plain(kind) ==
    [kind      |-> kind,
     parallel  |-> {},
     after     |-> [s \in Steps |-> {}],
     entry     |-> [s \in Steps |-> {}],
     approvers |-> [s \in Steps |-> 1],
     mode      |-> [s \in Steps |-> "PARALLEL"],
     onReject  |-> [s \in Steps |-> "HOLD"],
     act       |-> [s \in Steps |-> "NONE"],
     success   |-> [s \in Steps |-> "NONE"],
     failure   |-> [s \in Steps |-> "NONE"]]

\* A task, a review by two in sequence that returns it, and another task.
Linear ==
    [Plain(<<"TASK", "REVIEW", "TASK">>) EXCEPT
        !.approvers = <<1, 2, 1>>,
        !.mode      = <<"PARALLEL", "SEQUENTIAL", "PARALLEL">>,
        !.onReject  = <<"HOLD", "RETURN", "HOLD">>]

\* A review by any of two; one branch if it is approved, which cancels if it
\* fails, and one if it is rejected.
Branching ==
    [Plain(<<"REVIEW", "AUTO", "TASK">>) EXCEPT
        !.after     = <<{}, {}, {1}>>,
        !.entry     = <<{}, {<<1, "APPROVED">>}, {<<1, "REJECTED">>}>>,
        !.approvers = <<2, 1, 1>>,
        !.mode      = <<"ANY", "PARALLEL", "PARALLEL">>,
        !.onReject  = <<"BRANCH", "HOLD", "HOLD">>,
        !.failure   = <<"NONE", "CANCEL", "NONE">>]

\* An automatic step that suspends, or cancels if it fails, beside a timer; then
\* an event after which the instance is suspended.
Waiting ==
    [Plain(<<"AUTO", "TIMER", "EVENT">>) EXCEPT
        !.parallel  = {2},
        !.after     = <<{}, {}, {1, 2}>>,
        !.act       = <<"SUSPEND", "NONE", "NONE">>,
        !.success   = <<"NONE", "NONE", "SUSPEND">>,
        !.failure   = <<"CANCEL", "NONE", "NONE">>]

\* A step that cancels if it fails, then a review by two at once that cancels.
Deciding ==
    [Plain(<<"AUTO", "REVIEW", "AUTO">>) EXCEPT
        !.approvers = <<1, 2, 1>>,
        !.onReject  = <<"HOLD", "CANCEL", "HOLD">>,
        !.failure   = <<"CANCEL", "NONE", "NONE">>]

AllFlows == {Linear, Branching, Waiting, Deciding}

\* No answer is brought, so that a step completed again keeps its result.
NoAnswers == {"KEEP"}

\* Where two approvers decide in any order no call dies.
CrashBound == [f \in AllFlows |-> IF f \in {Branching, Deciding} THEN 0 ELSE 1]
=============================================================================
