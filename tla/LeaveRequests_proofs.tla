----------------------- MODULE LeaveRequests_proofs -----------------------
(***************************************************************************)
(* What the row locks guarantee however handlers interleave and die, for   *)
(* any number of requests, handlers, approvers and days.                   *)
(***************************************************************************)
EXTENDS LeaveRequests, FiniteSetTheorems, TLAPS

\* What a handler's program counter says of its other variables.
InFlight ==
    \A h \in Handlers :
        /\ proc[h].pc \notin {"idle", "marker", "carry"} => proc[h].req \in Requests
        /\ proc[h].pc = "decide" => proc[h].act # "DELEGATE"

IInv == TypeOK /\ InFlight /\ ReservedNonNegative

-----------------------------------------------------------------------------
(* Sums over finite sets.                                                  *)

\* Induction over the subsets of a finite set.
LEMMA SubsetInduction ==
    ASSUME NEW S, IsFiniteSet(S), NEW P, {} \in P,
           \A T \in SUBSET S : T # {} /\ (\A x \in T : T \ {x} \in P) => T \in P
    PROVE  \A T \in SUBSET S : T \in P
<1> DEFINE R   == StrictSubsetOrdering(S)
           Bad == (SUBSET S) \ P
<1>1. IsWellFoundedOn(R, SUBSET S)
  BY FS_StrictSubsetOrderingWellFounded, FS_FiniteSubsetsOfFinite
<1>2. \A T, U \in SUBSET S : T \subseteq U /\ T # U => <<T, U>> \in R
  BY DEF StrictSubsetOrdering
<1> HIDE DEF R
<1> SUFFICES ASSUME Bad # {} PROVE FALSE
  OBVIOUS
<1>3. PICK T \in Bad : \A U \in Bad : ~(<<U, T>> \in R)
  BY <1>1, WFMin
<1>4. T # {} /\ T \in SUBSET S
  OBVIOUS
<1>5. ASSUME NEW x \in T PROVE T \ {x} \in P
  <2>1. T \ {x} \in SUBSET S /\ T \ {x} \subseteq T /\ T \ {x} # T
    BY <1>4
  <2> QED
    BY <1>2, <1>3, <1>4, <2>1
<1> QED
  BY <1>4, <1>5

\* The sums of the subsets of S, one element after another.
First(T) == CHOOSE x \in T : TRUE
IsSum(g, f, S) ==
    g = [T \in SUBSET S |-> IF T = {} THEN 0 ELSE f[First(T)] + g[T \ {First(T)}]]

LEMMA FirstIn == ASSUME NEW T, T # {} PROVE First(T) \in T
  BY DEF First

LEMMA TotalIsSum ==
    ASSUME NEW f, NEW S PROVE Total(f, S) = (CHOOSE g : IsSum(g, f, S))[S]
  BY DEF Total, MapThenSumSet, MapThenFoldSet, IsSum, First

\* Induction over the natural numbers.
LEMMA NumberInduction ==
    ASSUME NEW P, 0 \in P, \A n \in Nat : n \in P => n + 1 \in P
    PROVE  \A n \in Nat : n \in P
<1> DEFINE R   == OpToRel(<, Nat)
           Bad == Nat \ P
<1>1. IsWellFoundedOn(R, Nat)
  BY NatLessThanWellFounded
<1>2. \A m, n \in Nat : m < n => <<m, n>> \in R
  BY DEF OpToRel
<1> HIDE DEF R
<1> SUFFICES ASSUME Bad # {} PROVE FALSE
  OBVIOUS
<1>3. PICK n \in Bad : \A m \in Bad : ~(<<m, n>> \in R)
  BY <1>1, WFMin
<1>4. n # 0 /\ n \in Nat
  OBVIOUS
<1>5. n - 1 \in Nat /\ n - 1 < n /\ n = (n - 1) + 1
  BY <1>4
<1>6. n - 1 \notin Bad
  BY <1>2, <1>3, <1>4, <1>5
<1> QED
  BY <1>4, <1>5, <1>6

SumAt(g, f, T) == g[T] = IF T = {} THEN 0 ELSE f[First(T)] + g[T \ {First(T)}]

LEMMA SumExists ==
    ASSUME NEW f, NEW S, IsFiniteSet(S) PROVE \E g : IsSum(g, f, S)
<1> DEFINE Upto(g, n) == /\ g = [T \in SUBSET S |-> g[T]]
                         /\ \A T \in SUBSET S : Cardinality(T) <= n => SumAt(g, f, T)
           P == {n \in Nat : \E g : Upto(g, n)}
<1>1. \A T \in SUBSET S : IsFiniteSet(T) /\ Cardinality(T) \in Nat
  BY FS_Subset, FS_CardinalityType
<1>2. 0 \in P
  <2> DEFINE g == [T \in SUBSET S |-> 0]
  <2>1. \A T \in SUBSET S : Cardinality(T) <= 0 => T = {}
    BY <1>1, FS_EmptySet
  <2>2. Upto(g, 0)
    BY <2>1 DEF SumAt
  <2> QED
    BY <2>2
<1>3. ASSUME NEW n \in Nat, n \in P PROVE n + 1 \in P
  <2>1. PICK g : Upto(g, n)
    BY <1>3
  <2> DEFINE h == [T \in SUBSET S |-> IF T = {} THEN 0 ELSE f[First(T)] + g[T \ {First(T)}]]
  <2>2. \A T \in SUBSET S : Cardinality(T) <= n => h[T] = g[T]
    BY <2>1 DEF SumAt
  <2>3. ASSUME NEW T \in SUBSET S, Cardinality(T) <= n + 1 PROVE SumAt(h, f, T)
    <3>1. CASE T = {}
      BY <3>1 DEF SumAt
    <3>2. CASE T # {}
      <4>1. First(T) \in T /\ T \ {First(T)} \in SUBSET S
        BY <3>2, FirstIn
      <4>2. Cardinality(T \ {First(T)}) = Cardinality(T) - 1
        BY <1>1, <4>1, FS_RemoveElement
      <4>3. Cardinality(T \ {First(T)}) <= n
        BY <1>1, <1>3, <2>3, <4>2
      <4>4. h[T \ {First(T)}] = g[T \ {First(T)}]
        BY <2>2, <4>1, <4>3
      <4>5. h[T] = f[First(T)] + g[T \ {First(T)}]
        BY <3>2
      <4> HIDE DEF h
      <4> QED
        BY <3>2, <4>4, <4>5 DEF SumAt
    <3> QED
      BY <3>1, <3>2
  <2>4. h = [T \in SUBSET S |-> h[T]]
    OBVIOUS
  <2> HIDE DEF h
  <2>5. Upto(h, n + 1)
    BY <2>3, <2>4
  <2> HIDE DEF Upto
  <2>6. n + 1 \in Nat /\ \E x : Upto(x, n + 1)
    BY <1>3, <2>5
  <2> QED
    BY <2>6
<1>4. Cardinality(S) \in P
  <2> HIDE DEF P
  <2> QED
    BY <1>1, <1>2, <1>3, NumberInduction
<1>5. PICK g : Upto(g, Cardinality(S))
  BY <1>4
<1>6. \A T \in SUBSET S : SumAt(g, f, T)
  BY <1>1, <1>5, FS_Subset
<1>7. IsSum(g, f, S)
  BY <1>5, <1>6 DEF IsSum, SumAt
<1> QED
  BY <1>7

LEMMA TotalSums ==
    ASSUME NEW f, NEW S, IsFiniteSet(S)
    PROVE  \E g : IsSum(g, f, S) /\ Total(f, S) = g[S]
<1> DEFINE g == CHOOSE x : IsSum(x, f, S)
<1>1. IsSum(g, f, S)
  BY SumExists
<1> QED
  BY <1>1, TotalIsSum

LEMMA SumSteps ==
    ASSUME NEW g, NEW f, NEW S, IsSum(g, f, S), NEW T \in SUBSET S, T # {}
    PROVE  First(T) \in T /\ g[T] = f[First(T)] + g[T \ {First(T)}]
  BY FirstIn DEF IsSum

LEMMA SumEmpty == ASSUME NEW g, NEW f, NEW S, IsSum(g, f, S) PROVE g[{}] = 0
  BY DEF IsSum

LEMMA SumType ==
    ASSUME NEW S, IsFiniteSet(S), NEW f \in [S -> Int], NEW g, IsSum(g, f, S)
    PROVE  \A T \in SUBSET S : g[T] \in Int
<1> DEFINE P == {T \in SUBSET S : g[T] \in Int}
<1>1. {} \in P
  BY SumEmpty
<1>2. ASSUME NEW T \in SUBSET S, T # {}, \A x \in T : T \ {x} \in P PROVE T \in P
  <2>1. First(T) \in T /\ g[T] = f[First(T)] + g[T \ {First(T)}]
    BY <1>2, SumSteps
  <2>2. f[First(T)] \in Int /\ g[T \ {First(T)}] \in Int
    BY <1>2, <2>1
  <2> QED
    BY <2>1, <2>2
<1> HIDE DEF P
<1>3. \A T \in SUBSET S : T \in P
  BY <1>1, <1>2, SubsetInduction
<1> QED
  BY <1>3 DEF P

\* The order in which the elements are taken does not matter.
LEMMA SumRemove ==
    ASSUME NEW S, IsFiniteSet(S), NEW f \in [S -> Int], NEW g, IsSum(g, f, S)
    PROVE  \A T \in SUBSET S : \A x \in T : g[T] = f[x] + g[T \ {x}]
<1> DEFINE P == {T \in SUBSET S : \A x \in T : g[T] = f[x] + g[T \ {x}]}
<1>1. {} \in P
  OBVIOUS
<1>2. ASSUME NEW T \in SUBSET S, T # {}, \A x \in T : T \ {x} \in P PROVE T \in P
  <2> SUFFICES ASSUME NEW x \in T PROVE g[T] = f[x] + g[T \ {x}]
    OBVIOUS
  <2> DEFINE y == First(T)
             U == (T \ {y}) \ {x}
  <2>1. y \in T /\ g[T] = f[y] + g[T \ {y}]
    BY <1>2, SumSteps
  <2> HIDE DEF y
  <2>2. CASE x = y
    BY <2>1, <2>2
  <2>3. CASE x # y
    <3>1. T \ {y} \in P /\ T \ {x} \in P /\ x \in T \ {y} /\ y \in T \ {x}
      BY <1>2, <2>1, <2>3
    <3>2. g[T \ {y}] = f[x] + g[U] /\ g[T \ {x}] = f[y] + g[(T \ {x}) \ {y}]
      BY <3>1
    <3>3. (T \ {x}) \ {y} = U
      OBVIOUS
    <3>4. U \in SUBSET S /\ x \in S /\ y \in S
      BY <2>1
    <3>5. g[U] \in Int /\ f[x] \in Int /\ f[y] \in Int
      BY <3>4, SumType
    <3> HIDE DEF U, P
    <3>6. g[T \ {x}] = f[y] + g[U]
      BY <3>2, <3>3
    <3> QED
      BY <2>1, <3>2, <3>5, <3>6
  <2> QED
    BY <2>2, <2>3
<1> HIDE DEF P
<1>3. \A T \in SUBSET S : T \in P
  BY <1>1, <1>2, SubsetInduction
<1> QED
  BY <1>3 DEF P

LEMMA SumSame ==
    ASSUME NEW S, IsFiniteSet(S), NEW U \in SUBSET S, NEW f, NEW g, NEW e, NEW h,
           IsSum(g, f, S), IsSum(h, e, U), \A x \in U : e[x] = f[x]
    PROVE  \A T \in SUBSET U : g[T] = h[T]
<1> DEFINE P == {T \in SUBSET U : g[T] = h[T]}
<1>0. IsFiniteSet(U)
  BY FS_Subset
<1>1. {} \in P
  BY SumEmpty
<1>2. ASSUME NEW T \in SUBSET U, T # {}, \A x \in T : T \ {x} \in P PROVE T \in P
  <2>0. T # {} /\ T \in SUBSET S
    BY <1>2
  <2>1. First(T) \in T /\ h[T] = e[First(T)] + h[T \ {First(T)}]
    BY <2>0, FirstIn DEF IsSum
  <2>2. g[T] = f[First(T)] + g[T \ {First(T)}]
    BY <2>0 DEF IsSum
  <2>3. g[T \ {First(T)}] = h[T \ {First(T)}] /\ e[First(T)] = f[First(T)]
    BY <1>2, <2>1
  <2> QED
    BY <2>1, <2>2, <2>3
<1> HIDE DEF P
<1>3. \A T \in SUBSET U : T \in P
  BY <1>0, <1>1, <1>2, SubsetInduction
<1> QED
  BY <1>3 DEF P

\* What a total is, without the order in which it was summed.
LEMMA TotalEmpty == ASSUME NEW f PROVE Total(f, {}) = 0
<1>1. IsFiniteSet({})
  BY FS_EmptySet
<1> QED
  BY <1>1, TotalSums, SumEmpty

LEMMA TotalType ==
    ASSUME NEW S, IsFiniteSet(S), NEW f \in [S -> Int] PROVE Total(f, S) \in Int
<1>1. PICK g : IsSum(g, f, S) /\ Total(f, S) = g[S]
  BY TotalSums
<1> QED
  BY <1>1, SumType

LEMMA TotalSame ==
    ASSUME NEW S, IsFiniteSet(S), NEW e, NEW f, \A x \in S : e[x] = f[x]
    PROVE  Total(e, S) = Total(f, S)
<1>1. PICK g : IsSum(g, e, S) /\ Total(e, S) = g[S]
  BY TotalSums
<1>2. PICK h : IsSum(h, f, S) /\ Total(f, S) = h[S]
  BY TotalSums
<1> QED
  BY <1>1, <1>2, SumSame

LEMMA TotalRemove ==
    ASSUME NEW S, IsFiniteSet(S), NEW f, \A x \in S : f[x] \in Int, NEW x \in S
    PROVE  Total(f, S) = f[x] + Total(f, S \ {x})
<1> DEFINE e == [y \in S |-> f[y]]
<1>1. PICK g : IsSum(g, e, S) /\ Total(e, S) = g[S]
  BY TotalSums
<1>2. IsFiniteSet(S \ {x}) /\ S \ {x} \in SUBSET S
  BY FS_RemoveElement
<1>3. PICK h : IsSum(h, e, S \ {x}) /\ Total(e, S \ {x}) = h[S \ {x}]
  BY <1>2, TotalSums
<1>4. e \in [S -> Int] /\ \A y \in S : e[y] = f[y]
  OBVIOUS
<1> HIDE DEF e
<1>5. g[S] = e[x] + g[S \ {x}]
  BY <1>1, <1>4, SumRemove
<1>6. g[S \ {x}] = h[S \ {x}]
  BY <1>1, <1>2, <1>3, SumSame
<1>7. Total(e, S) = Total(f, S) /\ Total(e, S \ {x}) = Total(f, S \ {x})
  BY <1>2, <1>4, TotalSame
<1> QED
  BY <1>1, <1>3, <1>4, <1>5, <1>6, <1>7

\* A sum changes by as much as the one term that changes.
LEMMA TotalChange ==
    ASSUME NEW S, IsFiniteSet(S), NEW e, NEW f, NEW x \in S,
           \A y \in S : e[y] \in Int /\ f[y] \in Int, \A y \in S \ {x} : e[y] = f[y]
    PROVE  Total(f, S) = Total(e, S) + (f[x] - e[x])
<1>1. IsFiniteSet(S \ {x})
  BY FS_RemoveElement
<1>2. Total(e, S) = e[x] + Total(e, S \ {x}) /\ Total(f, S) = f[x] + Total(f, S \ {x})
  BY TotalRemove
<1>3. Total(e, S \ {x}) = Total(f, S \ {x})
  BY <1>1, TotalSame
<1>4. Total(e, S \ {x}) \in Int
  <2> DEFINE d == [y \in S \ {x} |-> e[y]]
  <2>1. Total(d, S \ {x}) \in Int
    BY <1>1, TotalType
  <2> QED
    BY <1>1, <2>1, TotalSame
<1> QED
  BY <1>2, <1>3, <1>4

\* A sum of natural numbers is at least each of them.
LEMMA TotalNat ==
    ASSUME NEW S, IsFiniteSet(S), NEW f, \A x \in S : f[x] \in Nat
    PROVE  Total(f, S) \in Nat
<1> DEFINE P == {T \in SUBSET S : Total(f, T) \in Nat}
<1>1. {} \in P
  BY TotalEmpty
<1>2. ASSUME NEW T \in SUBSET S, T # {}, \A x \in T : T \ {x} \in P PROVE T \in P
  <2>1. PICK x \in T : T \ {x} \in P
    BY <1>2
  <2>2. IsFiniteSet(T) /\ \A y \in T : f[y] \in Int
    BY FS_Subset
  <2>3. Total(f, T) = f[x] + Total(f, T \ {x})
    BY <2>2, TotalRemove
  <2>4. f[x] \in Nat /\ Total(f, T \ {x}) \in Nat
    BY <2>1
  <2> QED
    BY <2>3, <2>4
<1> HIDE DEF P
<1>3. \A T \in SUBSET S : T \in P
  BY <1>1, <1>2, SubsetInduction
<1>4. S \in P
  BY <1>3
<1> QED
  BY <1>4 DEF P

LEMMA TotalZero ==
    ASSUME NEW S, IsFiniteSet(S), NEW f, \A x \in S : f[x] = 0
    PROVE  Total(f, S) = 0
<1> DEFINE P == {T \in SUBSET S : Total(f, T) = 0}
<1>1. {} \in P
  BY TotalEmpty
<1>2. ASSUME NEW T \in SUBSET S, T # {}, \A x \in T : T \ {x} \in P PROVE T \in P
  <2>1. PICK x \in T : T \ {x} \in P
    BY <1>2
  <2>2. IsFiniteSet(T) /\ \A y \in T : f[y] \in Int
    BY FS_Subset
  <2>3. Total(f, T) = f[x] + Total(f, T \ {x})
    BY <2>2, TotalRemove
  <2>4. f[x] = 0 /\ Total(f, T \ {x}) = 0
    BY <2>1
  <2> QED
    BY <2>3, <2>4
<1> HIDE DEF P
<1>3. \A T \in SUBSET S : T \in P
  BY <1>1, <1>2, SubsetInduction
<1>4. S \in P
  BY <1>3
<1> QED
  BY <1>4 DEF P

-----------------------------------------------------------------------------
(* A handler's record.                                                     *)

\* A handler's record may be replaced by any that its program counter fits.
LEMMA MoveInFlight ==
    ASSUME TypeOK, InFlight, NEW h \in Handlers, NEW rec \in Flight,
           rec.pc \notin {"idle", "marker", "carry"} => rec.req \in Requests,
           rec.pc = "decide" => rec.act # "DELEGATE",
           proc' = [proc EXCEPT ![h] = rec]
    PROVE  proc' \in [Handlers -> Flight] /\ InFlight'
BY DEF TypeOK, InFlight

\* A handler that goes on to another statement about its request.
LEMMA GotoInFlight ==
    ASSUME TypeOK, InFlight, NEW h \in Handlers, NEW pc \in PCs, Goto(h, pc),
           proc[h].req \in Requests, pc = "decide" => proc[h].act # "DELEGATE"
    PROVE  proc' \in [Handlers -> Flight] /\ InFlight'
<1> DEFINE rec == [proc[h] EXCEPT !.pc = pc]
<1>1. rec \in Flight /\ rec.pc = pc /\ rec.req = proc[h].req /\ rec.act = proc[h].act
  BY DEF TypeOK, Flight
<1>2. proc' = [proc EXCEPT ![h] = rec]
  BY DEF Goto
<1> HIDE DEF rec
<1> QED BY <1>1, <1>2, MoveInFlight

\* A handler that returns is idle.
LEMMA ReturnInFlight ==
    ASSUME TypeOK, InFlight, NEW h \in Handlers, Return(h)
    PROVE  proc' \in [Handlers -> Flight] /\ InFlight'
<1>1. Idle \in Flight
  BY DEF Idle, Flight, PCs, Actions, Levels, Statuses
<1>2. Idle.pc = "idle"
  BY DEF Idle
<1> QED BY <1>1, <1>2, MoveInFlight DEF Return

\* A handler that goes on, at another level of its request.
LEMMA LevelInFlight ==
    ASSUME TypeOK, InFlight, NEW h \in Handlers, NEW pc \in PCs, NEW l \in Levels,
           proc' = [proc EXCEPT ![h].level = l, ![h].pc = pc],
           proc[h].req \in Requests, pc = "decide" => proc[h].act # "DELEGATE"
    PROVE  proc' \in [Handlers -> Flight] /\ InFlight'
<1> DEFINE rec == [proc[h] EXCEPT !.level = l, !.pc = pc]
<1>1. rec \in Flight /\ rec.pc = pc /\ rec.req = proc[h].req /\ rec.act = proc[h].act
  BY DEF TypeOK, Flight
<1>2. proc' = [proc EXCEPT ![h] = rec]
  BY DEF TypeOK, Flight
<1> HIDE DEF rec
<1> QED BY <1>1, <1>2, MoveInFlight

-----------------------------------------------------------------------------
(* One lemma per kind of statement: the invariant is kept.                 *)

\* Statements that only read, and move on or return.
LEMMA ReadsKeep ==
    ASSUME IInv, NEW h \in Handlers,
           CreateCheckConflict(h) \/ ProcessFindStep(h) \/ CountRemaining(h)
             \/ CarryMarker(h)
    PROVE  IInv'
<1> USE DEF IInv
<1>1. CASE CreateCheckConflict(h)
  <2>1. proc[h].req \in Requests
    BY <1>1 DEF CreateCheckConflict, At, InFlight
  <2>2. proc' \in [Handlers -> Flight] /\ InFlight'
    BY <1>1, <2>1, GotoInFlight, ReturnInFlight DEF CreateCheckConflict, PCs
  <2> QED BY <1>1, <2>2 DEF CreateCheckConflict, TypeOK, ReservedNonNegative
<1>2. CASE ProcessFindStep(h)
  <2>1. proc[h].req \in Requests
    BY <1>2 DEF ProcessFindStep, At, InFlight
  <2>2. CASE Return(h)
    BY <1>2, <2>2, ReturnInFlight DEF ProcessFindStep, TypeOK, ReservedNonNegative
  <2>3. CASE ~Return(h)
    <3> DEFINE next == IF proc[h].act = "DELEGATE" THEN "delegate" ELSE "decide"
    <3>1. PICK l \in Levels : proc' = [proc EXCEPT ![h].level = l, ![h].pc = next]
      BY <1>2, <2>3 DEF ProcessFindStep
    <3>2. next \in PCs /\ (next = "decide" => proc[h].act # "DELEGATE")
      BY DEF PCs
    <3>3. proc' \in [Handlers -> Flight] /\ InFlight'
      BY <2>1, <3>1, <3>2, LevelInFlight
    <3> QED BY <1>2, <3>3 DEF ProcessFindStep, TypeOK, ReservedNonNegative
  <2> QED BY <2>2, <2>3
<1>3. CASE CountRemaining(h)
  <2>1. proc[h].req \in Requests
    BY <1>3 DEF CountRemaining, At, InFlight
  <2>2. proc' \in [Handlers -> Flight] /\ InFlight'
    BY <1>3, <2>1, GotoInFlight, ReturnInFlight DEF CountRemaining, PCs
  <2> QED BY <1>3, <2>2 DEF CountRemaining, TypeOK, ReservedNonNegative
<1>4. CASE CarryMarker(h)
  <2>1. CASE Return(h)
    BY <1>4, <2>1, ReturnInFlight DEF CarryMarker, TypeOK, ReservedNonNegative
  <2>2. CASE Goto(h, "carry")
    <3> DEFINE rec == [proc[h] EXCEPT !.pc = "carry"]
    <3>1. rec \in Flight /\ rec.pc = "carry"
      BY DEF TypeOK, Flight, PCs
    <3>2. proc' = [proc EXCEPT ![h] = rec]
      BY <2>2 DEF Goto
    <3>3. proc' \in [Handlers -> Flight] /\ InFlight'
      BY <3>1, <3>2, MoveInFlight
    <3> QED BY <1>4, <3>3 DEF CarryMarker, TypeOK, ReservedNonNegative
  <2> QED BY <1>4, <2>1, <2>2 DEF CarryMarker
<1> QED BY <1>1, <1>2, <1>3, <1>4

\* Statements that write the status of the request.
LEMMA StatusWritesKeep ==
    ASSUME IInv, NEW h \in Handlers,
           RejectStatus(h) \/ EscalateStatus(h) \/ Finalize(h) \/ CancelStatus(h)
    PROVE  IInv'
<1> USE DEF IInv
<1>1. proc[h].req \in Requests
  BY DEF RejectStatus, EscalateStatus, Finalize, CancelStatus, At, InFlight
<1>2. proc' \in [Handlers -> Flight] /\ InFlight'
  <2>1. CASE RejectStatus(h)
    BY <2>1, <1>1, GotoInFlight DEF RejectStatus, PCs
  <2>2. CASE EscalateStatus(h)
    BY <2>2, ReturnInFlight DEF EscalateStatus
  <2>3. CASE Finalize(h)
    BY <2>3, <1>1, GotoInFlight DEF Finalize, PCs
  <2>4. CASE CancelStatus(h)
    BY <2>4, <1>1, GotoInFlight DEF CancelStatus, PCs
  <2> QED BY <2>1, <2>2, <2>3, <2>4
<1>3. status' \in [Requests -> Statuses]
  BY DEF RejectStatus, EscalateStatus, Finalize, CancelStatus, TypeOK, Statuses
<1> QED BY <1>2, <1>3 DEF RejectStatus, EscalateStatus, Finalize, CancelStatus,
                          TypeOK, ReservedNonNegative

\* The row that a substitution names is an approver's.
LEMMA StepForType == ASSUME NEW a \in Approvers PROVE StepFor(a) \in Approval
BY PeopleAssumption DEF StepFor, Approval, Users, Decisions

\* Statements that write one approval step or close them all.
LEMMA ApprovalWritesKeep ==
    ASSUME IInv, NEW h \in Handlers,
           FlowManager(h) \/ FlowHR(h) \/ Delegate(h) \/ Decide(h)
             \/ CloseSteps(h) \/ Reassign(h) \/ EscalateToHR(h)
    PROVE  IInv'
<1> USE DEF IInv
<1> DEFINE r == proc[h].req
<1>1. r \in Requests /\ proc[h].level \in Levels /\ proc[h].act \in Actions
  BY DEF FlowManager, FlowHR, Delegate, Decide, CloseSteps, Reassign, EscalateToHR,
         At, InFlight, TypeOK, Flight
<1>2. \A l \in Levels : approvals[r][l] \in Approval
  BY <1>1 DEF TypeOK
<1>3. \A l \in Levels, step \in Approval :
        [approvals EXCEPT ![r][l] = step] \in [Requests -> [Levels -> Approval]]
  BY <1>1 DEF TypeOK
<1>4. CASE FlowManager(h)
  <2>1. ManagerStep => StepFor(Manager) \in Approval
    BY StepForType, PeopleAssumption DEF ManagerStep
  <2>2. approvals' \in [Requests -> [Levels -> Approval]]
    BY <1>3, <1>4, <2>1 DEF FlowManager, Levels, TypeOK
  <2> DEFINE rec == [proc[h] EXCEPT !.level = 2]
  <2>3. rec \in Flight /\ rec.pc = "flow" /\ rec.req = r
    BY <1>4 DEF FlowManager, At, TypeOK, Flight, Levels
  <2>4. proc' = [proc EXCEPT ![h] = rec]
    BY <1>4 DEF FlowManager
  <2> HIDE DEF rec
  <2>5. proc' \in [Handlers -> Flight] /\ InFlight'
    BY <1>1, <2>3, <2>4, MoveInFlight
  <2> QED BY <1>4, <2>2, <2>5 DEF FlowManager, TypeOK, ReservedNonNegative
<1>5. CASE FlowHR(h)
  <2>1. approvals' \in [Requests -> [Levels -> Approval]]
    <3>1. CASE UNCHANGED approvals
      BY <3>1 DEF TypeOK
    <3>2. CASE \E hr \in HRs \ {Owner} : approvals' = [approvals EXCEPT ![r][2] = StepFor(hr)]
      BY <1>3, <3>2, StepForType, PeopleAssumption DEF Levels
    <3> QED BY <1>5, <3>1, <3>2 DEF FlowHR
  <2>2. proc' \in [Handlers -> Flight] /\ InFlight'
    BY <1>1, <1>5, GotoInFlight, ReturnInFlight DEF FlowHR, PCs
  <2> QED BY <1>5, <2>1, <2>2 DEF FlowHR, TypeOK, ReservedNonNegative
<1>6. CASE Delegate(h)
  <2>1. PICK to \in Users :
          approvals' = [approvals EXCEPT ![r][proc[h].level] =
                            [@ EXCEPT !.approver = to, !.decision = "OPEN"]]
    BY <1>6 DEF Delegate
  <2> DEFINE step == [approvals[r][proc[h].level] EXCEPT !.approver = to, !.decision = "OPEN"]
  <2>2. step \in Approval
    BY <1>1, <1>2 DEF Approval, Decisions
  <2>3. approvals' = [approvals EXCEPT ![r][proc[h].level] = step]
    BY <1>1, <2>1 DEF TypeOK
  <2> HIDE DEF step
  <2>4. proc' \in [Handlers -> Flight] /\ InFlight'
    BY <1>6, ReturnInFlight DEF Delegate
  <2> QED BY <1>1, <1>3, <1>6, <2>2, <2>3, <2>4 DEF Delegate, TypeOK, ReservedNonNegative
<1>7. CASE Decide(h)
  <2> DEFINE step == [approvals[r][proc[h].level] EXCEPT !.decision = proc[h].act]
  <2>1. proc[h].act \in Decisions
    BY <1>1, <1>7 DEF Decide, At, InFlight, Actions, Decisions
  <2>2. step \in Approval
    BY <1>1, <1>2, <2>1 DEF Approval
  <2>3. approvals' = [approvals EXCEPT ![r][proc[h].level] = step]
    BY <1>1, <1>7 DEF Decide, TypeOK
  <2> HIDE DEF step
  <2>4. proc' \in [Handlers -> Flight] /\ InFlight'
    BY <1>1, <1>7, GotoInFlight DEF Decide, PCs
  <2>5. approvals' \in [Requests -> [Levels -> Approval]]
    BY <1>1, <1>3, <2>2, <2>3
  <2>6. UNCHANGED <<status, row, usage, reversal, carries, onLeave, paused>>
    BY <1>7 DEF Decide
  <2> QED BY <2>4, <2>5, <2>6 DEF TypeOK, ReservedNonNegative
<1>8. CASE CloseSteps(h)
  <2>1. ClosedSteps(r) \in [Levels -> Approval]
    <3>1. ASSUME NEW l \in Levels
          PROVE  [approvals[r][l] EXCEPT !.decision = "CANCELLED"] \in Approval
      BY <1>2 DEF Approval, Decisions
    <3> QED BY <1>2, <3>1 DEF ClosedSteps
  <2>2. approvals' \in [Requests -> [Levels -> Approval]]
    BY <1>1, <1>8, <2>1 DEF CloseSteps, TypeOK
  <2>3. proc' \in [Handlers -> Flight] /\ InFlight'
    BY <1>8, ReturnInFlight DEF CloseSteps
  <2> QED BY <1>8, <2>2, <2>3 DEF CloseSteps, TypeOK, ReservedNonNegative
<1>9. CASE Reassign(h)
  <2>1. PICK to \in Approvers :
          approvals' = [approvals EXCEPT ![r][proc[h].level].approver = to]
    BY <1>9 DEF Reassign
  <2> DEFINE step == [approvals[r][proc[h].level] EXCEPT !.approver = to]
  <2>2. step \in Approval
    BY <1>1, <1>2 DEF Approval, Users
  <2>3. approvals' = [approvals EXCEPT ![r][proc[h].level] = step]
    BY <1>1, <2>1 DEF TypeOK
  <2> HIDE DEF step
  <2>4. proc' \in [Handlers -> Flight] /\ InFlight'
    BY <1>9, ReturnInFlight DEF Reassign
  <2> QED BY <1>1, <1>3, <1>9, <2>2, <2>3, <2>4 DEF Reassign, TypeOK, ReservedNonNegative
<1>10. CASE EscalateToHR(h)
  <2>1. PICK hr \in HRs :
          approvals' = [approvals EXCEPT ![r][proc[h].level] =
                            [@ EXCEPT !.approver = hr, !.escalated = TRUE]]
    BY <1>10 DEF EscalateToHR
  <2> DEFINE step == [approvals[r][proc[h].level] EXCEPT !.approver = hr, !.escalated = TRUE]
  <2>2. step \in Approval
    BY <1>1, <1>2, PeopleAssumption DEF Approval, Users
  <2>3. approvals' = [approvals EXCEPT ![r][proc[h].level] = step]
    BY <1>1, <2>1 DEF TypeOK
  <2> HIDE DEF step
  <2>4. proc' \in [Handlers -> Flight] /\ InFlight'
    BY <1>10, ReturnInFlight DEF EscalateToHR
  <2> QED BY <1>1, <1>3, <1>10, <2>2, <2>3, <2>4 DEF EscalateToHR, TypeOK, ReservedNonNegative
<1> QED BY <1>4, <1>5, <1>6, <1>7, <1>8, <1>9, <1>10

\* What a request costs is a natural number.
LEMMA CostNat == ASSUME NEW r \in Requests PROVE Days[r] \in Nat
BY DaysAssumption

\* Statements that write the balance row for a request: they never take more
\* days out of "reserved" than it has.
LEMMA RowWritesKeep ==
    ASSUME IInv, NEW h \in Handlers,
           CreateInsert(h) \/ DeductBalance(h) \/ ReleaseReservation(h) \/ ReturnBalance(h)
    PROVE  IInv'
<1> USE DEF IInv
<1> DEFINE r == proc[h].req
           d == Days[r]
<1>1. r \in Requests
  BY DEF CreateInsert, DeductBalance, ReleaseReservation, ReturnBalance, At, InFlight
<1>2. d \in Nat
  BY <1>1, CostNat
<1>3. /\ row.balance \in Int /\ row.used \in Int /\ row.reserved \in Int
      /\ row.reserved >= 0
  BY DEF TypeOK, Balance, ReservedNonNegative
<1>4. /\ Smaller(row.reserved, d) \in Int
      /\ row.reserved - Smaller(row.reserved, d) >= 0
  BY <1>2, <1>3 DEF Smaller
<1>5. CASE CreateInsert(h)
  <2>1. row' \in Balance /\ row'.reserved >= 0
    <3>1. CASE row' = row
      BY <1>3, <3>1 DEF TypeOK
    <3>2. CASE row' = [row EXCEPT !.reserved = @ + d]
      BY <1>2, <1>3, <3>2 DEF TypeOK, Balance
    <3> QED BY <1>5, <3>1, <3>2 DEF CreateInsert
  <2>2. proc' \in [Handlers -> Flight] /\ InFlight'
    BY <1>1, <1>5, GotoInFlight, ReturnInFlight DEF CreateInsert, PCs
  <2>3. status' \in [Requests -> Statuses]
    BY <1>1, <1>5 DEF CreateInsert, TypeOK, Flight
  <2>4. UNCHANGED <<approvals, usage, reversal, carries, onLeave, paused>>
    BY <1>5 DEF CreateInsert
  <2> QED BY <2>1, <2>2, <2>3, <2>4 DEF TypeOK, ReservedNonNegative
<1>6. CASE DeductBalance(h)
  <2>1. row' \in Balance /\ row'.reserved >= 0
    BY <1>2, <1>3, <1>4, <1>6 DEF DeductBalance, Balance
  <2>2. proc' \in [Handlers -> Flight] /\ InFlight'
    BY <1>1, <1>6, GotoInFlight DEF DeductBalance, PCs
  <2>3. usage' \in [Requests -> Nat]
    BY <1>1, <1>6 DEF DeductBalance, TypeOK
  <2> QED BY <1>6, <2>1, <2>2, <2>3 DEF DeductBalance, TypeOK, ReservedNonNegative
<1>7. CASE ReleaseReservation(h)
  <2>1. row' \in Balance /\ row'.reserved >= 0
    BY <1>3, <1>4, <1>7 DEF ReleaseReservation, TypeOK, Balance
  <2>2. proc' \in [Handlers -> Flight] /\ InFlight'
    BY <1>1, <1>7, GotoInFlight DEF ReleaseReservation, PCs
  <2> QED BY <1>7, <2>1, <2>2 DEF ReleaseReservation, TypeOK, ReservedNonNegative
<1>8. CASE ReturnBalance(h)
  <2>1. row' \in Balance /\ row'.reserved >= 0
    BY <1>2, <1>3, <1>8 DEF ReturnBalance, TypeOK, Balance
  <2>2. proc' \in [Handlers -> Flight] /\ InFlight'
    BY <1>1, <1>8, GotoInFlight DEF ReturnBalance, PCs
  <2>3. reversal' \in [Requests -> Nat]
    BY <1>1, <1>8 DEF ReturnBalance, TypeOK
  <2> QED BY <1>8, <2>1, <2>2, <2>3 DEF ReturnBalance, TypeOK, ReservedNonNegative
<1> QED BY <1>5, <1>6, <1>7, <1>8

\* The administration of the row writes its balance, and never "reserved".
LEMMA AdministrationKeeps ==
    ASSUME IInv, Administer \/ \E h \in Handlers : CarryWrite(h)
    PROVE  IInv'
<1> USE DEF IInv
<1>1. /\ row.balance \in Int /\ row.reserved \in Int /\ row.reserved >= 0
  BY DEF TypeOK, Balance, ReservedNonNegative
<1>2. CASE Administer
  <2>1. PICK b \in Int : row' = [row EXCEPT !.balance = b]
    <3>1. ASSUME NEW d \in 1..MaxBalance, Accrue(d)
          PROVE  row' = [row EXCEPT !.balance = row.balance + d] /\ row.balance + d \in Int
      BY <1>1, <3>1 DEF Accrue
    <3>2. ASSUME NEW c \in 0..MaxBalance, UpdateBalance(c)
          PROVE  row' = [row EXCEPT !.balance = c] /\ c \in Int
      BY <3>2 DEF UpdateBalance
    <3> QED BY <1>2, <3>1, <3>2 DEF Administer
  <2>2. row' \in Balance /\ row'.reserved >= 0
    BY <1>1, <2>1 DEF TypeOK, Balance
  <2>3. UNCHANGED <<status, approvals, usage, reversal, carries, onLeave, paused, proc>>
    BY <1>2 DEF Administer, Accrue, UpdateBalance
  <2> QED BY <2>2, <2>3 DEF TypeOK, ReservedNonNegative, InFlight
<1>3. ASSUME NEW h \in Handlers, CarryWrite(h)
      PROVE  IInv'
  <2>1. row' \in Balance /\ row'.reserved >= 0
    BY <1>1, <1>3 DEF CarryWrite, TypeOK, Balance, Flight
  <2>2. proc' \in [Handlers -> Flight] /\ InFlight'
    BY <1>3, ReturnInFlight DEF CarryWrite
  <2>3. carries' \in Nat
    BY <1>3 DEF CarryWrite, TypeOK
  <2> QED BY <1>3, <2>1, <2>2, <2>3 DEF CarryWrite, TypeOK, ReservedNonNegative
<1> QED BY <1>2, <1>3

\* The effects on attendance and enrolments, done or failed.
LEMMA EffectsKeep ==
    ASSUME IInv, NEW h \in Handlers, ApplyEffects(h) \/ UndoEffects(h)
    PROVE  IInv'
<1> USE DEF IInv
<1>1. proc[h].req \in Requests
  BY DEF ApplyEffects, UndoEffects, At, InFlight
<1>2. Done \subseteq BOOLEAN
  BY DEF Done
<1>3. onLeave' \in [Requests -> BOOLEAN] /\ paused' \in BOOLEAN
  BY <1>1, <1>2, Zenon DEF ApplyEffects, UndoEffects, TypeOK
<1>4. proc' \in [Handlers -> Flight] /\ InFlight'
  BY <1>1, GotoInFlight, ReturnInFlight DEF ApplyEffects, UndoEffects, PCs
<1> QED BY <1>3, <1>4 DEF ApplyEffects, UndoEffects, TypeOK, ReservedNonNegative

\* A call only reads, and starts a handler.
LEMMA ArriveKeeps == ASSUME IInv, NEW h \in Handlers, Arrive(h) PROVE IInv'
<1> USE DEF IInv
<1>1. UNCHANGED <<status, approvals, row, usage, reversal, carries, onLeave, paused>>
  BY DEF Arrive, CreateCheckBalance, ProcessRead, CancelRead, ReassignRead, RemindRead,
         CarryRead
<1>2. Idle \in Flight /\ NoRequest \notin Requests
  BY NullAssumption DEF Idle, Flight, PCs, Actions, Levels, Statuses
<1> DEFINE Starts(rec) == /\ rec \in Flight /\ rec.pc # "decide"
                          /\ rec.pc \notin {"idle", "marker", "carry"} => rec.req \in Requests
                          /\ proc' = [proc EXCEPT ![h] = rec]
<1>3. \E rec : Starts(rec)
  <2>1. ASSUME NEW r \in Requests, NEW asDraft \in BOOLEAN, CreateCheckBalance(h, r, asDraft)
        PROVE  \E rec : Starts(rec)
    <3> DEFINE rec == [Idle EXCEPT !.pc = "conflict", !.req = r, !.who = Owner,
                                   !.was = InitialStatus(r, asDraft)]
    <3>1. proc' = [proc EXCEPT ![h] = rec]
      BY <2>1 DEF CreateCheckBalance, Call
    <3>2. InitialStatus(r, asDraft) \in Statuses
      BY DEF InitialStatus, Statuses
    <3>3. rec \in Flight /\ rec.pc = "conflict" /\ rec.req = r
      BY <1>2, <3>2 DEF Flight, PCs, Users
    <3> QED BY <3>1, <3>3
  <2>2. ASSUME NEW r \in Requests, NEW who \in Users, NEW act \in Actions,
               ProcessRead(h, r, who, act)
        PROVE  \E rec : Starts(rec)
    <3> DEFINE rec == [Idle EXCEPT !.pc = "mine", !.req = r, !.who = who, !.act = act]
    <3>1. proc' = [proc EXCEPT ![h] = rec]
      BY <2>2 DEF ProcessRead, Call
    <3>2. rec \in Flight /\ rec.pc = "mine" /\ rec.req = r
      BY <1>2 DEF Flight, PCs
    <3> QED BY <3>1, <3>2
  <2>3. ASSUME NEW r \in Requests, NEW who \in Users, CancelRead(h, r, who)
        PROVE  \E rec : Starts(rec)
    <3> DEFINE rec == [Idle EXCEPT !.pc = "cancelStatus", !.req = r, !.was = status[r]]
    <3>1. proc' = [proc EXCEPT ![h] = rec]
      BY <2>3 DEF CancelRead, Call
    <3>2. status[r] \in Statuses
      BY DEF TypeOK
    <3>3. rec \in Flight /\ rec.pc = "cancelStatus" /\ rec.req = r
      BY <1>2, <3>2 DEF Flight, PCs
    <3> QED BY <3>1, <3>3
  <2>4. ASSUME NEW r \in Requests, NEW l \in Levels, NEW pc \in {"reassign", "escalate"},
               proc' = [proc EXCEPT ![h] = [Idle EXCEPT !.pc = pc, !.req = r, !.level = l,
                                                        !.who = approvals[r][l].approver]]
        PROVE  \E rec : Starts(rec)
    <3> DEFINE rec == [Idle EXCEPT !.pc = pc, !.req = r, !.level = l,
                                   !.who = approvals[r][l].approver]
    <3>1. approvals[r][l].approver \in Users \cup {NoOne}
      BY DEF TypeOK, Approval
    <3>2. rec \in Flight /\ rec.pc = pc /\ rec.req = r
      BY <1>2, <3>1 DEF Flight, PCs
    <3> QED BY <2>4, <3>2
  <2>5. ASSUME NEW r \in Requests, NEW l \in Levels, NEW viewer \in Approvers,
               ReassignRead(h, r, l, viewer)
        PROVE  \E rec : Starts(rec)
    BY <2>4, <2>5 DEF ReassignRead, Call
  <2>6. ASSUME NEW r \in Requests, NEW l \in Levels, RemindRead(h, r, l)
        PROVE  \E rec : Starts(rec)
    BY <2>4, <2>6 DEF RemindRead, Call
  <2>7. ASSUME CarryRead(h)
        PROVE  \E rec : Starts(rec)
    <3> DEFINE amount == AnnualLimit + Larger(0, Smaller(Available, CarryCap))
               rec == [Idle EXCEPT !.pc = "marker", !.amount = amount]
    <3>1. proc' = [proc EXCEPT ![h] = rec]
      BY <2>7 DEF CarryRead, Call
    <3>2. amount \in Int
      BY LimitAssumption DEF Larger, Smaller, Available, TypeOK, Balance
    <3>3. rec \in Flight /\ rec.pc = "marker"
      <4> HIDE DEF amount
      <4> QED BY <1>2, <3>2 DEF Flight, PCs
    <3> QED BY <3>1, <3>3
  <2> QED BY <2>1, <2>2, <2>3, <2>5, <2>6, <2>7 DEF Arrive
<1>4. proc' \in [Handlers -> Flight] /\ InFlight'
  BY <1>3, MoveInFlight
<1> QED BY <1>1, <1>4 DEF TypeOK, ReservedNonNegative

-----------------------------------------------------------------------------
(* The theorems.                                                           *)

\* The three facts that make IInv inductive.
LEMMA InitInv == Init => IInv
<1> SUFFICES ASSUME Init PROVE IInv
  OBVIOUS
<1>1. Idle \in Flight /\ Idle.pc = "idle"
  BY DEF Idle, Flight, PCs, Actions, Levels, Statuses
<1>2. [approver |-> NoOne, decision |-> "ABSENT", escalated |-> FALSE] \in Approval
  BY DEF Approval, Decisions
<1>3. [balance |-> AnnualLimit, used |-> 0, reserved |-> 0] \in Balance
  BY LimitAssumption DEF Balance
<1>4. TypeOK
  BY <1>1, <1>2, <1>3 DEF Init, TypeOK, Statuses
<1>5. InFlight /\ ReservedNonNegative
  BY <1>1 DEF Init, InFlight, ReservedNonNegative
<1> QED BY <1>4, <1>5 DEF IInv

LEMMA NextInv == IInv /\ [Next]_vars => IInv'
<1> SUFFICES ASSUME IInv, [Next]_vars PROVE IInv'
  OBVIOUS
<1>1. CASE Administer
  BY <1>1, AdministrationKeeps
<1>2. ASSUME NEW h \in Handlers, Arrive(h) PROVE IInv'
  BY <1>2, ArriveKeeps
<1>3. ASSUME NEW h \in Handlers, Step(h) PROVE IInv'
  BY <1>3, ReadsKeep, StatusWritesKeep, ApprovalWritesKeep, RowWritesKeep,
     AdministrationKeeps, EffectsKeep DEF Step
<1>4. ASSUME NEW h \in Handlers, Crash(h) PROVE IInv'
  BY <1>4, ReturnInFlight DEF Crash, IInv, TypeOK, ReservedNonNegative
<1>5. CASE UNCHANGED vars
  BY <1>5 DEF vars, IInv, TypeOK, InFlight, ReservedNonNegative
<1> QED BY <1>1, <1>2, <1>3, <1>4, <1>5 DEF Next

THEOREM Invariance == Spec => []IInv
BY InitInv, NextInv, PTL DEF Spec

\* Every table and handler keeps its type, whatever the constants.
THEOREM TypeCorrect == Spec => []TypeOK
BY Invariance, PTL DEF IInv

\* The row never holds a negative number of reserved days, with any overlap of
\* handlers, any crash and any administration: releaseReservation and
\* deductBalance bound what they take under the row lock.
THEOREM ReservedNeverNegative == Spec => []ReservedNonNegative
BY Invariance, PTL DEF IInv

\* The only statements that write the row.
LEMMA RowWriters ==
    ASSUME Next, row' # row
    PROVE  \/ Administer
           \/ \E h \in Handlers : \/ CreateInsert(h) \/ DeductBalance(h)
                                 \/ ReleaseReservation(h) \/ ReturnBalance(h)
                                 \/ CarryWrite(h)
<1>1. ASSUME NEW h \in Handlers, Arrive(h) PROVE row' = row
  BY <1>1 DEF Arrive, CreateCheckBalance, ProcessRead, CancelRead, ReassignRead,
              RemindRead, CarryRead
<1>2. ASSUME NEW h \in Handlers, Crash(h) PROVE row' = row
  BY <1>2 DEF Crash
<1>3. ASSUME NEW h \in Handlers, Step(h)
      PROVE  \/ CreateInsert(h) \/ DeductBalance(h) \/ ReleaseReservation(h)
             \/ ReturnBalance(h) \/ CarryWrite(h)
  BY <1>3 DEF Step, CreateCheckConflict, FlowManager, FlowHR, ProcessFindStep, Delegate,
              Decide, RejectStatus, EscalateStatus, CountRemaining, Finalize, ApplyEffects,
              CloseSteps, CancelStatus, UndoEffects, Reassign, EscalateToHR, CarryMarker
<1> QED BY <1>1, <1>2, <1>3 DEF Next

\* What a handler that writes the row knows of it and of its request.
LEMMA RowFacts ==
    ASSUME IInv
    PROVE  /\ row.balance \in Int /\ row.used \in Int /\ row.reserved \in Nat
           /\ carries \in Nat
           /\ \A h \in Handlers : proc[h].pc \in {"insert", "deduct", "release", "return"}
                                  => Days[proc[h].req] \in Nat
BY CostNat DEF IInv, TypeOK, Balance, ReservedNonNegative, InFlight

\* Days only move between balance and used, in any interleaving and with
\* crashes, unless the row is administered.
THEOREM DaysConserved == Spec => HandlersConserveDays
<1> DEFINE Conserve == proc' # proc /\ carries' = carries =>
                           row'.balance + row'.used = row.balance + row.used
<1>1. ASSUME IInv, [Next]_vars PROVE [Conserve]_vars
  <2> SUFFICES ASSUME Next, proc' # proc, carries' = carries, row' # row
               PROVE  row'.balance + row'.used = row.balance + row.used
    BY <1>1
  <2>1. ~Administer
    BY DEF Administer, Accrue, UpdateBalance
  <2>2. PICK h \in Handlers : \/ CreateInsert(h) \/ DeductBalance(h)
                               \/ ReleaseReservation(h) \/ ReturnBalance(h)
                               \/ CarryWrite(h)
    BY <2>1, RowWriters
  <2>3. CASE CreateInsert(h)
    BY <1>1, <2>3 DEF CreateInsert, IInv, TypeOK, Balance
  <2>4. CASE DeductBalance(h)
    BY <1>1, <2>4, RowFacts DEF DeductBalance, At
  <2>5. CASE ReleaseReservation(h)
    BY <1>1, <2>5 DEF ReleaseReservation, IInv, TypeOK, Balance
  <2>6. CASE ReturnBalance(h)
    BY <1>1, <2>6, RowFacts DEF ReturnBalance, At
  <2>7. CASE CarryWrite(h)
    BY <1>1, <2>7, RowFacts DEF CarryWrite
  <2> QED BY <2>2, <2>3, <2>4, <2>5, <2>6, <2>7
<1> QED BY <1>1, Invariance, PTL DEF Spec, HandlersConserveDays

\* Only a charge, a refund and the carry-over write the history or the days used.
LEMMA HistoryWriters ==
    ASSUME IInv, [Next]_vars
    PROVE  \/ \E h \in Handlers : DeductBalance(h) \/ ReturnBalance(h) \/ CarryWrite(h)
           \/ UNCHANGED <<usage, reversal, carries>> /\ row'.used = row.used
<1> DEFINE Same == UNCHANGED <<usage, reversal, carries>> /\ row'.used = row.used
<1>0. row \in Balance
  BY DEF IInv, TypeOK
<1>1. ASSUME NEW h \in Handlers, Arrive(h) PROVE Same
  BY <1>1 DEF Arrive, CreateCheckBalance, ProcessRead, CancelRead, ReassignRead,
              RemindRead, CarryRead
<1>2. ASSUME NEW h \in Handlers, Crash(h) PROVE Same
  BY <1>2 DEF Crash
<1>3. ASSUME NEW h \in Handlers, Step(h)
      PROVE  DeductBalance(h) \/ ReturnBalance(h) \/ CarryWrite(h) \/ Same
  <2>1. CASE CreateInsert(h)
    BY <1>0, <2>1 DEF CreateInsert, Balance
  <2>2. CASE ReleaseReservation(h)
    BY <1>0, <2>2 DEF ReleaseReservation, Balance
  <2> QED
    BY <1>3, <2>1, <2>2
       DEF Step, CreateCheckConflict, FlowManager, FlowHR, ProcessFindStep, Delegate,
           Decide, RejectStatus, EscalateStatus, CountRemaining, Finalize, ApplyEffects,
           CloseSteps, CancelStatus, UndoEffects, Reassign, EscalateToHR, CarryMarker
<1>4. CASE Administer
  BY <1>0, <1>4 DEF Administer, Accrue, UpdateBalance, Balance
<1>5. CASE UNCHANGED vars
  BY <1>5 DEF vars
<1> QED
  BY <1>1, <1>2, <1>3, <1>4, <1>5 DEF Next

LEMMA OneMore ==
    ASSUME NEW n \in Int, NEW d \in Nat
    PROVE  /\ n * d \in Int
           /\ (n + 1) * d = n * d + d
           /\ (n - 1) * d = n * d - d
  OBVIOUS

UsedDays == [r \in Requests |-> Net(r) * Days[r]]

LEMMA UsedTypes ==
    ASSUME IInv PROVE \A r \in Requests : /\ Days[r] \in Nat /\ Net(r) \in Int
                                          /\ UsedDays[r] = Net(r) * Days[r]
                                          /\ UsedDays[r] \in Int
<1> SUFFICES ASSUME NEW r \in Requests
             PROVE  Days[r] \in Nat /\ Net(r) \in Int /\ UsedDays[r] = Net(r) * Days[r]
                    /\ UsedDays[r] \in Int
  OBVIOUS
<1>1. Days[r] \in Nat /\ Net(r) \in Int
  BY CostNat DEF IInv, TypeOK, Net
<1> QED
  BY <1>1, OneMore DEF UsedDays

\* The history of one request gains a charge or a refund of `days'.
LEMMA HistoryGains ==
    ASSUME IInv, NEW q \in Requests, NEW days \in Int,
           Net(q)' * Days[q] = Net(q) * Days[q] + days,
           \A r \in Requests \ {q} : Net(r)' = Net(r),
           row'.used = row.used + days, carries' = carries, UsedMatchesHistory
    PROVE  UsedMatchesHistory'
<1>1. PICK now : now = [r \in Requests |-> Net(r)' * Days[r]]
  OBVIOUS
<1> SUFFICES ASSUME carries = 0 PROVE row'.used = Total(now, Requests)
  BY <1>1 DEF UsedMatchesHistory
<1>2. row.used = Total(UsedDays, Requests)
  BY DEF UsedMatchesHistory, UsedDays
<1>3. \A r \in Requests : UsedDays[r] = Net(r) * Days[r] /\ UsedDays[r] \in Int
  BY UsedTypes
<1>4. \A r \in Requests \ {q} : now[r] = UsedDays[r]
  BY <1>1, <1>3
<1>5. now[q] = UsedDays[q] + days
  BY <1>1, <1>3
<1>6. \A r \in Requests : now[r] \in Int
  BY <1>3, <1>4, <1>5
<1>7. Total(now, Requests) = Total(UsedDays, Requests) + (now[q] - UsedDays[q])
  BY <1>3, <1>4, <1>6, RequestsAssumption, TotalChange
<1>8. row.used \in Int /\ UsedDays[q] \in Int
  BY <1>3, RowFacts
<1> QED
  BY <1>2, <1>5, <1>7, <1>8

LEMMA UsedStep == IInv /\ UsedMatchesHistory /\ [Next]_vars => UsedMatchesHistory'
<1> SUFFICES ASSUME IInv, UsedMatchesHistory, [Next]_vars PROVE UsedMatchesHistory'
  OBVIOUS
<1>1. CASE UNCHANGED <<usage, reversal, carries>> /\ row'.used = row.used
  BY <1>1 DEF UsedMatchesHistory, Net
<1>2. ASSUME NEW h \in Handlers, DeductBalance(h) PROVE UsedMatchesHistory'
  <2>1. PICK q \in Requests : q = proc[h].req
    BY <1>2 DEF DeductBalance, At, IInv, InFlight
  <2>2. /\ usage' = [usage EXCEPT ![q] = @ + 1] /\ row'.used = row.used + Days[q]
        /\ UNCHANGED <<reversal, carries>>
    BY <1>2, <2>1 DEF DeductBalance
  <2>3. \A r \in Requests : /\ Net(r)' = usage'[r] - reversal'[r]
                            /\ Net(r) = usage[r] - reversal[r]
    BY DEF Net
  <2>4. Net(q)' = Net(q) + 1 /\ \A r \in Requests \ {q} : Net(r)' = Net(r)
    BY <2>1, <2>2, <2>3 DEF IInv, TypeOK
  <2>5. Net(q)' * Days[q] = Net(q) * Days[q] + Days[q] /\ Days[q] \in Int
    BY <2>1, <2>4, UsedTypes, OneMore
  <2>6. carries' = carries
    BY <2>2
  <2> QED
    BY <2>1, <2>2, <2>4, <2>5, <2>6, HistoryGains
<1>3. ASSUME NEW h \in Handlers, ReturnBalance(h) PROVE UsedMatchesHistory'
  <2>1. PICK q \in Requests : q = proc[h].req
    BY <1>3 DEF ReturnBalance, At, IInv, InFlight
  <2>2. /\ reversal' = [reversal EXCEPT ![q] = @ + 1] /\ row'.used = row.used - Days[q]
        /\ UNCHANGED <<usage, carries>>
    BY <1>3, <2>1 DEF ReturnBalance
  <2>3. \A r \in Requests : /\ Net(r)' = usage'[r] - reversal'[r]
                            /\ Net(r) = usage[r] - reversal[r]
    BY DEF Net
  <2>4. Net(q)' = Net(q) - 1 /\ \A r \in Requests \ {q} : Net(r)' = Net(r)
    BY <2>1, <2>2, <2>3 DEF IInv, TypeOK
  <2>5. Net(q)' * Days[q] = Net(q) * Days[q] - Days[q] /\ Days[q] \in Nat /\ Net(q) * Days[q] \in Int
    BY <2>1, <2>4, UsedTypes, OneMore
  <2>6. PICK days \in Int : days = 0 - Days[q]
    BY <2>5
  <2>7. Net(q)' * Days[q] = Net(q) * Days[q] + days /\ row'.used = row.used + days
    BY <2>2, <2>5, <2>6, RowFacts
  <2>8. carries' = carries
    BY <2>2
  <2> QED
    BY <2>1, <2>4, <2>6, <2>7, <2>8, HistoryGains
<1>4. ASSUME NEW h \in Handlers, CarryWrite(h) PROVE UsedMatchesHistory'
  BY <1>4, RowFacts DEF CarryWrite, UsedMatchesHistory
<1> QED
  BY <1>1, <1>2, <1>3, <1>4, HistoryWriters

\* The days used are those of the history, however handlers interleave and
\* wherever they die: deductBalance and returnBalance write the row and the
\* history in one transaction.
THEOREM HistoryMatches == Spec => []UsedMatchesHistory
<1>1. Init => UsedMatchesHistory
  <2>0. Total(UsedDays, Requests) = 0 /\ row.used = 0 => UsedMatchesHistory
    BY DEF UsedMatchesHistory, UsedDays
  <2>1. Init => \A r \in Requests : UsedDays[r] = 0
    BY CostNat DEF Init, UsedDays, Net
  <2>2. Init => row.used = 0
    BY DEF Init
  <2> QED
    BY <2>0, <2>1, <2>2, RequestsAssumption, TotalZero
<1> QED
  BY <1>1, UsedStep, Invariance, PTL DEF Spec
=============================================================================
