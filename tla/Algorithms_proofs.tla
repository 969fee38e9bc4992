-------------------------- MODULE Algorithms_proofs --------------------------
(***************************************************************************)
(* The pieces the engine calls are right for every input: the loop of      *)
(* computeReadiness computes its least fixpoint, and the fixpoint is what  *)
(* no future runs; the list of a saga undoes every step after what was     *)
(* built on it; the check of a definition accepts what can be run; an      *)
(* attempt's outcome is what was decided of its error; a quota is overrun  *)
(* by less than the starts that race, runs that were retried apart; and to *)
(* each tenant the Postgres store is the in-memory one.                    *)
(***************************************************************************)
EXTENDS Algorithms, FiniteSetTheorems, WellFoundedInduction, TLAPS

-----------------------------------------------------------------------------
(***************************************************************************)
(* Induction.  A set of naturals that is not empty has a least element,    *)
(* so that a claim about every natural follows from what its least         *)
(* counterexample would be.                                                *)
(***************************************************************************)
LEMMA Least ==
  ASSUME NEW T \in SUBSET Nat, T # {}
  PROVE  \E n \in T : \A m \in T : n <= m
PROOF
<1> DEFINE Less == {ss \in Nat \X Nat : ss[1] < ss[2]}
<1>1. IsWellFoundedOn(Less, Nat)
  BY NatLessThanWellFounded DEF OpToRel
<1>2. PICK x \in T : \A y \in T : ~(<<y, x>> \in Less)
  <2>1. T \subseteq Nat
    OBVIOUS
  <2> HIDE DEF Less
  <2> QED BY <1>1, <2>1, WFMin
<1>3. ASSUME NEW y \in T PROVE x <= y
  <2>1. <<y, x>> \in Nat \X Nat /\ <<y, x>>[1] = y /\ <<y, x>>[2] = x
    OBVIOUS
  <2>2. ~(y < x)
    BY <1>2, <2>1
  <2> QED BY <2>2
<1> QED BY <1>3

-----------------------------------------------------------------------------
(***************************************************************************)
(* One verdict of the loop: a blocked step is in the plan if what has been *)
(* planned so far is.                                                      *)
(***************************************************************************)
LEMMA BlockedStepIsPlanned ==
  ASSUME TypeOK, planned \subseteq R!SkipPlan(status),
         NEW s \in Rows, Skips(s)
  PROVE  s \in R!SkipPlan(status)
<1> SUFFICES ASSUME NEW X \in SUBSET R!Pending(status), R!Closed(status, X)
             PROVE  s \in X
  BY DEF R!SkipPlan, R!Pending, Skips
<1> DEFINE was(d) == R!StatusOf(status, planned, d)
           is(d)  == R!StatusOf(status, X, d)
<1>1. planned \subseteq X
  BY DEF R!SkipPlan
<1>2. \A d : was(d) \in R!TerminalStatuses => is(d) = was(d)
  BY <1>1 DEF R!StatusOf, R!Pending, R!TerminalStatuses
<1>3. s \in R!Pending(status)
  BY DEF Skips, R!Pending
<1>4. R!Blocked(status, X, s)
  <2>1. CASE s \notin anyJoin
    BY <1>2, <2>1 DEF Skips, R!Blocked, R!DepStates
  <2>2. CASE s \in anyJoin /\ "failed" \in R!DepStates(status, planned, s)
    BY <1>2, <2>2 DEF R!Blocked, R!DepStates, R!TerminalStatuses
  <2>3. CASE /\ s \in anyJoin
             /\ R!DepStates(status, planned, s) # {}
             /\ R!DepStates(status, planned, s)
                  \subseteq R!TerminalStatuses \ {"completed"}
    <3>1. R!DepStates(status, X, s) = R!DepStates(status, planned, s)
      BY <1>2, <2>3 DEF R!DepStates
    <3>2. QED
      BY <2>3, <3>1 DEF R!Blocked
  <2>4. QED
    BY <2>1, <2>2, <2>3 DEF Skips, R!Blocked
<1>5. QED
  BY <1>3, <1>4 DEF R!Closed

LEMMA LoopInvInit == Init => LoopInv
<1> SUFFICES ASSUME Init PROVE LoopInv
  OBVIOUS
<1>1. TypeOK
  <2>1. row \in 1..(N + 1)
    BY LoopAssumption DEF Init
  <2>2. QED
    BY <2>1, Zenon DEF Init, TypeOK
<1>2. NoDebtBehind(row)
  BY DEF Init, NoDebtBehind, Rows
<1>3. QED
  BY <1>1, <1>2 DEF LoopInv, Init

(***************************************************************************)
(* A visit keeps the plan inside the least fixpoint, and either plans the  *)
(* row it visits or leaves no debt at it; a pass that ends without a       *)
(* change has no debt at all.                                              *)
(***************************************************************************)
LEMMA LoopInvStep == LoopInv /\ [Next]_vars => LoopInv'
<1> SUFFICES ASSUME LoopInv, [Next]_vars PROVE LoopInv'
  OBVIOUS
<1> USE LoopAssumption
<1>1. CASE Visit
  <2>1. TypeOK'
    <3>1. row \in Rows /\ row' \in 1..(N + 1)
      BY <1>1 DEF LoopInv, TypeOK, Visit, Rows
    <3>2. planned' \in SUBSET Rows
      BY <1>1, <3>1 DEF LoopInv, TypeOK, Visit
    <3>3. changed' \in BOOLEAN
      BY <1>1, Zenon DEF LoopInv, TypeOK, Visit
    <3>4. QED
      BY <1>1, <3>1, <3>2, <3>3, Zenon DEF LoopInv, TypeOK, Visit, inputs
  <2>2. row \in Rows /\ UNCHANGED inputs /\ ~done' /\ ~done
    BY <1>1 DEF LoopInv, TypeOK, Visit, Rows, inputs
  <2>3. CASE Skips(row)
    <3>1. planned' = planned \cup {row} /\ changed'
      BY <1>1, <2>3 DEF Visit
    <3>2. row \in R!SkipPlan(status)
      BY <2>2, <2>3, BlockedStepIsPlanned DEF LoopInv
    <3>3. R!SkipPlan(status)' = R!SkipPlan(status)
      BY <2>2 DEF inputs, R!SkipPlan, R!Pending, R!Closed, R!Blocked, R!DepStates, R!StatusOf
    <3>4. QED
      BY <2>1, <2>2, <3>1, <3>2, <3>3 DEF LoopInv
  <2>4. CASE ~Skips(row)
    <3>1. planned' = planned /\ changed' = changed /\ row' = row + 1
      BY <1>1, <2>4 DEF Visit
    <3>2. R!SkipPlan(status)' = R!SkipPlan(status)
      BY <2>2 DEF inputs, R!SkipPlan, R!Pending, R!Closed, R!Blocked, R!DepStates, R!StatusOf
    <3>3. ASSUME NoDebtBehind(row) PROVE NoDebtBehind(row)'
      <4> SUFFICES ASSUME NEW s \in Rows, s < row + 1, status[s] = "pending",
                          R!Blocked(status, planned, s)
                   PROVE  s \in planned
        BY <2>2, <3>1 DEF NoDebtBehind, inputs, R!Blocked, R!DepStates, R!StatusOf
      <4>1. CASE s = row
        BY <2>4, <4>1 DEF Skips
      <4>2. CASE s < row
        BY <3>3, <4>2 DEF NoDebtBehind
      <4>3. QED
        BY <4>1, <4>2 DEF Rows, LoopInv, TypeOK
    <3>4. QED
      BY <2>1, <2>2, <3>1, <3>2, <3>3 DEF LoopInv
  <2>5. QED
    BY <2>3, <2>4
<1>2. CASE EndPass
  <2>1. TypeOK'
    <3>1. row' \in 1..(N + 1)
      BY <1>2 DEF EndPass
    <3>2. done' \in BOOLEAN /\ changed' \in BOOLEAN
      BY <1>2, Zenon DEF EndPass, LoopInv, TypeOK
    <3>3. QED
      BY <1>2, <3>1, <3>2, Zenon DEF LoopInv, TypeOK, EndPass, inputs
  <2>2. /\ UNCHANGED inputs /\ planned' = planned /\ row = N + 1
        /\ row' = 1 /\ ~done /\ done' = ~changed
    BY <1>2 DEF EndPass
  <2>3. R!SkipPlan(status)' = R!SkipPlan(status)
    BY <2>2 DEF inputs, R!SkipPlan, R!Pending, R!Closed, R!Blocked, R!DepStates, R!StatusOf
  <2>4. NoDebtBehind(row)'
    BY <2>2 DEF NoDebtBehind, Rows
  <2>5. ASSUME done' PROVE NoDebtBehind(N + 1)'
    <3>1. NoDebtBehind(N + 1)
      BY <2>2, <2>5 DEF LoopInv
    <3>2. QED
      BY <2>2, <3>1 DEF NoDebtBehind, inputs, R!Blocked, R!DepStates, R!StatusOf
  <2>6. QED
    BY <2>1, <2>2, <2>3, <2>4, <2>5 DEF LoopInv
<1>3. CASE UNCHANGED vars
  BY <1>3 DEF vars, inputs, LoopInv, TypeOK, NoDebtBehind, R!SkipPlan, R!Pending,
              R!Closed, R!Blocked, R!DepStates, R!StatusOf
<1>4. QED
  BY <1>1, <1>2, <1>3 DEF Next

(***************************************************************************)
(* A plan inside the least fixpoint and without debt is the fixpoint.      *)
(***************************************************************************)
LEMMA LoopInvImplies == LoopInv => LoopIsLeastFixpoint
<1> SUFFICES ASSUME LoopInv, done
             PROVE  planned = R!SkipPlan(status) /\ ready = R!ReadyPlan(status)
  BY DEF LoopIsLeastFixpoint
<1>1. NoDebtBehind(N + 1) /\ planned \subseteq R!SkipPlan(status)
  BY DEF LoopInv
<1>2. \A s \in Rows : s < N + 1
  BY LoopAssumption DEF Rows
<1>3. R!Closed(status, planned)
  BY <1>1, <1>2 DEF NoDebtBehind, R!Closed, R!Pending
<1>4. planned \in SUBSET R!Pending(status)
  BY <1>1 DEF R!SkipPlan
<1>5. planned = R!SkipPlan(status)
  BY <1>1, <1>3, <1>4 DEF R!SkipPlan
<1>6. QED
  BY <1>5 DEF ready, R!ReadyPlan, R!Pending

-----------------------------------------------------------------------------
(***************************************************************************)
(* Planning more skips never unblocks a step: the verdict 'skip' is        *)
(* monotone in the planned set, as long as only pending steps are planned. *)
(***************************************************************************)
LEMMA BlockedIsMonotone ==
  ASSUME NEW st, NEW X, NEW Y, X \subseteq Y, Y \subseteq R!Pending(st),
         NEW s \in Rows, R!Blocked(st, X, s)
  PROVE  R!Blocked(st, Y, s)
<1> DEFINE pick(Z, d) == R!StatusOf(st, Z, d)
<1>1. ASSUME NEW d, pick(X, d) \in R!TerminalStatuses
      PROVE  pick(Y, d) = pick(X, d)
  BY <1>1 DEF R!StatusOf, R!Pending, R!TerminalStatuses
<1>2. CASE s \notin anyJoin
  BY <1>1, <1>2 DEF R!Blocked, R!DepStates
<1>3. CASE s \in anyJoin
  <2>1. CASE "failed" \in R!DepStates(st, X, s)
    BY <1>1, <1>3, <2>1 DEF R!Blocked, R!DepStates, R!TerminalStatuses
  <2>2. CASE R!DepStates(st, X, s) \subseteq R!TerminalStatuses \ {"completed"}
    <3>1. R!DepStates(st, Y, s) = R!DepStates(st, X, s)
      BY <1>1, <2>2 DEF R!DepStates
    <3>2. QED
      BY <1>3, <3>1 DEF R!Blocked
  <2>3. QED
    BY <1>3, <2>1, <2>2 DEF R!Blocked
<1>4. QED
  BY <1>2, <1>3

(***************************************************************************)
(* SkipPlan is itself closed, hence the least closed set.                  *)
(***************************************************************************)
LEMMA SkipPlanIsClosed ==
  ASSUME NEW st
  PROVE  R!Closed(st, R!SkipPlan(st))
<1> SUFFICES ASSUME NEW s \in R!Pending(st), R!Blocked(st, R!SkipPlan(st), s),
                    NEW X \in SUBSET R!Pending(st), R!Closed(st, X)
             PROVE  s \in X
  BY DEF R!Closed, R!SkipPlan
<1>1. R!SkipPlan(st) \subseteq X
  BY DEF R!SkipPlan
<1>2. R!Blocked(st, X, s)
  BY <1>1, BlockedIsMonotone DEF R!Pending
<1>3. QED
  BY <1>2 DEF R!Closed

LEMMA SkipPlanIsLeast ==
  ASSUME NEW st, NEW X \in SUBSET R!Pending(st), R!Closed(st, X)
  PROVE  R!SkipPlan(st) \subseteq X
BY DEF R!SkipPlan

(***************************************************************************)
(* No future of a snapshot runs a planned step: the pending steps whose    *)
(* dependencies a future leaves unsatisfied are a closed set.              *)
(***************************************************************************)
LEMMA PlannedNeverRuns ==
  ASSUME R!GraphAssumption, NEW st, NEW f, R!IsFuture(st, f), NEW s \in R!SkipPlan(st)
  PROVE  ~R!Satisfied(f, {}, s)
<1> DEFINE X == {t \in R!Pending(st) : ~R!Satisfied(f, {}, t)}
<1>1. ASSUME NEW d \in Rows, R!StatusOf(st, X, d) \in R!TerminalStatuses
      PROVE  f[d] = R!StatusOf(st, X, d)
  BY <1>1 DEF R!IsFuture, R!StatusOf, R!Pending, R!TerminalStatuses
<1>2. ASSUME NEW t \in R!Pending(st), R!Blocked(st, X, t)
      PROVE  ~R!Satisfied(f, {}, t)
  <2>1. t \in Rows /\ \A d \in deps[t] : d \in Rows
    BY DEF R!GraphAssumption, R!Pending
  <2>2. R!DepStates(f, {}, t) = {f[d] : d \in deps[t]}
    BY DEF R!DepStates, R!StatusOf
  <2>3. CASE t \notin anyJoin
    <3>1. PICK d \in deps[t] : /\ R!StatusOf(st, X, d) # "completed"
                               /\ R!StatusOf(st, X, d) \in R!TerminalStatuses
      BY <1>2, <2>3 DEF R!Blocked, R!DepStates
    <3>2. f[d] # "completed"
      BY <1>1, <2>1, <3>1
    <3>3. QED
      BY <2>2, <2>3, <3>2 DEF R!Satisfied
  <2>4. CASE t \in anyJoin /\ "failed" \in R!DepStates(st, X, t)
    <3>1. PICK d \in deps[t] : R!StatusOf(st, X, d) = "failed"
      BY <2>4 DEF R!DepStates
    <3>2. f[d] = "failed"
      BY <1>1, <2>1, <3>1 DEF R!TerminalStatuses
    <3>3. QED
      BY <2>2, <3>2 DEF R!Satisfied
  <2>5. CASE /\ t \in anyJoin
             /\ R!DepStates(st, X, t) # {}
             /\ R!DepStates(st, X, t) \subseteq R!TerminalStatuses \ {"completed"}
    <3>1. \A d \in deps[t] : f[d] # "completed"
      BY <1>1, <2>1, <2>5 DEF R!DepStates
    <3>2. deps[t] # {}
      BY <2>5 DEF R!DepStates
    <3>3. QED
      BY <2>2, <3>1, <3>2 DEF R!Satisfied
  <2>6. QED
    BY <1>2, <2>3, <2>4, <2>5 DEF R!Blocked
<1>3. R!Closed(st, X)
  BY <1>2 DEF R!Closed
<1>4. s \in X
  BY <1>3, SkipPlanIsLeast
<1>5. QED
  BY <1>4

(***************************************************************************)
(* A pending step the plan leaves alone has a future that runs it: let     *)
(* every step that is neither planned nor settled complete.                *)
(***************************************************************************)
LEMMA UnplannedCanRun ==
  ASSUME R!GraphAssumption, NEW st \in [Rows -> R!StepStatus],
         NEW s \in R!Pending(st), s \notin R!SkipPlan(st)
  PROVE  R!CanStillRun(st, s)
<1> DEFINE f == [t \in Rows |->
                   IF t \in R!SkipPlan(st) THEN "skipped"
                   ELSE IF st[t] \in R!TerminalStatuses THEN st[t] ELSE "completed"]
<1>1. R!SkipPlan(st) \subseteq R!Pending(st)
  BY DEF R!SkipPlan
<1>2. ASSUME NEW t \in R!Pending(st), t \notin R!SkipPlan(st)
      PROVE  R!Satisfied(f, {}, t)
  <2>1. ~R!Blocked(st, R!SkipPlan(st), t)
    BY <1>2, SkipPlanIsClosed DEF R!Closed
  <2>2. t \in Rows /\ \A d \in deps[t] : d \in Rows
    BY DEF R!GraphAssumption, R!Pending
  <2>3. \A d \in deps[t] :
          f[d] = IF R!StatusOf(st, R!SkipPlan(st), d) \in R!TerminalStatuses
                 THEN R!StatusOf(st, R!SkipPlan(st), d) ELSE "completed"
    BY <1>1, <2>2 DEF R!StatusOf, R!TerminalStatuses
  <2>4. R!DepStates(f, {}, t) = {f[d] : d \in deps[t]}
    BY DEF R!DepStates, R!StatusOf
  <2>5. CASE t \notin anyJoin
    <3>1. \A d \in deps[t] : f[d] = "completed"
      BY <2>1, <2>3, <2>5 DEF R!Blocked, R!DepStates
    <3>2. QED
      BY <2>4, <3>1 DEF R!Satisfied
  <2>6. CASE t \in anyJoin
    <3>1. \A d \in deps[t] : f[d] \in R!TerminalStatuses \ {"failed"}
      <4> SUFFICES ASSUME NEW d \in deps[t]
                   PROVE  f[d] \in R!TerminalStatuses /\ f[d] # "failed"
        OBVIOUS
      <4> HIDE DEF f
      <4>1. R!StatusOf(st, R!SkipPlan(st), d) # "failed"
        BY <2>1, <2>6 DEF R!Blocked, R!DepStates
      <4>2. QED
        BY <2>3, <4>1 DEF R!TerminalStatuses
    <3>2. deps[t] = {} \/ \E d \in deps[t] : f[d] = "completed"
      BY <2>1, <2>3, <2>6 DEF R!Blocked, R!DepStates, R!TerminalStatuses
    <3>3. QED
      BY <2>4, <2>6, <3>1, <3>2 DEF R!Satisfied
  <2>7. QED
    BY <2>5, <2>6
<1>3. f \in [Rows -> R!TerminalStatuses]
  BY DEF R!TerminalStatuses
<1>4. R!IsFuture(st, f)
  BY <1>1, <1>2, <1>3 DEF R!IsFuture, R!Pending, R!TerminalStatuses
<1>5. R!Satisfied(f, {}, s)
  BY <1>2
<1>6. QED
  BY <1>3, <1>4, <1>5 DEF R!CanStillRun

(***************************************************************************)
(* The plan of computeReadiness is exact: of the pending steps it skips    *)
(* those, and only those, that no future of the run can reach.             *)
(***************************************************************************)
THEOREM SkipPlanIsExact ==
  ASSUME R!GraphAssumption, NEW st \in [Rows -> R!StepStatus], NEW s \in R!Pending(st)
  PROVE  s \in R!SkipPlan(st) <=> ~R!CanStillRun(st, s)
BY PlannedNeverRuns, UnplannedCanRun DEF R!CanStillRun

LEMMA LoopInvExact == LoopInv => SkipsExactlyTheUnreachable
<1> SUFFICES ASSUME LoopInv, done, NEW s \in Rows, status[s] = "pending"
             PROVE  s \in planned <=> ~R!CanStillRun(status, s)
  BY DEF SkipsExactlyTheUnreachable
<1>1. planned = R!SkipPlan(status)
  BY LoopInvImplies DEF LoopIsLeastFixpoint
<1>2. R!GraphAssumption
  BY DEF LoopInv, TypeOK, R!GraphAssumption
<1>3. status \in [Rows -> R!StepStatus]
  BY LoopAssumption DEF LoopInv, TypeOK, R!StepStatus
<1>4. s \in R!Pending(status)
  BY DEF R!Pending
<1>5. QED
  BY <1>1, <1>2, <1>3, <1>4, SkipPlanIsExact

-----------------------------------------------------------------------------
(***************************************************************************)
(* The saga's order.  What is placed is a duplicate-free list in which     *)
(* each row comes after the dependencies it was built on; and each pass    *)
(* places at least one row, unless none is left, because in an acyclic     *)
(* graph the rows that are not placed have one that waits for none of      *)
(* them.                                                                   *)
(***************************************************************************)
SagaGraph == sagaDeps \in [S!Rows -> SUBSET S!Rows] /\ S!Acyclic(sagaDeps)

SagaTyped ==
  /\ SagaGraph
  /\ steps \subseteq S!Rows /\ placed \subseteq steps
  /\ topo \in Seq(S!Rows) /\ order \in Seq(S!Rows)
  /\ guard \in 0..(Cardinality(steps) + 1) /\ sagaRow \in 0..M

Placement ==
  /\ Len(topo) = Cardinality(placed)
  /\ placed = {topo[i] : i \in 1..Len(topo)}
  /\ \A i \in 1..Len(topo) : \A e \in sagaDeps[topo[i]] \cap steps :
       \E j \in 1..(i - 1) : topo[j] = e

\* The passes begun are no more than the rows placed, but for the one under way
\* as long as it has found nothing to place.
PassesPlace ==
  \/ placed = steps
  \/ guard <= Cardinality(placed)
  \/ /\ guard = Cardinality(placed) + 1 /\ sagaRow # 0
     /\ \A r \in steps \ placed : r < sagaRow => ~S!Placeable(r)

Returned == order # <<>> => placed = steps /\ sagaRow = 0 /\ order = S!Reverse(topo)

SagaInv == SagaTyped /\ Placement /\ PassesPlace /\ Returned

LEMMA SagaGraphStays == ASSUME SagaGraph, UNCHANGED sagaDeps PROVE SagaGraph'
PROOF
<1>1. S!Acyclic(sagaDeps)' <=> S!Acyclic(sagaDeps')
  BY DEF S!Acyclic, S!Rows
<1> QED BY <1>1 DEF SagaGraph, S!Rows

LEMMA SagaFinite ==
  ASSUME M \in Nat, SagaTyped
  PROVE  /\ IsFiniteSet(steps) /\ IsFiniteSet(placed)
         /\ Cardinality(steps) \in Nat /\ Cardinality(placed) \in Nat
         /\ Cardinality(placed) <= Cardinality(steps)
PROOF
<1>1. IsFiniteSet(S!Rows)
  BY FS_Interval DEF S!Rows
<1>2. IsFiniteSet(steps)
  BY <1>1, FS_Subset DEF SagaTyped
<1>3. IsFiniteSet(placed) /\ Cardinality(placed) <= Cardinality(steps)
  BY <1>2, FS_Subset DEF SagaTyped
<1> QED BY <1>2, <1>3, FS_CardinalityType

\* Cardinality is that of the model, whichever way it was named.
LEMMA SameCardinality == ASSUME NEW T PROVE S!Cardinality(T) = Cardinality(T)
PROOF BY DEF S!Cardinality, Cardinality

LEMMA VisitKeeps ==
  ASSUME M \in Nat, SagaInv, S!Visit
  PROVE  SagaInv'
PROOF
<1> USE SameCardinality
<1>0. SagaTyped /\ Placement /\ PassesPlace /\ Returned
  BY DEF SagaInv
<1>1. /\ sagaRow \in S!Rows /\ sagaRow \in 1..M /\ order = <<>>
      /\ UNCHANGED <<sagaDeps, steps, guard, order>>
      /\ sagaRow' = IF sagaRow = M THEN 0 ELSE sagaRow + 1
  BY <1>0 DEF S!Visit, S!inputs, S!Rows, Returned
<1>2. /\ IsFiniteSet(steps) /\ IsFiniteSet(placed)
      /\ Cardinality(steps) \in Nat /\ Cardinality(placed) \in Nat
      /\ Cardinality(placed) <= Cardinality(steps)
  BY <1>0, SagaFinite
<1>3. CASE sagaRow \in steps \ placed /\ S!Placeable(sagaRow)
  <2>1. placed' = placed \cup {sagaRow} /\ topo' = Append(topo, sagaRow)
    BY <1>3 DEF S!Visit
  <2>2. Cardinality(placed') = Cardinality(placed) + 1
    BY <1>2, <1>3, <2>1, FS_AddElement
  <2>3. SagaTyped'
    BY <1>0, <1>1, <1>3, <2>1, SagaGraphStays DEF SagaTyped, S!Rows
  <2>4. /\ Len(topo') = Len(topo) + 1 /\ Len(topo) \in Nat
        /\ \A i \in 1..Len(topo) : topo'[i] = topo[i]
        /\ topo'[Len(topo) + 1] = sagaRow
    BY <1>0, <1>1, <2>1 DEF SagaTyped
  <2>5. placed' = {topo'[i] : i \in 1..Len(topo')}
    BY <1>0, <2>1, <2>4 DEF Placement
  <2>6. ASSUME NEW i \in 1..Len(topo'), NEW e \in sagaDeps'[topo'[i]] \cap steps'
        PROVE  \E j \in 1..(i - 1) : topo'[j] = e
    <3>1. CASE i \in 1..Len(topo)
      <4>1. PICK j \in 1..(i - 1) : topo[j] = e
        BY <1>0, <1>1, <2>4, <2>6, <3>1 DEF Placement
      <4> QED BY <2>4, <3>1, <4>1
    <3>2. CASE i = Len(topo) + 1
      <4>1. e \in placed
        BY <1>1, <1>3, <2>4, <2>6, <3>2 DEF S!Placeable
      <4>2. PICK j \in 1..Len(topo) : topo[j] = e
        BY <1>0, <4>1 DEF Placement
      <4> QED BY <2>4, <3>2, <4>2
    <3> QED BY <2>4, <3>1, <3>2
  <2>7. Placement'
    BY <1>0, <2>2, <2>4, <2>5, <2>6 DEF Placement
  <2>8. PassesPlace'
    BY <1>0, <1>1, <1>2, <1>3, <2>2 DEF PassesPlace, SagaTyped
  <2> QED BY <1>1, <2>3, <2>7, <2>8 DEF SagaInv, Returned
<1>4. CASE ~(sagaRow \in steps \ placed /\ S!Placeable(sagaRow))
  <2>1. UNCHANGED <<placed, topo>>
    BY <1>4 DEF S!Visit
  <2>2. SagaTyped' /\ Placement'
    BY <1>0, <1>1, <2>1, SagaGraphStays DEF SagaTyped, Placement, S!Rows
  <2>3. PassesPlace'
    <3>1. CASE placed = steps \/ guard <= Cardinality(placed)
      BY <1>1, <2>1, <3>1 DEF PassesPlace
    <3>2. CASE placed # steps /\ ~(guard <= Cardinality(placed))
      <4>1. /\ guard = Cardinality(placed) + 1
            /\ \A r \in steps \ placed : r < sagaRow => ~S!Placeable(r)
        BY <1>0, <3>2 DEF PassesPlace
      <4>2. \A r \in steps \ placed : r <= sagaRow => ~S!Placeable(r)
        BY <1>0, <1>1, <1>4, <4>1 DEF SagaTyped, S!Rows
      <4>3. CASE sagaRow = M
        <5>1. \A r \in steps \ placed : ~S!Placeable(r)
          BY <1>0, <4>2, <4>3 DEF SagaTyped, S!Rows
        <5>2. PICK r \in steps \ placed : sagaDeps[r] \cap (steps \ placed) = {}
          BY <1>0, <3>2 DEF SagaTyped, SagaGraph, S!Acyclic
        <5> QED BY <5>1, <5>2 DEF S!Placeable
      <4>4. CASE sagaRow # M
        <5>1. sagaRow' = sagaRow + 1 /\ sagaRow' # 0
          BY <1>1, <4>4
        <5>2. \A r \in steps \ placed : r < sagaRow + 1 => r <= sagaRow
          BY <1>0, <1>1 DEF SagaTyped, S!Rows
        <5>3. \A r \in (steps \ placed)' : r < sagaRow' => ~S!Placeable(r)'
          BY <1>1, <2>1, <4>2, <5>1, <5>2 DEF S!Placeable
        <5> QED BY <1>1, <2>1, <4>1, <5>1, <5>3 DEF PassesPlace
      <4> QED BY <4>3, <4>4
    <3> QED BY <3>1, <3>2
  <2> QED BY <1>1, <2>2, <2>3 DEF SagaInv, Returned
<1> QED BY <1>3, <1>4

LEMMA NextPassKeeps ==
  ASSUME M \in Nat, SagaInv, S!NextPass
  PROVE  SagaInv'
PROOF
<1> USE SameCardinality
<1>0. SagaTyped /\ Placement /\ PassesPlace /\ Returned
  BY DEF SagaInv
<1>1. /\ sagaRow = 0 /\ order = <<>> /\ steps \ placed # {} /\ guard <= Cardinality(steps)
      /\ guard' = guard + 1 /\ sagaRow' = 1
      /\ UNCHANGED <<sagaDeps, steps, placed, topo, order>>
  BY DEF S!NextPass, S!inputs, S!More
<1>2. /\ Cardinality(steps) \in Nat /\ Cardinality(placed) \in Nat /\ guard \in Nat
  BY <1>0, SagaFinite DEF SagaTyped
<1>3. SagaTyped'
  <2>1. M >= 1
    <3>1. PICK r \in steps : r \notin placed
      BY <1>1
    <3>2. r \in 1..M
      BY <1>0 DEF SagaTyped, S!Rows
    <3> QED BY <3>2
  <2>2. guard' \in 0..(Cardinality(steps) + 1) /\ sagaRow' \in 0..M
    BY <1>1, <1>2, <2>1
  <2> QED BY <1>0, <1>1, <2>2, SagaGraphStays DEF SagaTyped, S!Rows
<1>4. Placement'
  BY <1>0, <1>1 DEF Placement
<1>5. guard <= Cardinality(placed)
  BY <1>0, <1>1 DEF PassesPlace
<1>6. \A r \in steps \ placed : ~(r < 1)
  BY <1>0 DEF SagaTyped, S!Rows
<1>7. PassesPlace'
  BY <1>1, <1>2, <1>5, <1>6 DEF PassesPlace
<1> QED BY <1>1, <1>3, <1>4, <1>7 DEF SagaInv, Returned

LEMMA NothingIsLeftOver ==
  ASSUME M \in Nat, SagaInv, sagaRow = 0, ~S!More
  PROVE  placed = steps
PROOF
<1> USE SameCardinality
<1>0. SagaTyped /\ PassesPlace
  BY DEF SagaInv
<1>1. /\ Cardinality(steps) \in Nat /\ Cardinality(placed) \in Nat /\ guard \in Nat
      /\ Cardinality(placed) <= Cardinality(steps)
  BY <1>0, SagaFinite DEF SagaTyped
<1>2. steps \ placed = {} \/ guard > Cardinality(steps)
  BY <1>1 DEF S!More
<1>3. placed = steps \/ guard <= Cardinality(placed)
  BY <1>0 DEF PassesPlace
<1>4. steps \ placed = {} => placed = steps
  BY <1>0 DEF SagaTyped
<1> QED BY <1>1, <1>2, <1>3, <1>4

LEMMA ReturnKeeps ==
  ASSUME M \in Nat, SagaInv, S!Return
  PROVE  SagaInv'
PROOF
<1> USE SameCardinality
<1>0. SagaTyped /\ Placement /\ PassesPlace /\ Returned
  BY DEF SagaInv
<1>1. /\ sagaRow = 0 /\ ~S!More /\ order' = S!Reverse(topo \o S!Leftover)
      /\ UNCHANGED <<sagaDeps, steps, placed, topo, guard, sagaRow>>
  BY DEF S!Return, S!inputs
<1>2. placed = steps
  BY <1>1, NothingIsLeftOver
<1>3. S!Leftover = <<>>
  <2>1. Cardinality(steps \ placed) = 0 /\ steps \ placed = {}
    BY <1>2, FS_EmptySet
  <2>2. [1..0 -> {}] = {<<>>}
    <3>1. <<>> \in [1..0 -> {}]
      OBVIOUS
    <3>2. ASSUME NEW q \in [1..0 -> {}] PROVE q = <<>>
      <4>1. q \in Seq({}) /\ DOMAIN q = {}
        OBVIOUS
      <4>2. Len(q) = 0
        BY <4>1
      <4> QED BY <4>1, <4>2
    <3> QED BY <3>1, <3>2
  <2>3. S!Leftover = CHOOSE q \in {<<>>} : \A i, j \in DOMAIN q : i < j => q[i] < q[j]
    BY <2>1, <2>2 DEF S!Leftover, S!InRowOrder
  <2> QED BY <2>3
<1>4. order' = S!Reverse(topo)
  BY <1>0, <1>1, <1>3 DEF SagaTyped
<1>5. order' \in Seq(S!Rows)
  <2>1. Len(topo) \in Nat /\ \A i \in 1..Len(topo) : topo[i] \in S!Rows
    BY <1>0 DEF SagaTyped
  <2>2. \A i \in 1..Len(topo) : Len(topo) - i + 1 \in 1..Len(topo)
    BY <2>1
  <2>3. order' \in [1..Len(topo) -> S!Rows]
    BY <1>4, <2>1, <2>2 DEF S!Reverse
  <2> QED BY <2>1, <2>3
<1>6. SagaTyped' /\ Placement' /\ PassesPlace'
  <2>1. SagaTyped'
    BY <1>0, <1>1, <1>5, SagaGraphStays DEF SagaTyped, S!Rows
  <2>2. Placement' /\ PassesPlace'
    BY <1>0, <1>1, <1>2 DEF Placement, PassesPlace
  <2> QED BY <2>1, <2>2
<1>7. Returned'
  BY <1>1, <1>2, <1>4 DEF Returned, S!Reverse
<1> QED BY <1>6, <1>7 DEF SagaInv

LEMMA SagaKeeps ==
  ASSUME M \in Nat, SagaInv, [S!Next]_(S!vars)
  PROVE  SagaInv'
PROOF
<1>1. CASE UNCHANGED S!vars
  BY <1>1, SagaGraphStays DEF S!vars, SagaInv, SagaTyped, Placement, PassesPlace, Returned,
                              S!Rows, S!Placeable, S!Reverse
<1> QED BY <1>1, VisitKeeps, NextPassKeeps, ReturnKeeps DEF S!Next

LEMMA SagaImplies ==
  ASSUME M \in Nat, SagaInv
  PROVE  S!TypeOK /\ S!EveryStepOnce /\ S!DependentsFirst
PROOF
<1> USE SameCardinality
<1>0. SagaTyped /\ Placement /\ Returned
  BY DEF SagaInv
<1>1. S!TypeOK
  BY <1>0 DEF S!TypeOK, SagaTyped, SagaGraph
<1>2. SUFFICES ASSUME order # <<>> PROVE S!EveryStepOnce /\ S!DependentsFirst
  BY <1>1 DEF S!EveryStepOnce, S!DependentsFirst
<1> DEFINE L == Len(topo)
<1>3. placed = steps /\ L \in Nat /\ L = Cardinality(steps)
  BY <1>0, <1>2 DEF Returned, Placement, SagaTyped
<1>4. /\ Len(order) = L /\ DOMAIN order = 1..L
      /\ \A i \in 1..L : order[i] = topo[L - i + 1]
  BY <1>0, <1>2, <1>3 DEF Returned, S!Reverse, SagaTyped
<1>5. \A i \in 1..L : L - i + 1 \in 1..L /\ L - (L - i + 1) + 1 = i
  BY <1>3
<1>6. \A i \in 1..L : topo[i] = order[L - i + 1]
  BY <1>3, <1>4, <1>5
<1>7. {order[i] : i \in DOMAIN order} = steps
  BY <1>0, <1>3, <1>4, <1>5, <1>6 DEF Placement
<1>8. S!EveryStepOnce
  BY <1>3, <1>4, <1>7 DEF S!EveryStepOnce
<1>9. ASSUME NEW s \in steps, NEW e \in sagaDeps[s] \cap steps PROVE S!Before(s, e)
  <2>1. PICK i \in 1..L : topo[i] = s
    BY <1>0, <1>3 DEF Placement
  <2>2. PICK j \in 1..(i - 1) : topo[j] = e
    BY <1>0, <1>9, <2>1 DEF Placement
  <2>3. /\ j \in 1..L /\ L - i + 1 \in 1..L /\ L - j + 1 \in 1..L /\ L - i + 1 < L - j + 1
    BY <1>3, <2>1, <2>2
  <2>4. order[L - i + 1] = s /\ order[L - j + 1] = e
    BY <1>6, <2>1, <2>2, <2>3
  <2> QED BY <1>4, <2>3, <2>4 DEF S!Before
<1>10. S!DependentsFirst
  BY <1>9 DEF S!DependentsFirst
<1> QED BY <1>1, <1>8, <1>10

LEMMA SagaStarts == ASSUME M \in Nat, S!Init \/ SagaEnded PROVE SagaInv
PROOF
<1>1. /\ SagaTyped /\ placed = {} /\ topo = <<>> /\ guard = 0 /\ order = <<>>
  <2>1. CASE S!Init
    <3>1. /\ sagaDeps \in [S!Rows -> SUBSET S!Rows] /\ S!Acyclic(sagaDeps)
          /\ steps \subseteq S!Rows
          /\ placed = {} /\ topo = <<>> /\ guard = 0 /\ sagaRow = 0 /\ order = <<>>
      BY <2>1 DEF S!Init
    <3>2. Cardinality(steps) \in Nat
      <4>1. IsFiniteSet(S!Rows)
        BY FS_Interval DEF S!Rows
      <4>2. IsFiniteSet(steps)
        BY <3>1, <4>1, FS_Subset
      <4> QED BY <4>2, FS_CardinalityType
    <3>3. 0 \in 0..(Cardinality(steps) + 1) /\ 0 \in 0..M /\ {} \subseteq steps
      BY <3>2
    <3> QED BY <3>1, <3>3 DEF SagaTyped, SagaGraph
  <2>2. CASE SagaEnded
    <3>1. Cardinality(steps) = 0
      BY <2>2, FS_EmptySet DEF SagaEnded
    <3>2. S!Acyclic(sagaDeps)
      <4>1. ASSUME NEW T \in (SUBSET S!Rows) \ {{}} PROVE \E s \in T : sagaDeps[s] \cap T = {}
        <5>1. PICK s \in T : s \in 1..M
          BY <4>1 DEF S!Rows
        <5> QED BY <2>2, <5>1 DEF SagaEnded
      <4> QED BY <4>1 DEF S!Acyclic
    <3>3. sagaDeps \in [S!Rows -> SUBSET S!Rows] /\ 0 \in 0..(0 + 1) /\ 0 \in 0..M
      BY <2>2 DEF SagaEnded, S!Rows
    <3> QED BY <2>2, <3>1, <3>2, <3>3 DEF SagaEnded, SagaTyped, SagaGraph
  <2> QED BY <2>1, <2>2
<1>2. Cardinality(placed) = 0
  BY <1>1, FS_EmptySet
<1> QED BY <1>1, <1>2 DEF SagaInv, Placement, PassesPlace, Returned

-----------------------------------------------------------------------------
(***************************************************************************)
(* The check of a definition: Kahn's algorithm visits the keys in an order *)
(* of their dependencies, and what it does not visit holds a cycle.        *)
(***************************************************************************)
DefinitionsTyped ==
  \A x \in Definitions : \E K, T : x \in Seq([key : K, deps : Seq(K), type : T])

Passed == D!Positions # {} /\ ~D!Repeated /\ ~D!UnknownDep /\ ~D!DependsOnItself

\* The dependencies of a step that are not in V, with repetitions.
Ahead(k, V) == {m \in DOMAIN D!StepOf(k).deps : D!StepOf(k).deps[m] \notin V}

\* V has been visited, in the order of rank.
VisitedInOrder(V, rank) ==
  /\ V \subseteq D!StepKeys /\ visited = Cardinality(V)
  /\ inDegree = [k \in D!StepKeys |-> Cardinality(Ahead(k, V))]
  /\ queue = {k \in D!StepKeys \ V : Ahead(k, V) = {}}
  /\ rank \in [V -> 1..visited]
  /\ \A k \in V : Ahead(k, V) = {}
                  /\ \A m \in DOMAIN D!StepOf(k).deps : rank[D!StepOf(k).deps[m]] < rank[k]

Searching == inDegree # [k \in {} |-> 0]

CheckInv ==
  IF verdict # "checking" THEN D!AcceptsExactlyRunnable
  ELSE /\ def \in Definitions
       /\ IF Searching THEN Passed /\ \E V, rank : VisitedInOrder(V, rank)
          ELSE visited = 0 /\ queue = {}

LEMMA DefinitionIsList ==
  ASSUME DefinitionsTyped, def \in Definitions
  PROVE  /\ Len(def) \in Nat /\ D!Positions = 1..Len(def)
         /\ \A n \in D!Positions : Len(def[n].deps) \in Nat
                                   /\ DOMAIN def[n].deps = 1..Len(def[n].deps)
PROOF
<1>1. PICK K, T : def \in Seq([key : K, deps : Seq(K), type : T])
  BY DEF DefinitionsTyped
<1> DEFINE X == [key : K, deps : Seq(K), type : T]
<1>2. Len(def) \in Nat /\ DOMAIN def = 1..Len(def)
  BY <1>1
<1>3. ASSUME NEW n \in DOMAIN def
      PROVE  Len(def[n].deps) \in Nat /\ DOMAIN def[n].deps = 1..Len(def[n].deps)
  <2>1. def[n] \in X
    <3>1. def \in Seq(X)
      BY <1>1
    <3> HIDE DEF X
    <3> QED BY <1>2, <1>3, <3>1
  <2>2. def[n].deps \in Seq(K)
    BY <2>1
  <2> QED BY <2>2
<1> QED BY <1>2, <1>3 DEF D!Positions

\* A key that occurs once stands for its step.
LEMMA OneStepPerKey ==
  ASSUME ~D!Repeated
  PROVE  /\ \A n \in D!Positions : def[n].key \in D!StepKeys /\ D!StepOf(def[n].key) = def[n]
         /\ \A k \in D!StepKeys : \E n \in D!Positions : def[n].key = k /\ D!StepOf(k) = def[n]
PROOF
<1>1. ASSUME NEW n \in D!Positions PROVE D!StepOf(def[n].key) = def[n]
  <2>1. \A m \in D!Positions : def[m].key = def[n].key <=> m = n
    BY DEF D!Repeated
  <2>2. (CHOOSE m \in D!Positions : def[m].key = def[n].key) = n
    BY <2>1
  <2> QED BY <2>2 DEF D!StepOf
<1> QED BY <1>1 DEF D!StepKeys

LEMMA AsManyKeysAsSteps ==
  ASSUME DefinitionsTyped, def \in Definitions, ~D!Repeated
  PROVE  IsFiniteSet(D!StepKeys) /\ Cardinality(D!StepKeys) = Len(def)
PROOF
<1> DEFINE f == [n \in 1..Len(def) |-> def[n].key]
<1>1. Len(def) \in Nat /\ D!Positions = 1..Len(def)
  BY DefinitionIsList
<1>2. IsFiniteSet(1..Len(def)) /\ Cardinality(1..Len(def)) = Len(def)
  BY <1>1, FS_Interval
<1>3. f \in Bijection(1..Len(def), D!StepKeys)
  <2>1. f \in [1..Len(def) -> D!StepKeys]
    BY <1>1 DEF D!StepKeys
  <2>2. \A m, n \in 1..Len(def) : f[m] = f[n] => m = n
    BY <1>1 DEF D!Repeated
  <2>3. \A k \in D!StepKeys : \E n \in 1..Len(def) : f[n] = k
    BY <1>1 DEF D!StepKeys
  <2> QED BY <2>1, <2>2, <2>3 DEF Bijection, Injection, Surjection, IsInjective
<1>4. ExistsBijection(1..Len(def), D!StepKeys)
  BY <1>3 DEF ExistsBijection
<1> QED BY <1>2, <1>4, FS_Bijection

\* Cardinality is that of the model, whichever way it was named.
LEMMA CardinalityOfCheck == ASSUME NEW T PROVE D!Cardinality(T) = Cardinality(T)
PROOF BY DEF D!Cardinality, Cardinality

LEMMA AheadFinite ==
  ASSUME DefinitionsTyped, def \in Definitions, ~D!Repeated, NEW k \in D!StepKeys, NEW V
  PROVE  /\ IsFiniteSet(DOMAIN D!StepOf(k).deps) /\ IsFiniteSet(Ahead(k, V))
         /\ Cardinality(Ahead(k, V)) \in Nat
         /\ Cardinality(Ahead(k, V)) = 0 <=> Ahead(k, V) = {}
         /\ Cardinality(Ahead(k, {})) = D!Degree(k)
PROOF
<1>1. PICK n \in D!Positions : D!StepOf(k) = def[n]
  BY OneStepPerKey
<1>2. /\ Len(D!StepOf(k).deps) \in Nat
      /\ DOMAIN D!StepOf(k).deps = 1..Len(D!StepOf(k).deps)
  BY <1>1, DefinitionIsList
<1>3. /\ IsFiniteSet(DOMAIN D!StepOf(k).deps)
      /\ Cardinality(DOMAIN D!StepOf(k).deps) = Len(D!StepOf(k).deps)
  BY <1>2, FS_Interval
<1>4. IsFiniteSet(Ahead(k, V))
  BY <1>3, FS_Subset DEF Ahead
<1>5. Cardinality(Ahead(k, V)) \in Nat /\ (Cardinality(Ahead(k, V)) = 0 <=> Ahead(k, V) = {})
  BY <1>4, FS_CardinalityType, FS_EmptySet
<1>6. Ahead(k, {}) = DOMAIN D!StepOf(k).deps
  BY DEF Ahead
<1> QED BY <1>3, <1>4, <1>5, <1>6 DEF D!Degree

\* The visit of k takes its mentions, and nothing else, off what is ahead.
LEMMA VisitDrops ==
  ASSUME DefinitionsTyped, def \in Definitions, ~D!Repeated,
         NEW V, NEW k \in D!StepKeys \ V, NEW d \in D!StepKeys
  PROVE  Cardinality(Ahead(d, V \cup {k})) = Cardinality(Ahead(d, V)) - D!Drop(k, d)
PROOF
<1> DEFINE drop == {m \in DOMAIN D!StepOf(d).deps : D!StepOf(d).deps[m] = k}
<1>1. drop \subseteq Ahead(d, V) /\ Ahead(d, V \cup {k}) = Ahead(d, V) \ drop
  BY DEF Ahead
<1>2. IsFiniteSet(Ahead(d, V)) /\ IsFiniteSet(drop)
  BY <1>1, AheadFinite, FS_Subset
<1>3. Ahead(d, V) \cap drop = drop
  BY <1>1
<1>4. Cardinality(Ahead(d, V) \ drop) = Cardinality(Ahead(d, V)) - Cardinality(drop)
  BY <1>2, <1>3, FS_Difference
<1>5. D!Drop(k, d) = Cardinality(drop)
  BY CardinalityOfCheck DEF D!Drop, D!Mentions
<1> QED BY <1>1, <1>4, <1>5

LEMMA CheckStarts ==
  ASSUME DefinitionsTyped, D!Init \/ CheckEnded
  PROVE  CheckInv
PROOF
<1>1. CASE D!Init
  BY <1>1 DEF D!Init, CheckInv, Searching
<1>2. CASE CheckEnded
  <2>1. D!Positions = {} /\ verdict = "empty"
    BY <1>2 DEF CheckEnded, D!Positions
  <2> QED BY <2>1 DEF CheckInv, D!AcceptsExactlyRunnable, D!Runnable
<1> QED BY <1>1, <1>2

\* What is said of a definition does not change while it is checked.
LEMMA SameDefinition ==
  ASSUME UNCHANGED def
  PROVE  /\ D!Positions' = D!Positions /\ D!StepKeys' = D!StepKeys /\ Passed' = Passed
         /\ D!Repeated' = D!Repeated /\ D!UnknownDep' = D!UnknownDep
         /\ D!DependsOnItself' = D!DependsOnItself /\ D!Runnable' = D!Runnable
         /\ \A k : D!StepOf(k)' = D!StepOf(k) /\ \A V : Ahead(k, V)' = Ahead(k, V)
PROOF
BY DEF D!Positions, D!StepKeys, D!Deps, Passed, D!Repeated, D!UnknownDep, D!DependsOnItself,
       D!Runnable, D!StepOf, Ahead

LEMMA CheckBegins ==
  ASSUME DefinitionsTyped, CheckInv, D!Check
  PROVE  CheckInv'
PROOF
<1>1. /\ verdict = "checking" /\ ~Searching /\ def \in Definitions /\ visited = 0 /\ queue = {}
      /\ UNCHANGED <<def, visited>>
      /\ verdict' = IF D!Positions = {} THEN "empty"
                    ELSE IF D!Repeated THEN "duplicate"
                    ELSE IF D!UnknownDep THEN "unknown"
                    ELSE IF D!DependsOnItself THEN "self" ELSE "checking"
      /\ IF verdict' # "checking" THEN UNCHANGED <<inDegree, queue>>
         ELSE /\ inDegree' = [k \in D!StepKeys |-> D!Degree(k)]
              /\ queue' = {k \in D!StepKeys : D!Degree(k) = 0}
  BY DEF D!Check, CheckInv, Searching
<1> USE <1>1, SameDefinition
<1>2. CASE verdict' # "checking"
  <2>1. verdict' # "ok" /\ (D!Positions = {} \/ D!Repeated \/ D!UnknownDep \/ D!DependsOnItself)
    BY <1>2
  <2>2. ~D!Runnable
    <3>1. SUFFICES ASSUME D!Runnable, D!DependsOnItself PROVE FALSE
      BY <2>1 DEF D!Runnable
    <3>2. PICK rank : /\ rank \in [D!StepKeys -> 1..Len(def)]
                      /\ \A n \in D!Positions : \A d \in D!Deps(n) : rank[d] < rank[def[n].key]
      BY <3>1 DEF D!Runnable
    <3>3. PICK n \in D!Positions : def[n].key \in D!Deps(n)
      BY <3>1 DEF D!DependsOnItself
    <3>4. rank[def[n].key] \in 1..Len(def) /\ rank[def[n].key] < rank[def[n].key]
      BY <3>2, <3>3 DEF D!StepKeys
    <3>5. rank[def[n].key] \in Nat
      BY <3>4, DefinitionIsList
    <3> QED BY <3>4, <3>5
  <2> QED BY <1>2, <2>1, <2>2 DEF CheckInv, D!AcceptsExactlyRunnable
<1>3. CASE verdict' = "checking"
  <2>1. Passed
    BY <1>3 DEF Passed
  <2>2. Searching'
    <3>1. PICK n \in D!Positions : TRUE
      BY <2>1 DEF Passed
    <3>2. def[n].key \in DOMAIN inDegree'
      BY <1>3 DEF D!StepKeys
    <3> QED BY <3>2 DEF Searching
  <2>3. /\ inDegree' = [k \in D!StepKeys |-> Cardinality(Ahead(k, {}))]
        /\ queue' = {k \in D!StepKeys \ {} : Ahead(k, {}) = {}}
    BY <1>3, <2>1, AheadFinite DEF Passed
  <2> DEFINE none == [k \in {} |-> 0]
  <2>4. none \in [{} -> 1..visited] /\ Cardinality({}) = 0
    BY FS_EmptySet
  <2>5. VisitedInOrder({}, none)'
    BY <2>3, <2>4 DEF VisitedInOrder
  <2> QED BY <1>3, <2>1, <2>2, <2>5 DEF CheckInv
<1> QED BY <1>2, <1>3

LEMMA KeyVisitKeeps ==
  ASSUME DefinitionsTyped, CheckInv, D!Visit
  PROVE  CheckInv'
PROOF
<1>1. /\ verdict = "checking" /\ def \in Definitions /\ UNCHANGED <<def, verdict>>
      /\ visited' = visited + 1 /\ queue # {}
  BY DEF D!Visit, CheckInv
<1>2. Passed /\ Searching
  BY <1>1 DEF CheckInv
<1>3. PICK V, rank : VisitedInOrder(V, rank)
  BY <1>1, <1>2 DEF CheckInv
<1>4. PICK k \in queue :
        /\ inDegree' = [d \in D!StepKeys |-> inDegree[d] - D!Drop(k, d)]
        /\ queue' = (queue \ {k}) \cup {d \in D!StepKeys : inDegree[d] > 0 /\ inDegree'[d] = 0}
  BY DEF D!Visit
<1> USE <1>1, <1>2, SameDefinition DEF Passed
<1>5. k \in D!StepKeys \ V /\ Ahead(k, V) = {}
  BY <1>3, <1>4 DEF VisitedInOrder
<1> DEFINE W == V \cup {k}
           place == [d \in W |-> IF d = k THEN visited + 1 ELSE rank[d]]
<1>6. IsFiniteSet(V) /\ visited \in Nat /\ Cardinality(W) = visited + 1
  <2>1. V \subseteq D!StepKeys /\ visited = Cardinality(V)
    BY <1>3 DEF VisitedInOrder
  <2>2. IsFiniteSet(V)
    BY <2>1, AsManyKeysAsSteps, FS_Subset
  <2> QED BY <1>5, <2>1, <2>2, FS_AddElement, FS_CardinalityType
<1>7. inDegree' = [d \in D!StepKeys |-> Cardinality(Ahead(d, W))]
  BY <1>3, <1>4, <1>5, VisitDrops DEF VisitedInOrder
<1>8. queue' = {d \in D!StepKeys \ W : Ahead(d, W) = {}}
  <2>1. ASSUME NEW d \in D!StepKeys
        PROVE  d \in queue' <=> d \notin W /\ Ahead(d, W) = {}
    <3>1. /\ inDegree[d] = Cardinality(Ahead(d, V)) /\ inDegree'[d] = Cardinality(Ahead(d, W))
          /\ inDegree[d] \in Nat /\ inDegree'[d] \in Nat
          /\ (inDegree[d] = 0 <=> Ahead(d, V) = {}) /\ (inDegree'[d] = 0 <=> Ahead(d, W) = {})
      BY <1>3, <1>7, AheadFinite DEF VisitedInOrder
    <3>2. d \in queue <=> d \notin V /\ Ahead(d, V) = {}
      BY <1>3 DEF VisitedInOrder
    <3>3. Ahead(d, W) \subseteq Ahead(d, V) /\ (d \in V => Ahead(d, V) = {})
      BY <1>3 DEF Ahead, VisitedInOrder
    <3>4. d \in queue' <=> (d \in queue /\ d # k) \/ (inDegree[d] > 0 /\ inDegree'[d] = 0)
      BY <1>4
    <3>5. inDegree[d] > 0 <=> Ahead(d, V) # {}
      BY <3>1
    <3> QED BY <1>5, <3>1, <3>2, <3>3, <3>4, <3>5
  <2>2. queue' \subseteq D!StepKeys
    BY <1>3, <1>4 DEF VisitedInOrder
  <2> QED BY <2>1, <2>2
<1>9. place \in [W -> 1..(visited + 1)]
  BY <1>3, <1>6 DEF VisitedInOrder
<1>10. ASSUME NEW d \in W
       PROVE  /\ Ahead(d, W) = {}
              /\ \A m \in DOMAIN D!StepOf(d).deps : place[D!StepOf(d).deps[m]] < place[d]
  <2>1. Ahead(d, V) = {} /\ Ahead(d, W) = {}
    BY <1>3, <1>5 DEF VisitedInOrder, Ahead
  <2>2. ASSUME NEW m \in DOMAIN D!StepOf(d).deps
        PROVE  place[D!StepOf(d).deps[m]] < place[d]
    <3> DEFINE e == D!StepOf(d).deps[m]
    <3>1. e \in V /\ e # k /\ e \in W
      BY <1>5, <2>1 DEF Ahead
    <3>2. place[e] = rank[e] /\ rank[e] \in 1..visited
      BY <1>3, <3>1 DEF VisitedInOrder
    <3>3. CASE d = k
      <4>1. place[d] = visited + 1
        BY <3>3
      <4> QED BY <1>6, <3>2, <4>1
    <3>4. CASE d # k
      <4>1. place[d] = rank[d] /\ d \in V
        BY <3>4
      <4>2. rank[e] < rank[d]
        BY <1>3, <4>1 DEF VisitedInOrder
      <4> QED BY <3>2, <4>1, <4>2
    <3> QED BY <3>3, <3>4
  <2> QED BY <2>1, <2>2
<1>11. \E U, f : VisitedInOrder(U, f)'
  <2>1. W \subseteq D!StepKeys
    BY <1>3, <1>5 DEF VisitedInOrder
  <2>2. place \in [W -> 1..visited']
    BY <1>9
  <2> HIDE DEF W, place
  <2>3. \A d \in W : Ahead(d, W)' = {}
                    /\ \A m \in DOMAIN D!StepOf(d)'.deps : place[D!StepOf(d)'.deps[m]] < place[d]
    BY <1>10
  <2>4. /\ inDegree' = [d \in D!StepKeys' |-> Cardinality(Ahead(d, W)')]
        /\ queue' = {d \in D!StepKeys' \ W : Ahead(d, W)' = {}}
    BY <1>7, <1>8
  <2>5. ASSUME NEW U, U = W, NEW f, f = place
        PROVE  VisitedInOrder(U, f)'
    BY <1>6, <2>1, <2>2, <2>3, <2>4, <2>5 DEF VisitedInOrder
  <2> QED BY <2>5
<1>12. Searching'
  <2>1. k \in DOMAIN inDegree'
    BY <1>5, <1>7
  <2> QED BY <2>1 DEF Searching
<1> QED BY <1>11, <1>12 DEF CheckInv

\* What the visits leave out depends on itself, in the end.
LEMMA LeftOutIsCyclic ==
  ASSUME DefinitionsTyped, def \in Definitions, Passed, NEW V, V \subseteq D!StepKeys,
         V # D!StepKeys, \A k \in D!StepKeys \ V : Ahead(k, V) # {}
  PROVE  ~D!Runnable
PROOF
<1> USE DEF Passed
<1>1. SUFFICES ASSUME D!Runnable PROVE FALSE
  OBVIOUS
<1>2. PICK rank : /\ rank \in [D!StepKeys -> 1..Len(def)]
                  /\ \A n \in D!Positions : \A d \in D!Deps(n) : rank[d] < rank[def[n].key]
  BY <1>1 DEF D!Runnable
<1>3. \A k \in D!StepKeys : rank[k] \in Nat
  BY <1>2, DefinitionIsList
<1> DEFINE T == {rank[k] : k \in D!StepKeys \ V}
<1>4. PICK r \in T : \A s \in T : r <= s
  <2>1. T \in SUBSET Nat /\ T # {}
    BY <1>3
  <2> HIDE DEF T
  <2> QED BY <2>1, Least
<1>5. PICK k \in D!StepKeys \ V : rank[k] = r
  BY <1>4
<1>6. PICK n \in D!Positions : def[n].key = k /\ D!StepOf(k) = def[n]
  BY <1>5, OneStepPerKey
<1>7. PICK m \in DOMAIN def[n].deps : def[n].deps[m] \notin V
  BY <1>5, <1>6 DEF Ahead
<1>8. def[n].deps[m] \in D!Deps(n) /\ def[n].deps[m] \in D!StepKeys \ V
  BY <1>7 DEF D!Deps, D!UnknownDep
<1>9. rank[def[n].deps[m]] < r
  BY <1>2, <1>5, <1>6, <1>8
<1> QED BY <1>3, <1>4, <1>5, <1>8, <1>9

LEMMA ConcludeKeeps ==
  ASSUME DefinitionsTyped, CheckInv, D!Conclude
  PROVE  CheckInv'
PROOF
<1>1. /\ verdict = "checking" /\ Searching /\ def \in Definitions /\ queue = {} /\ Passed
      /\ UNCHANGED <<def, inDegree, queue, visited>>
      /\ verdict' = IF visited # Len(def) THEN "cycle"
                    ELSE IF \E n \in D!Positions : def[n].type \notin Registered THEN "handler"
                    ELSE "ok"
  BY DEF D!Conclude, CheckInv, Searching
<1>2. PICK V, rank : VisitedInOrder(V, rank)
  BY <1>1 DEF CheckInv
<1> USE <1>1, SameDefinition DEF Passed
<1>3. IsFiniteSet(D!StepKeys) /\ Cardinality(D!StepKeys) = Len(def)
  BY AsManyKeysAsSteps
<1>4. V \subseteq D!StepKeys /\ visited = Cardinality(V)
  BY <1>2 DEF VisitedInOrder
<1>5. CASE V = D!StepKeys
  <2>1. visited = Len(def) /\ rank \in [D!StepKeys -> 1..Len(def)]
    BY <1>2, <1>3, <1>4, <1>5 DEF VisitedInOrder
  <2>2. \A n \in D!Positions : \A d \in D!Deps(n) : rank[d] < rank[def[n].key]
    <3>1. SUFFICES ASSUME NEW n \in D!Positions, NEW d \in D!Deps(n)
                   PROVE  rank[d] < rank[def[n].key]
      OBVIOUS
    <3>2. PICK m \in DOMAIN def[n].deps : d = def[n].deps[m]
      BY <3>1 DEF D!Deps
    <3>3. def[n].key \in V /\ D!StepOf(def[n].key) = def[n]
      BY <1>5, <3>1, OneStepPerKey
    <3> QED BY <1>2, <3>2, <3>3 DEF VisitedInOrder
  <2>3. verdict' \in {"ok", "handler"}
        /\ (verdict' = "ok" <=> \A n \in D!Positions : def[n].type \in Registered)
    BY <2>1
  <2>4. verdict' = "ok" <=> D!Runnable
    BY <2>1, <2>2, <2>3 DEF D!Runnable
  <2> QED BY <2>3, <2>4 DEF CheckInv, D!AcceptsExactlyRunnable
<1>6. CASE V # D!StepKeys
  <2>1. visited # Len(def)
    BY <1>3, <1>4, <1>6, FS_Subset
  <2>2. ~D!Runnable
    BY <1>2, <1>4, <1>6, LeftOutIsCyclic DEF VisitedInOrder
  <2> QED BY <2>1, <2>2 DEF CheckInv, D!AcceptsExactlyRunnable
<1> QED BY <1>5, <1>6

LEMMA CheckKeeps ==
  ASSUME DefinitionsTyped, CheckInv, [D!Next]_(D!vars)
  PROVE  CheckInv'
PROOF
<1>1. CASE UNCHANGED D!vars
  <2>1. UNCHANGED <<def, inDegree, queue, visited, verdict>>
    BY <1>1 DEF D!vars
  <2>2. ASSUME NEW V, NEW rank, VisitedInOrder(V, rank)
        PROVE  VisitedInOrder(V, rank)'
    <3> USE SameDefinition
    <3>1. /\ inDegree' = [d \in D!StepKeys' |-> Cardinality(Ahead(d, V)')]
          /\ queue' = {d \in D!StepKeys' \ V : Ahead(d, V)' = {}}
      BY <2>1, <2>2 DEF VisitedInOrder
    <3>2. \A d \in V : /\ Ahead(d, V)' = {}
                      /\ \A m \in DOMAIN D!StepOf(d)'.deps :
                           rank[D!StepOf(d)'.deps[m]] < rank[d]
      BY <2>1, <2>2 DEF VisitedInOrder
    <3> QED BY <2>1, <2>2, <3>1, <3>2 DEF VisitedInOrder
  <2> QED BY <2>1, <2>2, SameDefinition DEF CheckInv, D!AcceptsExactlyRunnable, Searching
<1> QED BY <1>1, CheckBegins, KeyVisitKeeps, ConcludeKeeps DEF D!Next

-----------------------------------------------------------------------------
(***************************************************************************)
(* The attempt of a step: explicitRetryability's walk meets the outermost  *)
(* marker of the chain of causes, if there is one within its depth.        *)
(***************************************************************************)
AttemptsTyped ==
  /\ MaxDepth \in Nat /\ Thrown \in Errors
  /\ None \notin BOOLEAN /\ None \notin Errors
  /\ None \notin {"yes", "no", "throws", "explicit", "heuristic", "retried", "failed", "completed",
                  "skipped"}
  /\ \A k \in Attempts :
       /\ k.when \in {None, "yes", "no", "throws"}
       /\ k.predicate \in {None} \cup BOOLEAN /\ k.default \in {None} \cup BOOLEAN
       /\ k.mark \in [Errors -> {None} \cup BOOLEAN]
       /\ k.cause \in [Errors -> Errors \cup {None}]

\* The next error of the chain.
After(e) == IF e = None THEN None ELSE call.cause[e]

IsChain(g, k) == g = [n \in 0..k |-> IF n = 0 THEN Thrown ELSE After(g[n - 1])]

LEMMA ChainExists ==
  ASSUME NEW k \in Nat
  PROVE  \E g : IsChain(g, k)
PROOF
<1> DEFINE T == {n \in Nat : ~\E g : IsChain(g, n)}
<1>1. SUFFICES ASSUME T # {} PROVE FALSE
  OBVIOUS
<1>2. PICK n \in T : \A m \in T : n <= m
  <2>1. T \in SUBSET Nat
    OBVIOUS
  <2> HIDE DEF T
  <2> QED BY <1>1, <2>1, Least
<1>3. CASE n = 0
  <2> DEFINE g == [m \in 0..0 |-> Thrown]
  <2>1. IsChain(g, 0)
    BY DEF IsChain
  <2> QED BY <1>2, <1>3, <2>1
<1>4. CASE n # 0
  <2>1. n - 1 \in Nat /\ n - 1 \notin T
    BY <1>2, <1>4
  <2>2. PICK g : IsChain(g, n - 1)
    BY <2>1
  <2> DEFINE h == [m \in 0..n |-> IF m = n THEN After(g[n - 1]) ELSE g[m]]
  <2>3. ASSUME NEW m \in 0..n PROVE h[m] = IF m = 0 THEN Thrown ELSE After(h[m - 1])
    <3>1. CASE m = n
      <4>1. n - 1 \in 0..n /\ n - 1 # n
        BY <2>1
      <4>2. h[n - 1] = g[n - 1] /\ h[n] = After(g[n - 1])
        BY <4>1
      <4> QED BY <1>4, <3>1, <4>2
    <3>2. CASE m # n
      <4>1. m \in 0..(n - 1) /\ h[m] = g[m]
        BY <3>2
      <4>2. g[m] = IF m = 0 THEN Thrown ELSE After(g[m - 1])
        BY <2>2, <4>1 DEF IsChain
      <4>3. m # 0 => m - 1 \in 0..n /\ m - 1 # n /\ h[m - 1] = g[m - 1]
        BY <2>1, <4>1
      <4> QED BY <4>1, <4>2, <4>3
    <3> QED BY <3>1, <3>2
  <2>4. h = [m \in 0..n |-> IF m = 0 THEN Thrown ELSE After(h[m - 1])]
    <3>1. h = [m \in 0..n |-> h[m]]
      OBVIOUS
    <3> HIDE DEF h
    <3> QED BY <2>3, <3>1
  <2>5. IsChain(h, n)
    <3> HIDE DEF h
    <3> QED BY <2>4 DEF IsChain
  <2> QED BY <1>2, <2>5
<1> QED BY <1>3, <1>4

\* Hop is that chain.
LEMMA HopIsChain ==
  ASSUME MaxDepth \in Nat
  PROVE  IsChain(C!Hop, MaxDepth)
PROOF
<1>1. \E g : IsChain(g, MaxDepth)
  BY ChainExists
<1>2. C!Hop = CHOOSE g : IsChain(g, MaxDepth)
  BY DEF C!Hop, IsChain, After
<1> QED BY <1>1, <1>2

LEMMA HopValues ==
  ASSUME MaxDepth \in Nat
  PROVE  /\ C!Hop[0] = Thrown
         /\ \A n \in 1..MaxDepth : C!Hop[n] = After(C!Hop[n - 1])
PROOF
<1>1. C!Hop = [n \in 0..MaxDepth |-> IF n = 0 THEN Thrown ELSE After(C!Hop[n - 1])]
  BY HopIsChain DEF IsChain
<1>2. \A n \in 0..MaxDepth : C!Hop[n] = IF n = 0 THEN Thrown ELSE After(C!Hop[n - 1])
  BY <1>1
<1> QED BY <1>2

LEMMA HopType ==
  ASSUME AttemptsTyped, call \in Attempts
  PROVE  \A n \in 0..MaxDepth : C!Hop[n] \in Errors \cup {None}
PROOF
<1> DEFINE T == {n \in Nat : n <= MaxDepth /\ C!Hop[n] \notin Errors \cup {None}}
<1>1. SUFFICES ASSUME T # {} PROVE FALSE
  BY DEF AttemptsTyped
<1>2. PICK n \in T : \A m \in T : n <= m
  <2>1. T \in SUBSET Nat
    OBVIOUS
  <2> HIDE DEF T
  <2> QED BY <1>1, <2>1, Least
<1>3. n # 0
  BY <1>2, HopValues DEF AttemptsTyped
<1>4. n - 1 \in Nat /\ n - 1 \notin T /\ n \in 1..MaxDepth
  BY <1>2, <1>3 DEF AttemptsTyped
<1>5. C!Hop[n - 1] \in Errors \cup {None}
  BY <1>4 DEF AttemptsTyped
<1>6. C!Hop[n] = After(C!Hop[n - 1])
  BY <1>4, HopValues DEF AttemptsTyped
<1>7. C!Hop[n] \in Errors \cup {None}
  BY <1>5, <1>6 DEF After, AttemptsTyped
<1> QED BY <1>2, <1>7

(***************************************************************************)
(* The walk has passed the first `depth` errors of the chain and found no  *)
(* marker on them.                                                         *)
(***************************************************************************)
Walked ==
  /\ depth \in 0..MaxDepth /\ at = C!Hop[depth]
  /\ seen = {C!Hop[n] : n \in 0..(depth - 1)}
  /\ \A n \in 0..(depth - 1) : C!Hop[n] # None /\ call.mark[C!Hop[n]] = None

\* Where the chain ends or comes back, nothing new follows.
LEMMA NothingNewFollows ==
  ASSUME AttemptsTyped, call \in Attempts, Walked, at = None \/ at \in seen,
         NEW k \in depth..MaxDepth
  PROVE  C!Hop[k] = None \/ \E j \in 0..(depth - 1) : C!Hop[k] = C!Hop[j]
PROOF
<1> DEFINE New(n) == C!Hop[n] # None /\ \A j \in 0..(depth - 1) : C!Hop[n] # C!Hop[j]
           T == {n \in Nat : depth <= n /\ n <= MaxDepth /\ New(n)}
<1>1. SUFFICES ASSUME T # {} PROVE FALSE
  BY DEF Walked, AttemptsTyped
<1>2. PICK n \in T : \A m \in T : n <= m
  <2>1. T \in SUBSET Nat
    OBVIOUS
  <2> HIDE DEF T
  <2> QED BY <1>1, <2>1, Least
<1>3. ~New(depth)
  BY DEF Walked
<1>4. /\ n \in Nat /\ depth < n /\ n <= MaxDepth /\ New(n) /\ depth \in Nat
      /\ n - 1 \in Nat /\ ~New(n - 1) /\ n \in 1..MaxDepth
  BY <1>2, <1>3 DEF Walked, AttemptsTyped
<1>5. C!Hop[n] = After(C!Hop[n - 1])
  BY <1>4, HopValues DEF AttemptsTyped
<1>6. C!Hop[n - 1] # None
  BY <1>4, <1>5 DEF After
<1>7. PICK j \in 0..(depth - 1) : C!Hop[n - 1] = C!Hop[j]
  BY <1>4, <1>6
<1>8. j + 1 \in 1..MaxDepth /\ j + 1 - 1 = j
  BY <1>4, <1>7 DEF AttemptsTyped
<1>9. C!Hop[n] = C!Hop[j + 1]
  <2>1. C!Hop[j + 1] = After(C!Hop[j])
    BY <1>8, HopValues DEF AttemptsTyped
  <2> QED BY <1>5, <1>7, <2>1
<1>10. CASE j + 1 = depth
  BY <1>3, <1>4, <1>9, <1>10
<1>11. CASE j + 1 # depth
  <2>1. j + 1 \in 0..(depth - 1)
    BY <1>4, <1>7, <1>11
  <2> QED BY <1>4, <1>9, <2>1
<1> QED BY <1>10, <1>11

\* So what it says when it stops is the outermost marker.
LEMMA NobodySaid ==
  ASSUME AttemptsTyped, call \in Attempts, Walked,
         depth = MaxDepth \/ at = None \/ at \in seen
  PROVE  C!Said = None
PROOF
<1>1. ASSUME NEW n \in 0..(MaxDepth - 1) PROVE C!Hop[n] = None \/ call.mark[C!Hop[n]] = None
  <2>1. CASE n \in 0..(depth - 1)
    BY <2>1 DEF Walked
  <2>2. CASE n \notin 0..(depth - 1)
    <3>1. n \in depth..MaxDepth /\ depth # MaxDepth
      BY <1>1, <2>2 DEF Walked, AttemptsTyped
    <3>2. C!Hop[n] = None \/ \E j \in 0..(depth - 1) : C!Hop[n] = C!Hop[j]
      BY <3>1, NothingNewFollows
    <3> QED BY <3>2 DEF Walked
  <2> QED BY <2>1, <2>2
<1>2. C!MarkedAt = {}
  BY <1>1 DEF C!MarkedAt
<1> QED BY <1>2 DEF C!Said

LEMMA SomebodySaid ==
  ASSUME AttemptsTyped, call \in Attempts, Walked,
         depth # MaxDepth, at # None, call.mark[at] # None
  PROVE  C!Said = call.mark[at]
PROOF
<1>1. depth \in C!MarkedAt
  BY DEF Walked, C!MarkedAt, AttemptsTyped
<1>2. \A n \in C!MarkedAt : depth <= n /\ n \in Nat /\ depth \in Nat
  BY DEF Walked, C!MarkedAt, AttemptsTyped
<1>3. \A n \in C!MarkedAt : (\A m \in C!MarkedAt : n <= m) <=> n = depth
  BY <1>1, <1>2
<1>4. (CHOOSE n \in C!MarkedAt : \A m \in C!MarkedAt : n <= m) = depth
  BY <1>1, <1>3
<1> QED BY <1>1, <1>4 DEF C!Said, Walked

(***************************************************************************)
(* Where an attempt is says what has been checked; what is to be decided   *)
(* upon is what was thrown, with what was said of it.                      *)
(***************************************************************************)
Accepted == call.input = "valid" /\ C!Acceptable(call.dep)

Judged ==
  IF C!ErrorReached THEN result = C!Classified(C!Said)
  ELSE \/ result.ok = TRUE
       \/ result = C!Bad(FALSE, None)
       \/ result = C!Bad(TRUE, "explicit") /\ call.handler = "hangs"

CallInv ==
  \/ pc = "over" /\ outcome = "skipped" /\ ~handled
  \/ /\ call \in Attempts
     /\ pc \in {"input", "guard", "handler", "walk", "decide", "over"}
     /\ pc # "over" => outcome = None
     /\ pc = "input" => at = Thrown /\ depth = 0 /\ seen = {}
     /\ pc = "guard" => at = Thrown /\ depth = 0 /\ seen = {} /\ Accepted /\ call.when # None
     /\ pc = "handler" => /\ at = Thrown /\ depth = 0 /\ seen = {}
                          /\ Accepted /\ call.when \in {None, "yes"}
     /\ handled => Accepted /\ call.when \in {None, "yes"}
     /\ pc = "walk" => C!ErrorReached /\ Walked
     /\ pc = "decide" => Judged
     /\ pc = "over" => C!NoDecisionOverridden

LEMMA WalkBegins ==
  ASSUME AttemptsTyped, call \in Attempts, at = Thrown, depth = 0, seen = {}
  PROVE  Walked
PROOF
<1>1. 0..(0 - 1) = {} /\ 0 \in 0..MaxDepth
  BY DEF AttemptsTyped
<1>2. C!Hop[0] = Thrown
  BY HopValues DEF AttemptsTyped
<1> QED BY <1>1, <1>2 DEF Walked

\* What an attempt says does not change while it runs.
LEMMA SameAttempt ==
  ASSUME UNCHANGED call
  PROVE  /\ C!ErrorReached' = C!ErrorReached /\ C!Said' = C!Said /\ Accepted' = Accepted
         /\ C!Hop' = C!Hop
         /\ \A m : C!Classified(m)' = C!Classified(m)
PROOF
<1>1. C!Hop' = C!Hop
  BY DEF C!Hop
<1>2. C!MarkedAt' = C!MarkedAt
  BY <1>1 DEF C!MarkedAt
<1>3. C!Said' = C!Said
  BY <1>1, <1>2 DEF C!Said
<1> QED BY <1>1, <1>3 DEF C!ErrorReached, C!Acceptable, Accepted, C!Classified, C!Guess, C!Bad,
                          C!Transient

LEMMA CallStarts ==
  ASSUME AttemptsTyped, C!Init \/ AttemptEnded
  PROVE  CallInv
PROOF BY DEF C!Init, AttemptEnded, CallInv

LEMMA WalkKeeps ==
  ASSUME AttemptsTyped, CallInv, C!Walk
  PROVE  CallInv'
PROOF
<1>1. /\ pc = "walk" /\ call \in Attempts /\ C!ErrorReached /\ Walked /\ outcome = None
      /\ handled => Accepted /\ call.when \in {None, "yes"}
      /\ UNCHANGED <<call, handled, outcome>>
  BY DEF CallInv, C!Walk
<1>2. /\ C!ErrorReached' = C!ErrorReached /\ C!Said' = C!Said /\ Accepted' = Accepted
      /\ C!Hop' = C!Hop /\ \A m : C!Classified(m)' = C!Classified(m)
  BY <1>1, SameAttempt
<1>3. ASSUME result' = C!Classified(C!Said), pc' = "decide" PROVE CallInv'
  <2>1. Judged'
    BY <1>1, <1>2, <1>3 DEF Judged
  <2> QED BY <1>1, <1>2, <1>3, <2>1 DEF CallInv
<1>4. CASE depth = MaxDepth \/ at = None \/ at \in seen
  <2>1. result' = C!Classified(None) /\ pc' = "decide"
    BY <1>4 DEF C!Walk
  <2>2. C!Said = None
    BY <1>1, <1>4, NobodySaid
  <2> QED BY <1>3, <2>1, <2>2
<1>5. CASE ~(depth = MaxDepth \/ at = None \/ at \in seen) /\ call.mark[at] # None
  <2>1. result' = C!Classified(call.mark[at]) /\ pc' = "decide"
    BY <1>5 DEF C!Walk
  <2>2. C!Said = call.mark[at]
    BY <1>1, <1>5, SomebodySaid
  <2> QED BY <1>3, <2>1, <2>2
<1>6. CASE ~(depth = MaxDepth \/ at = None \/ at \in seen) /\ call.mark[at] = None
  <2>1. /\ seen' = seen \cup {at} /\ depth' = depth + 1 /\ at' = call.cause[at]
        /\ UNCHANGED <<result, pc>>
    BY <1>6 DEF C!Walk
  <2>2. /\ depth \in Nat /\ depth' \in 0..MaxDepth /\ depth' \in 1..MaxDepth
        /\ depth' - 1 = depth /\ 0..(depth' - 1) = 0..(depth - 1) \cup {depth}
    BY <1>1, <1>6, <2>1 DEF Walked, AttemptsTyped
  <2>3. C!Hop[depth'] = After(C!Hop[depth])
    BY <2>2, HopValues DEF AttemptsTyped
  <2>4. at' = C!Hop[depth']
    BY <1>1, <1>6, <2>1, <2>3 DEF After, Walked
  <2>5. /\ seen' = {C!Hop[n] : n \in 0..(depth' - 1)}
        /\ \A n \in 0..(depth' - 1) : C!Hop[n] # None /\ call.mark[C!Hop[n]] = None
    BY <1>1, <1>6, <2>1, <2>2 DEF Walked
  <2>6. Walked'
    BY <1>1, <1>2, <2>2, <2>4, <2>5 DEF Walked
  <2> QED BY <1>1, <1>2, <2>1, <2>6 DEF CallInv
<1> QED BY <1>4, <1>5, <1>6

LEMMA SaidType ==
  ASSUME AttemptsTyped, call \in Attempts
  PROVE  C!Said \in {None} \cup BOOLEAN
PROOF
<1>1. CASE C!MarkedAt = {}
  BY <1>1 DEF C!Said
<1>2. CASE C!MarkedAt # {}
  <2>1. C!MarkedAt \in SUBSET Nat /\ C!MarkedAt \subseteq 0..MaxDepth
    BY DEF C!MarkedAt, AttemptsTyped
  <2>2. \E n \in C!MarkedAt : \A m \in C!MarkedAt : n <= m
    BY <1>2, <2>1, Least
  <2> DEFINE first == CHOOSE n \in C!MarkedAt : \A m \in C!MarkedAt : n <= m
  <2>3. first \in C!MarkedAt
    BY <2>2
  <2>4. C!Hop[first] \in Errors
    BY <2>1, <2>3, HopType DEF C!MarkedAt
  <2>5. C!Said = call.mark[C!Hop[first]]
    BY <1>2 DEF C!Said
  <2> QED BY <2>4, <2>5 DEF AttemptsTyped
<1> QED BY <1>1, <1>2

LEMMA DecideKeeps ==
  ASSUME AttemptsTyped, CallInv, C!Decide
  PROVE  CallInv'
PROOF
<1>1. /\ pc = "decide" /\ call \in Attempts /\ Judged
      /\ handled => Accepted /\ call.when \in {None, "yes"}
      /\ UNCHANGED <<call, handled, at, depth, seen, result>> /\ pc' = "over"
      /\ outcome' = CASE result.ok -> "completed"
                  [] ~result.ok /\ C!ShouldRetry(result) /\ call.attempt < call.maxAttempts -> "retried"
                  [] OTHER -> "failed"
  BY DEF CallInv, C!Decide
<1>2. /\ C!ErrorReached' = C!ErrorReached /\ C!Said' = C!Said /\ Accepted' = Accepted
      /\ \A m : C!Classified(m)' = C!Classified(m)
  BY <1>1, SameAttempt
<1>3. C!Said \in {None} \cup BOOLEAN /\ C!Guess \in BOOLEAN
  BY <1>1, SaidType DEF C!Guess
<1>4. call.predicate \in {None} \cup BOOLEAN /\ call.default \in {None} \cup BOOLEAN
  BY <1>1 DEF AttemptsTyped
<1>5. None \notin BOOLEAN /\ None # "heuristic"
  BY DEF AttemptsTyped
<1> DEFINE wanted == IF C!Said # None THEN C!Said
                     ELSE IF call.predicate # None THEN call.predicate
                     ELSE IF call.default # None THEN call.default ELSE C!Guess
<1>6. CASE C!ErrorReached
  <2>1. result = C!Classified(C!Said)
    BY <1>1, <1>6 DEF Judged
  <2>2. result.ok = FALSE
    BY <2>1 DEF C!Classified, C!Bad
  <2>3. C!ShouldRetry(result) = wanted /\ wanted \in BOOLEAN
    <3>1. CASE C!Said # None
      <4>1. result = C!Bad(C!Said, "explicit")
        BY <2>1, <3>1 DEF C!Classified
      <4> QED BY <1>3, <3>1, <4>1 DEF C!ShouldRetry, C!Bad
    <3>2. CASE C!Said = None /\ call.predicate # None
      <4>1. result = C!Bad(call.predicate, "predicate")
        BY <2>1, <3>2 DEF C!Classified
      <4> QED BY <1>4, <3>2, <4>1 DEF C!ShouldRetry, C!Bad
    <3>3. CASE C!Said = None /\ call.predicate = None
      <4>1. result = C!Bad(C!Guess, "heuristic")
        BY <2>1, <3>3 DEF C!Classified
      <4> QED BY <1>3, <1>4, <3>3, <4>1 DEF C!ShouldRetry, C!Bad
    <3> QED BY <3>1, <3>2, <3>3
  <2> HIDE DEF wanted
  <2>4. outcome' = IF wanted /\ call.attempt < call.maxAttempts THEN "retried" ELSE "failed"
    BY <1>1, <2>2, <2>3
  <2> USE DEF wanted
  <2>5. C!NoDecisionOverridden'
    BY <1>1, <1>2, <1>6, <2>3, <2>4 DEF C!NoDecisionOverridden, Accepted, C!Acceptable, C!Guess,
                                     C!Transient
  <2> QED BY <1>1, <1>2, <2>5 DEF CallInv
<1>7. CASE ~C!ErrorReached
  <2>1. \/ result.ok = TRUE
        \/ result = C!Bad(FALSE, None)
        \/ result = C!Bad(TRUE, "explicit") /\ call.handler = "hangs"
    BY <1>1, <1>7 DEF Judged
  <2>2. outcome' = "retried" => call.attempt < call.maxAttempts /\ call.handler = "hangs"
    <3>1. CASE result.ok = TRUE
      BY <1>1, <3>1
    <3>2. CASE result = C!Bad(FALSE, None)
      <4>1. result.ok = FALSE /\ C!ShouldRetry(result) = FALSE
        BY <1>5, <3>2 DEF C!Bad, C!ShouldRetry
      <4> QED BY <1>1, <4>1
    <3>3. CASE result = C!Bad(TRUE, "explicit") /\ call.handler = "hangs"
      <4>1. result.ok = FALSE /\ C!ShouldRetry(result) = TRUE
        BY <3>3 DEF C!Bad, C!ShouldRetry
      <4> QED BY <1>1, <3>3, <4>1
    <3> QED BY <2>1, <3>1, <3>2, <3>3
  <2>3. C!NoDecisionOverridden'
    BY <1>1, <1>2, <1>7, <2>2 DEF C!NoDecisionOverridden, Accepted, C!Acceptable
  <2> QED BY <1>1, <1>2, <2>3 DEF CallInv
<1> QED BY <1>6, <1>7

LEMMA CallKeeps ==
  ASSUME AttemptsTyped, CallInv, [C!Next]_(C!vars)
  PROVE  CallInv'
PROOF
<1>1. CASE UNCHANGED C!vars
  <2>1. UNCHANGED <<call, pc, handled, at, depth, seen, result, outcome>>
    BY <1>1 DEF C!vars
  <2>2. /\ C!ErrorReached' = C!ErrorReached /\ C!Said' = C!Said /\ Accepted' = Accepted
        /\ C!Hop' = C!Hop /\ \A m : C!Classified(m)' = C!Classified(m)
    BY <2>1, SameAttempt
  <2>3. Walked' = Walked /\ Judged' = Judged
    BY <2>1, <2>2 DEF Walked, Judged, C!Bad
  <2>4. C!NoDecisionOverridden' = C!NoDecisionOverridden
    BY <2>1, <2>2 DEF C!NoDecisionOverridden, C!Acceptable, C!Guess, C!Transient
  <2> QED BY <2>1, <2>2, <2>3, <2>4 DEF CallInv
<1>2. CASE C!BuildContext
  <2>1. /\ pc = "input" /\ call \in Attempts /\ outcome = None
        /\ at = Thrown /\ depth = 0 /\ seen = {} /\ (handled => Accepted /\ call.when \in {None, "yes"})
        /\ UNCHANGED <<call, handled, at, depth, seen, outcome>>
    BY <1>2 DEF CallInv, C!BuildContext
  <2>2. /\ C!ErrorReached' = C!ErrorReached /\ C!Said' = C!Said /\ Accepted' = Accepted
    BY <2>1, SameAttempt
  <2>3. CASE Accepted
    <3>1. pc' = IF call.when = None THEN "handler" ELSE "guard"
      BY <1>2, <2>3 DEF C!BuildContext, Accepted
    <3> QED BY <2>1, <2>2, <2>3, <3>1 DEF CallInv
  <2>4. CASE ~Accepted
    <3>1. pc' = "decide" /\ result' = C!Bad(FALSE, None) /\ ~C!ErrorReached
      BY <1>2, <2>4 DEF C!BuildContext, Accepted, C!Reject, C!ErrorReached
    <3>2. Judged'
      BY <2>2, <3>1 DEF Judged, C!Bad
    <3> QED BY <2>1, <2>2, <3>1, <3>2 DEF CallInv
  <2> QED BY <2>3, <2>4
<1>3. CASE C!Guard
  <2>1. /\ pc = "guard" /\ call \in Attempts /\ outcome = None
        /\ at = Thrown /\ depth = 0 /\ seen = {} /\ Accepted /\ call.when # None
        /\ (handled => call.when \in {None, "yes"})
        /\ UNCHANGED <<call, handled, at, depth, seen>>
    BY <1>3 DEF CallInv, C!Guard
  <2>2. /\ C!ErrorReached' = C!ErrorReached /\ C!Said' = C!Said /\ Accepted' = Accepted
    BY <2>1, SameAttempt
  <2>3. call.when \in {"yes", "no", "throws"}
    BY <2>1 DEF AttemptsTyped
  <2>4. CASE call.when = "yes"
    <3>1. pc' = "handler" /\ outcome' = outcome
      BY <1>3, <2>4 DEF C!Guard
    <3> QED BY <2>1, <2>2, <2>4, <3>1 DEF CallInv
  <2>5. CASE call.when = "no"
    <3>1. pc' = "over" /\ outcome' = "skipped" /\ ~handled
      <4>1. None # "no"
        BY DEF AttemptsTyped
      <4> QED BY <1>3, <2>1, <2>5, <4>1 DEF C!Guard
    <3> QED BY <2>1, <3>1 DEF CallInv
  <2>6. CASE call.when = "throws"
    <3>1. pc' = "walk" /\ outcome' = outcome
      BY <1>3, <2>6, SMT DEF C!Guard, C!Throws
    <3>2. C!ErrorReached
      BY <2>1, <2>6 DEF C!ErrorReached, Accepted
    <3>3. Walked'
      BY <2>1, WalkBegins, SameAttempt DEF Walked
    <3> QED BY <2>1, <2>2, <3>1, <3>2, <3>3 DEF CallInv
  <2> QED BY <2>3, <2>4, <2>5, <2>6
<1>4. CASE C!Handler
  <2>1. /\ pc = "handler" /\ call \in Attempts /\ outcome = None
        /\ at = Thrown /\ depth = 0 /\ seen = {} /\ Accepted /\ call.when \in {None, "yes"}
        /\ UNCHANGED <<call, at, depth, seen, outcome>> /\ handled'
    BY <1>4 DEF CallInv, C!Handler
  <2>2. /\ C!ErrorReached' = C!ErrorReached /\ C!Said' = C!Said /\ Accepted' = Accepted
    BY <2>1, SameAttempt
  <2>3. C!ErrorReached <=> call.handler = "throws"
    <3>1. None # "no" /\ None # "throws"
      BY DEF AttemptsTyped
    <3> QED BY <2>1, <3>1 DEF C!ErrorReached, Accepted
  <2>4. CASE call.handler = "throws"
    <3>1. pc' = "walk"
      BY <1>4, <2>4 DEF C!Handler, C!Throws
    <3>2. Walked'
      BY <2>1, WalkBegins, SameAttempt DEF Walked
    <3> QED BY <2>1, <2>2, <2>3, <2>4, <3>1, <3>2 DEF CallInv
  <2>5. CASE call.handler # "throws"
    <3>1. /\ pc' = "decide"
          /\ \/ result' = C!Good
             \/ result' = C!Bad(FALSE, None)
             \/ result' = C!Bad(TRUE, "explicit") /\ call.handler = "hangs"
      BY <1>4, <2>5 DEF C!Handler, C!Reject
    <3>2. Judged'
      <4>1. ~C!ErrorReached'
        BY <2>2, <2>3, <2>5
      <4> QED BY <2>1, <3>1, <4>1 DEF Judged, C!Bad, C!Good
    <3> QED BY <2>1, <2>2, <3>1, <3>2 DEF CallInv
  <2> QED BY <2>4, <2>5
<1> QED BY <1>1, <1>2, <1>3, <1>4, WalkKeeps, DecideKeeps DEF C!Next

LEMMA CallImplies ==
  ASSUME AttemptsTyped, CallInv
  PROVE  C!NoDecisionOverridden
PROOF
<1>1. None \notin {"retried", "failed"}
  BY DEF AttemptsTyped
<1> QED BY <1>1 DEF CallInv, C!NoDecisionOverridden, Accepted

-----------------------------------------------------------------------------
(***************************************************************************)
(* The quota: a start that has passed the first window counts as one run   *)
(* more, until it has created it; a run that was retried is in both sums.  *)
(***************************************************************************)
QuotaTyped == IsFiniteSet(Starters) /\ Starters # {} /\ Concurrent \in Nat \ {0}

Pcs == {"idle", "refused", "day", "month", "create"}

StartsTyped ==
  /\ starter \in [Starters -> Pcs]
  /\ running \in Nat /\ again \in Nat

StartsInv == StartsTyped /\ Q!OverrunBounded

\* Cardinality is that of the model here too.
LEMMA CardinalityOfStarts == ASSUME NEW T PROVE Q!Cardinality(T) = Cardinality(T)
PROOF BY DEF Q!Cardinality, Cardinality

\* One start more, or one less, among those that have passed the first window.
LEMMA AdmittedChanges ==
  ASSUME QuotaTyped, StartsTyped, NEW s \in Starters, NEW p \in Pcs,
         starter' = [starter EXCEPT ![s] = p]
  PROVE  /\ Cardinality(Q!Admitted) \in 0..Cardinality(Starters)
         /\ Cardinality(Q!Admitted') \in 0..Cardinality(Starters)
         /\ p \notin {"day", "month", "create"} /\ s \in Q!Admitted =>
              Cardinality(Q!Admitted') = Cardinality(Q!Admitted) - 1
         /\ p \notin {"day", "month", "create"} =>
              Cardinality(Q!Admitted') <= Cardinality(Q!Admitted)
         /\ p \in {"day", "month", "create"} /\ s \in Q!Admitted =>
              Cardinality(Q!Admitted') = Cardinality(Q!Admitted)
PROOF
<1> USE DEF QuotaTyped
<1>1. /\ Q!Admitted \subseteq Starters /\ Q!Admitted' \subseteq Starters
      /\ IsFiniteSet(Q!Admitted) /\ IsFiniteSet(Q!Admitted')
  BY FS_Subset DEF Q!Admitted
<1>2. /\ Cardinality(Starters) \in Nat /\ Cardinality(Q!Admitted) \in Nat
      /\ Cardinality(Q!Admitted') \in Nat
      /\ Cardinality(Q!Admitted) <= Cardinality(Starters)
      /\ Cardinality(Q!Admitted') <= Cardinality(Starters)
  BY <1>1, FS_CardinalityType, FS_Subset
<1>3. p \notin {"day", "month", "create"} => Q!Admitted' = Q!Admitted \ {s}
  BY DEF Q!Admitted, StartsTyped, Pcs
<1>4. p \in {"day", "month", "create"} /\ s \in Q!Admitted => Q!Admitted' = Q!Admitted
  BY DEF Q!Admitted, StartsTyped, Pcs
<1>5. s \in Q!Admitted => Cardinality(Q!Admitted \ {s}) = Cardinality(Q!Admitted) - 1
  BY <1>1, FS_RemoveElement
<1>6. s \notin Q!Admitted => Q!Admitted \ {s} = Q!Admitted
  OBVIOUS
<1> QED BY <1>2, <1>3, <1>4, <1>5, <1>6

\* The admitted starts do not change with anybody else's.
LEMMA AdmittedStays == ASSUME UNCHANGED starter PROVE Q!Admitted' = Q!Admitted
PROOF BY DEF Q!Admitted

\* A start that passes the first window found the count below the cap (ai/quota.ts,
\* checkQuota); so no more runs are added than there are starts in progress.
LEMMA StartsKeep ==
  ASSUME QuotaTyped, StartsInv, [Q!Next]_(Q!vars)
  PROVE  StartsInv'
PROOF
<1>a. /\ Q!OverrunBounded <=>
           running + Cardinality(Q!Admitted) < Concurrent + Cardinality(Starters) + again
      /\ Q!OverrunBounded' <=>
           running' + Cardinality(Q!Admitted') < Concurrent + Cardinality(Starters) + again'
      /\ Concurrent \in Nat
  BY CardinalityOfStarts DEF Q!OverrunBounded, QuotaTyped
<1>0. StartsTyped /\ Q!OverrunBounded
  BY DEF StartsInv
<1>1. Cardinality(Starters) \in Nat /\ Cardinality(Q!Admitted) \in Nat
  <2>1. Q!Admitted \subseteq Starters
    BY DEF Q!Admitted
  <2> QED BY <2>1, FS_Subset, FS_CardinalityType DEF QuotaTyped
<1>2. ASSUME NEW s \in Starters, Q!CountRunning(s) PROVE StartsInv'
  <2>1. CASE running >= Concurrent
    <3>1. starter' = [starter EXCEPT ![s] = "refused"] /\ UNCHANGED <<running, again>>
      BY <1>2, <2>1 DEF Q!CountRunning, Q!Goto
    <3>2. "refused" \in Pcs
      BY DEF Pcs
    <3>3. /\ Cardinality(Q!Admitted') \in 0..Cardinality(Starters)
          /\ Cardinality(Q!Admitted') <= Cardinality(Q!Admitted)
      BY <1>a, <1>0, <3>1, <3>2, AdmittedChanges
    <3> QED BY <1>a, <1>0, <1>1, <3>1, <3>2, <3>3 DEF StartsInv, StartsTyped
  <2>2. CASE ~(running >= Concurrent)
    <3>1. starter' = [starter EXCEPT ![s] = "day"] /\ UNCHANGED <<running, again>>
      BY <1>2, <2>2 DEF Q!CountRunning, Q!Goto
    <3>2. Cardinality(Q!Admitted') \in 0..Cardinality(Starters)
      BY <1>a, <1>0, <3>1, AdmittedChanges DEF Pcs
    <3> QED BY <1>a, <1>0, <1>1, <2>2, <3>1, <3>2 DEF QuotaTyped, StartsInv, StartsTyped, Pcs
  <2> QED BY <2>1, <2>2
<1>3. ASSUME NEW s \in Starters, Q!CountDay(s) \/ Q!CountMonth(s) PROVE StartsInv'
  <2>1. PICK p \in {"refused", "month", "create"} : starter' = [starter EXCEPT ![s] = p]
    BY <1>3 DEF Q!CountDay, Q!CountMonth, Q!Goto
  <2>2. UNCHANGED <<running, again>> /\ s \in Q!Admitted
    BY <1>3 DEF Q!CountDay, Q!CountMonth, Q!Admitted
  <2>3. p \in Pcs
    BY DEF Pcs
  <2>4. /\ Cardinality(Q!Admitted') \in 0..Cardinality(Starters)
        /\ Cardinality(Q!Admitted') <= Cardinality(Q!Admitted)
    <3>1. CASE p = "refused"
      BY <1>a, <1>0, <2>1, <2>3, <3>1, AdmittedChanges
    <3>2. CASE p \in {"month", "create"}
      <4>1. /\ Cardinality(Q!Admitted') \in 0..Cardinality(Starters)
            /\ Cardinality(Q!Admitted') = Cardinality(Q!Admitted)
        BY <1>a, <1>0, <2>1, <2>2, <2>3, <3>2, AdmittedChanges
      <4> QED BY <1>1, <4>1
    <3> QED BY <3>1, <3>2
  <2> QED BY <1>a, <1>0, <1>1, <2>1, <2>2, <2>3, <2>4 DEF StartsInv, StartsTyped
<1>4. ASSUME NEW s \in Starters, Q!Create(s) PROVE StartsInv'
  <2>1. /\ starter' = [starter EXCEPT ![s] = "idle"] /\ s \in Q!Admitted
        /\ running' = running + 1 /\ again' = again
    BY <1>4 DEF Q!Create, Q!Goto, Q!Admitted
  <2>2. "idle" \in Pcs
    BY DEF Pcs
  <2>3. Cardinality(Q!Admitted') = Cardinality(Q!Admitted) - 1
    BY <1>a, <1>0, <2>1, <2>2, AdmittedChanges
  <2> QED BY <1>a, <1>0, <1>1, <2>1, <2>2, <2>3 DEF StartsInv, StartsTyped
<1>5. CASE Q!Complete \/ Q!Fail \/ Q!Cancel
  <2>1. UNCHANGED starter /\ Q!OneFewer
    BY <1>5 DEF Q!Complete, Q!Fail, Q!Cancel
  <2>2. /\ running > 0 /\ running' = running - 1
        /\ again' = again \/ (again > 0 /\ again' = again - 1)
    BY <1>0, <2>1 DEF Q!OneFewer, StartsTyped
  <2> QED BY <1>a, <1>0, <1>1, <2>1, <2>2, AdmittedStays DEF StartsInv, StartsTyped
<1>6. CASE Q!Retry
  <2>1. UNCHANGED starter /\ running' = running + 1 /\ again' = again + 1
    BY <1>6 DEF Q!Retry
  <2> QED BY <1>a, <1>0, <1>1, <2>1, AdmittedStays DEF StartsInv, StartsTyped
<1>7. CASE Q!RollUp \/ Q!NewDay \/ UNCHANGED Q!vars
  <2>1. UNCHANGED <<starter, running, again>>
    BY <1>7 DEF Q!RollUp, Q!NewDay, Q!vars
  <2> QED BY <1>a, <1>0, <2>1, AdmittedStays DEF StartsInv, StartsTyped
<1> QED BY <1>2, <1>3, <1>4, <1>5, <1>6, <1>7 DEF Q!Next

LEMMA StartsStart ==
  ASSUME QuotaTyped, Q!Init \/ StartsEnded
  PROVE  StartsInv
PROOF
<1>1. Cardinality(Starters) \in Nat /\ Cardinality(Starters) # 0
  BY FS_CardinalityType, FS_EmptySet DEF QuotaTyped
<1>2. CASE Q!Init
  <2>1. Q!Admitted = {}
    BY <1>2 DEF Q!Init, Q!Admitted
  <2>2. Cardinality(Q!Admitted) = 0
    BY <2>1, FS_EmptySet
  <2> QED BY <1>1, <1>2, <2>2, CardinalityOfStarts DEF Q!Init, StartsInv, StartsTyped, Q!OverrunBounded, Pcs, QuotaTyped
<1>3. CASE StartsEnded
  <2>1. Q!Admitted = Starters
    BY <1>3 DEF StartsEnded, Q!Admitted
  <2> QED BY <1>1, <1>3, <2>1, CardinalityOfStarts DEF StartsEnded, StartsInv, StartsTyped, Q!OverrunBounded, Pcs, QuotaTyped
<1> QED BY <1>2, <1>3

-----------------------------------------------------------------------------
(***************************************************************************)
(* The store.  The columns of the two tables, and of a transaction.        *)
(***************************************************************************)
StepColumns == {"partition", "wf", "parent", "status", "attempts", "started", "beat", "output",
                "error", "over"}
RunColumns == {"partition", "status", "key", "total", "completed", "failed", "output", "error",
               "over"}
TxFields == {"pc", "run", "total", "workflow", "step", "result"}
TxPcs == {"idle", "completed", "failed", "total", "existing", "commit"}

\* Rows have their columns, and a step the run it refers to.
TablesOK(ws, ss) ==
  /\ DOMAIN ws \subseteq Runs /\ DOMAIN ss \subseteq Ids
  /\ \A w \in DOMAIN ws : DOMAIN ws[w] = RunColumns
  /\ \A s \in DOMAIN ss : DOMAIN ss[s] = StepColumns /\ ss[s].wf \in DOMAIN ws

TenantsOK(h) == DOMAIN h = Connections /\ \A c \in Connections : h[c] \in Tenants

\* Of what sort the constants of the store are.
StoreTyped ==
  /\ None \notin Keys /\ Tenants # {}
  /\ \A k \in Contents : TenantsOK(k.tenantOf) /\ TablesOK(k.workflow, k.step)

StoreOK ==
  /\ TenantsOK(tenantOf) /\ TablesOK(workflow, step)
  /\ DOMAIN returned = Tenants
  /\ DOMAIN tx = Connections
  /\ \A c \in Connections : DOMAIN tx[c] = TxFields /\ tx[c].pc \in TxPcs

Settled(f) ==
  IF f = "completed" THEN [status |-> "completed", output |-> "x", over |-> TRUE]
  ELSE [status |-> "failed", error |-> "e", over |-> TRUE]

\* What a transaction has written and not committed, of rows it keeps locked: the
\* outcome of one step,
Settles(c, f) ==
  \E s \in P!OfRun(c, tx[c].run) :
    /\ tx[c].step = [x \in {s} |-> P!Over(Settled(f), step[x])]
    /\ tx[c].run \in Runs /\ tx[c].total = 1 /\ tx[c].result = P!Nothing

\* the children of a step,
Adds(c) ==
  \E parent \in Ids, new \in P!NewSteps :
    /\ new \cap DOMAIN step = {} /\ tx[c].run \in DOMAIN workflow
    /\ tx[c].step = [s \in new |-> P!Column(tenantOf[c], tx[c].run, parent)]
    /\ tx[c].total = P!Cardinality(new) /\ tx[c].result = [rows |-> P!Records(tx[c].step)]

\* the counter that goes with either,
Counts(c, f) ==
  tx[c].workflow = [x \in P!Wf(c, tx[c].run) |-> [workflow[x] EXCEPT ![f] = @ + tx[c].total]]

\* or a run whose key nobody has.
Creates(c) ==
  \E key \in Keys \cup {None}, w \in Runs, new \in P!NewSteps :
    /\ w \notin DOMAIN workflow /\ new \cap DOMAIN step = {}
    /\ \A v \in DOMAIN workflow : ~P!HasKey(workflow[v], c, key)
    /\ tx[c].workflow = [v \in {w} |->
         [partition |-> tenantOf[c], status |-> "running", key |-> key,
          total |-> P!Cardinality(new), completed |-> 0, failed |-> 0, output |-> None,
          error |-> None, over |-> FALSE]]
    /\ tx[c].step = [s \in new |-> P!Column(tenantOf[c], w, None)]
    /\ tx[c].result = [run |-> w, steps |-> P!Records(tx[c].step), existed |-> FALSE]

InTx(c) ==
  /\ tx[c].pc \in {"idle", "existing"} => DOMAIN tx[c].step = {}
  /\ tx[c].pc # "commit" => DOMAIN tx[c].workflow = {}
  /\ tx[c].pc = "existing" =>
       tx[c].run \in DOMAIN workflow /\ \E key \in Keys : P!HasKey(workflow[tx[c].run], c, key)
  /\ tx[c].pc \in {"completed", "failed"} => Settles(c, tx[c].pc)
  /\ tx[c].pc = "total" => Adds(c)
  /\ tx[c].pc = "commit" =>
       \/ \E f \in {"completed", "failed"} : Settles(c, f) /\ Counts(c, f)
       \/ Adds(c) /\ Counts(c, "total")
       \/ Creates(c)

\* No two transactions write one row or insert one key.
Apart(c, d) ==
  /\ DOMAIN tx[c].step \cap DOMAIN tx[d].step = {}
  /\ DOMAIN tx[c].workflow \cap DOMAIN tx[d].workflow = {}
  /\ \A v \in DOMAIN tx[c].workflow \ DOMAIN workflow,
        u \in DOMAIN tx[d].workflow \ DOMAIN workflow :
       LET a == tx[c].workflow[v]  b == tx[d].workflow[u] IN
       a.partition = b.partition /\ a.key = b.key => a.key = None

TxApart == \A c, d \in Connections : c # d => Apart(c, d)

StoreInv == StoreOK /\ (\A c \in Connections : InTx(c)) /\ TxApart

\* To a tenant a row is the record without its partition key.
LEMMA RecordOver ==
  ASSUME NEW new, NEW old, "partition" \notin DOMAIN new
  PROVE  P!Record(P!Over(new, old)) = P!Over(new, P!Record(old))
PROOF BY DEF P!Over, P!Record

\* What a tenant sees of a table.
View(rows, p) == [x \in P!RowsOf(rows, p) |-> P!Record(rows[x])]
RunsOf(p) == View(workflow, p)
StepsOf(p) == View(step, p)

\* UPDATE rows SET new WHERE the id is in hit.
Updated(rows, hit, new) ==
  [x \in DOMAIN rows |-> IF x \in hit THEN P!Over(new, rows[x]) ELSE rows[x]]

\* What an UPDATE does to the rows of each tenant.
LEMMA UpdatedRows ==
  ASSUME NEW rows, \A x \in DOMAIN rows : "partition" \in DOMAIN rows[x],
         NEW hit, NEW new, "partition" \notin DOMAIN new, NEW p
  PROVE  View(Updated(rows, hit, new), p) = Updated(View(rows, p), hit, new)
PROOF
<1>1. P!RowsOf(Updated(rows, hit, new), p) = P!RowsOf(rows, p)
  <2>1. ASSUME NEW x \in DOMAIN rows PROVE Updated(rows, hit, new)[x].partition = rows[x].partition
    <3>1. P!Over(new, rows[x]).partition = rows[x].partition
      BY DEF P!Over
    <3> QED BY <3>1 DEF Updated
  <2> QED BY <2>1 DEF P!RowsOf, Updated
<1>2. \A x \in P!RowsOf(rows, p) :
        P!Record(Updated(rows, hit, new)[x]) = IF x \in hit THEN P!Over(new, P!Record(rows[x]))
                                                            ELSE P!Record(rows[x])
  BY RecordOver DEF P!RowsOf, Updated
<1> QED BY <1>1, <1>2 DEF Updated, View

\* What an UPDATE leaves each tenant to see.
LEMMA Written ==
  ASSUME StoreOK, NEW hit, NEW new, "partition" \notin DOMAIN new, NEW p
  PROVE  /\ step' = Updated(step, hit, new) => StepsOf(p)' = Updated(StepsOf(p), hit, new)
         /\ workflow' = Updated(workflow, hit, new) => RunsOf(p)' = Updated(RunsOf(p), hit, new)
PROOF
<1>1. /\ \A x \in DOMAIN step : "partition" \in DOMAIN step[x]
      /\ \A x \in DOMAIN workflow : "partition" \in DOMAIN workflow[x]
  BY DEF StoreOK, TablesOK, StepColumns, RunColumns
<1> QED BY <1>1, UpdatedRows DEF StepsOf, RunsOf

\* The helpers of the reference store are those of Postgres.
LEMMA SameOver ==
  ASSUME NEW p, NEW new, NEW old PROVE P!Reference(p)!Over(new, old) = P!Over(new, old)
PROOF BY DEF P!Over, P!Reference!Over

\* What one UPDATE does: to the rows of the caller's tenant, and to no other's.
LEMMA QueryDoes ==
  ASSUME StoreOK, NEW c \in Connections, NEW hit, hit \subseteq P!RowsOf(step, tenantOf[c]),
         NEW new, "partition" \notin DOMAIN new, NEW x, P!Query(c, hit, new, x), NEW p \in Tenants
  PROVE  /\ RunsOf(p)' = RunsOf(p)
         /\ p # tenantOf[c] => StepsOf(p)' = StepsOf(p) /\ returned'[p] = returned[p]
         /\ p = tenantOf[c] => StepsOf(p)' = Updated(StepsOf(p), hit, new) /\ returned'[p] = x
PROOF
<1>1. step' = Updated(step, hit, new)
  BY DEF P!Query, Updated
<1>2. StepsOf(p)' = Updated(StepsOf(p), hit, new)
  BY <1>1, Written
<1>3. RunsOf(p)' = RunsOf(p)
  BY DEF P!Query, RunsOf, View, P!RowsOf
<1>4. IF p = tenantOf[c] THEN returned'[p] = x ELSE returned'[p] = returned[p]
  BY DEF P!Query, P!Return, StoreOK
<1>5. p # tenantOf[c] => StepsOf(p)' = StepsOf(p)
  BY <1>2 DEF View, StepsOf, P!RowsOf, Updated
<1> QED BY <1>2, <1>3, <1>4, <1>5

\* One UPDATE of one row.
LEMMA UpdateDoes ==
  ASSUME StoreOK, NEW c \in Connections, NEW s, NEW new, "partition" \notin DOMAIN new,
         P!Update(c, s, new), NEW p \in Tenants
  PROVE  IF p = tenantOf[c] THEN P!Reference(p)!Mark(s, new) ELSE UNCHANGED P!Reference(p)!vars
PROOF
<1>1. P!Step(c, {s}) \subseteq P!RowsOf(step, tenantOf[c])
  BY DEF P!Step, P!RowsOf
<1>2. CASE p # tenantOf[c]
  BY <1>1, <1>2, QueryDoes DEF P!Update, P!Reference!vars, RunsOf, View, StepsOf
<1>3. CASE p = tenantOf[c]
  <2>1. /\ RunsOf(p)' = RunsOf(p) /\ returned'[p] = P!Nothing
        /\ StepsOf(p)' = Updated(StepsOf(p), P!Step(c, {s}), new)
    BY <1>1, <1>3, QueryDoes DEF P!Update
  <2>2. \A x \in DOMAIN StepsOf(p) : x \in P!Step(c, {s}) <=> x = s
    BY <1>3 DEF P!Step, View, StepsOf, P!RowsOf
  <2>3. P!Reference(p)!Change(s, new)
    BY <2>1, <2>2, SameOver DEF P!Reference!Change, View, StepsOf, Updated
  <2> QED BY <1>3, <2>1, <2>3
          DEF P!Reference!Mark, P!Reference!Answer, P!Reference!Nothing, P!Nothing, RunsOf, View
<1> QED BY <1>2, <1>3

\* A tenant sees the columns of its rows as they are.
LEMMA SameField ==
  ASSUME StoreOK, NEW p, NEW s \in DOMAIN StepsOf(p)
  PROVE  /\ s \in P!RowsOf(step, p) /\ s \in DOMAIN step /\ step[s].partition = p
         /\ DOMAIN StepsOf(p)[s] = StepColumns \ {"partition"}
         /\ StepsOf(p)[s].status = step[s].status /\ StepsOf(p)[s].attempts = step[s].attempts
         /\ StepsOf(p)[s].wf = step[s].wf /\ StepsOf(p)[s].parent = step[s].parent
         /\ StepsOf(p)[s].beat = step[s].beat /\ StepsOf(p)[s].started = step[s].started
         /\ StepsOf(p)[s].error = step[s].error
PROOF BY DEF View, StepsOf, P!RowsOf, P!Record, StoreOK, TablesOK, StepColumns

LEMMA SameRunField ==
  ASSUME StoreOK, NEW p, NEW w \in DOMAIN RunsOf(p)
  PROVE  /\ w \in P!RowsOf(workflow, p) /\ w \in DOMAIN workflow /\ workflow[w].partition = p
         /\ DOMAIN RunsOf(p)[w] = RunColumns \ {"partition"}
         /\ RunsOf(p)[w].status = workflow[w].status /\ RunsOf(p)[w].key = workflow[w].key
         /\ RunsOf(p)[w].output = workflow[w].output /\ RunsOf(p)[w].error = workflow[w].error
         /\ RunsOf(p)[w].total = workflow[w].total /\ RunsOf(p)[w].failed = workflow[w].failed
         /\ RunsOf(p)[w].completed = workflow[w].completed
PROOF BY DEF View, RunsOf, P!RowsOf, P!Record, StoreOK, TablesOK, RunColumns

\* A step of the reference store of a tenant, or none.
Refers(p) == P!Reference(p)!Next \/ UNCHANGED P!Reference(p)!vars

\* The calls that write one row of a step.
LEMMA MarkCalls ==
  ASSUME StoreOK, NEW c \in Connections, NEW s \in Ids, NEW p \in Tenants,
         \/ \E now \in Times : P!markStepWaiting(c, s, now)
         \/ P!markStepPending(c, s) \/ P!markStepMapping(c, s) \/ P!markStepCompensating(c, s)
         \/ P!skipStep(c, s, "e") \/ P!resetStep(c, s)
  PROVE  Refers(p)
PROOF
<1>1. CASE \E now \in Times : P!markStepWaiting(c, s, now)
  BY <1>1, UpdateDoes
  DEF P!markStepWaiting, Refers, P!Reference!Next, P!Reference!StepCall,
      P!Reference!markStepWaiting
<1>2. CASE P!markStepPending(c, s)
  BY <1>2, UpdateDoes
  DEF P!markStepPending, Refers, P!Reference!Next, P!Reference!StepCall,
      P!Reference!markStepPending
<1>3. CASE P!markStepMapping(c, s)
  BY <1>3, UpdateDoes
  DEF P!markStepMapping, Refers, P!Reference!Next, P!Reference!StepCall,
      P!Reference!markStepMapping
<1>4. CASE P!markStepCompensating(c, s)
  BY <1>4, UpdateDoes
  DEF P!markStepCompensating, Refers, P!Reference!Next, P!Reference!StepCall,
      P!Reference!markStepCompensating
<1>5. CASE P!skipStep(c, s, "e")
  BY <1>5, UpdateDoes
  DEF P!skipStep, Refers, P!Reference!Next, P!Reference!StepCall, P!Reference!skipStep
<1>6. CASE P!resetStep(c, s)
  BY <1>6, UpdateDoes
  DEF P!resetStep, Refers, P!Reference!Next, P!Reference!StepCall, P!Reference!resetStep
<1> QED BY <1>1, <1>2, <1>3, <1>4, <1>5, <1>6

\* markStepCompensated keeps the error there is, unless it is given one.
LEMMA CompensatedCalls ==
  ASSUME StoreOK, NEW c \in Connections, NEW s \in Ids, NEW p \in Tenants, NEW e \in {"e", None},
         P!markStepCompensated(c, s, e)
  PROVE  Refers(p)
PROOF
<1> DEFINE new == [status |-> "compensated",
                   error |-> IF P!Step(c, {s}) = {} THEN e ELSE P!Coalesce(e, step[s].error)]
<1>1. IF p = tenantOf[c] THEN P!Reference(p)!Mark(s, new) ELSE UNCHANGED P!Reference(p)!vars
  BY UpdateDoes DEF P!markStepCompensated
<1>2. CASE p # tenantOf[c]
  BY <1>1, <1>2 DEF Refers
<1>3. CASE p = tenantOf[c]
  <2> DEFINE ref == IF e # None THEN [status |-> "compensated", error |-> e]
                    ELSE [status |-> "compensated"]
  <2>1. s \in DOMAIN StepsOf(p) => P!Over(new, StepsOf(p)[s]) = P!Over(ref, StepsOf(p)[s])
    <3> SUFFICES ASSUME s \in DOMAIN StepsOf(p)
                 PROVE  P!Over(new, StepsOf(p)[s]) = P!Over(ref, StepsOf(p)[s])
      OBVIOUS
    <3>1. P!Step(c, {s}) # {}
      BY <1>3, SameField DEF P!Step
    <3>0. step[s].error = StepsOf(p)[s].error
      BY SameField
    <3>2. new.error = IF e # None THEN e ELSE StepsOf(p)[s].error
      BY <3>0, <3>1 DEF P!Coalesce
    <3>3. "error" \in DOMAIN StepsOf(p)[s]
      BY SameField DEF StepColumns
    <3> QED BY <3>2, <3>3 DEF P!Over
  <2>2. P!Reference(p)!Change(s, ref)
    BY <1>1, <1>3, <2>1, SameOver DEF P!Reference!Mark, P!Reference!Change, View, StepsOf
  <2>3. P!Reference(p)!markStepCompensated(s, e)
    BY <1>1, <1>3, <2>2 DEF P!Reference!Mark, P!Reference!markStepCompensated
  <2> QED BY <2>3 DEF Refers, P!Reference!Next, P!Reference!StepCall, P!Reference!Text
<1> QED BY <1>2, <1>3

\* markStepRunning: the row is hit if it is pending.
LEMMA ClaimCalls ==
  ASSUME StoreOK, NEW c \in Connections, NEW s \in Ids, NEW p \in Tenants, NEW now \in Times,
         P!markStepRunning(c, s, now)
  PROVE  Refers(p)
PROOF
<1> DEFINE hit == {x \in P!Step(c, {s}) : step[x].status = "pending"}
           new == [status |-> "running", started |-> now, beat |-> None,
                   attempts |-> IF hit = {} THEN 0 ELSE step[s].attempts + 1]
           mine == [mine |-> hit # {}]
<1>1. hit \subseteq P!RowsOf(step, tenantOf[c]) /\ hit \subseteq {s}
  BY DEF P!Step, P!RowsOf
<1>2. P!Query(c, hit, new, mine)
  BY DEF P!markStepRunning
<1>3. "partition" \notin DOMAIN new
  OBVIOUS
<1> HIDE DEF hit, new, mine
<1>4. CASE p # tenantOf[c]
  BY <1>1, <1>2, <1>3, <1>4, QueryDoes DEF Refers, P!Reference!vars, RunsOf, View, StepsOf
<1>5. CASE p = tenantOf[c]
  <2>1. /\ RunsOf(p)' = RunsOf(p) /\ returned'[p] = mine
        /\ StepsOf(p)' = Updated(StepsOf(p), hit, new)
    BY <1>1, <1>2, <1>3, <1>5, QueryDoes
  <2>2. hit # {} <=> s \in DOMAIN StepsOf(p) /\ StepsOf(p)[s].status = "pending"
    <3>1. s \in P!Step(c, {s}) <=> s \in DOMAIN StepsOf(p)
      BY <1>5 DEF P!Step, StepsOf, View, P!RowsOf
    <3>2. s \in DOMAIN StepsOf(p) => StepsOf(p)[s].status = step[s].status
      BY SameField
    <3>3. hit # {} <=> s \in hit
      BY <1>1
    <3>4. s \in hit <=> s \in P!Step(c, {s}) /\ step[s].status = "pending"
      BY DEF hit
    <3> QED BY <3>1, <3>2, <3>3, <3>4
  <2>3. CASE hit = {}
    <3>1. StepsOf(p)' = StepsOf(p)
      BY <2>1, <2>3 DEF View, StepsOf, Updated
    <3>2. P!Reference(p)!markStepRunning(s, now)
      BY <2>1, <2>2, <2>3, <3>1
      DEF mine, P!Reference!markStepRunning, P!Reference!Answer, View, StepsOf, RunsOf
    <3> QED BY <3>2 DEF Refers, P!Reference!Next, P!Reference!StepCall
  <2>4. CASE hit # {}
    <3>1. hit = {s} /\ s \in DOMAIN StepsOf(p)
      BY <1>1, <2>2, <2>4
    <3>2. new = [status |-> "running", started |-> now, beat |-> None,
                 attempts |-> StepsOf(p)[s].attempts + 1]
      BY <2>4, <3>1, SameField DEF new
    <3>3. P!Reference(p)!Change(s, new)
      BY <2>1, <3>1, SameOver DEF P!Reference!Change, View, StepsOf, Updated
    <3>4. P!Reference(p)!markStepRunning(s, now)
      BY <2>1, <2>2, <2>4, <3>2, <3>3
      DEF mine, P!Reference!markStepRunning, P!Reference!Answer, View, StepsOf, RunsOf
    <3> QED BY <3>4 DEF Refers, P!Reference!Next, P!Reference!StepCall
  <2> QED BY <2>3, <2>4
<1> QED BY <1>4, <1>5

\* heartbeatStep: the row is hit while it and its run are running.
LEMMA BeatCalls ==
  ASSUME StoreOK, NEW c \in Connections, NEW s \in Ids, NEW p \in Tenants, NEW now \in Times,
         P!heartbeatStep(c, s, now)
  PROVE  Refers(p)
PROOF
<1> DEFINE hit == {x \in P!Step(c, {s}) :
                     /\ step[x].status = "running" /\ step[x].wf \in P!Wf(c, step[x].wf)
                     /\ workflow[step[x].wf].status \in {"running", "pending"}}
           new == [beat |-> now]
           mine == [mine |-> hit # {}]
<1>1. hit \subseteq P!RowsOf(step, tenantOf[c]) /\ hit \subseteq {s}
  BY DEF P!Step, P!RowsOf
<1>2. P!Query(c, hit, new, mine)
  BY DEF P!heartbeatStep
<1>3. "partition" \notin DOMAIN new
  OBVIOUS
<1> HIDE DEF hit, new, mine
<1>4. CASE p # tenantOf[c]
  BY <1>1, <1>2, <1>3, <1>4, QueryDoes DEF Refers, P!Reference!vars, RunsOf, View, StepsOf
<1>5. CASE p = tenantOf[c]
  <2>1. /\ RunsOf(p)' = RunsOf(p) /\ returned'[p] = mine
        /\ StepsOf(p)' = Updated(StepsOf(p), hit, new)
    BY <1>1, <1>2, <1>3, <1>5, QueryDoes
  <2> DEFINE ref == /\ s \in DOMAIN StepsOf(p) /\ StepsOf(p)[s].status = "running"
                    /\ StepsOf(p)[s].wf \in DOMAIN RunsOf(p)
                    /\ RunsOf(p)[StepsOf(p)[s].wf].status \in {"pending", "running"}
  <2>2. hit # {} <=> ref
    <3>1. ASSUME NEW w \in DOMAIN RunsOf(p) PROVE RunsOf(p)[w].status = workflow[w].status
      BY SameRunField
    <3>2. \A w : w \in P!Wf(c, w) <=> w \in DOMAIN RunsOf(p)
      BY <1>5 DEF P!Wf, RunsOf, View, P!RowsOf
    <3>3. s \in P!Step(c, {s}) <=> s \in DOMAIN StepsOf(p)
      BY <1>5 DEF P!Step, StepsOf, View, P!RowsOf
    <3>4. hit # {} <=> s \in hit
      BY <1>1
    <3>5. ASSUME s \in DOMAIN StepsOf(p) PROVE s \in hit <=> ref
      <4>1. /\ StepsOf(p)[s].status = step[s].status /\ StepsOf(p)[s].wf = step[s].wf
            /\ s \in P!Step(c, {s})
        BY <3>3, <3>5, SameField
      <4>2. step[s].wf \in P!Wf(c, step[s].wf) <=> StepsOf(p)[s].wf \in DOMAIN RunsOf(p)
        BY <3>2, <4>1
      <4>3. StepsOf(p)[s].wf \in DOMAIN RunsOf(p) =>
              RunsOf(p)[StepsOf(p)[s].wf].status = workflow[step[s].wf].status
        BY <3>1, <4>1
      <4> QED BY <3>5, <4>1, <4>2, <4>3 DEF hit
    <3>6. s \notin DOMAIN StepsOf(p) => s \notin hit
      BY <3>3 DEF hit
    <3> QED BY <3>4, <3>5, <3>6
  <2>3. CASE hit = {}
    <3>1. StepsOf(p)' = StepsOf(p)
      BY <2>1, <2>3 DEF View, StepsOf, Updated
    <3>2. P!Reference(p)!heartbeatStep(s, now)
      BY <2>1, <2>2, <2>3, <3>1
      DEF mine, P!Reference!heartbeatStep, P!Reference!Answer, View, StepsOf, RunsOf
    <3> QED BY <3>2 DEF Refers, P!Reference!Next, P!Reference!StepCall
  <2>4. CASE hit # {}
    <3>1. hit = {s}
      BY <1>1, <2>4
    <3>3. P!Reference(p)!Change(s, [beat |-> now])
      BY <2>1, <3>1, SameOver DEF P!Reference!Change, View, StepsOf, Updated, new
    <3>4. P!Reference(p)!heartbeatStep(s, now)
      BY <2>1, <2>2, <2>4, <3>3
      DEF mine, P!Reference!heartbeatStep, P!Reference!Answer, View, StepsOf, RunsOf
    <3> QED BY <3>4 DEF Refers, P!Reference!Next, P!Reference!StepCall
  <2> QED BY <2>3, <2>4
<1> QED BY <1>4, <1>5

\* skipPendingSteps.
LEMMA SkipCalls ==
  ASSUME StoreOK, NEW c \in Connections, NEW w \in Runs, NEW p \in Tenants,
         P!skipPendingSteps(c, w, "e")
  PROVE  Refers(p)
PROOF
<1> DEFINE hit == {s \in P!OfRun(c, w) : step[s].status \in {"pending", "waiting"}}
           new == [status |-> "skipped", error |-> "e"]
<1>1. hit \subseteq P!RowsOf(step, tenantOf[c])
  BY DEF P!OfRun, P!Step, P!RowsOf
<1>2. P!Query(c, hit, new, P!Nothing)
  BY DEF P!skipPendingSteps
<1>3. "partition" \notin DOMAIN new
  OBVIOUS
<1> HIDE DEF hit, new
<1>4. CASE p # tenantOf[c]
  BY <1>1, <1>2, <1>3, <1>4, QueryDoes DEF Refers, P!Reference!vars, RunsOf, View, StepsOf
<1>5. CASE p = tenantOf[c]
  <2>1. /\ RunsOf(p)' = RunsOf(p) /\ returned'[p] = P!Nothing
        /\ StepsOf(p)' = Updated(StepsOf(p), hit, new)
    BY <1>1, <1>2, <1>3, <1>5, QueryDoes
  <2>2. \A s \in DOMAIN StepsOf(p) :
          s \in hit <=> StepsOf(p)[s].wf = w /\ StepsOf(p)[s].status \in {"pending", "waiting"}
    BY <1>5, SameField DEF hit, P!OfRun, P!Step
  <2>3. StepsOf(p)' = [s \in DOMAIN StepsOf(p) |->
          IF s \in P!Reference(p)!StepsOf(w) /\ StepsOf(p)[s].status \in {"pending", "waiting"}
            THEN P!Reference(p)!Over(new, StepsOf(p)[s]) ELSE StepsOf(p)[s]]
    BY <2>1, <2>2, SameOver DEF P!Reference!StepsOf, View, StepsOf, Updated
  <2>4. P!Reference(p)!skipPendingSteps(w, "e")
    BY <2>1, <2>3 DEF P!Reference!skipPendingSteps, P!Reference!Answer, P!Reference!Nothing,
                      P!Nothing, new, View, StepsOf, RunsOf
  <2> QED BY <2>4 DEF Refers, P!Reference!Next, P!Reference!RunCall
<1> QED BY <1>4, <1>5

\* deleteChildSteps.
LEMMA DeleteCalls ==
  ASSUME StoreOK, NEW c \in Connections, NEW q \in Ids, NEW p \in Tenants,
         P!deleteChildSteps(c, q)
  PROVE  Refers(p)
PROOF
<1>0. /\ step' = [s \in (DOMAIN step) \ P!Children(c, q) |-> step[s]]
      /\ workflow' = workflow /\ tenantOf' = tenantOf
      /\ P!Return(c, [deleted |-> P!Cardinality(P!Children(c, q))])
  BY DEF P!deleteChildSteps
<1>1. RunsOf(p)' = RunsOf(p)
  BY <1>0 DEF RunsOf, View, P!RowsOf
<1>2. CASE p # tenantOf[c]
  <2>1. StepsOf(p)' = StepsOf(p)
    BY <1>0, <1>2 DEF StepsOf, View, P!RowsOf, P!Children, P!Step
  <2>2. returned'[p] = returned[p]
    BY <1>0, <1>2 DEF P!Return, StoreOK
  <2> QED BY <1>1, <2>1, <2>2 DEF Refers, P!Reference!vars, RunsOf, View, StepsOf
<1>3. CASE p = tenantOf[c]
  <2>1. P!Children(c, q) = P!Reference(p)!ChildrenOf(q)
    BY <1>3, SameField DEF P!Children, P!Step, P!Reference!ChildrenOf, View, StepsOf, P!RowsOf
  <2>2. StepsOf(p)' = [s \in (DOMAIN StepsOf(p)) \ P!Children(c, q) |-> StepsOf(p)[s]]
    BY <1>0, <1>3 DEF StepsOf, View, P!RowsOf
  <2>3. returned'[p] = [deleted |-> P!Reference(p)!Cardinality(P!Reference(p)!ChildrenOf(q))]
    BY <1>0, <1>3, <2>1 DEF P!Return, StoreOK, P!Cardinality, P!Reference!Cardinality
  <2>4. P!Reference(p)!deleteChildSteps(q)
    BY <1>1, <2>1, <2>2, <2>3
    DEF P!Reference!deleteChildSteps, P!Reference!Answer, P!Reference!Read, RunsOf, StepsOf, View
  <2> QED BY <2>4 DEF Refers, P!Reference!Next, P!Reference!StepCall
<1> QED BY <1>2, <1>3

\* What one UPDATE of a run does.
LEMMA RunDoes ==
  ASSUME StoreOK, NEW c \in Connections, NEW w \in Runs, NEW new, "partition" \notin DOMAIN new,
         P!QueryRun(c, w, new), NEW p \in Tenants
  PROVE  /\ StepsOf(p)' = StepsOf(p)
         /\ p # tenantOf[c] => RunsOf(p)' = RunsOf(p) /\ returned'[p] = returned[p]
         /\ p = tenantOf[c] => RunsOf(p)' = Updated(RunsOf(p), {w}, new) /\ returned'[p] = P!Nothing
PROOF
<1>1. workflow' = Updated(workflow, P!Wf(c, w), new)
  BY DEF P!QueryRun, Updated
<1>2. RunsOf(p)' = Updated(RunsOf(p), P!Wf(c, w), new)
  BY <1>1, Written
<1>3. StepsOf(p)' = StepsOf(p)
  BY DEF P!QueryRun, StepsOf, View, P!RowsOf
<1>4. IF p = tenantOf[c] THEN returned'[p] = P!Nothing ELSE returned'[p] = returned[p]
  BY DEF P!QueryRun, P!Return, StoreOK
<1>5. p # tenantOf[c] => RunsOf(p)' = RunsOf(p)
  BY <1>2 DEF View, RunsOf, P!RowsOf, P!Wf, Updated
<1>6. p = tenantOf[c] => \A x \in DOMAIN RunsOf(p) : x \in P!Wf(c, w) <=> x \in {w}
  BY DEF View, RunsOf, P!RowsOf, P!Wf
<1>7. p = tenantOf[c] => RunsOf(p)' = Updated(RunsOf(p), {w}, new)
  BY <1>2, <1>6 DEF Updated
<1> QED BY <1>3, <1>4, <1>5, <1>7

\* reopenWorkflow.
LEMMA RunCalls ==
  ASSUME StoreOK, NEW c \in Connections, NEW w \in Runs, NEW p \in Tenants,
         P!reopenWorkflow(c, w, [total |-> 1, completed |-> 0, failed |-> 0])
  PROVE  Refers(p)
PROOF
<1> DEFINE n == [total |-> 1, completed |-> 0, failed |-> 0]
           more == [status |-> "running", output |-> None, error |-> None, over |-> FALSE]
           new == P!Over(n, more)
<1>1. P!QueryRun(c, w, new)
  BY DEF P!reopenWorkflow
<1>2. "partition" \notin DOMAIN new
  BY DEF P!Over
<1>3. new = P!Reference(p)!Over(n, more)
  BY SameOver
<1> HIDE DEF new
<1>4. CASE p # tenantOf[c]
  BY <1>1, <1>2, <1>4, RunDoes DEF Refers, P!Reference!vars, RunsOf, View, StepsOf
<1>5. CASE p = tenantOf[c]
  <2>1. /\ StepsOf(p)' = StepsOf(p) /\ returned'[p] = P!Nothing
        /\ RunsOf(p)' = Updated(RunsOf(p), {w}, new)
    BY <1>1, <1>2, <1>5, RunDoes
  <2>2. P!Reference(p)!ChangeRun(w, new)
    BY <2>1, SameOver DEF P!Reference!ChangeRun, View, RunsOf, Updated
  <2>3. P!Reference(p)!reopenWorkflow(w, n)
    BY <1>3, <2>1, <2>2 DEF P!Reference!reopenWorkflow, P!Reference!Answer, P!Reference!Nothing,
                      P!Nothing, View, StepsOf, RunsOf
  <2> QED BY <2>3 DEF Refers, P!Reference!Next, P!Reference!RunCall, P!Reference!Counts
<1> QED BY <1>4, <1>5

\* finishWorkflow: an output or an error it is not given stays as it is.
LEMMA FinishCalls ==
  ASSUME StoreOK, NEW c \in Connections, NEW w \in Runs, NEW p \in Tenants,
         NEW v \in P!Reference(p)!Verdicts, NEW x \in {"x", None}, NEW e \in {"e", None},
         P!finishWorkflow(c, w, v, x, e)
  PROVE  Refers(p)
PROOF
<1> DEFINE new == [status |-> v, output |-> P!Coalesce(x, workflow[w].output),
                   error |-> P!Coalesce(e, workflow[w].error), over |-> TRUE]
<1>1. P!QueryRun(c, w, new)
  BY DEF P!finishWorkflow
<1>2. "partition" \notin DOMAIN new
  OBVIOUS
<1>4. CASE p # tenantOf[c]
  <2> HIDE DEF new
  <2> QED BY <1>1, <1>2, <1>4, RunDoes DEF Refers, P!Reference!vars, RunsOf, View, StepsOf
<1>5. CASE p = tenantOf[c]
  <2> DEFINE inner == P!Over(IF e # None THEN [error |-> e] ELSE <<>>,
                             [status |-> v, over |-> TRUE])
             ref == P!Over(IF x # None THEN [output |-> x] ELSE <<>>, inner)
  <2>0. ref = P!Reference(p)!Over(IF x # None THEN [output |-> x] ELSE <<>>,
                P!Reference(p)!Over(IF e # None THEN [error |-> e] ELSE <<>>,
                                    [status |-> v, over |-> TRUE]))
    BY SameOver
  <2>1. /\ StepsOf(p)' = StepsOf(p) /\ returned'[p] = P!Nothing
        /\ RunsOf(p)' = Updated(RunsOf(p), {w}, new)
    <3> HIDE DEF new
    <3> QED BY <1>1, <1>2, <1>5, RunDoes
  <2>2. ASSUME w \in DOMAIN RunsOf(p) PROVE P!Over(new, RunsOf(p)[w]) = P!Over(ref, RunsOf(p)[w])
    <3>1. /\ RunsOf(p)[w].output = workflow[w].output /\ RunsOf(p)[w].error = workflow[w].error
          /\ DOMAIN RunsOf(p)[w] = RunColumns \ {"partition"}
      <4>1. ASSUME NEW u \in DOMAIN RunsOf(p)
            PROVE  /\ RunsOf(p)[u].output = workflow[u].output
                   /\ RunsOf(p)[u].error = workflow[u].error
                   /\ DOMAIN RunsOf(p)[u] = RunColumns \ {"partition"}
        BY DEF View, RunsOf, P!RowsOf, P!Record, StoreOK, TablesOK, RunColumns
      <4> QED BY <2>2, <4>1
    <3>2. DOMAIN P!Over(new, RunsOf(p)[w]) = RunColumns \ {"partition"}
      BY <3>1 DEF P!Over, RunColumns
    <3>3. /\ DOMAIN inner = {"status", "over"} \cup (IF e # None THEN {"error"} ELSE {})
          /\ inner.status = v /\ inner.over = TRUE /\ (e # None => inner.error = e)
      BY DEF P!Over
    <3> HIDE DEF inner
    <3>4. /\ DOMAIN ref = DOMAIN inner \cup (IF x # None THEN {"output"} ELSE {})
          /\ ref.status = v /\ ref.over = TRUE /\ (e # None => ref.error = e)
          /\ (x # None => ref.output = x)
      BY <3>3 DEF P!Over
    <3> HIDE DEF ref
    <3>5. DOMAIN P!Over(ref, RunsOf(p)[w]) = RunColumns \ {"partition"}
      BY <3>1, <3>3, <3>4 DEF P!Over, RunColumns
    <3>6. ASSUME NEW f \in RunColumns \ {"partition"}
          PROVE  P!Over(new, RunsOf(p)[w])[f] = P!Over(ref, RunsOf(p)[w])[f]
      <4>1. CASE f = "output"
        BY <3>1, <3>3, <3>4, <4>1 DEF P!Over, P!Coalesce, RunColumns
      <4>2. CASE f = "error"
        BY <3>1, <3>3, <3>4, <4>2 DEF P!Over, P!Coalesce, RunColumns
      <4>3. CASE f \in {"status", "over"}
        <5>1. /\ DOMAIN new = {"status", "output", "error", "over"}
              /\ new.status = v /\ new.over = TRUE
          OBVIOUS
        <5>2. f = "status" \/ f = "over"
          BY <4>3
        <5> HIDE DEF new
        <5>3. CASE f = "status"
          BY <3>1, <3>3, <3>4, <5>1, <5>3 DEF P!Over, RunColumns
        <5>4. CASE f = "over"
          BY <3>1, <3>3, <3>4, <5>1, <5>4 DEF P!Over, RunColumns
        <5> QED BY <5>2, <5>3, <5>4
      <4>4. CASE f \notin {"status", "over", "output", "error"}
        BY <3>1, <3>3, <3>4, <4>4 DEF P!Over, RunColumns
      <4> QED BY <4>1, <4>2, <4>3, <4>4
    <3> QED BY <3>2, <3>5, <3>6 DEF P!Over
  <2> HIDE DEF new, ref
  <2>3. P!Reference(p)!ChangeRun(w, ref)
    BY <2>1, <2>2, SameOver DEF P!Reference!ChangeRun, View, RunsOf, Updated
  <2>4. P!Reference(p)!finishWorkflow(w, v, x, e)
    BY <2>0, <2>1, <2>3 DEF P!Reference!finishWorkflow, P!Reference!Answer, P!Reference!Nothing,
                      P!Nothing, View, StepsOf, RunsOf
  <2> QED BY <2>4 DEF Refers, P!Reference!Next, P!Reference!RunCall, P!Reference!Text
<1> QED BY <1>4, <1>5

\* What a SELECT does.
LEMMA AnswerDoes ==
  ASSUME StoreOK, NEW c \in Connections, NEW x, P!Answer(c, x), NEW p \in Tenants
  PROVE  /\ RunsOf(p)' = RunsOf(p) /\ StepsOf(p)' = StepsOf(p)
         /\ returned'[p] = IF p = tenantOf[c] THEN x ELSE returned[p]
PROOF
<1>1. RunsOf(p)' = RunsOf(p) /\ StepsOf(p)' = StepsOf(p)
  BY DEF P!Answer, RunsOf, StepsOf, View, P!RowsOf
<1>2. returned'[p] = IF p = tenantOf[c] THEN x ELSE returned[p]
  BY DEF P!Answer, P!Return, StoreOK
<1> QED BY <1>1, <1>2

\* To the other tenants it does nothing.
LEMMA OthersAnswer ==
  ASSUME StoreOK, NEW c \in Connections, NEW x, P!Answer(c, x), NEW p \in Tenants, p # tenantOf[c]
  PROVE  Refers(p)
PROOF BY AnswerDoes DEF Refers, P!Reference!vars, RunsOf, StepsOf, View

\* The rows a call selects are those the reference store reads.
LEMMA SelectIsRead ==
  ASSUME NEW p, NEW T, T \subseteq DOMAIN StepsOf(p)
  PROVE  P!Select(T) = P!Reference(p)!Read(T)
PROOF BY DEF P!Select, P!Reference!Read, StepsOf, View

\* The steps of a run and the children of a step are the reference store's.
LEMMA SameSteps ==
  ASSUME StoreOK, NEW c \in Connections, NEW p, p = tenantOf[c], NEW w
  PROVE  /\ P!OfRun(c, w) = P!Reference(p)!StepsOf(w)
         /\ P!Children(c, w) = P!Reference(p)!ChildrenOf(w)
         /\ P!OfRun(c, w) \subseteq DOMAIN StepsOf(p)
         /\ P!Children(c, w) \subseteq DOMAIN StepsOf(p)
PROOF
<1>1. \A s : s \in DOMAIN StepsOf(p) <=> s \in P!Step(c, DOMAIN step)
  BY DEF P!Step, StepsOf, View, P!RowsOf
<1>2. ASSUME NEW s \in DOMAIN StepsOf(p)
      PROVE  StepsOf(p)[s].wf = step[s].wf /\ StepsOf(p)[s].parent = step[s].parent
  BY SameField
<1>3. P!OfRun(c, w) \subseteq DOMAIN StepsOf(p) /\ P!Children(c, w) \subseteq DOMAIN StepsOf(p)
  BY <1>1 DEF P!OfRun, P!Children
<1>4. \A s \in DOMAIN StepsOf(p) : s \in P!OfRun(c, w) <=> StepsOf(p)[s].wf = w
  BY <1>1, <1>2 DEF P!OfRun
<1>5. \A s \in DOMAIN StepsOf(p) : s \in P!Children(c, w) <=> StepsOf(p)[s].parent = w
  BY <1>1, <1>2 DEF P!Children
<1>6. P!OfRun(c, w) = {s \in DOMAIN StepsOf(p) : StepsOf(p)[s].wf = w}
  BY <1>3, <1>4
<1>7. P!Children(c, w) = {s \in DOMAIN StepsOf(p) : StepsOf(p)[s].parent = w}
  BY <1>3, <1>5
<1> QED BY <1>3, <1>6, <1>7 DEF P!Reference!StepsOf, P!Reference!ChildrenOf, StepsOf, View

\* getStep and listChildSteps.
LEMMA StepReads ==
  ASSUME StoreOK, NEW c \in Connections, NEW s \in Ids, NEW p \in Tenants,
         P!getStep(c, s) \/ P!listChildSteps(c, s)
  PROVE  Refers(p)
PROOF
<1>1. CASE p # tenantOf[c]
  BY <1>1, OthersAnswer DEF P!getStep, P!listChildSteps
<1>2. CASE p = tenantOf[c] /\ P!getStep(c, s)
  <2>1. s \in DOMAIN StepsOf(p) <=> P!Step(c, {s}) # {}
    BY <1>2 DEF StepsOf, View, P!RowsOf, P!Step
  <2>2. s \in DOMAIN StepsOf(p) => StepsOf(p)[s] = P!Record(step[s])
    BY DEF StepsOf, View
  <2> DEFINE a == [row |-> IF P!Step(c, {s}) # {} THEN P!Record(step[s]) ELSE None]
  <2>3. P!Reference(p)!Asked(a)
    <3>1. P!Answer(c, a)
      BY <1>2 DEF P!getStep
    <3> HIDE DEF a
    <3> QED BY <1>2, <3>1, AnswerDoes
            DEF P!Reference!Asked, P!Reference!Answer, RunsOf, StepsOf, View
  <2>4. a = [row |-> IF s \in DOMAIN StepsOf(p) THEN StepsOf(p)[s] ELSE None]
    BY <2>1, <2>2
  <2> HIDE DEF a
  <2>5. P!Reference(p)!getStep(s)
    BY <2>3, <2>4
    DEF P!Reference!Asked, P!Reference!Answer, P!Reference!getStep, RunsOf, StepsOf, View
  <2> QED BY <2>5 DEF Refers, P!Reference!Next, P!Reference!StepCall
<1>3. CASE p = tenantOf[c] /\ P!listChildSteps(c, s)
  <2>1. P!Reference(p)!Asked([rows |-> P!Select(P!Children(c, s))])
    BY <1>3, AnswerDoes
    DEF P!listChildSteps, P!Reference!Asked, P!Reference!Answer, RunsOf, StepsOf, 
                                View
  <2>2. P!Reference(p)!listChildSteps(s)
    BY <1>3, <2>1, SameSteps, SelectIsRead
    DEF P!Reference!Asked, P!Reference!Answer, P!Reference!listChildSteps, RunsOf, StepsOf, View
  <2> QED BY <2>2 DEF Refers, P!Reference!Next, P!Reference!StepCall
<1> QED BY <1>1, <1>2, <1>3

\* getWorkflow and listSteps.
LEMMA RunReads ==
  ASSUME StoreOK, NEW c \in Connections, NEW w \in Runs, NEW p \in Tenants,
         P!getWorkflow(c, w) \/ P!listSteps(c, w)
  PROVE  Refers(p)
PROOF
<1>1. CASE p # tenantOf[c]
  BY <1>1, OthersAnswer DEF P!getWorkflow, P!listSteps
<1>2. CASE p = tenantOf[c] /\ P!getWorkflow(c, w)
  <2>1. w \in DOMAIN RunsOf(p) <=> P!Wf(c, w) # {}
    BY <1>2 DEF RunsOf, View, P!RowsOf, P!Wf
  <2>2. w \in DOMAIN RunsOf(p) => RunsOf(p)[w] = P!Record(workflow[w])
    BY DEF RunsOf, View
  <2> DEFINE a == [row |-> IF P!Wf(c, w) # {} THEN P!Record(workflow[w]) ELSE None]
  <2>3. P!Reference(p)!Asked(a)
    <3>1. P!Answer(c, a)
      BY <1>2 DEF P!getWorkflow
    <3> HIDE DEF a
    <3> QED BY <1>2, <3>1, AnswerDoes
            DEF P!Reference!Asked, P!Reference!Answer, RunsOf, StepsOf, View
  <2>4. a = [row |-> IF w \in DOMAIN RunsOf(p) THEN RunsOf(p)[w] ELSE None]
    BY <2>1, <2>2
  <2> HIDE DEF a
  <2>5. P!Reference(p)!getWorkflow(w)
    BY <2>3, <2>4
    DEF P!Reference!Asked, P!Reference!Answer, P!Reference!getWorkflow, RunsOf, StepsOf, View
  <2> QED BY <2>5 DEF Refers, P!Reference!Next, P!Reference!RunCall
<1>3. CASE p = tenantOf[c] /\ P!listSteps(c, w)
  <2>1. P!Reference(p)!Asked([rows |-> P!Select(P!OfRun(c, w))])
    BY <1>3, AnswerDoes
    DEF P!listSteps, P!Reference!Asked, P!Reference!Answer, RunsOf, StepsOf, View
  <2>2. P!Reference(p)!listSteps(w)
    BY <1>3, <2>1, SameSteps, SelectIsRead
    DEF P!Reference!Asked, P!Reference!Answer, P!Reference!listSteps, RunsOf, StepsOf, View
  <2> QED BY <2>2 DEF Refers, P!Reference!Next, P!Reference!RunCall
<1> QED BY <1>1, <1>2, <1>3

\* findStuckSteps.
LEMMA StuckCalls ==
  ASSUME StoreOK, NEW c \in Connections, NEW w \in Runs, NEW now \in Times, NEW p \in Tenants,
         P!findStuckSteps(c, w, now)
  PROVE  Refers(p)
PROOF
<1> DEFINE stuck == {s \in P!OfRun(c, w) :
                       /\ step[s].status = "running"
                       /\ P!Coalesce(step[s].beat, step[s].started) # None
                       /\ P!Coalesce(step[s].beat, step[s].started) < now}
<1>0. P!Answer(c, [rows |-> P!Select(stuck)])
  BY DEF P!findStuckSteps
<1>1. CASE p # tenantOf[c]
  BY <1>0, <1>1, OthersAnswer
<1>2. CASE p = tenantOf[c]
  <2> DEFINE ref == {s \in P!Reference(p)!StepsOf(w) :
                       /\ StepsOf(p)[s].status = "running"
                       /\ P!Reference(p)!LastSeen(StepsOf(p)[s]) # None
                       /\ P!Reference(p)!LastSeen(StepsOf(p)[s]) < now}
  <2>1. P!OfRun(c, w) = P!Reference(p)!StepsOf(w) /\ P!OfRun(c, w) \subseteq DOMAIN StepsOf(p)
    BY <1>2, SameSteps
  <2>2. ASSUME NEW s \in P!OfRun(c, w)
        PROVE  /\ StepsOf(p)[s].status = step[s].status
               /\ P!Reference(p)!LastSeen(StepsOf(p)[s]) = P!Coalesce(step[s].beat, step[s].started)
    <3>1. /\ StepsOf(p)[s].status = step[s].status /\ StepsOf(p)[s].beat = step[s].beat
          /\ StepsOf(p)[s].started = step[s].started
      BY <2>1, SameField
    <3> QED BY <3>1 DEF P!Reference!LastSeen, P!Coalesce
  <2>3. stuck = ref /\ stuck \subseteq DOMAIN StepsOf(p)
    BY <2>1, <2>2
  <2> HIDE DEF stuck
  <2>4. P!Reference(p)!Asked([rows |-> P!Select(stuck)])
    BY <1>0, <1>2, AnswerDoes DEF P!Reference!Asked, P!Reference!Answer, RunsOf, StepsOf, View
  <2>5. P!Reference(p)!Asked([rows |-> P!Reference(p)!Read(ref)])
    BY <2>3, <2>4, SelectIsRead DEF P!Reference!Asked, P!Reference!Answer, RunsOf, StepsOf, View
  <2>6. P!Reference(p)!findStuckSteps(w, now)
    BY <2>5
    DEF P!Reference!Asked, P!Reference!Answer, P!Reference!findStuckSteps, RunsOf, StepsOf, View
  <2> QED BY <2>6 DEF Refers, P!Reference!Next, P!Reference!RunCall
<1> QED BY <1>1, <1>2

\* listRunningWorkflows.
LEMMA RunningCalls ==
  ASSUME StoreOK, NEW c \in Connections, NEW p \in Tenants, P!listRunningWorkflows(c)
  PROVE  Refers(p)
PROOF
<1> DEFINE found == {w \in DOMAIN workflow : /\ workflow[w].partition = tenantOf[c]
                                             /\ workflow[w].status = "running"}
           a == [rows |-> [w \in found |-> P!Record(workflow[w])]]
<1>0. P!Answer(c, a)
  BY DEF P!listRunningWorkflows
<1>1. CASE p # tenantOf[c]
  <2> HIDE DEF a
  <2> QED BY <1>0, <1>1, OthersAnswer
<1>2. CASE p = tenantOf[c]
  <2> DEFINE ref == {w \in DOMAIN RunsOf(p) : RunsOf(p)[w].status = "running"}
  <2>0. ASSUME NEW w \in DOMAIN RunsOf(p)
        PROVE  RunsOf(p)[w].status = workflow[w].status /\ RunsOf(p)[w] = P!Record(workflow[w])
    BY SameRunField DEF RunsOf, View
  <2>1. \A w : w \in DOMAIN RunsOf(p) <=>
               w \in DOMAIN workflow /\ workflow[w].partition = tenantOf[c]
    BY <1>2 DEF RunsOf, View, P!RowsOf
  <2>2. found = ref
    BY <2>0, <2>1
  <2>3. a = [rows |-> [w \in ref |-> RunsOf(p)[w]]]
    BY <2>0, <2>2
  <2>4. P!Reference(p)!Asked(a)
    <3> HIDE DEF a
    <3> QED BY <1>0, <1>2, AnswerDoes
            DEF P!Reference!Asked, P!Reference!Answer, RunsOf, StepsOf, View
  <2> HIDE DEF a
  <2>5. P!Reference(p)!listRunningWorkflows
    BY <2>3, <2>4
    DEF P!Reference!Asked, P!Reference!Answer, P!Reference!listRunningWorkflows, RunsOf, StepsOf,
        View
  <2> QED BY <2>5 DEF Refers, P!Reference!Next
<1> QED BY <1>1, <1>2

\* While only a transaction moves, no tenant's rows do.
LEMMA NothingSeen ==
  ASSUME NEW p, UNCHANGED <<workflow, step, returned>>
  PROVE  Refers(p)
PROOF BY DEF Refers, P!Reference!vars, P!RowsOf

\* A call that finds its key taken reads the run that has it.
LEMMA ExistingCalls ==
  ASSUME StoreOK, NEW c \in Connections, InTx(c), P!Existing(c), NEW p \in Tenants
  PROVE  Refers(p)
PROOF
<1>1. PICK v \in Runs :
        v = tx[c].run /\ v \in DOMAIN workflow /\ \E key \in Keys : P!HasKey(workflow[v], c, key)
  BY DEF P!Existing, InTx, StoreOK, TablesOK
<1> DEFINE a == [run |-> v, steps |-> P!Select(P!OfRun(c, v)), existed |-> TRUE]
<1>2. RunsOf(p)' = RunsOf(p) /\ StepsOf(p)' = StepsOf(p)
  BY DEF P!Existing, RunsOf, StepsOf, View, P!RowsOf
<1>3. returned'[p] = IF p = tenantOf[c] THEN a ELSE returned[p]
  BY <1>1 DEF P!Existing, P!Return, StoreOK
<1>4. CASE p # tenantOf[c]
  BY <1>2, <1>3, <1>4 DEF Refers, P!Reference!vars, RunsOf, StepsOf, View
<1>5. CASE p = tenantOf[c]
  <2>1. PICK key \in Keys : P!HasKey(workflow[v], c, key)
    BY <1>1
  <2> DEFINE existing == {u \in DOMAIN RunsOf(p) : RunsOf(p)[u].key = key}
  <2>2. v \in existing /\ key # None
    <3>1. v \in DOMAIN RunsOf(p)
      BY <1>1, <1>5, <2>1 DEF P!HasKey, RunsOf, View, P!RowsOf
    <3>2. RunsOf(p)[v].key = workflow[v].key
      BY <3>1, SameRunField
    <3> QED BY <2>1, <3>1, <3>2 DEF P!HasKey
  <2>3. a = [run |-> v, steps |-> P!Reference(p)!Read(P!Reference(p)!StepsOf(v)), existed |-> TRUE]
    BY <1>5, SameSteps, SelectIsRead
  <2>4. P!Reference(p)!createWorkflow(key, v, {})
    BY <1>2, <1>3, <1>5, <2>2, <2>3
    DEF P!Reference!createWorkflow, P!Reference!Answer, RunsOf, StepsOf, View
  <2>5. {} \in P!Reference(p)!NewSteps
    <3>1. P!Reference(p)!Cardinality({}) = 0
      BY FS_EmptySet DEF P!Reference!Cardinality, Cardinality
    <3> QED BY <3>1 DEF P!Reference!NewSteps
  <2>6. P!Reference(p)!RunCall(v)
    BY <2>4, <2>5 DEF P!Reference!RunCall
  <2> QED BY <1>1, <2>6 DEF Refers, P!Reference!Next
<1> QED BY <1>4, <1>5

\* What a tenant sees of rows inserted, for another tenant or for itself.
LEMMA OthersInsert ==
  ASSUME NEW rows, NEW more, NEW p, DOMAIN more \cap DOMAIN rows = {},
         \A x \in DOMAIN more : more[x].partition # p
  PROVE  View(P!Over(more, rows), p) = View(rows, p)
PROOF
<1> DEFINE all == P!Over(more, rows)
<1>1. /\ DOMAIN all = DOMAIN more \cup DOMAIN rows
      /\ \A x \in DOMAIN more : all[x] = more[x]
      /\ \A x \in DOMAIN rows : all[x] = rows[x]
  BY DEF P!Over
<1>2. \A x : x \in P!RowsOf(rows, p) <=> x \in DOMAIN rows /\ rows[x].partition = p
  BY DEF P!RowsOf
<1>3. \A x : x \in P!RowsOf(all, p) <=> x \in DOMAIN all /\ all[x].partition = p
  BY DEF P!RowsOf
<1> HIDE DEF all
<1>4. \A x : x \in P!RowsOf(all, p) <=> x \in P!RowsOf(rows, p)
  <2>1. ASSUME NEW x \in DOMAIN more PROVE x \notin P!RowsOf(all, p) /\ x \notin P!RowsOf(rows, p)
    BY <1>1, <1>2, <1>3
  <2>2. ASSUME NEW x, x \notin DOMAIN more
        PROVE  x \in P!RowsOf(all, p) <=> x \in P!RowsOf(rows, p)
    BY <1>1, <1>2, <1>3, <2>2
  <2> QED BY <2>1, <2>2
<1>5. P!RowsOf(all, p) = P!RowsOf(rows, p)
  BY <1>4
<1>6. View(all, p) = View(rows, p)
  BY <1>1, <1>2, <1>5 DEF View
<1> QED BY <1>6 DEF all

LEMMA OwnInsert ==
  ASSUME NEW rows, NEW more, NEW p, DOMAIN more \cap DOMAIN rows = {},
         \A x \in DOMAIN more : more[x].partition = p
  PROVE  View(P!Over(more, rows), p) = P!Over(P!Records(more), View(rows, p))
PROOF
<1> DEFINE all == P!Over(more, rows)
<1>1. /\ DOMAIN all = DOMAIN more \cup DOMAIN rows
      /\ \A x \in DOMAIN more : all[x] = more[x]
      /\ \A x \in DOMAIN rows : all[x] = rows[x]
  BY DEF P!Over
<1>2. \A x : x \in P!RowsOf(rows, p) <=> x \in DOMAIN rows /\ rows[x].partition = p
  BY DEF P!RowsOf
<1>3. \A x : x \in P!RowsOf(all, p) <=> x \in DOMAIN all /\ all[x].partition = p
  BY DEF P!RowsOf
<1> HIDE DEF all
<1>4. P!RowsOf(all, p) = DOMAIN more \cup P!RowsOf(rows, p)
  BY <1>1, <1>2, <1>3
<1>5. ASSUME NEW x \in P!RowsOf(all, p)
      PROVE  P!Record(all[x]) = IF x \in DOMAIN more THEN P!Records(more)[x] ELSE View(rows, p)[x]
  BY <1>1, <1>2, <1>3, <1>4 DEF P!Records, View
<1>6. DOMAIN P!Records(more) = DOMAIN more /\ DOMAIN View(rows, p) = P!RowsOf(rows, p)
  BY DEF P!Records, View
<1>7. View(all, p) = [x \in P!RowsOf(all, p) |-> P!Record(all[x])]
  BY DEF View
<1>8. View(all, p) = P!Over(P!Records(more), View(rows, p))
  BY <1>4, <1>5, <1>6, <1>7 DEF P!Over
<1> QED BY <1>8 DEF all

\* Rows of new steps are the reference store's.
LEMMA NewColumns ==
  ASSUME NEW p, NEW t, NEW w, NEW parent, NEW new
  PROVE  P!Records([s \in new |-> P!Column(t, w, parent)])
           = [s \in new |-> P!Reference(p)!NewStep(w, parent)]
PROOF
<1>1. P!Record(P!Column(t, w, parent)) = P!Reference(p)!NewStep(w, parent)
  <2> DEFINE col == P!Column(t, w, parent)
             new2 == P!Reference(p)!NewStep(w, parent)
  <2>1. (DOMAIN col) \ {"partition"} = DOMAIN new2
    BY DEF P!Column, P!Reference!NewStep
  <2>2. ASSUME NEW f \in DOMAIN new2 PROVE col[f] = new2[f]
    <3>1. f \in StepColumns \ {"partition"}
      BY <2>1 DEF P!Column, StepColumns
    <3>2. /\ col.wf = w /\ new2.wf = w /\ col.parent = parent /\ new2.parent = parent
          /\ col.status = new2.status /\ col.attempts = new2.attempts
          /\ col.started = new2.started /\ col.beat = new2.beat /\ col.output = new2.output
          /\ col.error = new2.error /\ col.over = new2.over
      BY DEF P!Column, P!Reference!NewStep
    <3> HIDE DEF col, new2
    <3> QED BY <3>1, <3>2 DEF StepColumns
  <2>3. new2 = [f \in DOMAIN new2 |-> new2[f]]
    BY DEF P!Reference!NewStep
  <2> HIDE DEF col, new2
  <2>4. P!Record(col) = new2
    BY <2>1, <2>2, <2>3 DEF P!Record
  <2> QED BY <2>4 DEF col, new2
<1> QED BY <1>1 DEF P!Records

\* The counter of a run moves: as the reference store's does for its tenant.
LEMMA CounterMoves ==
  ASSUME StoreOK, NEW c \in Connections, NEW f \in {"completed", "failed", "total"}, Counts(c, f),
         workflow' = P!Over(tx[c].workflow, workflow), NEW p \in Tenants
  PROVE  LET w == tx[c].run IN
         IF p = tenantOf[c] /\ w \in DOMAIN RunsOf(p)
           THEN RunsOf(p)' = Updated(RunsOf(p), {w}, [g \in {f} |-> RunsOf(p)[w][f] + tx[c].total])
           ELSE RunsOf(p)' = RunsOf(p)
PROOF
<1> DEFINE w == tx[c].run
           hit == P!Wf(c, w)
           new == [g \in {f} |-> workflow[w][f] + tx[c].total]
<1>1. hit \subseteq DOMAIN workflow /\ hit \subseteq {w}
  BY DEF P!Wf
<1>2. ASSUME NEW x \in hit
      PROVE  [workflow[x] EXCEPT ![f] = @ + tx[c].total] = P!Over(new, workflow[x])
  <2>1. x = w /\ DOMAIN workflow[x] = RunColumns /\ f \in RunColumns
    BY <1>1 DEF StoreOK, TablesOK, RunColumns
  <2> QED BY <2>1 DEF P!Over
<1>3. tx[c].workflow = [x \in hit |-> [workflow[x] EXCEPT ![f] = @ + tx[c].total]]
  BY DEF Counts
<1>4. "partition" \notin DOMAIN new
  OBVIOUS
<1> HIDE DEF new, hit
<1>5. tx[c].workflow = [x \in hit |-> P!Over(new, workflow[x])]
  BY <1>2, <1>3
<1>6. workflow' = Updated(workflow, hit, new)
  <2>1. P!Over(tx[c].workflow, workflow) = Updated(workflow, hit, new)
    BY <1>1, <1>5 DEF P!Over, Updated
  <2> QED BY <2>1
<1>7. RunsOf(p)' = Updated(RunsOf(p), hit, new)
  BY <1>4, <1>6, Written
<1>8. \A x \in DOMAIN RunsOf(p) : x \in hit <=> x = w /\ p = tenantOf[c]
  BY DEF hit, P!Wf, RunsOf, View, P!RowsOf
<1>9. CASE p = tenantOf[c] /\ w \in DOMAIN RunsOf(p)
  <2>1. RunsOf(p)[w][f] = workflow[w][f]
    BY <1>9, SameRunField
  <2>2. new = [g \in {f} |-> RunsOf(p)[w][f] + tx[c].total]
    BY <2>1 DEF new
  <2> QED BY <1>7, <1>8, <1>9, <2>2 DEF Updated
<1>10. CASE ~(p = tenantOf[c] /\ w \in DOMAIN RunsOf(p))
  <2>1. Updated(RunsOf(p), hit, new) = RunsOf(p)
    BY <1>8, <1>10 DEF Updated, RunsOf, View
  <2> QED BY <1>7, <1>10, <2>1
<1> QED BY <1>9, <1>10

\* A commit of the outcome of a step.
LEMMA SettleCommits ==
  ASSUME StoreOK, NEW c \in Connections, NEW f \in {"completed", "failed"},
         Settles(c, f), Counts(c, f), P!Commit(c), NEW p \in Tenants
  PROVE  Refers(p)
PROOF
<1>1. PICK w \in Runs : w = tx[c].run
  BY DEF Settles
<1>2. PICK s \in P!OfRun(c, w) : tx[c].step = [x \in {s} |-> P!Over(Settled(f), step[x])]
  BY <1>1 DEF Settles
<1>3. s \in Ids /\ s \in DOMAIN step /\ step[s].partition = tenantOf[c]
  BY <1>2 DEF P!OfRun, P!Step, StoreOK, TablesOK
<1>4. tx[c].total = 1 /\ tx[c].result = P!Nothing
  BY DEF Settles
<1>5. "partition" \notin DOMAIN Settled(f)
  BY DEF Settled
<1>6. step' = Updated(step, {s}, Settled(f))
  BY <1>2, <1>3 DEF P!Commit, P!Over, Updated
<1>7. StepsOf(p)' = Updated(StepsOf(p), {s}, Settled(f))
  BY <1>5, <1>6, Written
<1>8. IF p = tenantOf[c] /\ w \in DOMAIN RunsOf(p)
        THEN RunsOf(p)' = Updated(RunsOf(p), {w}, [g \in {f} |-> RunsOf(p)[w][f] + 1])
        ELSE RunsOf(p)' = RunsOf(p)
  BY <1>1, <1>4, CounterMoves DEF P!Commit
<1>9. returned'[p] = IF p = tenantOf[c] THEN P!Nothing ELSE returned[p]
  BY <1>4 DEF P!Commit, P!Return, StoreOK
<1>10. CASE p # tenantOf[c]
  <2>1. StepsOf(p)' = StepsOf(p)
    BY <1>3, <1>7, <1>10 DEF Updated, StepsOf, View, P!RowsOf
  <2> QED BY <1>8, <1>9, <1>10, <2>1 DEF Refers, P!Reference!vars, RunsOf, StepsOf, View
<1>11. CASE p = tenantOf[c]
  <2>1. P!Reference(p)!Change(s, Settled(f))
    BY <1>7, SameOver DEF P!Reference!Change, View, StepsOf, Updated
  <2>2. P!Reference(p)!Answer(P!Reference(p)!Nothing)
    BY <1>9, <1>11 DEF P!Reference!Answer, P!Reference!Nothing, P!Nothing
  <2>3. ASSUME w \in DOMAIN RunsOf(p)
        PROVE  P!Reference(p)!ChangeRun(w, [g \in {f} |-> RunsOf(p)[w][f] + 1])
    BY <1>8, <1>11, <2>3, SameOver DEF P!Reference!ChangeRun, View, RunsOf, Updated
  <2>4. w \notin DOMAIN RunsOf(p) => RunsOf(p)' = RunsOf(p)
    BY <1>8
  <2>5. CASE f = "completed"
    <3>1. [g \in {f} |-> RunsOf(p)[w][f] + 1] = [completed |-> RunsOf(p)[w].completed + 1]
      BY <2>5
    <3>2. Settled(f) = [status |-> "completed", output |-> "x", over |-> TRUE]
      BY <2>5 DEF Settled
    <3>3. P!Reference(p)!completeStep(s, w, "x")
      BY <2>1, <2>2, <2>3, <2>4, <3>1, <3>2 DEF P!Reference!completeStep, RunsOf, View
    <3>4. P!Reference(p)!RunCall(w)
      BY <1>3, <3>3 DEF P!Reference!RunCall
    <3> QED BY <3>4 DEF Refers, P!Reference!Next
  <2>6. CASE f = "failed"
    <3>1. [g \in {f} |-> RunsOf(p)[w][f] + 1] = [failed |-> RunsOf(p)[w].failed + 1]
      BY <2>6
    <3>2. Settled(f) = [status |-> "failed", error |-> "e", over |-> TRUE]
      BY <2>6 DEF Settled
    <3>3. P!Reference(p)!failStep(s, w, "e")
      BY <2>1, <2>2, <2>3, <2>4, <3>1, <3>2 DEF P!Reference!failStep, RunsOf, View
    <3>4. P!Reference(p)!RunCall(w)
      BY <1>3, <3>3 DEF P!Reference!RunCall
    <3> QED BY <3>4 DEF Refers, P!Reference!Next
  <2> QED BY <2>5, <2>6
<1> QED BY <1>10, <1>11

\* A commit of the children of a step.
LEMMA AddCommits ==
  ASSUME StoreOK, NEW c \in Connections, Adds(c), Counts(c, "total"), P!Commit(c), NEW p \in Tenants
  PROVE  Refers(p)
PROOF
<1>1. PICK w \in Runs : w = tx[c].run
  BY DEF Adds, StoreOK, TablesOK
<1>2. PICK parent \in Ids, new \in P!NewSteps :
        /\ new \cap DOMAIN step = {}
        /\ tx[c].step = [s \in new |-> P!Column(tenantOf[c], w, parent)]
        /\ tx[c].total = P!Cardinality(new) /\ tx[c].result = [rows |-> P!Records(tx[c].step)]
  BY <1>1 DEF Adds
<1> DEFINE more == [s \in new |-> P!Column(tenantOf[c], w, parent)]
           rows == [s \in new |-> P!Reference(p)!NewStep(w, parent)]
<1>3. P!Records(more) = rows
  BY NewColumns
<1>4. DOMAIN more = new /\ \A s \in new : more[s].partition = tenantOf[c]
  BY DEF P!Column
<1>5. DOMAIN rows = new
  OBVIOUS
<1>6. tx[c].step = more /\ step' = P!Over(more, step)
  BY <1>2 DEF P!Commit
<1>7. returned'[p] = IF p = tenantOf[c] THEN [rows |-> rows] ELSE returned[p]
  BY <1>2, <1>3, <1>6 DEF P!Commit, P!Return, StoreOK
<1>8. IF p = tenantOf[c] /\ w \in DOMAIN RunsOf(p)
        THEN RunsOf(p)' = Updated(RunsOf(p), {w},
                                  [g \in {"total"} |-> RunsOf(p)[w].total + P!Cardinality(new)])
        ELSE RunsOf(p)' = RunsOf(p)
  BY <1>1, <1>2, CounterMoves DEF P!Commit
<1> HIDE DEF more, rows
<1>9. IF p = tenantOf[c] THEN StepsOf(p)' = P!Over(rows, StepsOf(p)) ELSE StepsOf(p)' = StepsOf(p)
  <2>1. StepsOf(p)' = View(P!Over(more, step), p)
    BY <1>6 DEF StepsOf
  <2>0. DOMAIN more \cap DOMAIN step = {} /\ \A x \in DOMAIN more : more[x].partition = tenantOf[c]
    BY <1>2, <1>4
  <2>2. /\ p # tenantOf[c] => View(P!Over(more, step), p) = View(step, p)
        /\ p = tenantOf[c] => View(P!Over(more, step), p) = P!Over(P!Records(more), View(step, p))
    BY <2>0, OwnInsert, OthersInsert
  <2> QED BY <1>3, <2>1, <2>2 DEF StepsOf
<1>10. CASE p # tenantOf[c]
  BY <1>7, <1>8, <1>9, <1>10 DEF Refers, P!Reference!vars, RunsOf, StepsOf, View
<1>11. CASE p = tenantOf[c]
  <2>1. new \cap DOMAIN StepsOf(p) = {}
    BY <1>2 DEF StepsOf, View, P!RowsOf
  <2>2. P!Cardinality(new) = P!Reference(p)!Cardinality(new)
    BY DEF P!Cardinality, P!Reference!Cardinality
  <2>3. [g \in {"total"} |-> RunsOf(p)[w].total + P!Cardinality(new)]
          = [total |-> RunsOf(p)[w].total + P!Reference(p)!Cardinality(new)]
    BY <2>2
  <2>4. ASSUME w \in DOMAIN RunsOf(p)
        PROVE  P!Reference(p)!ChangeRun(w,
                 [total |-> RunsOf(p)[w].total + P!Reference(p)!Cardinality(new)])
    <3> DEFINE n == [total |-> RunsOf(p)[w].total + P!Reference(p)!Cardinality(new)]
    <3>1. RunsOf(p)' = Updated(RunsOf(p), {w}, n)
      BY <1>8, <1>11, <2>3, <2>4
    <3> HIDE DEF n
    <3>2. P!Reference(p)!ChangeRun(w, n)
      BY <3>1, SameOver DEF P!Reference!ChangeRun, View, RunsOf, Updated
    <3> QED BY <3>2 DEF n
  <2>5. P!Reference(p)!addChildSteps(w, parent, new)
    BY <1>7, <1>8, <1>9, <1>11, <2>1, <2>4, SameOver
    DEF P!Reference!addChildSteps, P!Reference!Answer, RunsOf, StepsOf, View, rows
  <2>6. new \in P!Reference(p)!NewSteps
    BY DEF P!NewSteps, P!Reference!NewSteps, P!Cardinality, P!Reference!Cardinality
  <2>7. P!Reference(p)!RunCall(w)
    BY <2>5, <2>6 DEF P!Reference!RunCall
  <2> QED BY <2>7 DEF Refers, P!Reference!Next
<1> QED BY <1>10, <1>11

\* A commit of a new run.
LEMMA CreateCommits ==
  ASSUME StoreOK, NEW c \in Connections, Creates(c), P!Commit(c), NEW p \in Tenants
  PROVE  Refers(p)
PROOF
<1>1. PICK key \in Keys \cup {None}, w \in Runs, new \in P!NewSteps :
        /\ w \notin DOMAIN workflow /\ new \cap DOMAIN step = {}
        /\ \A v \in DOMAIN workflow : ~P!HasKey(workflow[v], c, key)
        /\ tx[c].workflow = [v \in {w} |->
             [partition |-> tenantOf[c], status |-> "running", key |-> key,
              total |-> P!Cardinality(new), completed |-> 0, failed |-> 0, output |-> None,
              error |-> None, over |-> FALSE]]
        /\ tx[c].step = [s \in new |-> P!Column(tenantOf[c], w, None)]
        /\ tx[c].result = [run |-> w, steps |-> P!Records(tx[c].step), existed |-> FALSE]
  BY DEF Creates
<1> DEFINE more == [s \in new |-> P!Column(tenantOf[c], w, None)]
           rows == [s \in new |-> P!Reference(p)!NewStep(w, None)]
           row1 == [partition |-> tenantOf[c], status |-> "running", key |-> key,
                    total |-> P!Cardinality(new), completed |-> 0, failed |-> 0, output |-> None,
                    error |-> None, over |-> FALSE]
           run1 == P!Reference(p)!NewRun(key, P!Reference(p)!Cardinality(new))
           result1 == [run |-> w, steps |-> rows, existed |-> FALSE]
<1>2. P!Records(more) = rows
  BY NewColumns
<1>3. DOMAIN more = new /\ \A s \in new : more[s].partition = tenantOf[c]
  BY DEF P!Column
<1>4. P!Record(row1) = run1
  <2>1. P!Cardinality(new) = P!Reference(p)!Cardinality(new)
    BY DEF P!Cardinality, P!Reference!Cardinality
  <2>2. (DOMAIN row1) \ {"partition"} = DOMAIN run1
    BY DEF P!Reference!NewRun
  <2>3. /\ row1.status = run1.status /\ row1.key = run1.key /\ row1.total = run1.total
        /\ row1.completed = run1.completed /\ row1.failed = run1.failed
        /\ row1.output = run1.output /\ row1.error = run1.error /\ row1.over = run1.over
    BY <2>1 DEF P!Reference!NewRun
  <2>4. DOMAIN run1 = RunColumns \ {"partition"} /\ run1 = [f \in DOMAIN run1 |-> run1[f]]
    BY DEF P!Reference!NewRun, RunColumns
  <2> HIDE DEF row1, run1
  <2>5. \A f \in DOMAIN run1 : row1[f] = run1[f]
    BY <2>3, <2>4 DEF RunColumns
  <2> QED BY <2>2, <2>4, <2>5 DEF P!Record
<1>5. row1.partition = tenantOf[c]
  OBVIOUS
<1>6. tx[c].step = more /\ step' = P!Over(more, step)
  BY <1>1 DEF P!Commit
<1>7. tx[c].result = result1
  BY <1>1, <1>2, <1>6
<1> HIDE DEF result1
<1>8. returned'[p] = IF p = tenantOf[c] THEN result1 ELSE returned[p]
  BY <1>7 DEF P!Commit, P!Return, StoreOK
<1>9. workflow' = P!Over([v \in {w} |-> row1], workflow)
  BY <1>1 DEF P!Commit
<1> HIDE DEF more, rows, row1, run1
<1>10. IF p = tenantOf[c] THEN StepsOf(p)' = P!Over(rows, StepsOf(p)) ELSE StepsOf(p)' = StepsOf(p)
  <2>1. StepsOf(p)' = View(P!Over(more, step), p)
    BY <1>6 DEF StepsOf
  <2>0. DOMAIN more \cap DOMAIN step = {} /\ \A x \in DOMAIN more : more[x].partition = tenantOf[c]
    BY <1>1, <1>3
  <2>2. /\ p # tenantOf[c] => View(P!Over(more, step), p) = View(step, p)
        /\ p = tenantOf[c] => View(P!Over(more, step), p) = P!Over(P!Records(more), View(step, p))
    BY <2>0, OwnInsert, OthersInsert
  <2> QED BY <1>2, <2>1, <2>2 DEF StepsOf
<1>11. IF p = tenantOf[c] THEN RunsOf(p)' = P!Over([v \in {w} |-> run1], RunsOf(p))
                          ELSE RunsOf(p)' = RunsOf(p)
  <2> DEFINE one == [v \in {w} |-> row1]
  <2>1. RunsOf(p)' = View(P!Over(one, workflow), p)
    BY <1>9 DEF RunsOf
  <2>2. DOMAIN one \cap DOMAIN workflow = {} /\ \A v \in DOMAIN one : one[v].partition = tenantOf[c]
    BY <1>1, <1>5
  <2>3. P!Records(one) = [v \in {w} |-> run1]
    BY <1>4 DEF P!Records
  <2> HIDE DEF one
  <2>4. /\ p # tenantOf[c] => View(P!Over(one, workflow), p) = View(workflow, p)
        /\ p = tenantOf[c] => View(P!Over(one, workflow), p)
                                = P!Over(P!Records(one), View(workflow, p))
    BY <2>2, OwnInsert, OthersInsert
  <2> QED BY <2>1, <2>3, <2>4 DEF RunsOf
<1>12. CASE p # tenantOf[c]
  BY <1>8, <1>10, <1>11, <1>12 DEF Refers, P!Reference!vars, RunsOf, StepsOf, View
<1>13. CASE p = tenantOf[c]
  <2>1. new \cap DOMAIN StepsOf(p) = {} /\ w \notin DOMAIN RunsOf(p)
    BY <1>1 DEF RunsOf, StepsOf, View, P!RowsOf
  <2> DEFINE existing == {v \in DOMAIN RunsOf(p) : RunsOf(p)[v].key = key}
  <2>2. ~(key # None /\ existing # {})
    <3>1. SUFFICES ASSUME key # None, NEW v \in DOMAIN RunsOf(p), RunsOf(p)[v].key = key
                   PROVE  FALSE
      OBVIOUS
    <3>2. v \in DOMAIN workflow /\ workflow[v].partition = p /\ workflow[v].key = key
      BY <3>1, SameRunField
    <3> QED BY <1>1, <1>13, <3>1, <3>2 DEF P!HasKey
  <2>3. P!Reference(p)!createWorkflow(key, w, new)
    BY <1>8, <1>10, <1>11, <1>13, <2>1, <2>2, SameOver
    DEF P!Reference!createWorkflow, P!Reference!Answer, RunsOf, StepsOf, View, rows, run1, result1
  <2>4. new \in P!Reference(p)!NewSteps
    BY DEF P!NewSteps, P!Reference!NewSteps, P!Cardinality, P!Reference!Cardinality
  <2>5. P!Reference(p)!RunCall(w)
    BY <2>3, <2>4 DEF P!Reference!RunCall
  <2> QED BY <2>5 DEF Refers, P!Reference!Next
<1> QED BY <1>12, <1>13

-----------------------------------------------------------------------------
\* What the others leave to a transaction: its locks, and the runs there are.
Keeps(d) ==
  /\ tx'[d] = tx[d] /\ tenantOf' = tenantOf
  /\ \A s \in DOMAIN tx[d].step :
       /\ s \in DOMAIN step' <=> s \in DOMAIN step
       /\ s \in DOMAIN step => step'[s] = step[s]
  /\ \A w \in DOMAIN workflow :
       /\ w \in DOMAIN workflow' /\ workflow'[w].partition = workflow[w].partition
       /\ workflow'[w].key = workflow[w].key
  /\ \A w \in DOMAIN tx[d].workflow :
       /\ w \in DOMAIN workflow' <=> w \in DOMAIN workflow
       /\ w \in DOMAIN workflow => workflow'[w] = workflow[w]
  /\ \A v \in DOMAIN workflow' \ DOMAIN workflow, u \in DOMAIN tx[d].workflow \ DOMAIN workflow :
       LET a == workflow'[v]  b == tx[d].workflow[u] IN
       a.partition = b.partition /\ a.key = b.key => a.key = None

\* What the others leave keeps each part of what a transaction knows.
LEMMA KeepsSettles ==
  ASSUME StoreOK, NEW d \in Connections, Keeps(d), NEW f, Settles(d, f)
  PROVE  Settles(d, f)' /\ tx[d].run \in DOMAIN workflow
PROOF
<1>1. PICK s \in P!OfRun(d, tx[d].run) :
        /\ tx[d].step = [x \in {s} |-> P!Over(Settled(f), step[x])]
        /\ tx[d].run \in Runs /\ tx[d].total = 1 /\ tx[d].result = P!Nothing
  BY DEF Settles
<1>2. s \in DOMAIN step /\ step[s].partition = tenantOf[d] /\ step[s].wf = tx[d].run
  BY <1>1 DEF P!OfRun, P!Step
<1>3. s \in DOMAIN tx[d].step
  BY <1>1
<1>4. s \in DOMAIN step' /\ step'[s] = step[s] /\ tx'[d] = tx[d] /\ tenantOf' = tenantOf
  BY <1>2, <1>3 DEF Keeps
<1>5. s \in P!OfRun(d, tx[d].run)'
  BY <1>2, <1>4 DEF P!OfRun, P!Step
<1>6. tx'[d].step = [x \in {s} |-> P!Over(Settled(f), step'[x])]
  BY <1>1, <1>4
<1> QED BY <1>1, <1>2, <1>4, <1>5, <1>6 DEF Settles, StoreOK, TablesOK, Settled, P!Over, P!Nothing

LEMMA KeepsAdds ==
  ASSUME StoreOK, NEW d \in Connections, Keeps(d), Adds(d)
  PROVE  Adds(d)' /\ tx[d].run \in DOMAIN workflow
PROOF
<1>1. PICK parent \in Ids, new \in P!NewSteps :
        /\ new \cap DOMAIN step = {} /\ tx[d].run \in DOMAIN workflow
        /\ tx[d].step = [s \in new |-> P!Column(tenantOf[d], tx[d].run, parent)]
        /\ tx[d].total = P!Cardinality(new) /\ tx[d].result = [rows |-> P!Records(tx[d].step)]
  BY DEF Adds
<1>2. tx'[d] = tx[d] /\ tenantOf' = tenantOf
  BY DEF Keeps
<1>3. DOMAIN tx[d].step = new
  BY <1>1
<1>4. new \cap DOMAIN step' = {}
  BY <1>1, <1>3 DEF Keeps
<1>5. tx[d].run \in DOMAIN workflow'
  BY <1>1 DEF Keeps
<1>6. Adds(d)'
  BY <1>1, <1>2, <1>4, <1>5 DEF Adds
<1> QED BY <1>1, <1>6

LEMMA KeepsCounts ==
  ASSUME StoreOK, NEW d \in Connections, Keeps(d), NEW f, Counts(d, f),
         tx[d].run \in DOMAIN workflow
  PROVE  Counts(d, f)'
PROOF
<1> DEFINE w == tx[d].run
<1>1. tx'[d] = tx[d] /\ tenantOf' = tenantOf
  BY DEF Keeps
<1>2. w \in DOMAIN workflow' /\ workflow'[w].partition = workflow[w].partition
  BY DEF Keeps
<1>3. P!Wf(d, w)' = P!Wf(d, w)
  BY <1>1, <1>2 DEF P!Wf
<1>4. tx[d].workflow = [x \in P!Wf(d, w) |-> [workflow[x] EXCEPT ![f] = @ + tx[d].total]]
  BY DEF Counts
<1>5. \A x \in P!Wf(d, w) : x \in DOMAIN tx[d].workflow /\ x \in DOMAIN workflow
  BY <1>4 DEF P!Wf
<1>6. \A x \in P!Wf(d, w) : workflow'[x] = workflow[x]
  BY <1>5 DEF Keeps
<1>7. tx'[d].workflow = [x \in P!Wf(d, w)' |-> [workflow'[x] EXCEPT ![f] = @ + tx'[d].total]]
  BY <1>1, <1>3, <1>4, <1>6
<1> QED BY <1>1, <1>7 DEF Counts

LEMMA KeepsCreates ==
  ASSUME StoreOK, NEW d \in Connections, Keeps(d), Creates(d)
  PROVE  Creates(d)'
PROOF
<1>1. PICK key \in Keys \cup {None}, w \in Runs, new \in P!NewSteps :
        /\ w \notin DOMAIN workflow /\ new \cap DOMAIN step = {}
        /\ \A v \in DOMAIN workflow : ~P!HasKey(workflow[v], d, key)
        /\ tx[d].workflow = [v \in {w} |->
             [partition |-> tenantOf[d], status |-> "running", key |-> key,
              total |-> P!Cardinality(new), completed |-> 0, failed |-> 0, output |-> None,
              error |-> None, over |-> FALSE]]
        /\ tx[d].step = [s \in new |-> P!Column(tenantOf[d], w, None)]
        /\ tx[d].result = [run |-> w, steps |-> P!Records(tx[d].step), existed |-> FALSE]
  BY DEF Creates
<1>2. tx'[d] = tx[d] /\ tenantOf' = tenantOf
  BY DEF Keeps
<1>3. DOMAIN tx[d].step = new /\ DOMAIN tx[d].workflow = {w}
  BY <1>1
<1>4. new \cap DOMAIN step' = {} /\ w \notin DOMAIN workflow'
  BY <1>1, <1>3 DEF Keeps
<1>5. tx[d].workflow[w].partition = tenantOf[d] /\ tx[d].workflow[w].key = key
  BY <1>1
<1>6. ASSUME NEW v \in DOMAIN workflow' PROVE ~P!HasKey(workflow[v], d, key)'
  <2>1. CASE v \in DOMAIN workflow
    BY <1>1, <1>2, <2>1 DEF Keeps, P!HasKey
  <2>2. CASE v \notin DOMAIN workflow
    <3>1. workflow'[v].partition = tenantOf[d] /\ workflow'[v].key = key => key = None
      BY <1>1, <1>3, <1>5, <2>2 DEF Keeps
    <3> QED BY <1>2, <3>1 DEF P!HasKey
  <2> QED BY <2>1, <2>2
<1>7. /\ \A v \in DOMAIN workflow' : ~P!HasKey(workflow[v], d, key)'
      /\ tx'[d].workflow = [v \in {w} |->
           [partition |-> tenantOf'[d], status |-> "running", key |-> key,
            total |-> P!Cardinality(new), completed |-> 0, failed |-> 0, output |-> None,
            error |-> None, over |-> FALSE]]
      /\ tx'[d].step = [s \in new |-> P!Column(tenantOf'[d], w, None)]
      /\ tx'[d].result = [run |-> w, steps |-> P!Records(tx'[d].step), existed |-> FALSE]
  BY <1>1, <1>2, <1>6
<1> QED BY <1>4, <1>7 DEF Creates, P!HasKey

\* So a transaction is right about what it will commit, whatever the others do.
LEMMA KeepsInTx ==
  ASSUME StoreOK, NEW d \in Connections, Keeps(d), InTx(d)
  PROVE  InTx(d)'
PROOF
<1>1. tx'[d] = tx[d] /\ tenantOf' = tenantOf
  BY DEF Keeps
<1>2. /\ tx'[d].pc \in {"idle", "existing"} => DOMAIN tx'[d].step = {}
      /\ tx'[d].pc # "commit" => DOMAIN tx'[d].workflow = {}
  BY <1>1 DEF InTx
<1>3. tx'[d].pc = "existing" =>
        tx'[d].run \in DOMAIN workflow' /\ \E key \in Keys : P!HasKey(workflow[tx[d].run], d, key)'
  BY <1>1 DEF InTx, Keeps, P!HasKey
<1>4. tx'[d].pc \in {"completed", "failed"} => Settles(d, tx[d].pc)'
  <2>1. SUFFICES ASSUME tx[d].pc \in {"completed", "failed"} PROVE Settles(d, tx[d].pc)'
    BY <1>1
  <2>2. PICK f \in {"completed", "failed"} : f = tx[d].pc
    BY <2>1
  <2>3. Settles(d, f)
    BY <2>2 DEF InTx
  <2>4. Settles(d, f)'
    BY <2>3, KeepsSettles
  <2> QED BY <1>1, <2>2, <2>4 DEF Settles
<1>5. tx'[d].pc = "total" => Adds(d)'
  BY <1>1, KeepsAdds DEF InTx
<1>6. tx'[d].pc = "commit" =>
        \/ \E f \in {"completed", "failed"} : Settles(d, f)' /\ Counts(d, f)'
        \/ Adds(d)' /\ Counts(d, "total")'
        \/ Creates(d)'
  BY <1>1, KeepsSettles, KeepsAdds, KeepsCounts, KeepsCreates DEF InTx
<1> QED BY <1>2, <1>3, <1>4, <1>5, <1>6 DEF InTx

-----------------------------------------------------------------------------
\* A call of one statement: it changes rows that no transaction has locked.
LEMMA RowsMove ==
  ASSUME StoreInv, NEW c \in Connections, tx[c].pc = "idle", tx' = tx, tenantOf' = tenantOf,
         DOMAIN returned' = Tenants, TablesOK(workflow', step'), DOMAIN workflow' = DOMAIN workflow,
         \A d \in Connections \ {c} : Keeps(d)
  PROVE  StoreInv'
PROOF
<1>1. StoreOK'
  BY DEF StoreInv, StoreOK, TenantsOK
<1>2. ASSUME NEW d \in Connections PROVE InTx(d)'
  <2>1. CASE d = c
    BY <2>1 DEF StoreInv, InTx
  <2>2. CASE d # c
    BY <2>2, KeepsInTx DEF StoreInv
  <2> QED BY <2>1, <2>2
<1>3. TxApart'
  BY DEF StoreInv, TxApart, Apart
<1> QED BY <1>1, <1>2, <1>3 DEF StoreInv

\* A transaction moves, and no row does.
LEMMA TxMoves ==
  ASSUME StoreInv, NEW c \in Connections, UNCHANGED <<tenantOf, workflow, step>>,
         DOMAIN returned' = Tenants, DOMAIN tx' = Connections,
         \A d \in Connections \ {c} : tx'[d] = tx[d],
         DOMAIN tx'[c] = TxFields, tx'[c].pc \in TxPcs, InTx(c)',
         \A d \in Connections \ {c} : Apart(c, d)'
  PROVE  StoreInv'
PROOF
<1>1. StoreOK'
  BY DEF StoreInv, StoreOK, TenantsOK, TablesOK
<1>2. ASSUME NEW d \in Connections \ {c} PROVE Keeps(d)
  BY DEF Keeps, StoreInv, StoreOK
<1>3. ASSUME NEW d \in Connections PROVE InTx(d)'
  <2>1. CASE d # c
    BY <1>2, <2>1, KeepsInTx DEF StoreInv
  <2> QED BY <2>1
<1>4. ASSUME NEW a \in Connections, NEW b \in Connections, a # b PROVE Apart(a, b)'
  <2>1. CASE a = c
    BY <1>4, <2>1
  <2>2. CASE b = c
    <3>1. Apart(b, a)'
      BY <1>4, <2>2
    <3> QED BY <3>1 DEF Apart
  <2>3. CASE a # c /\ b # c
    <3>1. Apart(a, b) /\ tx'[a] = tx[a] /\ tx'[b] = tx[b]
      BY <1>4, <2>3 DEF StoreInv, TxApart
    <3> QED BY <3>1 DEF Apart
  <2> QED BY <2>1, <2>2, <2>3
<1> QED BY <1>1, <1>3, <1>4 DEF StoreInv, TxApart

\* What the columns of a step that a call writes may be.
StepWrites(new) == DOMAIN new \subseteq StepColumns \ {"partition", "wf"}

\* An UPDATE of steps waits for their locks.
LEMMA QueryKeeps ==
  ASSUME StoreInv, NEW c \in Connections, NEW hit, NEW new, NEW x, StepWrites(new),
         P!Query(c, hit, new, x)
  PROVE  StoreInv'
PROOF
<1>0. step' = Updated(step, hit, new)
  BY DEF P!Query, Updated
<1>1. /\ tx[c].pc = "idle" /\ tx' = tx /\ tenantOf' = tenantOf /\ workflow' = workflow
      /\ P!FreeSteps(c, hit) /\ P!Return(c, x)
  BY DEF P!Query, P!Called
<1>2. DOMAIN step' = DOMAIN step
  BY <1>0 DEF Updated
<1>3. DOMAIN returned' = Tenants
  BY <1>1 DEF P!Return, StoreInv, StoreOK
<1>4. ASSUME NEW s \in DOMAIN step
      PROVE  DOMAIN step'[s] = StepColumns /\ step'[s].wf = step[s].wf
  <2>1. DOMAIN step[s] = StepColumns
    BY DEF StoreInv, StoreOK, TablesOK
  <2>2. step'[s] = IF s \in hit THEN P!Over(new, step[s]) ELSE step[s]
    BY <1>0 DEF Updated
  <2>3. DOMAIN P!Over(new, step[s]) = StepColumns /\ P!Over(new, step[s]).wf = step[s].wf
    BY <2>1 DEF P!Over, StepWrites, StepColumns
  <2> QED BY <2>1, <2>2, <2>3
<1>5. TablesOK(workflow', step')
  BY <1>1, <1>2, <1>4 DEF TablesOK, StoreInv, StoreOK
<1>6. ASSUME NEW d \in Connections \ {c} PROVE Keeps(d)
  <2>1. ASSUME NEW s \in DOMAIN tx[d].step PROVE s \in DOMAIN step => step'[s] = step[s]
    BY <1>0, <1>1, <2>1 DEF P!FreeSteps, Updated
  <2> QED BY <1>1, <1>2, <2>1 DEF Keeps
<1> QED BY <1>1, <1>3, <1>5, <1>6, RowsMove

\* So does a DELETE.
LEMMA DeleteKeeps ==
  ASSUME StoreInv, NEW c \in Connections, NEW q, P!deleteChildSteps(c, q)
  PROVE  StoreInv'
PROOF
<1> DEFINE gone == P!Children(c, q)
<1>1. /\ tx[c].pc = "idle" /\ tx' = tx /\ tenantOf' = tenantOf /\ workflow' = workflow
      /\ P!FreeSteps(c, gone) /\ step' = [s \in (DOMAIN step) \ gone |-> step[s]]
  BY DEF P!deleteChildSteps, P!Called
<1>2. DOMAIN returned' = Tenants
  BY DEF P!deleteChildSteps, P!Return, StoreInv, StoreOK
<1> HIDE DEF gone
<1>3. TablesOK(workflow', step')
  BY <1>1 DEF TablesOK, StoreInv, StoreOK
<1>4. ASSUME NEW d \in Connections \ {c} PROVE Keeps(d)
  <2>1. ASSUME NEW s \in DOMAIN tx[d].step
        PROVE  /\ s \in DOMAIN step' <=> s \in DOMAIN step
               /\ s \in DOMAIN step => step'[s] = step[s]
    BY <1>1, <2>1 DEF P!FreeSteps
  <2> QED BY <1>1, <2>1 DEF Keeps
<1> QED BY <1>1, <1>2, <1>3, <1>4, RowsMove

\* An UPDATE of a run waits for its lock, and writes neither its key nor its tenant.
LEMMA RunKeeps ==
  ASSUME StoreInv, NEW c \in Connections, NEW w, NEW new,
         DOMAIN new \subseteq RunColumns \ {"partition", "key"}, P!QueryRun(c, w, new)
  PROVE  StoreInv'
PROOF
<1>0. workflow' = Updated(workflow, P!Wf(c, w), new)
  BY DEF P!QueryRun, Updated
<1>1. /\ tx[c].pc = "idle" /\ tx' = tx /\ tenantOf' = tenantOf /\ step' = step
      /\ P!FreeRun(c, w) /\ P!Return(c, P!Nothing)
  BY DEF P!QueryRun, P!Called
<1>2. DOMAIN workflow' = DOMAIN workflow
  BY <1>0 DEF Updated
<1>3. DOMAIN returned' = Tenants
  BY <1>1 DEF P!Return, StoreInv, StoreOK
<1>4. ASSUME NEW v \in DOMAIN workflow
      PROVE  /\ DOMAIN workflow'[v] = RunColumns /\ workflow'[v].partition = workflow[v].partition
             /\ workflow'[v].key = workflow[v].key
  <2>1. DOMAIN workflow[v] = RunColumns
    BY DEF StoreInv, StoreOK, TablesOK
  <2>2. workflow'[v] = IF v \in P!Wf(c, w) THEN P!Over(new, workflow[v]) ELSE workflow[v]
    BY <1>0 DEF Updated
  <2>3. /\ DOMAIN P!Over(new, workflow[v]) = RunColumns
        /\ P!Over(new, workflow[v]).partition = workflow[v].partition
        /\ P!Over(new, workflow[v]).key = workflow[v].key
    BY <2>1 DEF P!Over, RunColumns
  <2> QED BY <2>1, <2>2, <2>3
<1>5. TablesOK(workflow', step')
  BY <1>1, <1>2, <1>4 DEF TablesOK, StoreInv, StoreOK
<1>6. ASSUME NEW d \in Connections \ {c} PROVE Keeps(d)
  <2>1. ASSUME NEW v \in DOMAIN tx[d].workflow, v \in DOMAIN workflow
        PROVE  workflow'[v] = workflow[v]
    <3>1. v \notin P!Wf(c, w)
      BY <1>1, <2>1 DEF P!FreeRun, P!Wf
    <3> QED BY <1>0, <2>1, <3>1 DEF Updated
  <2> QED BY <1>1, <1>2, <1>4, <2>1 DEF Keeps
<1> QED BY <1>1, <1>2, <1>3, <1>5, <1>6, RowsMove

\* A SELECT changes no row.
LEMMA AnswerKeeps ==
  ASSUME StoreInv, NEW c \in Connections, NEW x, P!Answer(c, x)
  PROVE  StoreInv'
PROOF
<1>1. /\ tx[c].pc = "idle" /\ tx' = tx /\ tenantOf' = tenantOf /\ workflow' = workflow
      /\ step' = step /\ DOMAIN returned' = Tenants
  BY DEF P!Answer, P!Called, P!Return, StoreInv, StoreOK
<1>2. TablesOK(workflow', step')
  BY <1>1 DEF StoreInv, StoreOK
<1>3. \A d \in Connections : Keeps(d)
  BY <1>1 DEF Keeps
<1> QED BY <1>1, <1>2, <1>3, RowsMove

\* A transaction goes on: some of its fields are new.
LEMMA GotoDoes ==
  ASSUME StoreOK, NEW c \in Connections, NEW new, DOMAIN new \subseteq TxFields, P!Goto(c, new)
  PROVE  /\ DOMAIN tx' = Connections /\ (\A d \in Connections \ {c} : tx'[d] = tx[d])
         /\ DOMAIN tx'[c] = TxFields /\ tx'[c] = P!Over(new, tx[c])
PROOF BY DEF P!Goto, P!Over, StoreOK

\* completeStep and failStep lock the step.
LEMMA SettleKeeps ==
  ASSUME StoreInv, NEW c \in Connections, NEW w \in Runs, NEW s \in P!OfRun(c, w),
         NEW f \in {"completed", "failed"}, P!Settle(c, s, w, Settled(f), f)
  PROVE  StoreInv'
PROOF
<1> DEFINE rows == [x \in P!Step(c, {s}) |-> P!Over(Settled(f), step[x])]
           new == [pc |-> f, run |-> w, total |-> 1, result |-> P!Nothing, step |-> rows]
<1>1. /\ P!Goto(c, new) /\ tx[c].pc = "idle" /\ P!FreeSteps(c, P!Step(c, {s}))
      /\ UNCHANGED <<tenantOf, workflow, step, returned>>
  BY DEF P!Settle, P!Called
<1>2. P!Step(c, {s}) = {s}
  BY DEF P!OfRun, P!Step
<1>3. DOMAIN new = {"pc", "run", "total", "result", "step"} /\ DOMAIN new \subseteq TxFields
  BY DEF TxFields
<1>4. /\ new.pc = f /\ new.run = w /\ new.total = 1 /\ new.result = P!Nothing /\ new.step = rows
      /\ rows = [x \in {s} |-> P!Over(Settled(f), step[x])] /\ DOMAIN rows = {s}
  BY <1>2
<1> HIDE DEF new, rows
<1>5. /\ DOMAIN tx' = Connections /\ (\A d \in Connections \ {c} : tx'[d] = tx[d])
      /\ DOMAIN tx'[c] = TxFields /\ tx'[c] = P!Over(new, tx[c])
  BY <1>1, <1>3, GotoDoes DEF StoreInv
<1>6. /\ tx'[c].pc = f /\ tx'[c].run = w /\ tx'[c].total = 1 /\ tx'[c].result = P!Nothing
      /\ tx'[c].step = rows /\ tx'[c].workflow = tx[c].workflow
  BY <1>3, <1>4, <1>5 DEF P!Over, StoreInv, StoreOK, TxFields
<1>7. DOMAIN tx[c].workflow = {}
  BY <1>1 DEF StoreInv, InTx
<1>8. Settles(c, f)'
  <2>1. s \in P!OfRun(c, w)'
    BY <1>1 DEF P!OfRun, P!Step
  <2>2. tx'[c].step = [x \in {s} |-> P!Over(Settled(f), step'[x])]
    BY <1>1, <1>4, <1>6
  <2> QED BY <1>6, <2>1, <2>2 DEF Settles, Settled, P!Over, P!Nothing
<1>9. InTx(c)'
  BY <1>6, <1>7, <1>8 DEF InTx
<1>10. ASSUME NEW d \in Connections \ {c} PROVE Apart(c, d)'
  <2>1. s \notin DOMAIN tx[d].step
    BY <1>1, <1>2 DEF P!FreeSteps
  <2> QED BY <1>1, <1>4, <1>5, <1>6, <1>7, <2>1 DEF Apart
<1>11. tx'[c].pc \in TxPcs /\ DOMAIN returned' = Tenants
  BY <1>1, <1>6 DEF TxPcs, StoreInv, StoreOK
<1> QED BY <1>1, <1>5, <1>9, <1>10, <1>11, TxMoves

\* addChildSteps inserts rows whose ids nobody has used.
LEMMA AddKeeps ==
  ASSUME StoreInv, NEW c \in Connections, NEW w \in Runs, NEW parent \in Ids,
         NEW more \in P!NewSteps, P!addChildSteps(c, w, parent, more)
  PROVE  StoreInv'
PROOF
<1> DEFINE rows == [s \in more |-> P!Column(tenantOf[c], w, parent)]
           new == [pc |-> "total", run |-> w, total |-> P!Cardinality(more), step |-> rows,
                   result |-> [rows |-> P!Records(rows)]]
<1>1. /\ P!Goto(c, new) /\ tx[c].pc = "idle" /\ P!Unused(more) /\ w \in DOMAIN workflow
      /\ UNCHANGED <<tenantOf, workflow, step, returned>>
  BY DEF P!addChildSteps, P!Called
<1>3. DOMAIN new = {"pc", "run", "total", "result", "step"} /\ DOMAIN new \subseteq TxFields
  BY DEF TxFields
<1>4. /\ new.pc = "total" /\ new.run = w /\ new.total = P!Cardinality(more)
      /\ new.result = [rows |-> P!Records(rows)] /\ new.step = rows /\ DOMAIN rows = more
  OBVIOUS
<1> HIDE DEF new
<1>5. /\ DOMAIN tx' = Connections /\ (\A d \in Connections \ {c} : tx'[d] = tx[d])
      /\ DOMAIN tx'[c] = TxFields /\ tx'[c] = P!Over(new, tx[c])
  BY <1>1, <1>3, GotoDoes DEF StoreInv
<1>6. /\ tx'[c].pc = "total" /\ tx'[c].run = w /\ tx'[c].total = P!Cardinality(more)
      /\ tx'[c].result = [rows |-> P!Records(rows)]
      /\ tx'[c].step = rows /\ tx'[c].workflow = tx[c].workflow
  BY <1>3, <1>4, <1>5 DEF P!Over, StoreInv, StoreOK, TxFields
<1>7. DOMAIN tx[c].workflow = {}
  BY <1>1 DEF StoreInv, InTx
<1>8. Adds(c)'
  <2>1. more \cap DOMAIN step' = {} /\ tx'[c].run \in DOMAIN workflow'
    BY <1>1, <1>6 DEF P!Unused
  <2>2. /\ tx'[c].step = [s \in more |-> P!Column(tenantOf'[c], tx'[c].run, parent)]
        /\ tx'[c].total = P!Cardinality(more) /\ tx'[c].result = [rows |-> P!Records(tx'[c].step)]
    BY <1>1, <1>6
  <2> QED BY <2>1, <2>2 DEF Adds
<1>9. InTx(c)'
  BY <1>6, <1>7, <1>8 DEF InTx
<1>10. ASSUME NEW d \in Connections \ {c} PROVE Apart(c, d)'
  <2>1. more \cap DOMAIN tx[d].step = {}
    BY <1>1 DEF P!Unused
  <2> HIDE DEF rows
  <2> QED BY <1>1, <1>4, <1>5, <1>6, <1>7, <2>1 DEF Apart
<1>11. tx'[c].pc \in TxPcs /\ DOMAIN returned' = Tenants
  BY <1>1, <1>6 DEF TxPcs, StoreInv, StoreOK
<1> QED BY <1>1, <1>5, <1>9, <1>10, <1>11, TxMoves

\* createWorkflow inserts a run whose key nobody has, or finds the one that has it.
LEMMA CreateKeeps ==
  ASSUME StoreInv, None \notin Keys, NEW c \in Connections, NEW key \in Keys \cup {None},
         NEW w \in Runs, NEW more \in P!NewSteps, P!createWorkflow(c, key, w, more)
  PROVE  StoreInv'
PROOF
<1> DEFINE taken == {v \in DOMAIN workflow : P!HasKey(workflow[v], c, key)}
           rows == [s \in more |-> P!Column(tenantOf[c], w, None)]
           row1 == [partition |-> tenantOf[c], status |-> "running", key |-> key,
                    total |-> P!Cardinality(more), completed |-> 0, failed |-> 0, output |-> None,
                    error |-> None, over |-> FALSE]
           runs == [v \in {w} |-> row1]
           answer1 == [run |-> w, steps |-> P!Records(rows), existed |-> FALSE]
           new == [pc |-> "commit", workflow |-> runs, step |-> rows, result |-> answer1]
<1>1. /\ tx[c].pc = "idle" /\ UNCHANGED <<tenantOf, workflow, step, returned>>
      /\ \A d \in Connections : \A v \in DOMAIN tx[d].workflow :
           ~P!HasKey(tx[d].workflow[v], c, key)
  BY DEF P!createWorkflow, P!Called
<1>2. DOMAIN tx[c].workflow = {} /\ DOMAIN tx[c].step = {} /\ DOMAIN returned' = Tenants
  BY <1>1 DEF StoreInv, InTx, StoreOK
<1>3. CASE taken # {}
  <2>1. PICK v \in taken : P!Goto(c, [pc |-> "existing", run |-> v])
    BY <1>3 DEF P!createWorkflow
  <2> DEFINE to == [pc |-> "existing", run |-> v]
  <2>2. DOMAIN to = {"pc", "run"} /\ DOMAIN to \subseteq TxFields
    BY DEF TxFields
  <2>3. to.pc = "existing" /\ to.run = v
    OBVIOUS
  <2> HIDE DEF to
  <2>4. /\ DOMAIN tx' = Connections /\ (\A d \in Connections \ {c} : tx'[d] = tx[d])
        /\ DOMAIN tx'[c] = TxFields /\ tx'[c] = P!Over(to, tx[c])
    BY <2>1, <2>2, GotoDoes DEF StoreInv, to
  <2>5. /\ tx'[c].pc = "existing" /\ tx'[c].run = v /\ tx'[c].step = tx[c].step
        /\ tx'[c].workflow = tx[c].workflow
    BY <2>2, <2>3, <2>4 DEF P!Over, StoreInv, StoreOK, TxFields
  <2>6. /\ v \in DOMAIN workflow /\ key \in Keys
        /\ P!HasKey(workflow[v], c, key)
    BY DEF P!HasKey
  <2>7. InTx(c)'
    BY <1>1, <1>2, <2>5, <2>6 DEF InTx, P!HasKey
  <2>8. \A d \in Connections \ {c} : Apart(c, d)'
    BY <1>1, <1>2, <2>4, <2>5 DEF Apart
  <2>9. tx'[c].pc \in TxPcs
    BY <2>5 DEF TxPcs
  <2> QED BY <1>1, <1>2, <2>4, <2>7, <2>8, <2>9, TxMoves
<1>4. CASE taken = {}
  <2>1. /\ w \notin DOMAIN workflow /\ \A d \in Connections : w \notin DOMAIN tx[d].workflow
        /\ P!Unused(more) /\ P!Goto(c, new)
    BY <1>4 DEF P!createWorkflow
  <2>2. /\ DOMAIN new = {"pc", "workflow", "step", "result"} /\ DOMAIN new \subseteq TxFields
        /\ new.pc = "commit" /\ new.workflow = runs /\ new.step = rows /\ new.result = answer1
    BY DEF TxFields
  <2>3. /\ DOMAIN runs = {w} /\ DOMAIN rows = more /\ runs[w] = row1
        /\ row1.partition = tenantOf[c] /\ row1.key = key
    OBVIOUS
  <2> HIDE DEF new
  <2>4. /\ DOMAIN tx' = Connections /\ (\A d \in Connections \ {c} : tx'[d] = tx[d])
        /\ DOMAIN tx'[c] = TxFields /\ tx'[c] = P!Over(new, tx[c])
    BY <2>1, <2>2, GotoDoes DEF StoreInv
  <2>5. /\ tx'[c].pc = "commit" /\ tx'[c].workflow = runs /\ tx'[c].step = rows
        /\ tx'[c].result = answer1
    BY <2>2, <2>4 DEF P!Over
  <2>6. Creates(c)'
    <3>1. /\ w \notin DOMAIN workflow' /\ more \cap DOMAIN step' = {}
          /\ \A v \in DOMAIN workflow' : ~P!HasKey(workflow[v], c, key)'
      BY <1>1, <1>4, <2>1 DEF P!Unused, P!HasKey
    <3>2. /\ tx'[c].workflow = [v \in {w} |->
               [partition |-> tenantOf'[c], status |-> "running", key |-> key,
                total |-> P!Cardinality(more), completed |-> 0, failed |-> 0, output |-> None,
                error |-> None, over |-> FALSE]]
          /\ tx'[c].step = [s \in more |-> P!Column(tenantOf'[c], w, None)]
          /\ tx'[c].result = [run |-> w, steps |-> P!Records(tx'[c].step), existed |-> FALSE]
      BY <1>1, <2>5
    <3> QED BY <3>1, <3>2 DEF Creates, P!HasKey
  <2>7. InTx(c)'
    BY <2>5, <2>6 DEF InTx
  <2> HIDE DEF runs, rows, row1, answer1
  <2>8. ASSUME NEW d \in Connections \ {c} PROVE Apart(c, d)'
    <3>1. more \cap DOMAIN tx[d].step = {} /\ w \notin DOMAIN tx[d].workflow
      BY <2>1 DEF P!Unused
    <3>2. ASSUME NEW u \in DOMAIN tx[d].workflow
          PROVE  tenantOf[c] = tx[d].workflow[u].partition /\ key = tx[d].workflow[u].key
                   => key = None
      BY <1>1 DEF P!HasKey
    <3> QED BY <1>1, <2>3, <2>4, <2>5, <3>1, <3>2 DEF Apart
  <2>9. tx'[c].pc \in TxPcs
    BY <2>5 DEF TxPcs
  <2> QED BY <1>1, <1>2, <2>4, <2>7, <2>8, <2>9, TxMoves
<1> QED BY <1>3, <1>4

\* The counter is updated: its row is locked, or there is none.
LEMMA CountKeeps ==
  ASSUME StoreInv, NEW c \in Connections, P!Count(c)
  PROVE  StoreInv'
PROOF
<1>1. PICK f \in {"completed", "failed", "total"}, w \in Runs :
        f = tx[c].pc /\ w = tx[c].run /\ w \in DOMAIN workflow
  <2>1. tx[c].pc \in {"completed", "failed", "total"}
    BY DEF P!Count, P!CountFromSnapshot
  <2>2. CASE tx[c].pc \in {"completed", "failed"}
    <3>1. Settles(c, tx[c].pc)
      BY <2>2 DEF StoreInv, InTx
    <3>2. PICK s \in P!OfRun(c, tx[c].run) : tx[c].run \in Runs
      BY <3>1 DEF Settles
    <3>3. tx[c].run \in DOMAIN workflow
      BY <3>2 DEF P!OfRun, P!Step, StoreInv, StoreOK, TablesOK
    <3> QED BY <2>2, <3>2, <3>3
  <2>3. CASE tx[c].pc = "total"
    <3>1. Adds(c)
      BY <2>3 DEF StoreInv, InTx
    <3>2. tx[c].run \in DOMAIN workflow
      BY <3>1 DEF Adds
    <3> QED BY <2>3, <3>2 DEF StoreInv, StoreOK, TablesOK
  <2> QED BY <2>1, <2>2, <2>3
<1> DEFINE rows == [x \in P!Wf(c, w) |-> [workflow[x] EXCEPT ![f] = @ + tx[c].total]]
           new == [pc |-> "commit", workflow |-> rows]
<1>2. /\ P!Goto(c, new) /\ P!FreeRun(c, w) /\ UNCHANGED <<tenantOf, workflow, step, returned>>
  BY <1>1 DEF P!Count, P!CountFromSnapshot
<1>3. /\ DOMAIN new = {"pc", "workflow"} /\ DOMAIN new \subseteq TxFields
      /\ new.pc = "commit" /\ new.workflow = rows
  BY DEF TxFields
<1>4. DOMAIN rows = P!Wf(c, w) /\ DOMAIN rows \subseteq {w} \cap DOMAIN workflow
  BY DEF P!Wf
<1> HIDE DEF new
<1>5. /\ DOMAIN tx' = Connections /\ (\A d \in Connections \ {c} : tx'[d] = tx[d])
      /\ DOMAIN tx'[c] = TxFields /\ tx'[c] = P!Over(new, tx[c])
  BY <1>2, <1>3, GotoDoes DEF StoreInv
<1>6. /\ tx'[c].pc = "commit" /\ tx'[c].workflow = rows /\ tx'[c].step = tx[c].step
      /\ tx'[c].run = tx[c].run /\ tx'[c].total = tx[c].total /\ tx'[c].result = tx[c].result
  BY <1>3, <1>5 DEF P!Over, StoreInv, StoreOK, TxFields
<1>7. Counts(c, f)'
  BY <1>1, <1>2, <1>6 DEF Counts, P!Wf
<1>8. ASSUME f \in {"completed", "failed"} PROVE Settles(c, f)'
  <2>1. Settles(c, f)
    BY <1>1, <1>8 DEF StoreInv, InTx
  <2> QED BY <1>2, <1>6, <2>1 DEF Settles, Settled, P!OfRun, P!Step, P!Over, P!Nothing
<1>9. ASSUME f = "total" PROVE Adds(c)'
  <2>1. PICK parent \in Ids, more \in P!NewSteps :
          /\ more \cap DOMAIN step = {} /\ tx[c].run \in DOMAIN workflow
          /\ tx[c].step = [s \in more |-> P!Column(tenantOf[c], tx[c].run, parent)]
          /\ tx[c].total = P!Cardinality(more) /\ tx[c].result = [rows |-> P!Records(tx[c].step)]
    BY <1>1, <1>9 DEF StoreInv, InTx, Adds
  <2>2. /\ more \cap DOMAIN step' = {} /\ tx'[c].run \in DOMAIN workflow'
        /\ tx'[c].step = [s \in more |-> P!Column(tenantOf'[c], tx'[c].run, parent)]
        /\ tx'[c].total = P!Cardinality(more) /\ tx'[c].result = [rows |-> P!Records(tx'[c].step)]
    BY <1>2, <1>6, <2>1
  <2> QED BY <2>2 DEF Adds
<1>10. InTx(c)'
  BY <1>1, <1>6, <1>7, <1>8, <1>9 DEF InTx
<1>11. ASSUME NEW d \in Connections \ {c} PROVE Apart(c, d)'
  <2>1. w \notin DOMAIN tx[d].workflow
    BY <1>2 DEF P!FreeRun
  <2>2. DOMAIN tx[c].step \cap DOMAIN tx[d].step = {}
    BY DEF StoreInv, TxApart, Apart
  <2> HIDE DEF rows
  <2> QED BY <1>2, <1>4, <1>5, <1>6, <2>1, <2>2 DEF Apart
<1>12. tx'[c].pc \in TxPcs /\ DOMAIN returned' = Tenants
  BY <1>2, <1>6 DEF TxPcs, StoreInv, StoreOK
<1> QED BY <1>2, <1>5, <1>10, <1>11, <1>12, TxMoves

\* A transaction that is over has nothing.
LEMMA TxEnds ==
  ASSUME StoreInv, NEW c \in Connections, P!Goto(c, P!NoTx)
  PROVE  /\ DOMAIN tx' = Connections /\ (\A d \in Connections \ {c} : tx'[d] = tx[d])
         /\ DOMAIN tx'[c] = TxFields /\ tx'[c].pc = "idle" /\ tx'[c].pc \in TxPcs
         /\ DOMAIN tx'[c].step = {} /\ DOMAIN tx'[c].workflow = {}
         /\ InTx(c)' /\ \A d \in Connections \ {c} : Apart(c, d)'
PROOF
<1>1. DOMAIN P!NoTx = TxFields
  BY DEF P!NoTx, TxFields
<1>2. /\ DOMAIN tx' = Connections /\ (\A d \in Connections \ {c} : tx'[d] = tx[d])
      /\ DOMAIN tx'[c] = TxFields /\ tx'[c] = P!Over(P!NoTx, tx[c])
  BY <1>1, GotoDoes DEF StoreInv
<1>3. P!NoTx.pc = "idle" /\ DOMAIN P!NoTx.step = {} /\ DOMAIN P!NoTx.workflow = {}
  BY DEF P!NoTx
<1>4. tx'[c].pc = "idle" /\ DOMAIN tx'[c].step = {} /\ DOMAIN tx'[c].workflow = {}
  BY <1>1, <1>2, <1>3 DEF P!Over, TxFields
<1>5. InTx(c)'
  BY <1>4 DEF InTx
<1>6. \A d \in Connections \ {c} : Apart(c, d)'
  BY <1>4 DEF Apart
<1> QED BY <1>2, <1>4, <1>5, <1>6 DEF TxPcs

\* Rollback, and the end of a call that found its key taken.
LEMMA EndKeeps ==
  ASSUME StoreInv, NEW c \in Connections, P!Existing(c) \/ P!Rollback(c)
  PROVE  StoreInv'
PROOF
<1>1. P!Goto(c, P!NoTx) /\ UNCHANGED <<tenantOf, workflow, step>>
  BY DEF P!Existing, P!Rollback
<1>2. DOMAIN returned' = Tenants
  BY DEF P!Existing, P!Rollback, P!Return, StoreInv, StoreOK
<1> QED BY <1>1, <1>2, TxEnds, TxMoves

\* What a transaction commits: rows with their columns, of keys that no run has.
LEMMA CommitRows ==
  ASSUME StoreInv, NEW c \in Connections, tx[c].pc = "commit"
  PROVE  /\ DOMAIN tx[c].workflow \subseteq Runs /\ DOMAIN tx[c].step \subseteq Ids
         /\ \A v \in DOMAIN tx[c].workflow :
              /\ DOMAIN tx[c].workflow[v] = RunColumns
              /\ v \in DOMAIN workflow =>
                   /\ tx[c].workflow[v].partition = workflow[v].partition
                   /\ tx[c].workflow[v].key = workflow[v].key
         /\ \A s \in DOMAIN tx[c].step :
              /\ DOMAIN tx[c].step[s] = StepColumns
              /\ tx[c].step[s].wf \in DOMAIN workflow \cup DOMAIN tx[c].workflow
PROOF
<1>1. ASSUME NEW f \in {"completed", "failed", "total"}, Counts(c, f)
      PROVE  /\ DOMAIN tx[c].workflow \subseteq Runs
             /\ \A v \in DOMAIN tx[c].workflow :
                  /\ v \in DOMAIN workflow /\ DOMAIN tx[c].workflow[v] = RunColumns
                  /\ tx[c].workflow[v].partition = workflow[v].partition
                  /\ tx[c].workflow[v].key = workflow[v].key
  <2>1. tx[c].workflow = [x \in P!Wf(c, tx[c].run) |->
                            [workflow[x] EXCEPT ![f] = @ + tx[c].total]]
    BY <1>1 DEF Counts
  <2>2. \A x \in P!Wf(c, tx[c].run) :
          x \in DOMAIN workflow /\ x \in Runs /\ DOMAIN workflow[x] = RunColumns
    BY DEF P!Wf, StoreInv, StoreOK, TablesOK
  <2> QED BY <2>1, <2>2 DEF RunColumns
<1>2. CASE \E f \in {"completed", "failed"} : Settles(c, f) /\ Counts(c, f)
  <2>1. PICK f \in {"completed", "failed"} : Settles(c, f) /\ Counts(c, f)
    BY <1>2
  <2>2. PICK s \in P!OfRun(c, tx[c].run) : tx[c].step = [x \in {s} |-> P!Over(Settled(f), step[x])]
    BY <2>1 DEF Settles
  <2>3. /\ s \in DOMAIN step /\ s \in Ids /\ DOMAIN step[s] = StepColumns
        /\ step[s].wf \in DOMAIN workflow
    BY DEF P!OfRun, P!Step, StoreInv, StoreOK, TablesOK
  <2>4. /\ DOMAIN P!Over(Settled(f), step[s]) = StepColumns
        /\ P!Over(Settled(f), step[s]).wf = step[s].wf
    BY <2>3 DEF P!Over, Settled, StepColumns
  <2> QED BY <1>1, <2>1, <2>2, <2>3, <2>4
<1>3. CASE Adds(c) /\ Counts(c, "total")
  <2>1. PICK parent \in Ids, more \in P!NewSteps :
          /\ tx[c].run \in DOMAIN workflow
          /\ tx[c].step = [s \in more |-> P!Column(tenantOf[c], tx[c].run, parent)]
    BY <1>3 DEF Adds
  <2>2. more \subseteq Ids
    BY DEF P!NewSteps
  <2>3. \A s \in more : DOMAIN tx[c].step[s] = StepColumns /\ tx[c].step[s].wf = tx[c].run
    BY <2>1 DEF P!Column, StepColumns
  <2> QED BY <1>1, <1>3, <2>1, <2>2, <2>3
<1>4. CASE Creates(c)
  <2>1. PICK key \in Keys \cup {None}, w \in Runs, more \in P!NewSteps :
          /\ w \notin DOMAIN workflow
          /\ tx[c].workflow = [v \in {w} |->
               [partition |-> tenantOf[c], status |-> "running", key |-> key,
                total |-> P!Cardinality(more), completed |-> 0, failed |-> 0, output |-> None,
                error |-> None, over |-> FALSE]]
          /\ tx[c].step = [s \in more |-> P!Column(tenantOf[c], w, None)]
    BY <1>4 DEF Creates
  <2>2. more \subseteq Ids
    BY DEF P!NewSteps
  <2>3. \A s \in more : DOMAIN tx[c].step[s] = StepColumns /\ tx[c].step[s].wf = w
    BY <2>1 DEF P!Column, StepColumns
  <2>4. DOMAIN tx[c].workflow[w] = RunColumns
    BY <2>1 DEF RunColumns
  <2>5. DOMAIN tx[c].workflow = {w} /\ DOMAIN tx[c].step = more
    BY <2>1
  <2> QED BY <2>1, <2>2, <2>3, <2>4, <2>5
<1> QED BY <1>2, <1>3, <1>4 DEF StoreInv, InTx

\* A commit takes no row and no key from another transaction.
LEMMA CommitKeeps ==
  ASSUME StoreInv, NEW c \in Connections, P!Commit(c)
  PROVE  StoreInv'
PROOF
<1>1. /\ tx[c].pc = "commit" /\ P!Goto(c, P!NoTx) /\ tenantOf' = tenantOf
      /\ workflow' = P!Over(tx[c].workflow, workflow) /\ step' = P!Over(tx[c].step, step)
  BY DEF P!Commit
<1>2. DOMAIN returned' = Tenants
  BY DEF P!Commit, P!Return, StoreInv, StoreOK
<1>3. /\ DOMAIN workflow' = DOMAIN tx[c].workflow \cup DOMAIN workflow
      /\ \A v \in DOMAIN workflow' :
           workflow'[v] = IF v \in DOMAIN tx[c].workflow THEN tx[c].workflow[v] ELSE workflow[v]
      /\ DOMAIN step' = DOMAIN tx[c].step \cup DOMAIN step
      /\ \A s \in DOMAIN step' :
           step'[s] = IF s \in DOMAIN tx[c].step THEN tx[c].step[s] ELSE step[s]
  BY <1>1 DEF P!Over
<1>4. /\ DOMAIN tx[c].workflow \subseteq Runs /\ DOMAIN tx[c].step \subseteq Ids
      /\ \A v \in DOMAIN tx[c].workflow :
           /\ DOMAIN tx[c].workflow[v] = RunColumns
           /\ v \in DOMAIN workflow =>
                /\ tx[c].workflow[v].partition = workflow[v].partition
                /\ tx[c].workflow[v].key = workflow[v].key
      /\ \A s \in DOMAIN tx[c].step :
           /\ DOMAIN tx[c].step[s] = StepColumns
           /\ tx[c].step[s].wf \in DOMAIN workflow \cup DOMAIN tx[c].workflow
  BY <1>1, CommitRows
<1>5. /\ DOMAIN tx' = Connections /\ (\A d \in Connections \ {c} : tx'[d] = tx[d])
      /\ DOMAIN tx'[c] = TxFields /\ tx'[c].pc \in TxPcs /\ InTx(c)'
      /\ \A d \in Connections \ {c} : Apart(c, d)'
  BY <1>1, TxEnds
<1>6. TablesOK(workflow', step')
  BY <1>3, <1>4 DEF TablesOK, StoreInv, StoreOK
<1>7. StoreOK'
  <2>1. \A d \in Connections : DOMAIN tx'[d] = TxFields /\ tx'[d].pc \in TxPcs
    BY <1>5 DEF StoreInv, StoreOK
  <2> QED BY <1>1, <1>2, <1>5, <1>6, <2>1 DEF StoreInv, StoreOK, TenantsOK
<1>8. ASSUME NEW d \in Connections \ {c} PROVE Keeps(d)
  <2>1. /\ DOMAIN tx[c].step \cap DOMAIN tx[d].step = {}
        /\ DOMAIN tx[c].workflow \cap DOMAIN tx[d].workflow = {}
        /\ \A v \in DOMAIN tx[c].workflow \ DOMAIN workflow,
              u \in DOMAIN tx[d].workflow \ DOMAIN workflow :
             LET a == tx[c].workflow[v]  b == tx[d].workflow[u] IN
             a.partition = b.partition /\ a.key = b.key => a.key = None
    BY DEF StoreInv, TxApart, Apart
  <2>2. tx'[d] = tx[d] /\ tenantOf' = tenantOf
    BY <1>1, <1>5
  <2>3. ASSUME NEW s \in DOMAIN tx[d].step
        PROVE  /\ s \in DOMAIN step' <=> s \in DOMAIN step
               /\ s \in DOMAIN step => step'[s] = step[s]
    BY <1>3, <2>1, <2>3
  <2>4. ASSUME NEW v \in DOMAIN workflow
        PROVE  /\ v \in DOMAIN workflow' /\ workflow'[v].partition = workflow[v].partition
               /\ workflow'[v].key = workflow[v].key
    BY <1>3, <1>4
  <2>5. ASSUME NEW v \in DOMAIN tx[d].workflow
        PROVE  /\ v \in DOMAIN workflow' <=> v \in DOMAIN workflow
               /\ v \in DOMAIN workflow => workflow'[v] = workflow[v]
    BY <1>3, <2>1
  <2>6. ASSUME NEW v \in DOMAIN workflow' \ DOMAIN workflow,
               NEW u \in DOMAIN tx[d].workflow \ DOMAIN workflow
        PROVE  LET a == workflow'[v]  b == tx[d].workflow[u] IN
               a.partition = b.partition /\ a.key = b.key => a.key = None
    BY <1>3, <2>1
  <2> QED BY <2>2, <2>3, <2>4, <2>5, <2>6 DEF Keeps
<1>9. ASSUME NEW d \in Connections PROVE InTx(d)'
  <2>1. CASE d = c
    BY <1>5, <2>1
  <2>2. CASE d # c
    <3>1. InTx(d) /\ Keeps(d) /\ StoreOK
      BY <1>8, <2>2 DEF StoreInv
    <3> QED BY <3>1, KeepsInTx
  <2> QED BY <2>1, <2>2
<1>10. ASSUME NEW a \in Connections, NEW b \in Connections, a # b PROVE Apart(a, b)'
  <2>1. CASE a = c
    BY <1>5, <1>10, <2>1
  <2>2. CASE b = c
    <3>1. Apart(b, a)'
      BY <1>5, <1>10, <2>2
    <3> QED BY <3>1 DEF Apart
  <2>3. CASE a # c /\ b # c
    <3>1. /\ Apart(a, b) /\ tx'[a] = tx[a] /\ tx'[b] = tx[b]
          /\ DOMAIN workflow \subseteq DOMAIN workflow'
      BY <1>3, <1>5, <1>10, <2>3 DEF StoreInv, TxApart
    <3> QED BY <3>1 DEF Apart
  <2> QED BY <2>1, <2>2, <2>3
<1> QED BY <1>7, <1>9, <1>10 DEF StoreInv, TxApart

\* Every call of a step.
LEMMA StepCallKeeps ==
  ASSUME StoreInv, NEW c \in Connections, NEW s \in Ids, P!StepCall(c, s)
  PROVE  StoreInv' /\ \A p \in Tenants : Refers(p)
PROOF
<1>0. StoreOK
  BY DEF StoreInv
<1>1. ASSUME NEW now \in Times, P!markStepRunning(c, s, now)
      PROVE  StoreInv' /\ \A p \in Tenants : Refers(p)
  <2> DEFINE hit == {x \in P!Step(c, {s}) : step[x].status = "pending"}
             new == [status |-> "running", started |-> now, beat |-> None,
                     attempts |-> IF hit = {} THEN 0 ELSE step[s].attempts + 1]
             mine == [mine |-> hit # {}]
  <2>1. P!Query(c, hit, new, mine) /\ StepWrites(new)
    BY <1>1 DEF P!markStepRunning, StepWrites, StepColumns
  <2> HIDE DEF hit, new, mine
  <2>2. StoreInv'
    BY <2>1, QueryKeeps
  <2> QED BY <1>0, <1>1, <2>2, ClaimCalls
<1>2. ASSUME NEW now \in Times, P!heartbeatStep(c, s, now)
      PROVE  StoreInv' /\ \A p \in Tenants : Refers(p)
  <2> DEFINE hit == {x \in P!Step(c, {s}) :
                       /\ step[x].status = "running" /\ step[x].wf \in P!Wf(c, step[x].wf)
                       /\ workflow[step[x].wf].status \in {"running", "pending"}}
             new == [beat |-> now]
             mine == [mine |-> hit # {}]
  <2>1. P!Query(c, hit, new, mine) /\ StepWrites(new)
    BY <1>2 DEF P!heartbeatStep, StepWrites, StepColumns
  <2> HIDE DEF hit, new, mine
  <2>2. StoreInv'
    BY <2>1, QueryKeeps
  <2> QED BY <1>0, <1>2, <2>2, BeatCalls
<1>3. ASSUME NEW new, StepWrites(new), P!Update(c, s, new) PROVE StoreInv'
  BY <1>3, QueryKeeps DEF P!Update
<1>4. CASE \/ \E now \in Times : P!markStepWaiting(c, s, now)
           \/ P!markStepPending(c, s) \/ P!markStepMapping(c, s) \/ P!markStepCompensating(c, s)
           \/ P!skipStep(c, s, "e") \/ P!resetStep(c, s)
  <2>1. ASSUME NEW now \in Times, P!markStepWaiting(c, s, now) PROVE StoreInv'
    <3> DEFINE new == [status |-> "waiting", started |-> now]
    <3>1. P!Update(c, s, new) /\ StepWrites(new)
      BY <2>1 DEF P!markStepWaiting, StepWrites, StepColumns
    <3> HIDE DEF new
    <3> QED BY <1>3, <3>1
  <2>2. ASSUME P!markStepPending(c, s) PROVE StoreInv'
    <3> DEFINE new == [status |-> "pending"]
    <3>1. P!Update(c, s, new) /\ StepWrites(new)
      BY <2>2 DEF P!markStepPending, StepWrites, StepColumns
    <3> HIDE DEF new
    <3> QED BY <1>3, <3>1
  <2>3. ASSUME P!markStepMapping(c, s) PROVE StoreInv'
    <3> DEFINE new == [status |-> "mapping"]
    <3>1. P!Update(c, s, new) /\ StepWrites(new)
      BY <2>3 DEF P!markStepMapping, StepWrites, StepColumns
    <3> HIDE DEF new
    <3> QED BY <1>3, <3>1
  <2>4. ASSUME P!markStepCompensating(c, s) PROVE StoreInv'
    <3> DEFINE new == [status |-> "compensating"]
    <3>1. P!Update(c, s, new) /\ StepWrites(new)
      BY <2>4 DEF P!markStepCompensating, StepWrites, StepColumns
    <3> HIDE DEF new
    <3> QED BY <1>3, <3>1
  <2>5. ASSUME P!skipStep(c, s, "e") PROVE StoreInv'
    <3> DEFINE new == [status |-> "skipped", error |-> "e"]
    <3>1. P!Update(c, s, new) /\ StepWrites(new)
      BY <2>5 DEF P!skipStep, StepWrites, StepColumns
    <3> HIDE DEF new
    <3> QED BY <1>3, <3>1
  <2>6. ASSUME P!resetStep(c, s) PROVE StoreInv'
    <3> DEFINE new == [status |-> "pending", output |-> None, error |-> None, attempts |-> 0,
                        beat |-> None, started |-> None, over |-> FALSE]
    <3>1. P!Update(c, s, new) /\ StepWrites(new)
      BY <2>6 DEF P!resetStep, StepWrites, StepColumns
    <3> HIDE DEF new
    <3> QED BY <1>3, <3>1
  <2>7. StoreInv'
    BY <1>4, <2>1, <2>2, <2>3, <2>4, <2>5, <2>6
  <2> QED BY <1>0, <1>4, <2>7, MarkCalls
<1>5. ASSUME NEW e \in {"e", None}, P!markStepCompensated(c, s, e)
      PROVE  StoreInv' /\ \A p \in Tenants : Refers(p)
  <2> DEFINE new == [status |-> "compensated",
                     error |-> IF P!Step(c, {s}) = {} THEN e ELSE P!Coalesce(e, step[s].error)]
  <2>1. P!Query(c, P!Step(c, {s}), new, P!Nothing) /\ StepWrites(new)
    BY <1>5 DEF P!markStepCompensated, P!Update, StepWrites, StepColumns
  <2> HIDE DEF new
  <2>2. StoreInv'
    BY <2>1, QueryKeeps
  <2> QED BY <1>0, <1>5, <2>2, CompensatedCalls
<1>6. CASE P!deleteChildSteps(c, s)
  BY <1>0, <1>6, DeleteKeeps, DeleteCalls
<1>7. CASE P!getStep(c, s) \/ P!listChildSteps(c, s)
  <2>1. StoreInv'
    BY <1>7, AnswerKeeps DEF P!getStep, P!listChildSteps
  <2> QED BY <1>0, <1>7, <2>1, StepReads
<1> QED BY <1>1, <1>2, <1>4, <1>5, <1>6, <1>7 DEF P!StepCall

\* Every call of a run.
LEMMA RunCallKeeps ==
  ASSUME StoreInv, None \notin Keys, NEW c \in Connections, NEW w \in Runs, P!RunCall(c, w)
  PROVE  StoreInv' /\ \A p \in Tenants : Refers(p)
PROOF
<1>0. StoreOK
  BY DEF StoreInv
<1>1. ASSUME NEW s \in P!OfRun(c, w), P!completeStep(c, s, w, "x") \/ P!failStep(c, s, w, "e")
      PROVE  StoreInv' /\ \A p \in Tenants : Refers(p)
  <2>1. \E f \in {"completed", "failed"} : P!Settle(c, s, w, Settled(f), f)
    BY <1>1 DEF P!completeStep, P!failStep, Settled
  <2>2. StoreInv'
    BY <2>1, SettleKeeps
  <2>3. UNCHANGED <<workflow, step, returned>>
    BY <2>1 DEF P!Settle
  <2> QED BY <2>2, <2>3, NothingSeen
<1>2. ASSUME NEW q \in P!OfRun(c, w), NEW new \in P!NewSteps, P!addChildSteps(c, w, q, new)
      PROVE  StoreInv' /\ \A p \in Tenants : Refers(p)
  <2>1. q \in Ids
    BY <1>0 DEF P!OfRun, P!Step, StoreOK, TablesOK
  <2>2. PICK parent \in Ids : parent = q
    BY <2>1
  <2>3. StoreInv'
    BY <1>2, <2>2, AddKeeps
  <2>4. UNCHANGED <<workflow, step, returned>>
    BY <1>2 DEF P!addChildSteps
  <2> QED BY <2>3, <2>4, NothingSeen
<1>3. ASSUME NEW key \in Keys \cup {None}, NEW new \in P!NewSteps, P!createWorkflow(c, key, w, new)
      PROVE  StoreInv' /\ \A p \in Tenants : Refers(p)
  <2>1. StoreInv'
    BY <1>3, CreateKeeps
  <2>2. UNCHANGED <<workflow, step, returned>>
    BY <1>3 DEF P!createWorkflow
  <2> QED BY <2>1, <2>2, NothingSeen
<1>4. CASE P!skipPendingSteps(c, w, "e")
  <2> DEFINE hit == {s \in P!OfRun(c, w) : step[s].status \in {"pending", "waiting"}}
             new == [status |-> "skipped", error |-> "e"]
  <2>1. P!Query(c, hit, new, P!Nothing) /\ StepWrites(new)
    BY <1>4 DEF P!skipPendingSteps, StepWrites, StepColumns
  <2> HIDE DEF hit, new
  <2>2. StoreInv'
    BY <2>1, QueryKeeps
  <2> QED BY <1>0, <1>4, <2>2, SkipCalls
<1>5. CASE P!reopenWorkflow(c, w, [total |-> 1, completed |-> 0, failed |-> 0])
  <2> DEFINE new == P!Over([total |-> 1, completed |-> 0, failed |-> 0],
                           [status |-> "running", output |-> None, error |-> None, over |-> FALSE])
  <2>1. P!QueryRun(c, w, new)
    BY <1>5 DEF P!reopenWorkflow
  <2>2. DOMAIN new \subseteq RunColumns \ {"partition", "key"}
    BY DEF P!Over, RunColumns
  <2> HIDE DEF new
  <2>3. StoreInv'
    BY <2>1, <2>2, RunKeeps
  <2> QED BY <1>0, <1>5, <2>3, RunCalls
<1>6. ASSUME NEW v \in {"completed", "failed", "cancelled"}, NEW x \in {"x", None},
             NEW e \in {"e", None}, P!finishWorkflow(c, w, v, x, e)
      PROVE  StoreInv' /\ \A p \in Tenants : Refers(p)
  <2> DEFINE new == [status |-> v, output |-> P!Coalesce(x, workflow[w].output),
                     error |-> P!Coalesce(e, workflow[w].error), over |-> TRUE]
  <2>1. P!QueryRun(c, w, new) /\ DOMAIN new \subseteq RunColumns \ {"partition", "key"}
    BY <1>6 DEF P!finishWorkflow, RunColumns
  <2> HIDE DEF new
  <2>2. StoreInv'
    BY <2>1, RunKeeps
  <2>3. ASSUME NEW p \in Tenants PROVE Refers(p)
    <3>1. v \in P!Reference(p)!Verdicts
      BY DEF P!Reference!Verdicts
    <3> QED BY <1>0, <1>6, <3>1, FinishCalls
  <2> QED BY <2>2, <2>3
<1>7. CASE P!getWorkflow(c, w) \/ P!listSteps(c, w)
  <2>1. StoreInv'
    BY <1>7, AnswerKeeps DEF P!getWorkflow, P!listSteps
  <2> QED BY <1>0, <1>7, <2>1, RunReads
<1>8. ASSUME NEW now \in Times, P!findStuckSteps(c, w, now)
      PROVE  StoreInv' /\ \A p \in Tenants : Refers(p)
  <2> DEFINE stuck == {s \in P!OfRun(c, w) :
                         /\ step[s].status = "running"
                         /\ P!Coalesce(step[s].beat, step[s].started) # None
                         /\ P!Coalesce(step[s].beat, step[s].started) < now}
  <2>1. P!Answer(c, [rows |-> P!Select(stuck)])
    BY <1>8 DEF P!findStuckSteps
  <2> HIDE DEF stuck
  <2>2. StoreInv'
    BY <2>1, AnswerKeeps
  <2> QED BY <1>0, <1>8, <2>2, StuckCalls
<1> QED BY <1>1, <1>2, <1>3, <1>4, <1>5, <1>6, <1>7, <1>8 DEF P!RunCall

\* Every step of the Postgres store is one of each tenant's reference store, or none.
LEMMA StoreStep ==
  ASSUME StoreInv, None \notin Keys, P!Next
  PROVE  StoreInv' /\ \A p \in Tenants : Refers(p)
PROOF
<1>0. StoreOK
  BY DEF StoreInv
<1>1. PICK c \in Connections :
        P!Call(c) \/ P!Count(c) \/ P!Existing(c) \/ P!Commit(c) \/ P!Rollback(c)
  BY DEF P!Next
<1>2. CASE P!Call(c)
  <2>1. CASE P!listRunningWorkflows(c)
    <3>1. StoreInv'
      BY <2>1, AnswerKeeps DEF P!listRunningWorkflows
    <3> QED BY <1>0, <2>1, <3>1, RunningCalls
  <2> QED BY <1>2, <2>1, StepCallKeeps, RunCallKeeps DEF P!Call
<1>3. CASE P!Count(c)
  <2>1. UNCHANGED <<workflow, step, returned>>
    BY <1>3 DEF P!Count, P!CountFromSnapshot
  <2> QED BY <1>3, <2>1, CountKeeps, NothingSeen
<1>4. CASE P!Existing(c)
  BY <1>0, <1>4, EndKeeps, ExistingCalls DEF StoreInv
<1>5. CASE P!Rollback(c)
  <2>1. UNCHANGED <<workflow, step, returned>>
    BY <1>5 DEF P!Rollback
  <2> QED BY <1>5, <2>1, EndKeeps, NothingSeen
<1>6. CASE P!Commit(c)
  <2>1. tx[c].pc = "commit"
    BY <1>6 DEF P!Commit
  <2>2. \/ \E f \in {"completed", "failed"} : Settles(c, f) /\ Counts(c, f)
        \/ Adds(c) /\ Counts(c, "total")
        \/ Creates(c)
    BY <2>1 DEF StoreInv, InTx
  <2>3. \A p \in Tenants : Refers(p)
    BY <1>0, <1>6, <2>2, SettleCommits, AddCommits, CreateCommits
  <2> QED BY <1>6, <2>3, CommitKeeps
<1> QED BY <1>1, <1>2, <1>3, <1>4, <1>5, <1>6

\* At the start nothing is in a transaction.
LEMMA StoreStarts ==
  ASSUME StoreTyped, P!Init \/ CallsEnded
  PROVE  StoreInv
PROOF
<1>1. TenantsOK(tenantOf) /\ TablesOK(workflow, step)
  <2>1. CASE P!Init
    BY <2>1 DEF P!Init, StoreTyped
  <2>2. CASE CallsEnded
    BY <2>2 DEF CallsEnded, StoreTyped, TenantsOK, TablesOK
  <2> QED BY <2>1, <2>2
<1>2. tx = [c \in Connections |-> P!NoTx] /\ DOMAIN returned = Tenants
  BY DEF P!Init, CallsEnded
<1>3. /\ DOMAIN P!NoTx = TxFields /\ P!NoTx.pc = "idle" /\ DOMAIN P!NoTx.step = {}
      /\ DOMAIN P!NoTx.workflow = {}
  BY DEF P!NoTx, TxFields
<1>4. ASSUME NEW c \in Connections
      PROVE  /\ DOMAIN tx[c] = TxFields /\ tx[c].pc = "idle" /\ DOMAIN tx[c].step = {}
             /\ DOMAIN tx[c].workflow = {}
  BY <1>2, <1>3
<1>5. StoreOK
  BY <1>1, <1>2, <1>4 DEF StoreOK, TxPcs
<1>6. \A c \in Connections : InTx(c)
  BY <1>4 DEF InTx
<1>7. TxApart
  BY <1>4 DEF TxApart, Apart
<1> QED BY <1>5, <1>6, <1>7 DEF StoreInv

LEMMA StoreStays ==
  ASSUME StoreInv, UNCHANGED storeVars
  PROVE  StoreInv'
PROOF
<1>0. UNCHANGED <<tenantOf, workflow, step, tx, returned>>
  BY DEF storeVars
<1>1. StoreOK' /\ TxApart'
  BY <1>0 DEF StoreInv, StoreOK, TxApart, Apart, TenantsOK, TablesOK
<1>2. ASSUME NEW d \in Connections PROVE InTx(d)'
  <2>1. Keeps(d)
    BY <1>0 DEF Keeps
  <2> QED BY <2>1, KeepsInTx DEF StoreInv
<1> QED BY <1>1, <1>2 DEF StoreInv

-----------------------------------------------------------------------------
(***************************************************************************)
(* Side by side: a component starts with an input or ended, and every step *)
(* is one of it or leaves it alone.                                        *)
(***************************************************************************)
allVars == <<vars, sagaVars, defVars, callVars, storeVars, quotaVars>>

LEMMA ComponentsStart ==
  ASSUME AlgorithmsInit
  PROVE  /\ Init \/ LoopEnded
         /\ S!Init \/ SagaEnded
         /\ D!Init \/ CheckEnded
         /\ C!Init \/ AttemptEnded
         /\ P!Init \/ CallsEnded
         /\ Q!Init \/ StartsEnded
PROOF BY DEF AlgorithmsInit

LEMMA ComponentsStep ==
  ASSUME [AlgorithmsNext]_allVars
  PROVE  /\ [Next]_vars /\ [S!Next]_(S!vars) /\ [D!Next]_(D!vars)
         /\ [C!Next]_(C!vars) /\ [P!Next]_storeVars /\ [Q!Next]_(Q!vars)
PROOF
<1>1. /\ UNCHANGED sagaVars => UNCHANGED S!vars
      /\ UNCHANGED defVars => UNCHANGED D!vars
      /\ UNCHANGED callVars => UNCHANGED C!vars
      /\ UNCHANGED quotaVars => UNCHANGED Q!vars
  BY DEF sagaVars, defVars, callVars, quotaVars, S!vars, S!inputs, D!vars, C!vars, Q!vars
<1>2. UNCHANGED allVars => UNCHANGED <<vars, sagaVars, defVars, callVars, storeVars, quotaVars>>
  BY DEF allVars
<1>3. /\ Next \/ UNCHANGED vars
      /\ S!Next \/ UNCHANGED sagaVars
      /\ D!Next \/ UNCHANGED defVars
      /\ C!Next \/ UNCHANGED callVars
      /\ P!Next \/ UNCHANGED storeVars
      /\ Q!Next \/ UNCHANGED quotaVars
  BY <1>2 DEF AlgorithmsNext
<1> QED BY <1>1, <1>3

LEMMA LoopEndedInv ==
  ASSUME "completed" \in Statuses, LoopEnded
  PROVE  LoopInv
PROOF
<1>1. /\ deps = [r \in Rows |-> {}] /\ anyJoin = {} /\ status = [r \in Rows |-> "completed"]
      /\ planned = {} /\ changed = FALSE /\ row = 1 /\ done = TRUE
  BY DEF LoopEnded
<1>2. TypeOK
  <2>1. row \in 1..(N + 1)
    BY <1>1, LoopAssumption
  <2> QED BY <1>1, <2>1 DEF TypeOK
<1>3. NoDebtBehind(N + 1)
  BY <1>1 DEF NoDebtBehind
<1> QED BY <1>1, <1>2, <1>3 DEF LoopInv

LEMMA LoopsKeepInv ==
  ASSUME M \in Nat, "completed" \in Statuses
  PROVE  AlgorithmsSpec => [](LoopInv /\ SagaInv)
PROOF
<1>1. AlgorithmsInit => LoopInv /\ SagaInv
  BY ComponentsStart, LoopInvInit, LoopEndedInv, SagaStarts
<1>2. LoopInv /\ SagaInv /\ [AlgorithmsNext]_allVars => (LoopInv /\ SagaInv)'
  BY ComponentsStep, LoopInvStep, SagaKeeps
<1> QED BY <1>1, <1>2, PTL DEF AlgorithmsSpec, allVars

(***************************************************************************)
(* Whatever the rows, their order, the join rules and the snapshot, the    *)
(* loop of computeReadiness, which plans as it goes and goes round until   *)
(* nothing changes, ends with the least plan closed under blocking, and    *)
(* with what is ready under that plan; it and the loop of                  *)
(* reverseTopologicalOrder place nothing but their rows.                   *)
(***************************************************************************)
THEOREM LoopEndsWithTheLeastPlan ==
  ASSUME M \in Nat, "completed" \in Statuses
  PROVE  AlgorithmsSpec => [](LoopTypesOK /\ LoopIsLeastFixpoint)
PROOF
<1>1. LoopInv /\ SagaInv => LoopTypesOK /\ LoopIsLeastFixpoint
  BY LoopInvImplies, SagaImplies DEF LoopTypesOK, LoopInv
<1> QED BY <1>1, LoopsKeepInv, PTL

(***************************************************************************)
(* And it skips exactly the steps that no completion of the snapshot runs: *)
(* computeReadiness never skips a step too early and never leaves one      *)
(* waiting for what cannot come.                                           *)
(***************************************************************************)
THEOREM LoopSkipsExactly ==
  ASSUME M \in Nat, "completed" \in Statuses
  PROVE  AlgorithmsSpec => []SkipsExactlyTheUnreachable
PROOF
<1>1. LoopInv => SkipsExactlyTheUnreachable
  BY LoopInvExact
<1> QED BY <1>1, LoopsKeepInv, PTL

(***************************************************************************)
(* The list of a saga holds every step to undo, once, and each before the  *)
(* dependencies it was built on, for every number of rows, acyclic graph   *)
(* and set of steps (engine.ts, reverseTopologicalOrder): its guard never  *)
(* cuts a graph that validateDefinition accepted short.                    *)
(***************************************************************************)
THEOREM UndoOrderIsRight ==
  ASSUME M \in Nat
  PROVE  AlgorithmsSpec => []ReturnsUndoOrder
PROOF
<1>1. AlgorithmsInit => SagaInv
  BY ComponentsStart, SagaStarts
<1>2. SagaInv /\ [AlgorithmsNext]_allVars => SagaInv'
  BY ComponentsStep, SagaKeeps
<1>3. SagaInv => ReturnsUndoOrder
  BY SagaImplies DEF ReturnsUndoOrder
<1> QED BY <1>1, <1>2, <1>3, PTL DEF AlgorithmsSpec, allVars

(***************************************************************************)
(* validateDefinition accepts a definition if and only if its steps can be *)
(* put in an order of their dependencies and each has a handler, whatever  *)
(* its steps and however often a dependency is repeated.                   *)
(***************************************************************************)
THEOREM CheckIsExact ==
  ASSUME DefinitionsTyped
  PROVE  AlgorithmsSpec => []AcceptsExactlyRunnable
PROOF
<1>1. AlgorithmsInit => CheckInv
  BY ComponentsStart, CheckStarts
<1>2. CheckInv /\ [AlgorithmsNext]_allVars => CheckInv'
  BY ComponentsStep, CheckKeeps
<1>3. CheckInv => AcceptsExactlyRunnable
  BY DEF CheckInv, AcceptsExactlyRunnable, D!AcceptsExactlyRunnable
<1> QED BY <1>1, <1>2, <1>3, PTL DEF AlgorithmsSpec, allVars

(***************************************************************************)
(* Whatever an attempt throws and however its causes are linked, cycles    *)
(* included, no guess overrides what a marker or a predicate says of it,   *)
(* and no handler runs on data its schemas reject (defineStep.ts,          *)
(* toStepError; retry.ts, explicitRetryability; engine.ts, executeStep).   *)
(***************************************************************************)
THEOREM DecisionsStand ==
  ASSUME AttemptsTyped
  PROVE  AlgorithmsSpec => []NoDecisionOverridden
PROOF
<1>1. AlgorithmsInit => CallInv
  BY ComponentsStart, CallStarts
<1>2. CallInv /\ [AlgorithmsNext]_allVars => CallInv'
  BY ComponentsStep, CallKeeps
<1>3. CallInv => NoDecisionOverridden
  BY CallImplies DEF NoDecisionOverridden
<1> QED BY <1>1, <1>2, <1>3, PTL DEF AlgorithmsSpec, allVars

(***************************************************************************)
(* Starts that race, however many and however slow, exceed                 *)
(* maxConcurrentWorkflows by less than their number (ai/quota.ts,          *)
(* checkQuota; engine.ts, startWorkflow), if the runs that retryWorkflow   *)
(* reopened, which it does unchecked, are not counted.                     *)
(***************************************************************************)
THEOREM OverrunIsBounded ==
  ASSUME QuotaTyped
  PROVE  AlgorithmsSpec => []OverrunBounded
PROOF
<1>1. AlgorithmsInit => StartsInv
  BY ComponentsStart, StartsStart
<1>2. StartsInv /\ [AlgorithmsNext]_allVars => StartsInv'
  BY ComponentsStep, StartsKeep
<1>3. StartsInv => OverrunBounded
  BY DEF StartsInv, OverrunBounded
<1> QED BY <1>1, <1>2, <1>3, PTL DEF AlgorithmsSpec, allVars

(***************************************************************************)
(* To each tenant the Postgres store is the in-memory store of its own     *)
(* rows, for every number of tenants, connections and rows: a transaction  *)
(* takes effect when it commits, and until then its locks keep true what   *)
(* it has read and written (store.ts).                                     *)
(***************************************************************************)
THEOREM PostgresIsReference ==
  ASSUME StoreTyped
  PROVE  AlgorithmsSpec => ImplementsReference
PROOF
<1>1. AlgorithmsInit => StoreInv
  BY ComponentsStart, StoreStarts
<1>2. ASSUME StoreInv, [AlgorithmsNext]_allVars
      PROVE  StoreInv' /\ [UNCHANGED storeVars \/ P!ReferenceStep]_storeVars
  <2>1. [P!Next]_storeVars
    BY <1>2, ComponentsStep
  <2>2. CASE UNCHANGED storeVars
    BY <1>2, <2>2, StoreStays
  <2>3. CASE P!Next
    <3>1. StoreInv' /\ \A p \in Tenants : Refers(p)
      BY <1>2, <2>3, StoreStep DEF StoreTyped
    <3>2. P!ReferenceStep
      BY <3>1 DEF Refers, P!ReferenceStep
    <3> QED BY <3>1, <3>2
  <2> QED BY <2>1, <2>2, <2>3
<1> QED BY <1>1, <1>2, PTL DEF AlgorithmsSpec, ImplementsReference, allVars

=============================================================================
