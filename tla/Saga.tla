-------------------------------- MODULE Saga --------------------------------
(***************************************************************************)
(* reverseTopologicalOrder (src/core/engine.ts): the order in which        *)
(* compensateWorkflow undoes the completed steps that have a handler.      *)
(* Passes over these steps in row order place each one whose dependencies  *)
(* among them are placed; what no pass placed is appended, and the whole   *)
(* is reversed.  One action is one visit of a row or the loop's test.      *)
(***************************************************************************)
EXTENDS Naturals, Sequences, FiniteSets, SequencesExt

CONSTANT N   \* number of step rows of the run; the rows are 1..N

VARIABLES
  deps, steps,   \* the inputs: the graph, and the rows to be undone
  placed, topo,  \* the rows placed so far, and the order they were placed in
  guard,         \* the passes begun
  row,           \* the row the pass visits next; 0 between passes
  order          \* the result, <<>> until it is returned

inputs == <<deps, steps>>
vars == <<deps, steps, placed, topo, guard, row, order>>

Rows == 1..N

\* What validateDefinition lets through.
Acyclic(d) == \A S \in (SUBSET Rows) \ {{}} : \E s \in S : d[s] \cap S = {}

Init ==
  /\ deps \in {d \in [Rows -> SUBSET Rows] : Acyclic(d)}
  /\ steps \in (SUBSET Rows) \ {{}}
  /\ placed = {} /\ topo = <<>>
  /\ guard = 0 /\ row = 0
  /\ order = <<>>

(***************************************************************************)
(* Beside some definitions stands a variant with a seeded fault, which     *)
(* Next never reaches: it must break the property said to watch them.      *)
(***************************************************************************)
PlaceableOverAll(s) == deps[s] \subseteq placed

Placeable(s) == deps[s] \cap steps \subseteq placed

Visit ==
  /\ row \in Rows
  /\ IF row \in steps \ placed /\ Placeable(row)
       THEN placed' = placed \cup {row} /\ topo' = Append(topo, row)
       ELSE UNCHANGED <<placed, topo>>
  /\ row' = IF row = N THEN 0 ELSE row + 1
  /\ UNCHANGED <<inputs, guard, order>>

(***************************************************************************)
(* The test of the while loop.                                             *)
(***************************************************************************)
More == steps \ placed # {} /\ guard <= Cardinality(steps)

NextPass ==
  /\ row = 0 /\ order = <<>> /\ More
  /\ guard' = guard + 1
  /\ row' = 1
  /\ UNCHANGED <<inputs, placed, topo, order>>

InRowOrder(T) ==
  CHOOSE q \in [1..Cardinality(T) -> T] : \A i, j \in DOMAIN q : i < j => q[i] < q[j]

LeftoverAll == InRowOrder(steps)

Leftover == InRowOrder(steps \ placed)

ReturnGuardPassed ==
  /\ row = 0 /\ order = <<>> /\ ~More
  /\ order' = Reverse(topo \o Leftover)
  /\ placed' = Rows
  /\ UNCHANGED <<inputs, topo, guard, row>>

Return ==
  /\ row = 0 /\ order = <<>> /\ ~More
  /\ order' = Reverse(topo \o Leftover)
  /\ UNCHANGED <<inputs, placed, topo, guard, row>>

Next == Visit \/ NextPass \/ Return

Spec == Init /\ [][Next]_vars

-----------------------------------------------------------------------------
TypeOK ==
  /\ deps \in [Rows -> SUBSET Rows] /\ steps \subseteq Rows
  /\ placed \subseteq steps /\ topo \in Seq(Rows) /\ order \in Seq(Rows)
  /\ guard \in 0..(Cardinality(steps) + 1) /\ row \in 0..N

Before(s, e) ==
  \E i, j \in DOMAIN order : i < j /\ order[i] = s /\ order[j] = e

\* The bound on the passes never leaves a row to be appended out of order: every
\* row is undone, and undone once ("shouldn't happen for a validated DAG").
EveryStepOnce ==
  order # <<>> =>
    /\ placed = steps
    /\ Len(order) = Cardinality(steps)
    /\ {order[i] : i \in DOMAIN order} = steps

\* A step is undone before the dependencies it was built on.
DependentsFirst ==
  order # <<>> => \A s \in steps : \A e \in deps[s] \cap steps : Before(s, e)

(***************************************************************************)
(* A step is built on its ancestors, not only on its direct dependencies:  *)
(* "effects come apart in the opposite order they were made"               *)
(* (docs/core/saga-compensation.md).  A row between two others that has no *)
(* handler hides one from the other.                                       *)
(***************************************************************************)
Closed(S) == \A r \in S : deps[r] \subseteq S

Ancestors(s) == {r \in Rows : \A S \in SUBSET Rows : Closed(S) /\ deps[s] \subseteq S => r \in S}

\* Every step to be undone is undone before each of its ancestors that is.
UndoneBeforeAncestors ==
  order # <<>> => \A s \in steps : \A e \in Ancestors(s) \cap steps : Before(s, e)

=============================================================================
