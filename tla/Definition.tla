----------------------------- MODULE Definition -----------------------------
(***************************************************************************)
(* validateDefinition: what startWorkflow accepts.  A definition is a      *)
(* sequence of steps [key, deps, type]; dependencies may be repeated, and  *)
(* the cycle check is Kahn's algorithm, one visit at a time.  In which     *)
(* order the queue is emptied is left open: the verdict must not depend on *)
(* it.                                                                     *)
(***************************************************************************)
EXTENDS Naturals, Sequences, FiniteSets

CONSTANTS
  Definitions,  \* the definitions to check
  Registered    \* step types with a handler

VARIABLES
  def,
  inDegree,  \* dependencies of each key not visited yet, with repetitions
  queue,     \* keys to visit, a set
  visited,
  verdict    \* "checking", "ok", or why it is rejected

vars == <<def, inDegree, queue, visited, verdict>>

Positions == DOMAIN def
StepKeys == {def[n].key : n \in Positions}
Deps(n) == {def[n].deps[m] : m \in DOMAIN def[n].deps}

Repeated == \E m, n \in Positions : m # n /\ def[m].key = def[n].key
UnknownDep == \E n \in Positions : ~(Deps(n) \subseteq StepKeys)
DependsOnItself == \E n \in Positions : def[n].key \in Deps(n)

Init ==
  /\ def \in Definitions
  /\ verdict = "checking" /\ visited = 0 /\ queue = {}
  /\ inDegree = [k \in {} |-> 0]

StepOf(k) == def[CHOOSE n \in Positions : def[n].key = k]
Degree(k) == Len(StepOf(k).deps)

\* The checks that come before the search for a cycle.
Check ==
  /\ verdict = "checking" /\ inDegree = [k \in {} |-> 0]
  /\ verdict' = IF Positions = {} THEN "empty"
                ELSE IF Repeated THEN "duplicate"
                ELSE IF UnknownDep THEN "unknown"
                ELSE IF DependsOnItself THEN "self" ELSE "checking"
  /\ IF verdict' # "checking" THEN UNCHANGED <<inDegree, queue>>
     ELSE /\ inDegree' = [k \in StepKeys |-> Degree(k)]
          /\ queue' = {k \in StepKeys : Degree(k) = 0}
  /\ UNCHANGED <<def, visited>>

\* Every mention of the visited key counts: adjacency has one entry for each.
Mentions(k, d) == Cardinality({m \in DOMAIN StepOf(d).deps : StepOf(d).deps[m] = k})

OneMention(k, d) == IF Mentions(k, d) > 0 THEN 1 ELSE 0

Drop(k, d) == Mentions(k, d)

Visit ==
  /\ verdict = "checking"
  /\ \E k \in queue :
       /\ inDegree' = [d \in StepKeys |-> inDegree[d] - Drop(k, d)]
       /\ queue' = (queue \ {k}) \cup {d \in StepKeys : inDegree[d] > 0 /\ inDegree'[d] = 0}
  /\ visited' = visited + 1
  /\ UNCHANGED <<def, verdict>>

Conclude ==
  /\ verdict = "checking" /\ queue = {} /\ inDegree # [k \in {} |-> 0]
  /\ verdict' = IF visited # Len(def) THEN "cycle"
                ELSE IF \E n \in Positions : def[n].type \notin Registered THEN "handler" ELSE "ok"
  /\ UNCHANGED <<def, inDegree, queue, visited>>

Next == Check \/ Visit \/ Conclude

Spec == Init /\ [][Next]_vars

-----------------------------------------------------------------------------
\* A definition can be run if its steps can be put in an order in which each
\* comes after those it depends on, and each has a handler.
Runnable ==
  /\ Positions # {} /\ ~Repeated /\ ~UnknownDep
  /\ \A n \in Positions : def[n].type \in Registered
  /\ \E rank \in [StepKeys -> 1..Len(def)] :
       \A n \in Positions : \A d \in Deps(n) : rank[d] < rank[def[n].key]

\* validateDefinition accepts exactly the definitions that can be run.
AcceptsExactlyRunnable == verdict # "checking" => (verdict = "ok" <=> Runnable)

=============================================================================
