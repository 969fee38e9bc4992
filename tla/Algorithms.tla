----------------------------- MODULE Algorithms -----------------------------
(***************************************************************************)
(* What the engine's calls are made of, side by side: the two loops it     *)
(* calls as pure functions, the check of a definition, one attempt of a    *)
(* step, the calls of the store and the check of a quota.  An initial      *)
(* state is an input of one of them, and the others stay ended.            *)
(***************************************************************************)
EXTENDS ReadinessLoop, Sequences

CONSTANTS
  M,                        \* number of rows of the runs whose compensation is ordered
  Definitions, Registered,  \* Definition
  Errors, Thrown, MaxDepth, None, Attempts,          \* StepCall
  Runs, Ids, Keys, Times, Tenants, Connections, MaxCalls, Contents,  \* PgStore
  Starters, Concurrent, PerDay, PerMonth, MaxStarts, MaxEvents       \* Quota

VARIABLES
  sagaDeps, steps, placed, topo, guard, sagaRow, order,
  def, inDegree, queue, visited, verdict,
  call, pc, handled, at, depth, seen, result, outcome,
  tenantOf, workflow, step, tx, returned, calls,
  starter, counted, running, failed, again, hooks, today, month, starts, events

S == INSTANCE Saga WITH N <- M, deps <- sagaDeps, row <- sagaRow
D == INSTANCE Definition
C == INSTANCE StepCall WITH Cases <- Attempts
P == INSTANCE PgStore
Q == INSTANCE Quota WITH pc <- starter, seen <- counted

sagaVars  == <<sagaDeps, steps, placed, topo, guard, sagaRow, order>>
defVars   == <<def, inDegree, queue, visited, verdict>>
callVars  == <<call, pc, handled, at, depth, seen, result, outcome>>
storeVars == <<tenantOf, workflow, step, tx, returned, calls>>
quotaVars == <<starter, counted, running, failed, again, hooks, today, month, starts, events>>

-----------------------------------------------------------------------------
LoopEnded ==
  /\ deps = [r \in Rows |-> {}] /\ anyJoin = {} /\ status = [r \in Rows |-> "completed"]
  /\ planned = {} /\ changed = FALSE /\ row = 1 /\ done = TRUE

SagaEnded ==
  /\ sagaDeps = [r \in 1..M |-> {}] /\ steps = {} /\ placed = {} /\ topo = <<>>
  /\ guard = 0 /\ sagaRow = 0 /\ order = <<>>

CheckEnded ==
  /\ def = <<>> /\ inDegree = [k \in {} |-> 0] /\ queue = {} /\ visited = 0
  /\ verdict = "empty"

AttemptEnded ==
  /\ call = [when |-> "no"] /\ pc = "over" /\ handled = FALSE /\ at = Thrown /\ depth = 0
  /\ seen = {} /\ result = None /\ outcome = "skipped"

CallsEnded ==
  /\ tenantOf = [c \in Connections |-> CHOOSE p \in Tenants : TRUE]
  /\ workflow = <<>> /\ step = <<>> /\ tx = [c \in Connections |-> P!NoTx]
  /\ returned = [p \in Tenants |-> P!Nothing] /\ calls = MaxCalls

StartsEnded ==
  /\ starter = [s \in Starters |-> "create"] /\ counted = [s \in Starters |-> 0]
  /\ running = 0 /\ failed = 0 /\ again = 0 /\ hooks = 0 /\ today = 0 /\ month = 0
  /\ starts = MaxStarts /\ events = MaxEvents

AlgorithmsInit ==
  \/ Init /\ SagaEnded /\ CheckEnded /\ AttemptEnded /\ CallsEnded /\ StartsEnded
  \/ S!Init /\ LoopEnded /\ CheckEnded /\ AttemptEnded /\ CallsEnded /\ StartsEnded
  \/ D!Init /\ LoopEnded /\ SagaEnded /\ AttemptEnded /\ CallsEnded /\ StartsEnded
  \/ C!Init /\ LoopEnded /\ SagaEnded /\ CheckEnded /\ CallsEnded /\ StartsEnded
  \/ P!Init /\ LoopEnded /\ SagaEnded /\ CheckEnded /\ AttemptEnded /\ StartsEnded
  \/ Q!Init /\ LoopEnded /\ SagaEnded /\ CheckEnded /\ AttemptEnded /\ CallsEnded

AlgorithmsNext ==
  \/ Next /\ UNCHANGED <<sagaVars, defVars, callVars, storeVars, quotaVars>>
  \/ S!Next /\ UNCHANGED <<vars, defVars, callVars, storeVars, quotaVars>>
  \/ D!Next /\ UNCHANGED <<vars, sagaVars, callVars, storeVars, quotaVars>>
  \/ C!Next /\ UNCHANGED <<vars, sagaVars, defVars, storeVars, quotaVars>>
  \/ P!Next /\ UNCHANGED <<vars, sagaVars, defVars, callVars, quotaVars>>
  \/ Q!Next /\ UNCHANGED <<vars, sagaVars, defVars, callVars, storeVars>>

AlgorithmsSpec ==
  /\ AlgorithmsInit
  /\ [][AlgorithmsNext]_<<vars, sagaVars, defVars, callVars, storeVars, quotaVars>>
  /\ WF_vars(Next)

-----------------------------------------------------------------------------
\* Types of the two loops: of the saga's, that it places rows to be undone and
\* no others.
LoopTypesOK == TypeOK /\ S!TypeOK

\* A list of steps to undo is complete, without repetition, and each comes before
\* the dependencies it was built on (reverseTopologicalOrder).
ReturnsUndoOrder == S!EveryStepOnce /\ S!DependentsFirst

\* validateDefinition accepts exactly the definitions that can be run.
AcceptsExactlyRunnable == D!AcceptsExactlyRunnable

\* No guess overrides what a marker or a predicate says of an error.
NoDecisionOverridden == C!NoDecisionOverridden

\* To each tenant Postgres is an in-memory store of its own.
ImplementsReference == [][UNCHANGED storeVars \/ P!ReferenceStep]_storeVars

\* Starts that race exceed a quota by less than their number, the runs reopened by a
\* retry apart: those run again unchecked.
OverrunBounded == Q!OverrunBounded

=============================================================================
