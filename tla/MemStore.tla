------------------------------ MODULE MemStore ------------------------------
(***************************************************************************)
(* The in-memory workflow store: two maps in one process.  No call awaits  *)
(* anything, so each is one step; it says what a call of WorkflowStore     *)
(* does to the rows and what it answers.  Names are those of the calls,    *)
(* a missing argument or column is None, ids are only known to be new.     *)
(***************************************************************************)
EXTENDS Naturals, FiniteSets, Tables

CONSTANTS
  None,   \* a model value: null
  Runs,   \* ids of workflows
  Ids,    \* ids of steps
  Keys,   \* idempotency keys
  Times   \* timestamps, a set of numbers

VARIABLES
  workflows,  \* the rows of the workflows there are
  steps,      \* the rows of their steps
  answer      \* what the last call returned

vars == <<workflows, steps, answer>>

Nothing == [void |-> None]

NewRun(key, total) ==
  [status |-> "running", key |-> key, total |-> total, completed |-> 0, failed |-> 0,
   output |-> None, error |-> None, over |-> FALSE]

NewStep(w, parent) ==
  [wf |-> w, parent |-> parent, status |-> "pending", attempts |-> 0, started |-> None,
   beat |-> None, output |-> None, error |-> None, over |-> FALSE]

StepsOf(w) == {s \in DOMAIN steps : steps[s].wf = w}
ChildrenOf(p) == {s \in DOMAIN steps : steps[s].parent = p}
Read(S) == [s \in S |-> steps[s]]

Init == workflows = <<>> /\ steps = <<>> /\ answer = Nothing

\* A row takes new values, if there is one.
Change(s, new) ==
  steps' = [x \in DOMAIN steps |-> IF x = s THEN Over(new, steps[x]) ELSE steps[x]]

ChangeRun(w, new) ==
  workflows' = [x \in DOMAIN workflows |-> IF x = w THEN Over(new, workflows[x]) ELSE workflows[x]]

Answer(x) == answer' = x

-----------------------------------------------------------------------------
createWorkflow(key, w, new) ==
  LET existing == {v \in DOMAIN workflows : workflows[v].key = key} IN
  IF key # None /\ existing # {}
    THEN /\ \E v \in existing :
              Answer([run |-> v, steps |-> Read(StepsOf(v)), existed |-> TRUE])
         /\ UNCHANGED <<workflows, steps>>
    ELSE LET rows == [s \in new |-> NewStep(w, None)] IN
         /\ w \notin DOMAIN workflows /\ new \cap DOMAIN steps = {}
         /\ workflows' = Over([v \in {w} |-> NewRun(key, Cardinality(new))], workflows)
         /\ steps' = Over(rows, steps)
         /\ Answer([run |-> w, steps |-> rows, existed |-> FALSE])

markStepRunning(s, now) ==
  LET pending == s \in DOMAIN steps /\ steps[s].status = "pending" IN
  /\ IF pending
       THEN Change(s, [status |-> "running", started |-> now, beat |-> None,
                       attempts |-> steps[s].attempts + 1])
       ELSE UNCHANGED steps
  /\ Answer([mine |-> pending])
  /\ UNCHANGED workflows

heartbeatStep(s, now) ==
  LET mine == /\ s \in DOMAIN steps /\ steps[s].status = "running"
              /\ steps[s].wf \in DOMAIN workflows
              /\ workflows[steps[s].wf].status \in {"pending", "running"} IN
  /\ IF mine THEN Change(s, [beat |-> now]) ELSE UNCHANGED steps
  /\ Answer([mine |-> mine])
  /\ UNCHANGED workflows

\* The calls that write one row of a step and answer nothing.
Mark(s, new) == Change(s, new) /\ Answer(Nothing) /\ UNCHANGED workflows

markStepPending(s)        == Mark(s, [status |-> "pending"])
markStepWaiting(s, now)   == Mark(s, [status |-> "waiting", started |-> now])
markStepMapping(s)        == Mark(s, [status |-> "mapping"])
markStepCompensating(s)   == Mark(s, [status |-> "compensating"])
markStepCompensated(s, e) ==
  Mark(s, IF e # None THEN [status |-> "compensated", error |-> e]
          ELSE [status |-> "compensated"])
skipStep(s, e)            == Mark(s, [status |-> "skipped", error |-> e])
resetStep(s) ==
  Mark(s, [status |-> "pending", output |-> None, error |-> None, attempts |-> 0,
           beat |-> None, started |-> None, over |-> FALSE])

addChildSteps(w, p, new) ==
  LET rows == [s \in new |-> NewStep(w, p)] IN
  /\ new \cap DOMAIN steps = {}
  /\ steps' = Over(rows, steps)
  /\ IF w \in DOMAIN workflows
       THEN ChangeRun(w, [total |-> workflows[w].total + Cardinality(new)])
       ELSE UNCHANGED workflows
  /\ Answer([rows |-> rows])

deleteChildSteps(p) ==
  /\ steps' = Read((DOMAIN steps) \ ChildrenOf(p))
  /\ Answer([deleted |-> Cardinality(ChildrenOf(p))])
  /\ UNCHANGED workflows

\* A step settles, and the counter of its run with it.
completeStep(s, w, x) ==
  /\ Change(s, [status |-> "completed", output |-> x, over |-> TRUE])
  /\ IF w \in DOMAIN workflows
       THEN ChangeRun(w, [completed |-> workflows[w].completed + 1])
       ELSE UNCHANGED workflows
  /\ Answer(Nothing)

failStep(s, w, e) ==
  /\ Change(s, [status |-> "failed", error |-> e, over |-> TRUE])
  /\ IF w \in DOMAIN workflows
       THEN ChangeRun(w, [failed |-> workflows[w].failed + 1])
       ELSE UNCHANGED workflows
  /\ Answer(Nothing)

skipPendingSteps(w, e) ==
  /\ steps' = [s \in DOMAIN steps |->
                 IF s \in StepsOf(w) /\ steps[s].status \in {"pending", "waiting"}
                   THEN Over([status |-> "skipped", error |-> e], steps[s])
                   ELSE steps[s]]
  /\ Answer(Nothing) /\ UNCHANGED workflows

reopenWorkflow(w, n) ==
  /\ ChangeRun(w, Over(n, [status |-> "running", output |-> None, error |-> None, over |-> FALSE]))
  /\ Answer(Nothing) /\ UNCHANGED steps

finishWorkflow(w, verdict, x, e) ==
  /\ ChangeRun(w, Over(IF x # None THEN [output |-> x] ELSE <<>>,
                       Over(IF e # None THEN [error |-> e] ELSE <<>>,
                            [status |-> verdict, over |-> TRUE])))
  /\ Answer(Nothing) /\ UNCHANGED steps

-----------------------------------------------------------------------------
\* The reads.
Asked(x) == Answer(x) /\ UNCHANGED <<workflows, steps>>

getWorkflow(w) == Asked([row |-> IF w \in DOMAIN workflows THEN workflows[w] ELSE None])
getStep(s) == Asked([row |-> IF s \in DOMAIN steps THEN steps[s] ELSE None])
listSteps(w) == Asked([rows |-> Read(StepsOf(w))])
listChildSteps(p) == Asked([rows |-> Read(ChildrenOf(p))])

LastSeen(r) == IF r.beat # None THEN r.beat ELSE r.started

findStuckSteps(w, cutoff) ==
  LET stuck == {s \in StepsOf(w) : /\ steps[s].status = "running"
                                   /\ LastSeen(steps[s]) # None
                                   /\ LastSeen(steps[s]) < cutoff} IN
  Asked([rows |-> Read(stuck)])

listRunningWorkflows ==
  LET found == {w \in DOMAIN workflows : workflows[w].status = "running"} IN
  Asked([rows |-> [w \in found |-> workflows[w]]])

-----------------------------------------------------------------------------
Verdicts == {"completed", "failed", "cancelled"}
Text == {"e", None}
Counts == {[total |-> 1, completed |-> 0, failed |-> 0]}
NewSteps == {S \in SUBSET Ids : Cardinality(S) <= 1}

StepCall(s) ==
  \/ \E now \in Times : markStepRunning(s, now) \/ heartbeatStep(s, now) \/ markStepWaiting(s, now)
  \/ markStepPending(s) \/ markStepMapping(s) \/ markStepCompensating(s)
  \/ \E e \in Text : markStepCompensated(s, e)
  \/ skipStep(s, "e") \/ resetStep(s) \/ deleteChildSteps(s)
  \/ getStep(s) \/ listChildSteps(s)

RunCall(w) ==
  \/ \E s \in Ids : completeStep(s, w, "x") \/ failStep(s, w, "e")
  \/ \E p \in Ids, new \in NewSteps : addChildSteps(w, p, new)
  \/ \E key \in Keys \cup {None}, new \in NewSteps : createWorkflow(key, w, new)
  \/ skipPendingSteps(w, "e")
  \/ \E n \in Counts : reopenWorkflow(w, n)
  \/ \E v \in Verdicts, x \in {"x", None}, e \in Text : finishWorkflow(w, v, x, e)
  \/ getWorkflow(w) \/ listSteps(w)
  \/ \E now \in Times : findStuckSteps(w, now)

Next ==
  \/ \E s \in Ids : StepCall(s)
  \/ \E w \in Runs : RunCall(w)
  \/ listRunningWorkflows

Spec == Init /\ [][Next]_vars

=============================================================================
