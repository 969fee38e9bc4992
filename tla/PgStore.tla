------------------------------ MODULE PgStore ------------------------------
(***************************************************************************)
(* The Postgres workflow store: the two tables, the tenants whose rows     *)
(* they mix, and the connections its calls run on.  A call is one          *)
(* statement, or a transaction whose writes others see at its COMMIT.  A   *)
(* statement waits for the rows another transaction has written and then   *)
(* sees them committed (READ COMMITTED).                                   *)
(***************************************************************************)
EXTENDS Naturals, FiniteSets, Tables

CONSTANTS
  None, Runs, Ids, Keys, Times,  \* as in MemStore
  Tenants,                       \* partition keys
  Connections,                   \* connections that calls run on
  MaxCalls,                      \* bound: calls of a behaviour
  Contents                       \* whose connections they are, and the tables, at the start

VARIABLES
  tenantOf,  \* the partition of the store on each connection
  workflow,  \* the table flow_workflow, by id
  step,      \* the table flow_workflow_step, by id
  tx,        \* tx[c]: where the transaction of a connection is, and its writes
  returned,  \* returned[p]: what the last call of a tenant's store returned
  calls      \* how many calls were made

vars == <<tenantOf, workflow, step, tx, returned, calls>>

Nothing == [void |-> None]

NoTx == [pc |-> "idle", run |-> None, total |-> 0, workflow |-> <<>>, step |-> <<>>, result |-> None]

Init ==
  /\ \E k \in Contents : tenantOf = k.tenantOf /\ workflow = k.workflow /\ step = k.step
  /\ tx = [c \in Connections |-> NoTx]
  /\ returned = [p \in Tenants |-> Nothing]
  /\ calls = 0

-----------------------------------------------------------------------------
(***************************************************************************)
(* Every statement filters by partition_key; FreeSteps and FreeRun are the *)
(* row locks, held from a transaction's write to its end.                  *)
(***************************************************************************)
Wf(c, w) == {x \in {w} \cap DOMAIN workflow : workflow[x].partition = tenantOf[c]}
Step(c, S) == {s \in S \cap DOMAIN step : step[s].partition = tenantOf[c]}
OfRun(c, w) == {s \in Step(c, DOMAIN step) : step[s].wf = w}
Children(c, p) == {s \in Step(c, DOMAIN step) : step[s].parent = p}

FreeSteps(c, S) == \A d \in Connections \ {c} : S \cap DOMAIN tx[d].step = {}
FreeRun(c, w) == \A d \in Connections \ {c} : w \notin DOMAIN tx[d].workflow

Record(r) == [f \in (DOMAIN r) \ {"partition"} |-> r[f]]
Records(rows) == [s \in DOMAIN rows |-> Record(rows[s])]
Select(S) == [s \in S |-> Record(step[s])]

Return(c, x) == returned' = [returned EXCEPT ![tenantOf[c]] = x]

Called(c) ==
  /\ tx[c].pc = "idle"
  /\ calls < MaxCalls /\ calls' = calls + 1

\* UPDATE flow_workflow_step SET new WHERE the row is in S.
Query(c, S, new, x) ==
  /\ Called(c) /\ FreeSteps(c, S)
  /\ step' = [s \in DOMAIN step |-> IF s \in S THEN Over(new, step[s]) ELSE step[s]]
  /\ Return(c, x)
  /\ UNCHANGED <<tenantOf, workflow, tx>>

markStepRunning(c, s, now) ==
  LET hit == {x \in Step(c, {s}) : step[x].status = "pending"} IN
  Query(c, hit, [status |-> "running", started |-> now, beat |-> None,
                 attempts |-> IF hit = {} THEN 0 ELSE step[s].attempts + 1], [mine |-> hit # {}])

heartbeatStep(c, s, now) ==
  LET hit == {x \in Step(c, {s}) : /\ step[x].status = "running"
                                   /\ step[x].wf \in Wf(c, step[x].wf)
                                   /\ workflow[step[x].wf].status \in {"running", "pending"}} IN
  Query(c, hit, [beat |-> now], [mine |-> hit # {}])

Update(c, s, new) == Query(c, Step(c, {s}), new, Nothing)

markStepPending(c, s)        == Update(c, s, [status |-> "pending"])
markStepWaiting(c, s, now)   == Update(c, s, [status |-> "waiting", started |-> now])
markStepMapping(c, s)        == Update(c, s, [status |-> "mapping"])
markStepCompensating(c, s)   == Update(c, s, [status |-> "compensating"])
skipStep(c, s, e)            == Update(c, s, [status |-> "skipped", error |-> e])
resetStep(c, s) ==
  Update(c, s, [status |-> "pending", output |-> None, error |-> None, attempts |-> 0,
                beat |-> None, started |-> None, over |-> FALSE])

Coalesce(a, b) == IF a # None THEN a ELSE b

markStepCompensated(c, s, e) ==
  Update(c, s, [status |-> "compensated",
                error |-> IF Step(c, {s}) = {} THEN e ELSE Coalesce(e, step[s].error)])

skipPendingSteps(c, w, e) ==
  Query(c, {s \in OfRun(c, w) : step[s].status \in {"pending", "waiting"}},
        [status |-> "skipped", error |-> e], Nothing)

deleteChildSteps(c, p) ==
  /\ Called(c) /\ FreeSteps(c, Children(c, p))
  /\ step' = [s \in (DOMAIN step) \ Children(c, p) |-> step[s]]
  /\ Return(c, [deleted |-> Cardinality(Children(c, p))])
  /\ UNCHANGED <<tenantOf, workflow, tx>>

\* UPDATE flow_workflow SET new WHERE id = w.
QueryRun(c, w, new) ==
  /\ Called(c) /\ FreeRun(c, w)
  /\ workflow' = [x \in DOMAIN workflow |-> IF x \in Wf(c, w) THEN Over(new, workflow[x])
                                            ELSE workflow[x]]
  /\ Return(c, Nothing)
  /\ UNCHANGED <<tenantOf, step, tx>>

reopenWorkflow(c, w, n) ==
  QueryRun(c, w, Over(n, [status |-> "running", output |-> None, error |-> None,
                          over |-> FALSE]))

finishWorkflow(c, w, verdict, x, e) ==
  /\ w \in DOMAIN workflow
  /\ QueryRun(c, w, [status |-> verdict, output |-> Coalesce(x, workflow[w].output),
                     error |-> Coalesce(e, workflow[w].error), over |-> TRUE])

-----------------------------------------------------------------------------
(***************************************************************************)
(* Transactions.  completeStep and failStep write the step, then count it; *)
(* addChildSteps inserts the children, then counts them.                   *)
(***************************************************************************)
Goto(c, new) == tx' = [tx EXCEPT ![c] = Over(new, @)]

Settle(c, s, w, new, counter) ==
  /\ Called(c) /\ FreeSteps(c, Step(c, {s}))
  /\ Goto(c, [pc |-> counter, run |-> w, total |-> 1, result |-> Nothing,
              step |-> [x \in Step(c, {s}) |-> Over(new, step[x])]])
  /\ UNCHANGED <<tenantOf, workflow, step, returned>>

completeStep(c, s, w, x) ==
  Settle(c, s, w, [status |-> "completed", output |-> x, over |-> TRUE], "completed")

failStep(c, s, w, e) ==
  Settle(c, s, w, [status |-> "failed", error |-> e, over |-> TRUE], "failed")

Column(p, w, parent) ==
  [partition |-> p, wf |-> w, parent |-> parent, status |-> "pending", attempts |-> 0,
   started |-> None, beat |-> None, output |-> None, error |-> None, over |-> FALSE]

Unused(S) == \A s \in S : s \notin DOMAIN step /\ \A d \in Connections : s \notin DOMAIN tx[d].step

addChildSteps(c, w, p, new) ==
  LET rows == [s \in new |-> Column(tenantOf[c], w, p)] IN
  /\ Called(c) /\ Unused(new)
  /\ w \in DOMAIN workflow     \* a foreign key
  /\ Goto(c, [pc |-> "total", run |-> w, total |-> Cardinality(new), step |-> rows,
              result |-> [rows |-> Records(rows)]])
  /\ UNCHANGED <<tenantOf, workflow, step, returned>>

CountFromSnapshot(c) ==
  LET f == tx[c].pc  w == tx[c].run IN
  /\ f \in {"completed", "failed", "total"}
  /\ Goto(c, [pc |-> "commit",
              workflow |-> [x \in Wf(c, w) |->
                              [workflow[x] EXCEPT ![f] = @ + tx[c].total]]])
  /\ UNCHANGED <<tenantOf, workflow, step, returned, calls>>

Count(c) == FreeRun(c, tx[c].run) /\ CountFromSnapshot(c)

(***************************************************************************)
(* createWorkflow inserts the run unless its key is taken, having waited   *)
(* for any transaction that inserted the key; then it inserts the steps,   *)
(* or selects those of the run that has the key.                           *)
(***************************************************************************)
HasKey(r, c, key) == key # None /\ r.key = key /\ r.partition = tenantOf[c]

createWorkflow(c, key, w, new) ==
  LET taken == {v \in DOMAIN workflow : HasKey(workflow[v], c, key)}
      rows  == [s \in new |-> Column(tenantOf[c], w, None)] IN
  /\ Called(c)
  /\ \A d \in Connections : \A v \in DOMAIN tx[d].workflow : ~HasKey(tx[d].workflow[v], c, key)
  /\ IF taken # {}
       THEN \E v \in taken : Goto(c, [pc |-> "existing", run |-> v])
       ELSE /\ w \notin DOMAIN workflow /\ \A d \in Connections : w \notin DOMAIN tx[d].workflow
            /\ Unused(new)
            /\ Goto(c, [pc |-> "commit",
                        workflow |-> [v \in {w} |->
                          [partition |-> tenantOf[c], status |-> "running", key |-> key,
                           total |-> Cardinality(new), completed |-> 0, failed |-> 0,
                           output |-> None, error |-> None, over |-> FALSE]],
                        step |-> rows,
                        result |-> [run |-> w, steps |-> Records(rows), existed |-> FALSE]])
  /\ UNCHANGED <<tenantOf, workflow, step, returned>>

Existing(c) ==
  /\ tx[c].pc = "existing"
  /\ Return(c, [run |-> tx[c].run, steps |-> Select(OfRun(c, tx[c].run)), existed |-> TRUE])
  /\ Goto(c, NoTx)
  /\ UNCHANGED <<tenantOf, workflow, step, calls>>

Commit(c) ==
  /\ tx[c].pc = "commit"
  /\ workflow' = Over(tx[c].workflow, workflow)
  /\ step' = Over(tx[c].step, step)
  /\ Return(c, tx[c].result)
  /\ Goto(c, NoTx)
  /\ UNCHANGED <<tenantOf, calls>>

\* A statement throws or the process dies: ROLLBACK.
Rollback(c) ==
  /\ tx[c].pc # "idle"
  /\ Goto(c, NoTx)
  /\ UNCHANGED <<tenantOf, workflow, step, returned, calls>>

-----------------------------------------------------------------------------
\* The reads: one SELECT each.
Answer(c, x) == Called(c) /\ Return(c, x) /\ UNCHANGED <<tenantOf, workflow, step, tx>>

getWorkflow(c, w) ==
  Answer(c, [row |-> IF Wf(c, w) # {} THEN Record(workflow[w]) ELSE None])
getStep(c, s) ==
  Answer(c, [row |-> IF Step(c, {s}) # {} THEN Record(step[s]) ELSE None])
listSteps(c, w) == Answer(c, [rows |-> Select(OfRun(c, w))])
listChildSteps(c, p) == Answer(c, [rows |-> Select(Children(c, p))])

findStuckSteps(c, w, cutoff) ==
  LET stuck == {s \in OfRun(c, w) : /\ step[s].status = "running"
                                    /\ Coalesce(step[s].beat, step[s].started) # None
                                    /\ Coalesce(step[s].beat, step[s].started) < cutoff} IN
  Answer(c, [rows |-> Select(stuck)])

listRunningWorkflows(c) ==
  LET found == {w \in DOMAIN workflow : /\ workflow[w].partition = tenantOf[c]
                                        /\ workflow[w].status = "running"} IN
  Answer(c, [rows |-> [w \in found |-> Record(workflow[w])]])

-----------------------------------------------------------------------------
StepCall(c, s) ==
  \/ \E now \in Times : \/ markStepRunning(c, s, now) \/ heartbeatStep(c, s, now)
                        \/ markStepWaiting(c, s, now)
  \/ markStepPending(c, s) \/ markStepMapping(c, s) \/ markStepCompensating(c, s)
  \/ \E e \in {"e", None} : markStepCompensated(c, s, e)
  \/ skipStep(c, s, "e") \/ resetStep(c, s) \/ deleteChildSteps(c, s)
  \/ getStep(c, s) \/ listChildSteps(c, s)

NewSteps == {S \in SUBSET Ids : Cardinality(S) <= 1}

\* What the engine calls: it settles a step of the run it names, adds children
\* to a step of that run that has none, and finishes with an output or an error.
RunCall(c, w) ==
  \/ \E s \in OfRun(c, w) : completeStep(c, s, w, "x") \/ failStep(c, s, w, "e")
  \/ \E p \in OfRun(c, w), new \in NewSteps : Children(c, p) = {} /\ addChildSteps(c, w, p, new)
  \/ \E key \in Keys \cup {None}, new \in NewSteps : createWorkflow(c, key, w, new)
  \/ skipPendingSteps(c, w, "e")
  \/ reopenWorkflow(c, w, [total |-> 1, completed |-> 0, failed |-> 0])
  \/ finishWorkflow(c, w, "completed", "x", None) \/ finishWorkflow(c, w, "failed", None, "e")
  \/ finishWorkflow(c, w, "cancelled", None, None)
  \/ getWorkflow(c, w) \/ listSteps(c, w)
  \/ \E now \in Times : findStuckSteps(c, w, now)

Call(c) ==
  \/ \E s \in Ids : StepCall(c, s)
  \/ \E w \in Runs : RunCall(c, w)
  \/ listRunningWorkflows(c)

Next == \E c \in Connections : Call(c) \/ Count(c) \/ Existing(c) \/ Commit(c) \/ Rollback(c)

Spec == Init /\ [][Next]_vars

-----------------------------------------------------------------------------
RowsOf(table, p) == {x \in DOMAIN table : table[x].partition = p}

Reference(p) == INSTANCE MemStore WITH
  workflows <- [w \in RowsOf(workflow, p) |-> Record(workflow[w])],
  steps     <- [s \in RowsOf(step, p) |-> Record(step[s])],
  answer    <- returned[p]

ReferenceStep == \A p \in Tenants : [Reference(p)!Next]_(Reference(p)!vars)

\* Each tenant's rows are an in-memory store of its own: whatever the calls of
\* other connections and tenants do meanwhile, every call of the Postgres store
\* does to them, and returns, what one call of the reference store would
\* (store.ts), at one moment between its start and its end, or nothing at all.
ImplementsReference == [][ReferenceStep]_vars

=============================================================================
