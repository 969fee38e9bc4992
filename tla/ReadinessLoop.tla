---------------------------- MODULE ReadinessLoop ----------------------------
(***************************************************************************)
(* computeReadiness as it runs: passes over the pending steps in row       *)
(* order, each pass folding the skips it decides into the next verdicts,   *)
(* until a pass decides nothing.  One action is one visit of a row or the  *)
(* test at the end of a pass.                                              *)
(***************************************************************************)
EXTENDS Naturals

CONSTANTS
  N,           \* number of keyed steps; the rows are 1..N in id order
  Statuses     \* the statuses a row of the snapshot may have

ASSUME LoopAssumption ==
  /\ N \in Nat \ {0}
  /\ Statuses \subseteq {"pending", "running", "waiting", "mapping", "completed",
                        "failed", "skipped", "compensating", "compensated"}

VARIABLES
  deps, anyJoin, status,   \* the inputs: graph, join rules and snapshot
  planned,                 \* the keys planned to be skipped
  changed,                 \* whether the current pass planned one
  row,                     \* the row the pass visits next
  done                     \* whether the loop has ended

inputs == <<deps, anyJoin, status>>
vars == <<deps, anyJoin, status, planned, changed, row, done>>

Rows == 1..N

R == INSTANCE Readiness WITH Steps <- Rows, Deps <- deps, AnyJoin <- anyJoin

(***************************************************************************)
(* validateDefinition rejects a cyclic graph before a run is created.      *)
(***************************************************************************)
Acyclic(d) ==
  \A S \in (SUBSET Rows) \ {{}} : \E s \in S : d[s] \cap S = {}

Init ==
  /\ deps \in {d \in [Rows -> SUBSET Rows] : Acyclic(d)}
  /\ anyJoin \in SUBSET Rows
  /\ status \in [Rows -> Statuses]
  /\ planned = {}
  /\ changed = FALSE
  /\ row = 1
  /\ done = FALSE

(***************************************************************************)
(* One iteration of the inner for over the pending steps.  The variants    *)
(* with a seeded fault, here and below, are not part of Next: each must    *)
(* break a property when it takes the place of the definition after it.    *)
(***************************************************************************)
SkipsOneLevel(s) == status[s] = "pending" /\ s \notin planned /\ R!Blocked(status, {}, s)

SkipsLikeAllJoins(s) ==
  /\ status[s] = "pending" /\ s \notin planned
  /\ \E d \in deps[s] : d \in planned \/ status[d] \in {"failed", "skipped"}

Skips(s) ==
  /\ status[s] = "pending"
  /\ s \notin planned
  /\ R!Blocked(status, planned, s)

Visit ==
  /\ ~done
  /\ row <= N
  /\ IF Skips(row)
       THEN planned' = planned \cup {row} /\ changed' = TRUE
       ELSE UNCHANGED <<planned, changed>>
  /\ row' = row + 1
  /\ UNCHANGED <<inputs, done>>

(***************************************************************************)
(* "if (!changed) break", or the next pass.                                *)
(***************************************************************************)
EndPassStillChanged ==
  /\ ~done /\ row = N + 1
  /\ done' = ~changed
  /\ row' = 1
  /\ UNCHANGED <<inputs, planned, changed>>

EndPass ==
  /\ ~done
  /\ row = N + 1
  /\ done' = ~changed
  /\ row' = 1
  /\ changed' = FALSE
  /\ UNCHANGED <<inputs, planned>>

Next == Visit \/ EndPass

Spec == Init /\ [][Next]_vars /\ WF_vars(Next)

-----------------------------------------------------------------------------

TypeOK ==
  /\ deps \in [Rows -> SUBSET Rows]
  /\ anyJoin \in SUBSET Rows
  /\ status \in [Rows -> Statuses]
  /\ planned \in SUBSET Rows
  /\ changed \in BOOLEAN
  /\ row \in 1..(N + 1)
  /\ done \in BOOLEAN

(***************************************************************************)
(* The keys `ready` is filtered from once the loop has ended.              *)
(***************************************************************************)
ready ==
  {s \in Rows : /\ status[s] = "pending"
                /\ s \notin planned
                /\ R!Satisfied(status, planned, s)}

(***************************************************************************)
(* When the loop of computeReadiness ends it has planned exactly the least *)
(* set of pending steps closed under the skip verdict, whatever the order  *)
(* of the rows, and what it returns as ready is ReadyPlan: "the            *)
(* unreachable set is computed to a fixpoint".                             *)
(***************************************************************************)
LoopIsLeastFixpoint ==
  done => planned = R!SkipPlan(status) /\ ready = R!ReadyPlan(status)

(***************************************************************************)
(* A pending step is skipped exactly when no future of the snapshot runs   *)
(* it: the plan neither prunes a branch that may still be taken nor leaves *)
(* a dead step pending, which would keep the workflow running for ever.    *)
(***************************************************************************)
SkipsExactlyTheUnreachable ==
  done => \A s \in Rows : status[s] = "pending" =>
            (s \in planned <=> ~R!CanStillRun(status, s))

(***************************************************************************)
(* The loop ends: a pass that changed something planned one more key, so   *)
(* there are at most N + 1 passes.                                         *)
(***************************************************************************)
LoopTerminates == <>done

(***************************************************************************)
(* The inductive invariant of the proof: nothing is planned that the least *)
(* fixpoint leaves out, and a pass that has changed nothing has left no    *)
(* blocked step behind it.                                                 *)
(***************************************************************************)
NoDebtBehind(b) ==
  \A s \in Rows : s < b /\ status[s] = "pending" /\ R!Blocked(status, planned, s)
                    => s \in planned

LoopInv ==
  /\ TypeOK
  /\ planned \subseteq R!SkipPlan(status)
  /\ ~done /\ ~changed => NoDebtBehind(row)
  /\ done => NoDebtBehind(N + 1)

=============================================================================
