------------------------------ MODULE Readiness ------------------------------
(***************************************************************************)
(* The pure half of the engine: which steps of a DAG may run, and which    *)
(* can never run any more (src/core/readiness.ts).  A snapshot of the step *)
(* rows is a function st from steps to statuses.  Nothing here has state;  *)
(* Engine asks these questions of every snapshot it reads, ReadinessLoop   *)
(* shows that the loop of computeReadiness computes SkipPlan.              *)
(***************************************************************************)

CONSTANTS
  Steps,     \* the keyed steps of one workflow
  Deps,      \* Deps[s]: the steps s depends on
  AnyJoin    \* the steps whose type was registered with join: 'any'

ASSUME GraphAssumption ==
  /\ Deps \in [Steps -> SUBSET Steps]
  /\ AnyJoin \subseteq Steps

StepStatus == {"pending", "running", "waiting", "mapping", "completed",
               "failed", "skipped", "compensating", "compensated"}

TerminalStatuses == {"completed", "failed", "skipped", "compensated"}

AllTerminal(st) == \A s \in Steps : st[s] \in TerminalStatuses

Pending(st) == {s \in Steps : st[s] = "pending"}

(***************************************************************************)
(* The status of d when the steps of planned are taken as already skipped. *)
(***************************************************************************)
StatusOf(st, planned, d) == IF d \in planned THEN "skipped" ELSE st[d]

DepStates(st, planned, s) == {StatusOf(st, planned, d) : d \in Deps[s]}

(***************************************************************************)
(* evaluate's 'skip' verdict: no continuation of this snapshot runs s.     *)
(***************************************************************************)
Blocked(st, planned, s) ==
  LET states == DepStates(st, planned, s) IN
    \/ /\ s \notin AnyJoin
       /\ \E x \in states : x # "completed" /\ x \in TerminalStatuses
    \/ /\ s \in AnyJoin
       /\ states # {}
       /\ \/ "failed" \in states
          \/ states \subseteq TerminalStatuses \ {"completed"}

(***************************************************************************)
(* evaluate's 'ready' verdict.                                             *)
(***************************************************************************)
Satisfied(st, planned, s) ==
  LET states == DepStates(st, planned, s) IN
    \/ states \subseteq {"completed"}
    \/ /\ s \in AnyJoin
       /\ states \subseteq TerminalStatuses \ {"failed"}
       /\ "completed" \in states

(***************************************************************************)
(* The steps to skip are the least set that holds every pending step it    *)
(* blocks; the steps to dispatch are the other pending ones whose          *)
(* dependencies are satisfied.                                             *)
(***************************************************************************)
Closed(st, P) == \A s \in Pending(st) : Blocked(st, P, s) => s \in P

SkipPlan(st) ==
  {s \in Pending(st) : \A P \in SUBSET Pending(st) : Closed(st, P) => s \in P}

ReadyPlan(st) ==
  {s \in Pending(st) \ SkipPlan(st) : Satisfied(st, SkipPlan(st), s)}

(***************************************************************************)
(* A future of a snapshot: every step has settled, the ones that had stay  *)
(* as they were, and a pending step ran only on satisfied dependencies.    *)
(* This is what docs/core/branching.md promises of a run, stated without   *)
(* any fixpoint; it is the reference SkipPlan is compared with.            *)
(***************************************************************************)
IsFuture(st, f) ==
  /\ f \in [Steps -> {"completed", "failed", "skipped", "compensated"}]
  /\ \A s \in Steps :
       /\ st[s] \in TerminalStatuses => f[s] = st[s]
       /\ st[s] \notin TerminalStatuses => f[s] # "compensated"
       /\ st[s] = "pending" /\ f[s] # "skipped" => Satisfied(f, {}, s)

CanStillRun(st, s) ==
  \E f \in [Steps -> TerminalStatuses] : IsFuture(st, f) /\ Satisfied(f, {}, s)

=============================================================================
