------------------------------- MODULE DagRun -------------------------------
(***************************************************************************)
(* What a run of the engine promises, without jobs, workers, snapshots or  *)
(* transactions (docs/core/dags.md, docs/core/branching.md): a step starts *)
(* only when its join is satisfied, is pruned only when nothing can make   *)
(* it run any more, settles once, and the run ends when every step has     *)
(* settled, with the verdict the rows justify.  `running` stands for every *)
(* state of a step between its start and its end.                          *)
(***************************************************************************)
EXTENDS Readiness

VARIABLES verdict, row

vars == <<verdict, row>>

Began(r, S) == [s \in Steps |-> IF s \in S THEN "running" ELSE r[s]]

(***************************************************************************)
(* The roots may have started with the run (waits are suspended at once).  *)
(***************************************************************************)
Init ==
  /\ verdict = "running"
  /\ \E S \in SUBSET {s \in Steps : Deps[s] = {}} :
       row = Began([s \in Steps |-> "pending"], S)

Start(S) ==
  /\ S \subseteq ReadyPlan(row)
  /\ row' = Began(row, S)
  /\ UNCHANGED verdict

GiveBack(s) ==
  /\ row[s] = "running"
  /\ row' = [row EXCEPT ![s] = "pending"]
  /\ UNCHANGED verdict

(***************************************************************************)
(* A step that could start fails because nobody can be told to run it.     *)
(***************************************************************************)
Abandon(s) ==
  /\ s \in ReadyPlan(row)
  /\ row' = [row EXCEPT ![s] = "failed"]
  /\ UNCHANGED verdict

(***************************************************************************)
(* A step settles, and what it makes ready may start with it.              *)
(***************************************************************************)
Settle(s, x, S) ==
  LET settled == [row EXCEPT ![s] = x] IN
  /\ row[s] = "running"
  /\ S \subseteq ReadyPlan(settled)
  /\ row' = Began(settled, S)
  /\ UNCHANGED verdict

Prune(s) ==
  /\ s \in SkipPlan(row)
  /\ row' = [row EXCEPT ![s] = "skipped"]
  /\ UNCHANGED verdict

Finish ==
  /\ verdict = "running"
  /\ AllTerminal(row)
  /\ verdict' = IF \E s \in Steps : row[s] = "failed" THEN "failed" ELSE "completed"
  /\ UNCHANGED row

Next ==
  \/ \E S \in SUBSET Steps : Start(S)
  \/ \E s \in Steps : GiveBack(s) \/ Abandon(s) \/ Prune(s)
  \/ \E s \in Steps, x \in {"completed", "failed", "skipped"}, S \in SUBSET Steps :
       Settle(s, x, S)
  \/ Finish

Spec == Init /\ [][Next]_vars

\* And it does end, again after every retry.
LiveSpec == Spec /\ (verdict = "running" ~> verdict # "running")

=============================================================================
