------------------------------ MODULE MCEngine ------------------------------
(***************************************************************************)
(* Small runs of Engine: graphs of three and four steps, what their steps  *)
(* may answer, and how much may go wrong.                                  *)
(***************************************************************************)
EXTENDS Engine, TLC

CONSTANTS a, b, c, d, t1, t2, t3

\* Graphs.
Flat    == [s \in Steps |-> {}]
Fork    == [s \in Steps |-> IF s \in {b, c} THEN {a} ELSE {}]
Join    == [s \in Steps |-> IF s = c THEN {a, b} ELSE {}]
Chain   == [s \in Steps |-> CASE s = b -> {a} [] s = c -> {b} [] OTHER -> {}]
Diamond == [s \in Steps |-> CASE s \in {b, c} -> {a} [] s = d -> {b, c} [] OTHER -> {}]

\* What the steps answer.
AllOk       == [s \in Steps |-> {"ok"}]
OkFatal     == [s \in Steps |-> {"ok", "fatal"}]
OkTransient == [s \in Steps |-> {"ok", "transient"}]
OkOrLastFails == [s \in Steps |-> IF \E e \in Steps : s \in Deps[e] THEN {"ok"} ELSE {"ok", "fatal"}]
GuardedArm == [s \in Steps |-> IF s = c THEN {"ok", "declined"} ELSE {"ok"}]

Attempts1 == [s \in Steps |-> 1]
Attempts2 == [s \in Steps |-> 2]
Attempts3 == [s \in Steps |-> 3]

NoTimeout  == [s \in Steps |-> "none"]
FailLate   == [s \in Steps |-> IF s \in Waits THEN "fail" ELSE "none"]
AnswerLate == [s \in Steps |-> IF s \in Waits THEN "output" ELSE "none"]

\* How often what may go wrong does: a record of the events that may occur.
Upto(r) == [e \in Events |-> IF e \in DOMAIN r THEN r[e] ELSE 0]

Nothing == {Upto([ok |-> 0])}

RaceBudgets ==
  {Upto([fatal |-> 2, redeliver |-> 1])}

RecoveryBudgets ==
  {Upto([crash |-> 2, sweep |-> 3]), Upto([transient |-> 2, redeliver |-> 1])}

WaitBudgets == {Upto([redeliver |-> 1, resume |-> 1])}

BranchBudgets ==
  {Upto([declined |-> 1, redeliver |-> 1]), Upto([crash |-> 1, sweep |-> 2])}

RetryBudgets ==
  {Upto([fatal |-> 1, retry |-> 1]), Upto([deadletter |-> 1]), Upto([sendfail |-> 1, redeliver |-> 1])}

FaultBudgets ==
  {Upto([throw |-> 1]), Upto([cancel |-> 1]), Upto([deadline |-> 1, sweep |-> 1]),
   Upto([transient |-> 1, sendfail |-> 1]), Upto([crash |-> 1, sendfail |-> 1, sweep |-> 2])}

OneDecline == {Upto([declined |-> 1])}
TwoFail    == {Upto([fatal |-> 2])}
OneResume  == {Upto([resume |-> 1])}

Symmetry == Permutations(Threads \ Sweepers)

=============================================================================
