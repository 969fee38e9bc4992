------------------------------ MODULE Semaphore ------------------------------
(***************************************************************************)
(* What a step gate promises: at most Cap steps of a type are inside at a  *)
(* time, a step leaves only having been inside, and none is kept out for   *)
(* ever.  A step that fails or whose worker dies waits again.              *)
(***************************************************************************)
EXTENDS Naturals, FiniteSets

CONSTANTS Steps, Cap

VARIABLES waiting, inside   \* the steps outside the gate, and those inside it

vars == <<waiting, inside>>

Init == waiting \subseteq Steps /\ inside = {}

Enter(s) ==
  /\ s \in waiting
  /\ Cardinality(inside) < Cap
  /\ waiting' = waiting \ {s}
  /\ inside' = inside \cup {s}

Leave(s) ==
  /\ s \in inside
  /\ inside' = inside \ {s}
  /\ waiting' \in {waiting, waiting \cup {s}}

Next == \E s \in Steps : Enter(s) \/ Leave(s)

Spec == Init /\ [][Next]_vars

\* Everybody gets in and out in the end.
NobodyStarves == <>(waiting = {} /\ inside = {})

=============================================================================
