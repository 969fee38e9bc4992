----------------------------- MODULE MCMapFanOut -----------------------------
(***************************************************************************)
(* Small runs of MapFanOut alone.                                          *)
(***************************************************************************)
EXTENDS MapFanOut, TLC

CONSTANTS x, y, t1, t2, t3

Attempts1 == [r \in Rows |-> 1]

EmptyOrAll == {{}, Items}

OneCrash == {[e \in Events |-> IF e \in {"crash", "sweep"} THEN 1 ELSE 0]}

=============================================================================
