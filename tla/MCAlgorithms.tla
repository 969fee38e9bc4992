---------------------------- MODULE MCAlgorithms ----------------------------
(***************************************************************************)
(* Small inputs of Algorithms.                                             *)
(***************************************************************************)
EXTENDS Algorithms, TLC

CONSTANTS e1, e2, e3, p, q, c1, c2, s1, s2

\* Definitions of up to three steps: repeated keys, unknown, repeated and
\* cyclic dependencies, steps without a handler.
DepLists == {<<>>, <<"a">>, <<"b">>, <<"c">>, <<"x">>, <<"a", "b">>, <<"c", "b">>, <<"a", "a">>}
Keyed(k) == [key : {k}, deps : DepLists, type : {"known"}]
SomeDefinitions ==
  {<<>>} \cup {<<d>> : d \in Keyed("a")} \cup (Keyed("a") \X Keyed("b"))
  \cup (Keyed("a") \X Keyed("a")) \cup (Keyed("c") \X Keyed("b") \X Keyed("a"))
  \cup {<<[key |-> "a", deps |-> <<>>, type |-> "unknown"], d>> : d \in Keyed("b")}

\* Attempts: chains of marked causes (cycles among them), what the classifier
\* looks at, and the data and guards of a step.
Plain == [input |-> "valid", dep |-> "valid", join |-> "all", when |-> None,
          handler |-> "throws", output |-> "valid", code |-> None, status |-> None,
          message |-> None, predicate |-> None, default |-> None,
          mark |-> [e \in Errors |-> None], cause |-> [e \in Errors |-> None],
          attempt |-> 1, maxAttempts |-> 2]
Ternary == {None, TRUE, FALSE}
Causes == {e1 :> f @@ e2 :> g @@ e3 :> None : f \in {None, e1, e2}, g \in {None, e1, e3}}
Chains == {[Plain EXCEPT !.mark = m, !.cause = c, !.predicate = b, !.default = d] :
             m \in [Errors -> Ternary], c \in Causes, b \in {None, FALSE}, d \in {None, TRUE}}
Signals == {[Plain EXCEPT !.code = c, !.status = h, !.message = m, !.default = d] :
              c \in {None, "transient", "other"}, h \in {None, "transient", "other"},
              m \in {None, "transient"}, d \in Ternary}
Data == {[Plain EXCEPT !.input = i, !.dep = d, !.join = j, !.when = w, !.handler = h,
                       !.output = o, !.default = TRUE, !.attempt = n] :
           i \in {"valid", "invalid"}, d \in {"valid", "invalid", "absent"},
           j \in {"all", "any"}, w \in {None, "yes", "no", "throws"},
           h \in {"returns", "throws", "hangs"}, o \in {"valid", "invalid"}, n \in {1, 2}}
SomeAttempts == Chains \cup Signals \cup Data

\* A run of two steps, one of them waiting, seen by one tenant on two
\* connections or by two tenants.
Run1 == 1 :> [partition |-> p, status |-> "running", key |-> "k", total |-> 2,
              completed |-> 0, failed |-> 0, output |-> None, error |-> None, over |-> FALSE]
Claimed(b) == [partition |-> p, wf |-> 1, parent |-> None, status |-> "running", attempts |-> 1,
               started |-> 1, beat |-> b, output |-> None, error |-> None, over |-> FALSE]
Rows1(r) == 1 :> r @@ 2 :> [Claimed(None) EXCEPT !.parent = 1, !.status = "waiting",
                                                 !.started = None, !.attempts = 0]
SomeContents ==
  {[tenantOf |-> h, workflow |-> Run1, step |-> Rows1(r)] :
     h \in {[c \in Connections |-> p], [c \in Connections |-> IF c = c1 THEN p ELSE q]},
     r \in {[Claimed(1) EXCEPT !.status = "pending"], Claimed(None), Claimed(1)}}

=============================================================================
