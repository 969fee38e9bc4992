------------------------------ MODULE StepCall ------------------------------
(***************************************************************************)
(* One attempt of a step made by defineStep: the phases of its pipeline,   *)
(* the classification of what it throws, and what the engine makes of the  *)
(* result.  Schemas are the verdicts they return.                          *)
(***************************************************************************)
EXTENDS Naturals

CONSTANTS
  Errors,    \* error objects, linked by `cause`
  Thrown,    \* the one that is thrown
  MaxDepth,  \* MAX_CAUSE_DEPTH
  None,      \* a model value
  Cases      \* inputs of an attempt

VARIABLES
  call,      \* the attempt: data, guard, handler, error, policy
  pc,
  handled,   \* the handler was called
  at, depth, seen,  \* the walk along the causes
  result,    \* [ok] or [retryable, from]
  outcome    \* what the engine does: "completed", "skipped", "retried", "failed"

vars == <<call, pc, handled, at, depth, seen, result, outcome>>

Good == [ok |-> TRUE, retryable |-> FALSE, from |-> None]
Bad(retryable, from) == [ok |-> FALSE, retryable |-> retryable, from |-> from]

Init ==
  /\ call \in Cases
  /\ pc = "input" /\ handled = FALSE
  /\ at = Thrown /\ depth = 0 /\ seen = {}
  /\ result = None /\ outcome = None

Reject == result' = Bad(FALSE, None) /\ pc' = "decide"
Throws == pc' = "walk" /\ UNCHANGED result

-----------------------------------------------------------------------------
\* Phases 1 and 2: an arm of an `any` join that was not taken is no error.
Acceptable(d) == d = "valid" \/ (d = "absent" /\ call.join = "any")

BuildContext ==
  /\ pc = "input"
  /\ IF call.input = "valid" /\ Acceptable(call.dep)
       THEN pc' = (IF call.when = None THEN "handler" ELSE "guard") /\ UNCHANGED result
       ELSE Reject
  /\ UNCHANGED <<call, handled, at, depth, seen, outcome>>

\* `when`, on the same context.
Guard ==
  /\ pc = "guard"
  /\ CASE call.when = "yes" -> pc' = "handler" /\ UNCHANGED <<result, outcome>>
       [] call.when = "no" -> pc' = "over" /\ outcome' = "skipped" /\ UNCHANGED result
       [] OTHER -> Throws /\ UNCHANGED outcome
  /\ UNCHANGED <<call, handled, at, depth, seen>>

\* Phases 4 and 5, raced against the step's timeout.
Handler ==
  /\ pc = "handler"
  /\ handled' = TRUE
  /\ CASE call.handler = "throws" -> Throws
       [] call.handler = "hangs" -> result' = Bad(TRUE, "explicit") /\ pc' = "decide"
       [] call.handler = "returns" /\ call.output # "valid" -> Reject
       [] OTHER -> result' = Good /\ pc' = "decide"
  /\ UNCHANGED <<call, at, depth, seen, outcome>>

\* isRetryableError, without a marker: code, then status, then the message.
Transient == {"transient"}
Guess == \/ call.code \in Transient
         \/ call.code \notin Transient /\ call.status \in Transient
         \/ call.code \notin Transient /\ call.status = None /\ call.message \in Transient

\* toStepError: a marker, then the predicate, then the classifier.
Classified(marked) ==
  IF marked # None THEN Bad(marked, "explicit")
  ELSE IF call.predicate # None THEN Bad(call.predicate, "predicate")
  ELSE Bad(Guess, "heuristic")

\* explicitRetryability: one error of the chain of causes.
WalkNowhere ==
  /\ pc = "walk"
  /\ result' = Classified(call.mark[at]) /\ pc' = "decide"
  /\ UNCHANGED <<call, handled, at, depth, seen, outcome>>

Walk ==
  /\ pc = "walk"
  /\ IF depth = MaxDepth \/ at = None \/ at \in seen
       THEN result' = Classified(None) /\ pc' = "decide" /\ UNCHANGED <<at, depth, seen>>
     ELSE IF call.mark[at] # None
       THEN result' = Classified(call.mark[at]) /\ pc' = "decide" /\ UNCHANGED <<at, depth, seen>>
     ELSE /\ seen' = seen \cup {at} /\ depth' = depth + 1 /\ at' = call.cause[at]
          /\ UNCHANGED <<result, pc>>
  /\ UNCHANGED <<call, handled, outcome>>

\* The engine: defaultRetryable replaces a guess, and nothing but a guess.
ShouldRetryByDefault(e) == IF call.default # None THEN call.default ELSE e.retryable

ShouldRetry(e) ==
  IF e.from = "heuristic" /\ call.default # None THEN call.default ELSE e.retryable

Decide ==
  /\ pc = "decide"
  /\ outcome' = CASE result.ok -> "completed"
                  [] ~result.ok /\ ShouldRetry(result) /\ call.attempt < call.maxAttempts -> "retried"
                  [] OTHER -> "failed"
  /\ pc' = "over"
  /\ UNCHANGED <<call, handled, at, depth, seen, result>>

Next == BuildContext \/ Guard \/ Handler \/ Walk \/ Decide

Spec == Init /\ [][Next]_vars

-----------------------------------------------------------------------------
\* What was said explicitly: the outermost marker, MaxDepth causes down at most.
Hop[n \in 0..MaxDepth] ==
  IF n = 0 THEN Thrown ELSE IF Hop[n - 1] = None THEN None ELSE call.cause[Hop[n - 1]]

MarkedAt == {n \in 0..(MaxDepth - 1) : Hop[n] # None /\ call.mark[Hop[n]] # None}

Said == IF MarkedAt = {} THEN None
        ELSE call.mark[Hop[CHOOSE n \in MarkedAt : \A m \in MarkedAt : n <= m]]

ErrorReached == call.input = "valid" /\ Acceptable(call.dep)
                  /\ (call.when = "throws" \/ (call.when # "no" /\ call.handler = "throws"))

\* A decision someone made is never overridden by a guess, by defaultRetryable or
\* by how deep an error was wrapped; a mismatch with a schema is never retried;
\* and no handler runs on data its schemas reject.
NoDecisionOverridden ==
  /\ outcome = "retried" => call.attempt < call.maxAttempts
  /\ outcome \in {"retried", "failed"} /\ ErrorReached /\ call.attempt < call.maxAttempts =>
       LET wanted == IF Said # None THEN Said
                     ELSE IF call.predicate # None THEN call.predicate
                     ELSE IF call.default # None THEN call.default ELSE Guess
       IN  (outcome = "retried") <=> wanted
  /\ outcome = "retried" => ErrorReached \/ call.handler = "hangs"
  /\ handled => call.input = "valid" /\ Acceptable(call.dep) /\ call.when \in {None, "yes"}

=============================================================================
