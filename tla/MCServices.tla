------------------------------ MODULE MCServices ------------------------------
(***************************************************************************)
(* Small runs of Services.                                                 *)
(***************************************************************************)
EXTENDS Services, TLC

CONSTANTS x, y, t1, t2, t3, a, b

Attempts2 == [r \in Rows |-> 2]
EmptyOrAll == {{}, Items}

Among(E, r) == [e \in E |-> IF e \in DOMAIN r THEN r[e] ELSE 0]
Upto(r) == Among(Events, r)

FanOutBudgets ==
  {Upto([fatal |-> 2, transient |-> 1]), Upto([transient |-> 1, redeliver |-> 1]),
   Upto([transient |-> 2]),
   Upto([crash |-> 1, sweep |-> 1]), Upto([mapcrash |-> 2, sweep |-> 2]),
   Upto([mapdead |-> 1])}

Wait(k, d, r) == [kind |-> k, deadline |-> d,
                  budget |-> Among({"resume", "refuse", "twice", "expire", "cancel", "retry", "redeliver",
                                    "unsent", "crash"}, r)]
SomeWaits ==
  {Wait("child", "none", [refuse |-> 1, twice |-> 1, retry |-> 1]),
   Wait("child", "fail", [expire |-> 1, cancel |-> 1]),
   Wait("child", "output", [crash |-> 1, unsent |-> 1]),
   Wait("event", "output", [resume |-> 2, redeliver |-> 1]),
   Wait("event", "output", [unsent |-> 2, crash |-> 1, expire |-> 1, retry |-> 1]),
   Wait("event", "fail", [expire |-> 1, retry |-> 1, redeliver |-> 1, resume |-> 1])}

Gated(s, r) == [shared |-> s, budget |-> Among({"transient", "crash", "redeliver", "sendfail"}, r)]
SomeGates == {Gated(TRUE, [crash |-> 1]), Gated(FALSE, [transient |-> 1, redeliver |-> 1])}

Beating(n, l, r) == [narrowest |-> n, latency |-> l, budget |-> Among({"lost", "crash", "cancel"}, r)]
SomeBeats == {Beating(Window, 0, [lost |-> 2, cancel |-> 1]),
              Beating(Interval, 1, [crash |-> 2, cancel |-> 1])}

Scheduled(k, p, m, n, r) == [payload |-> [key |-> k, prefix |-> p], atomic |-> m, batch |-> n,
                         budget |-> Among({"fail", "expire", "refuse"}, r)]
SomeStarts == {Scheduled(TRUE, TRUE, TRUE, 1, [fail |-> 1, expire |-> 1]),
               Scheduled(FALSE, TRUE, TRUE, 2, [fail |-> 1, expire |-> 1]),
               Scheduled(FALSE, TRUE, FALSE, 1, [expire |-> 1]),
               Scheduled(TRUE, FALSE, TRUE, 1, [refuse |-> 1, fail |-> 1]),
               Scheduled(FALSE, FALSE, TRUE, 1, [refuse |-> 1])}

Batch(n, l, v, r) == [batchSize |-> n, concurrency |-> l, valid |-> v,
                      budget |-> Among({"throw", "crash", "expire", "dlq"}, r)]
SomeBatches == {Batch(2, 2, {a}, [throw |-> 2, dlq |-> 1]),
                Batch(2, 2, Jobs, [throw |-> 1, crash |-> 1]),
                Batch(2, 1, Jobs, [throw |-> 1, expire |-> 1]),
                Batch(1, 2, Jobs, [throw |-> 2, crash |-> 1])}

Three(k, l, m) == t1 :> k @@ t2 :> l @@ t3 :> m
SomeSetUps ==
  {[kind |-> Three("transaction", "transaction", "direct"), single |-> TRUE, budget |-> [refuse |-> 1]],
   [kind |-> Three("wait", "transaction", "direct"), single |-> FALSE, budget |-> [refuse |-> 1]]}

=============================================================================
