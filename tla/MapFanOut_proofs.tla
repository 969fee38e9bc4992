--------------------------- MODULE MapFanOut_proofs ---------------------------
(***************************************************************************)
(* A map step, for any list, any number of engine calls at once and any    *)
(* number of faults: it is completed only when every item is, and to the   *)
(* rest of the run it is one step.                                         *)
(***************************************************************************)
EXTENDS MapFanOut, TLAPS

(***************************************************************************)
(* The faults under which the promises of a map are proved.  A dead letter *)
(* is failed whatever its row is doing meanwhile, which is safe only while *)
(* nothing else can bring the row up again: no second copy of its job and  *)
(* no sweep.  And a map whose worker died between the insertion of its     *)
(* children and the mark is still `running`: a sweep starts it over, and   *)
(* an empty list then completes it past the children it has.  TLC finds a  *)
(* promise broken under each of the combinations excluded here.            *)
(***************************************************************************)
Compatible(b) ==
  /\ b["deadletter"] + b["mapdead"] > 0 => b["redeliver"] = 0 /\ b["sweep"] = 0
  /\ b["latecrash"] > 0 => b["sweep"] = 0

\* Calls about the row whose job they run, those about a child, those that have
\* failed a child, those that still have children to enqueue.
OfJob   == {"begin", "claim", "handler", "spawn", "mark", "send", "fail", "siblings",
            "parent", "failmap", "pending", "skip"}
OfItem  == {"siblings", "parent", "failmap", "pending", "skip"}
Failing == {"parent", "failmap", "pending", "skip"}
Sending == {"mark", "send"}

CallOK(t) ==
  /\ t.pc = "idle" => t.job = None /\ t.cur = None
  /\ t.pc \in OfJob => t.cur \in Rows /\ t.job = t.cur
  /\ t.pc \in OfItem => t.cur \in Items
  /\ t.pc \in {"spawn", "mark", "send"} => t.cur = Map /\ t.todo # {}
  /\ t.pc \in {"requeue", "resend"} => t.cur \in Rows /\ t.job \in {t.cur, None}
  /\ t.pc = "failalone" => t.cur \in Rows /\ t.job = None
  /\ t.pc = "complete" => /\ t.cur \in Rows /\ t.job \in Rows
                          /\ t.cur \in Items => t.job = t.cur
  /\ t.pc \in {"terminate", "finish"} => t.verdict # None

Typed ==
  /\ TypeOK
  /\ status[Map] \notin {"absent", "skipped"}
  /\ \A c \in Items : status[c] # "mapping"
  /\ \A i \in Threads : CallOK(th[i])

-----------------------------------------------------------------------------
(***************************************************************************)
(* Types: after any step a call is still about its row.                    *)
(***************************************************************************)
Called == [pc : Pcs, job : Rows \cup {None}, cur : Rows \cup {None}, tries : Nat,
           todo : SUBSET Items, verdict : {None, "completed", "failed"}]

\* The calls are still what they should be when one of them is now t.
CallsOK ==
  /\ th \in [Threads -> Called]
  /\ \A i \in Threads : CallOK(th[i])

RowsOK ==
  /\ status \in [Rows -> {"absent", "pending", "running", "mapping", "completed", "failed",
                          "skipped"}]
  /\ status[Map] \notin {"absent", "skipped"}
  /\ \A c \in Items : status[c] # "mapping"
  /\ attempts \in [Rows -> Nat]

LEMMA CallsStay == ASSUME CallsOK, NEW i \in Threads, NEW t \in Called, CallOK(t), Become(i, t)
                   PROVE CallsOK'
BY DEF CallsOK, Become

LEMMA GotoStays == ASSUME CallsOK, NEW i \in Threads, NEW p \in Pcs, Goto(i, p),
                          CallOK([th[i] EXCEPT !.pc = p])
                   PROVE CallsOK'
<1>1. [th[i] EXCEPT !.pc = p] \in Called
  BY DEF CallsOK, Called
<1>2. Become(i, [th[i] EXCEPT !.pc = p])
  BY DEF Goto, Become
<1> QED BY <1>1, <1>2, CallsStay

LEMMA RestStays == ASSUME CallsOK, NEW i \in Threads, Rest(i) PROVE CallsOK'
<1>1. Idle \in Called /\ CallOK(Idle)
  BY DEF Idle, Called, CallOK, Pcs, OfJob, OfItem
<1> QED BY <1>1, CallsStay DEF Rest

LEMMA MarkStays == ASSUME RowsOK, NEW r \in Rows,
                          NEW x \in {"pending", "running", "mapping", "completed", "failed", "skipped"},
                          Mark(r, x), attempts' \in [Rows -> Nat], r = Map => x # "skipped",
                          x = "mapping" => r = Map
                   PROVE RowsOK'
BY MapAssumption DEF RowsOK, Mark, Rows

LEMMA PutStays ==
  ASSUME queue \in [Rows -> Nat], NEW r \in Rows, Put(r)
  PROVE queue' \in [Rows -> Nat]
BY DEF Put

LEMMA SpendStays == ASSUME budget \in [Events -> Nat], NEW e \in Events, Spend(e)
                    PROVE budget' \in [Events -> Nat]
BY DEF Spend

LEMMA TypedParts ==
  Typed <=> /\ CallsOK /\ RowsOK
            /\ wf \in {"running", "completed", "failed"}
            /\ queue \in [Rows -> Nat] /\ dead \subseteq Rows /\ budget \in [Events -> Nat]
BY DEF Typed, TypeOK, CallsOK, RowsOK, Called, CallOK, AboutRow, OfJob

LEMMA TypedAgain ==
  Typed' <=> /\ CallsOK' /\ RowsOK'
             /\ wf' \in {"running", "completed", "failed"}
             /\ queue' \in [Rows -> Nat] /\ dead' \subseteq Rows /\ budget' \in [Events -> Nat]
BY DEF Typed, TypeOK, CallsOK, RowsOK, Called, CallOK, AboutRow, OfJob

\* The state before the map's job is delivered, or of a map with nothing to do.
Fresh ==
  /\ wf = "running" /\ status = [r \in Rows |-> IF r = Map THEN "pending" ELSE "absent"]
  /\ attempts = [r \in Rows |-> 0] /\ dead = {} /\ th = [i \in Threads |-> Idle]
  /\ queue \in [Rows -> {0, 1}] /\ \A c \in Items : queue[c] = 0
  /\ budget \in [Events -> Nat]

LEMMA InitIsFresh == Init => Fresh
BY MapAssumption DEF Init, Fresh, Rows

LEMMA TypedStarts == Fresh => Typed
BY MapAssumption DEF Fresh, Typed, TypeOK, CallOK, Idle, OfJob, OfItem, Rows, Pcs, AboutRow

LEMMA TypedStays == ASSUME Typed, [Next]_vars PROVE Typed'
<1> USE TypedParts, TypedAgain DEF CallOK, OfJob, OfItem
<1>t. /\ CallsOK /\ RowsOK /\ wf \in {"running", "completed", "failed"}
      /\ queue \in [Rows -> Nat] /\ dead \subseteq Rows /\ budget \in [Events -> Nat]
  OBVIOUS
<1>f. \A i \in Threads : /\ th[i] \in Called /\ CallOK(th[i])
                         /\ th[i].pc \in Pcs /\ th[i].job \in Rows \cup {None}
                         /\ th[i].cur \in Rows \cup {None} /\ th[i].todo \subseteq Items
  BY <1>t DEF CallsOK, Called
<1>m. Map \in Rows /\ Items \subseteq Rows /\ None \notin Rows /\ Map \notin Items
  BY MapAssumption DEF Rows
<1>0. CASE UNCHANGED vars
  BY <1>0, <1>t DEF vars, rows, CallsOK, RowsOK
<1>1. ASSUME NEW i \in Threads, NEW r \in Rows, Deliver(i, r) PROVE Typed'
  <2>1. CallsOK'
    <3>1. [Idle EXCEPT !.pc = "begin", !.job = r, !.cur = r] \in Called
      BY DEF Called, Idle, Pcs
    <3>2. CallOK([Idle EXCEPT !.pc = "begin", !.job = r, !.cur = r])
      BY DEF Idle
    <3> QED BY <1>1, <1>t, <3>1, <3>2, CallsStay DEF Deliver
  <2> QED BY <1>1, <1>t, <2>1 DEF Deliver, rows, RowsOK
<1>2. ASSUME NEW i \in Threads, NEW r \in Rows, Exhaust(i, r) PROVE Typed'
  <2>1. CallsOK'
    <3>1. Idle \in Called /\ CallOK(Idle)
      BY DEF Called, Idle, Pcs
    <3>2. [Idle EXCEPT !.pc = "failalone", !.cur = r] \in Called
      BY DEF Called, Idle, Pcs
    <3>3. CallOK([Idle EXCEPT !.pc = "failalone", !.cur = r])
      BY DEF Idle
    <3> QED BY <1>2, <1>t, <3>1, <3>2, <3>3, CallsStay DEF Exhaust
  <2> QED BY <1>2, <1>t, <2>1 DEF Exhaust, rows, RowsOK
<1>3. ASSUME NEW i \in Threads, Sweep(i) PROVE Typed'
  <2>1. PICK r \in Rows : Become(i, [Idle EXCEPT !.cur = r,
                    !.pc = IF attempts[r] < MaxAttempts[r] THEN "requeue" ELSE "failalone"])
    BY <1>3 DEF Sweep, Stuck
  <2>2. ASSUME NEW p \in {"requeue", "failalone"}
        PROVE /\ [Idle EXCEPT !.cur = r, !.pc = p] \in Called
              /\ CallOK([Idle EXCEPT !.cur = r, !.pc = p])
    BY DEF Called, Idle, Pcs
  <2>3. CallsOK'
    BY <1>t, <2>1, <2>2, CallsStay
  <2> QED BY <1>3, <1>t, <2>3, SpendStays DEF Sweep, rows, RowsOK, Events
<1>4. ASSUME NEW i \in Threads, Begin(i) PROVE Typed'
  BY <1>4 DEF Begin, Typed, TypeOK, Idle, Rows, Pcs, AboutRow, Become, Goto, Rest, At, rows
<1>5. ASSUME NEW i \in Threads, Claim(i) PROVE Typed'
  <2>0. th[i].cur \in Rows
    BY <1>5, <1>f DEF Claim, At
  <2>1. CallsOK'
    BY <1>5, <1>t, <1>f, <2>0, GotoStays, RestStays DEF Claim, At, Pcs
  <2>2. RowsOK'
    <3>1. CASE UNCHANGED rows
      BY <3>1, <1>t DEF rows, RowsOK
    <3>2. CASE ~UNCHANGED rows
      <4>1. attempts' \in [Rows -> Nat]
        BY <1>5, <3>2, <2>0, <1>t DEF Claim, RowsOK
      <4> QED BY <1>5, <3>2, <2>0, <4>1, <1>t, MarkStays DEF Claim
    <3> QED BY <3>1, <3>2
  <2> QED BY <1>5, <1>t, <2>1, <2>2 DEF Claim
<1>6. ASSUME NEW i \in Threads, Answer(i) PROVE Typed'
  <2>1. CallsOK'
    <3>1. CASE th[i].cur # Map
      BY <1>6, <3>1, <1>t, <1>f, GotoStays DEF Answer, At, Pcs, Rows
    <3>2. CASE th[i].cur = Map
      <4>1. PICK L \in Lists : th' = [th EXCEPT ![i].pc = IF L = {} THEN "complete" ELSE "spawn",
                                                ![i].todo = L]
        BY <1>6, <3>2 DEF Answer
      <4> DEFINE t == [th[i] EXCEPT !.pc = IF L = {} THEN "complete" ELSE "spawn", !.todo = L]
      <4>2. t \in Called
        <5>1. L \subseteq Items
          BY MapAssumption
        <5> QED BY <5>1, <1>f DEF Called, Pcs
      <4>3. CallOK(t)
        BY <1>f, <1>m, <1>6, <3>2 DEF Called, Answer, At
      <4>4. Become(i, t)
        BY <4>1 DEF Become
      <4> HIDE DEF t
      <4> QED BY <1>t, <4>2, <4>3, <4>4, CallsStay
    <3> QED BY <3>1, <3>2
  <2> QED BY <1>6, <1>t, <2>1 DEF Answer, rows, RowsOK
<1>7. ASSUME NEW i \in Threads, Err(i) PROVE Typed'
  <2>1. CallsOK'
    BY <1>7, <1>t, <1>f, GotoStays DEF Err, At, Pcs
  <2>2. budget' \in [Events -> Nat]
    BY <1>7, <1>t, SpendStays DEF Err, Events
  <2> QED BY <1>7, <1>t, <2>1, <2>2 DEF Err, rows, RowsOK
<1>8. ASSUME NEW i \in Threads, Requeue(i) PROVE Typed'
  <2>1. CallsOK'
    BY <1>8, <1>t, <1>f, GotoStays DEF Requeue, At, Pcs
  <2>2. RowsOK'
    BY <1>8, <1>t, <1>f, MarkStays DEF Requeue, At, RowsOK
  <2> QED BY <1>8, <1>t, <2>1, <2>2 DEF Requeue
<1>9. ASSUME NEW i \in Threads, Resend(i) PROVE Typed'
  <2>1. CallsOK'
    BY <1>9, <1>t, RestStays DEF Resend
  <2>2. queue' \in [Rows -> Nat]
    BY <1>9, <1>t, <1>f, PutStays DEF Resend, At
  <2> QED BY <1>9, <1>t, <2>1, <2>2 DEF Resend, rows, RowsOK
<1>10. ASSUME NEW i \in Threads, Spawn(i) PROVE Typed'
  <2>1. CallsOK'
    BY <1>10, <1>t, <1>f, GotoStays DEF Spawn, At, Pcs
  <2>2. RowsOK'
    BY <1>10, <1>t, <1>f, <1>m DEF Spawn, RowsOK
  <2> QED BY <1>10, <1>t, <2>1, <2>2 DEF Spawn
<1>11. ASSUME NEW i \in Threads, MarkMapping(i) PROVE Typed'
  <2>1. CallsOK'
    BY <1>11, <1>t, <1>f, GotoStays DEF MarkMapping, At, Pcs
  <2>2. RowsOK'
    BY <1>11, <1>t, <1>m, MarkStays DEF MarkMapping, RowsOK
  <2> QED BY <1>11, <1>t, <2>1, <2>2 DEF MarkMapping
<1>12. ASSUME NEW i \in Threads, Send(i) PROVE Typed'
  <2>1. PICK c \in th[i].todo, lost \in {0, 1} :
          /\ lost <= budget["sendfail"]
          /\ budget' = [budget EXCEPT !["sendfail"] = @ - lost]
          /\ IF lost = 1 THEN UNCHANGED queue ELSE Put(c)
          /\ Become(i, IF th[i].todo = {c} THEN Idle ELSE [th[i] EXCEPT !.todo = @ \ {c}])
    BY <1>12 DEF Send
  <2>2. CallsOK'
    <3>1. CASE th[i].todo = {c}
      BY <2>1, <3>1, <1>t, RestStays DEF Rest
    <3>2. CASE th[i].todo # {c}
      <4>1. [th[i] EXCEPT !.todo = @ \ {c}] \in Called
        BY <1>f DEF Called
      <4>2. CallOK([th[i] EXCEPT !.todo = @ \ {c}])
        BY <1>f, <3>2, <1>12 DEF Called, Send, At
      <4> QED BY <2>1, <3>2, <4>1, <4>2, <1>t, CallsStay
    <3> QED BY <3>1, <3>2
  <2>3. queue' \in [Rows -> Nat] /\ budget' \in [Events -> Nat]
    BY <2>1, <1>t, <1>f, <1>m, PutStays DEF Events
  <2> QED BY <1>12, <1>t, <2>2, <2>3 DEF Send, rows, RowsOK
<1>13. ASSUME NEW i \in Threads, Complete(i) PROVE Typed'
  <2>0. th[i].cur \in Rows
    BY <1>13, <1>f DEF Complete, At
  <2>1. CallsOK'
    <3>1. CASE th[i].cur # Map
      BY <1>13, <3>1, <2>0, <1>t, <1>f, GotoStays DEF Complete, At, Pcs, Rows
    <3>2. CASE th[i].cur = Map
      <4> DEFINE st == [status EXCEPT ![th[i].cur] = "completed"]
      <4>1. CASE Verdict(st) = None
        BY <1>13, <3>2, <4>1, <1>t, RestStays DEF Complete, ToTerminate, Rest
      <4>2. CASE Verdict(st) # None
        <5>1. Verdict(st) \in {"failed", "completed"}
          BY <4>2 DEF Verdict
        <5>2. ToTerminate(th[i], st) \in Called
          BY <4>2, <5>1, <1>f DEF ToTerminate, Called, Pcs
        <5>3. CallOK(ToTerminate(th[i], st))
          BY <4>2, <5>1, <1>f DEF ToTerminate, Called
        <5> QED BY <1>13, <3>2, <5>2, <5>3, <1>t, CallsStay DEF Complete
      <4> QED BY <4>1, <4>2
    <3> QED BY <3>1, <3>2
  <2>2. RowsOK'
    BY <1>13, <1>t, <2>0, MarkStays DEF Complete, Mark, RowsOK
  <2> QED BY <1>13, <1>t, <2>1, <2>2 DEF Complete
<1>14. ASSUME NEW i \in Threads, Siblings(i) PROVE Typed'
  BY <1>14, <1>m
  DEF Siblings, Typed, TypeOK, Idle, Rows, Pcs, AboutRow, Become, Goto, Rest, At, rows
<1>15. ASSUME NEW i \in Threads, Fail(i) PROVE Typed'
  <2>1. CallsOK'
    BY <1>15, <1>t, <1>f, GotoStays DEF Fail, At, Pcs, Rows
  <2>2. RowsOK'
    BY <1>15, <1>t, <1>f, MarkStays DEF Fail, At, RowsOK
  <2> QED BY <1>15, <1>t, <2>1, <2>2 DEF Fail
<1>16. ASSUME NEW i \in Threads, ReadParent(i) PROVE Typed'
  <2>1. CallsOK'
    BY <1>16, <1>t, <1>f, GotoStays DEF ReadParent, At, Pcs
  <2> QED BY <1>16, <1>t, <2>1 DEF ReadParent, rows, RowsOK
<1>17. ASSUME NEW i \in Threads, FailMap(i) PROVE Typed'
  <2>1. CallsOK'
    BY <1>17, <1>t, <1>f, GotoStays DEF FailMap, At, Pcs
  <2>2. RowsOK'
    BY <1>17, <1>t, <1>m, MarkStays DEF FailMap, RowsOK
  <2> QED BY <1>17, <1>t, <2>1, <2>2 DEF FailMap
<1>18. ASSUME NEW i \in Threads, ReadPending(i) PROVE Typed'
  <2> DEFINE P == {c \in Children : status[c] = "pending"}
  <2> DEFINE t == [th[i] EXCEPT !.pc = IF P = {} THEN "list" ELSE "skip", !.todo = P]
  <2>1. t \in Called
    BY <1>f DEF Called, Pcs, Children
  <2>2. CallOK(t)
    BY <1>18, <1>f DEF Called, ReadPending, At
  <2>3. Become(i, t)
    BY <1>18 DEF ReadPending, Become
  <2> HIDE DEF t
  <2>4. CallsOK'
    BY <2>1, <2>2, <2>3, <1>t, CallsStay
  <2> QED BY <1>18, <1>t, <2>4 DEF ReadPending, rows, RowsOK
<1>19. ASSUME NEW i \in Threads, SkipSibling(i) PROVE Typed'
  <2>1. PICK c \in th[i].todo :
          /\ Mark(c, "skipped")
          /\ th' = [th EXCEPT ![i].todo = @ \ {c},
                              ![i].pc = IF th[i].todo = {c} THEN "list" ELSE @]
    BY <1>19 DEF SkipSibling
  <2> DEFINE t == [th[i] EXCEPT !.todo = @ \ {c}, !.pc = IF th[i].todo = {c} THEN "list" ELSE @]
  <2>2. t \in Called
    BY <1>f DEF Called, Pcs
  <2>3. CallOK(t)
    BY <1>19, <1>f DEF Called, SkipSibling, At
  <2>4. Become(i, t)
    BY <2>1 DEF Become
  <2> HIDE DEF t
  <2>5. CallsOK'
    BY <2>2, <2>3, <2>4, <1>t, CallsStay
  <2>6. RowsOK'
    BY <1>19, <2>1, <1>t, <1>f, <1>m, MarkStays DEF SkipSibling, RowsOK
  <2> QED BY <1>19, <1>t, <2>5, <2>6 DEF SkipSibling
<1>20. ASSUME NEW i \in Threads, List(i) PROVE Typed'
  <2>1. CASE Verdict(status) = None
    <3>1. CallsOK'
      BY <1>20, <2>1, <1>t, RestStays DEF List, ToTerminate, Rest
    <3> QED BY <1>20, <1>t, <3>1 DEF List, rows, RowsOK
  <2>2. CASE Verdict(status) # None
    <3>1. Verdict(status) \in {"failed", "completed"}
      BY <2>2 DEF Verdict
    <3>2. ToTerminate(th[i], status) \in Called
      BY <2>2, <3>1, <1>f DEF ToTerminate, Called, Pcs
    <3>3. CallOK(ToTerminate(th[i], status))
      BY <2>2, <3>1, <1>f DEF ToTerminate, Called
    <3>4. CallsOK'
      BY <1>20, <3>2, <3>3, <1>t, CallsStay DEF List
    <3> QED BY <1>20, <1>t, <3>4 DEF List, rows, RowsOK
  <2> QED BY <2>1, <2>2
<1>21. ASSUME NEW i \in Threads, Terminate(i) PROVE Typed'
  <2>1. CallsOK'
    BY <1>21, <1>t, <1>f, GotoStays, RestStays DEF Terminate, At, Pcs
  <2> QED BY <1>21, <1>t, <2>1 DEF Terminate, rows, RowsOK
<1>22. ASSUME NEW i \in Threads, Finish(i) PROVE Typed'
  <2>1. CallsOK' /\ wf' \in {"completed", "failed"}
    BY <1>22, <1>t, <1>f, RestStays DEF Finish, At, Called
  <2> QED BY <1>22, <1>t, <2>1 DEF Finish, rows, RowsOK
<1>23. ASSUME NEW i \in Threads, FailAlone(i) PROVE Typed'
  <2>1. CallsOK'
    BY <1>23, <1>t, <1>f, GotoStays DEF FailAlone, At, Pcs
  <2>2. RowsOK'
    BY <1>23, <1>t, <1>f, MarkStays DEF FailAlone, At, RowsOK
  <2> QED BY <1>23, <1>t, <2>1, <2>2 DEF FailAlone
<1>24. ASSUME NEW i \in Threads, Crash(i) PROVE Typed'
  <2>1. CallsOK'
    BY <1>24, <1>t, RestStays DEF Crash
  <2>2. budget' \in [Events -> Nat] /\ queue' \in [Rows -> Nat] /\ dead' \subseteq Rows
    BY <1>24, <1>t, SpendStays, PutStays DEF Crash, Deaths, Events
  <2> QED BY <1>24, <1>t, <2>1, <2>2 DEF Crash, rows, RowsOK
<1>25. ASSUME NEW i \in Threads, Redeliver(i) PROVE Typed'
  <2>1. budget' \in [Events -> Nat] /\ queue' \in [Rows -> Nat]
    BY <1>25, <1>t, SpendStays, PutStays DEF Redeliver, Events
  <2> QED BY <1>25, <1>t, <2>1 DEF Redeliver, rows, RowsOK, CallsOK
<1> QED BY <1>0, <1>1, <1>2, <1>3, <1>4, <1>5, <1>6, <1>7, <1>8, <1>9, <1>10, <1>11, <1>12, <1>13,
           <1>14, <1>15, <1>16, <1>17, <1>18, <1>19, <1>20, <1>21, <1>22, <1>23, <1>24, <1>25
        DEF Next, Step, Start

-----------------------------------------------------------------------------
(***************************************************************************)
(* The invariant.  What completes a map is a child that finds its siblings *)
(* completed; what must be kept away from it is the map's own call, which  *)
(* could fan out again, and a call that fails the map alone.  A map that   *)
(* has failed keeps a child that nothing will complete (Blocked).          *)
(***************************************************************************)
\* Completing its own row.  An owner was let in by a claim or a sweep: the row is
\* its to write, and no other call's.
Direct(t) == t.pc = "complete" /\ (t.cur \in Items \/ t.job = Map)
Owner(t) == t.pc \in {"handler", "spawn", "mark", "requeue", "fail"} \/ Direct(t)

\* Nobody has heard of the row.
Unclaimed(r) == queue[r] = 0 /\ r \notin dead /\ \A j \in Threads : th[j].job # r /\ th[j].cur # r

\* Nobody has heard of a child that has not been inserted.
Unborn ==
  \A c \in Items : status[c] = "absent" =>
    Unclaimed(c) /\ \A j \in Threads : th[j].pc \in {"mark", "send", "skip"} => c \notin th[j].todo

\* One owner to a row.  A sibling's failure may skip an item under its owner.
Owned ==
  /\ \A i \in Threads : Owner(th[i]) =>
       status[th[i].cur] = "running" \/ (th[i].cur \in Items /\ status[th[i].cur] = "skipped")
  /\ \A i, j \in Threads : Owner(th[i]) /\ Owner(th[j]) /\ th[i].cur = th[j].cur => i = j

\* Once there are children, the map's handler is not run again: the map is not
\* pending, its owner is at the mark, and nothing will sweep it.
FannedOutOnce ==
  Children # {} =>
    /\ status[Map] # "pending"
    /\ \A i \in Threads : Owner(th[i]) /\ th[i].cur = Map => th[i].pc = "mark"
    /\ status[Map] = "running" => budget["sweep"] = 0 \/ \E i \in Threads : th[i].pc = "mark"

\* What a fan-out has still to enqueue nobody has heard of, unless it is skipped.
Unsent ==
  /\ \A i \in Threads : th[i].pc \in Sending =>
       \A c \in th[i].todo : status[c] \in {"pending", "skipped"} /\ Unclaimed(c)
  /\ \A i \in Threads : th[i].pc = "mark" => th[i].todo = Children
  /\ \A i, j \in Threads : th[i].pc \in Sending /\ th[j].pc \in Sending => i = j

\* A child that can never complete: failed, with nobody about to skip it, or not
\* queued and never to be.
Blocker(c) ==
  \/ status[c] = "failed" /\ \A j \in Threads : th[j].pc = "skip" => c \notin th[j].todo
  \/ /\ status[c] \in {"pending", "skipped"} /\ Unclaimed(c)
     /\ \A j \in Threads : th[j].pc \in Sending => c \notin th[j].todo

Blocked == \E c \in Items : Blocker(c)

\* Whoever has failed a child, or is to fail the map, leaves such a child behind.
Anchored ==
  /\ \A i \in Threads : th[i].pc \in Failing => Blocked
  /\ Children # {} /\ (status[Map] = "failed"
                        \/ \E i \in Threads : th[i].pc = "failalone" /\ th[i].cur = Map) => Blocked

\* Nobody will take the row up again.
Dropped(r) ==
  /\ queue[r] = 0 /\ r \notin dead /\ budget["sweep"] = 0
  /\ \A j \in Threads : /\ th[j].job # r
                        /\ th[j].cur = r => th[j].pc \notin {"requeue", "resend"}

\* A row is failed alone only when nobody owns it and nobody will again.
GivenUp ==
  \A i \in Threads : th[i].pc = "failalone" =>
    LET r == th[i].cur IN
    /\ \A j \in Threads : Owner(th[j]) => th[j].cur # r
    /\ status[r] # "completed"
    /\ \/ status[r] # "pending" /\ attempts[r] >= MaxAttempts[r]
       \/ Dropped(r)

\* At most one job, dead letter or call is about the row.
OneToken(r) ==
  /\ queue[r] <= 1
  /\ queue[r] = 1 => r \notin dead /\ \A j \in Threads : th[j].job # r
  /\ r \in dead => \A j \in Threads : th[j].job # r
  /\ \A i, j \in Threads : th[i].job = r /\ th[j].job = r => i = j

\* While a job may still be dead-lettered nothing comes twice, and a map whose job
\* is about has either no children yet or one that will never complete.
MayDie == budget["deadletter"] + budget["mapdead"] > 0 \/ dead # {}

Mortal ==
  MayDie =>
    /\ budget["redeliver"] = 0 /\ budget["sweep"] = 0
    /\ \A r \in Rows : OneToken(r)
    /\ \A j \in Threads : th[j].pc \in {"requeue", "resend"} => th[j].job = th[j].cur
    /\ /\ Children # {} /\ status[Map] \notin {"completed", "failed"}
       /\ \/ queue[Map] > 0 \/ Map \in dead
          \/ \E j \in Threads : th[j].job = Map /\ th[j].pc \notin Sending
       => Blocked

\* A map that is completed, or about to be, has only completed children.
Aggregated ==
  status[Map] = "completed" \/ (\E i \in Threads : th[i].pc = "complete" /\ th[i].cur = Map) =>
    \A c \in Children : status[c] = "completed"

\* The verdict is the map's own outcome.
Justified ==
  /\ \A i \in Threads : th[i].pc \in {"terminate", "finish"} => status[Map] = th[i].verdict
  /\ wf # "running" => status[Map] = wf

MapInv == /\ Compatible(budget) /\ Typed /\ Unborn /\ Owned /\ FannedOutOnce /\ Unsent /\ Anchored
          /\ GivenUp /\ Mortal /\ Aggregated /\ Justified

-----------------------------------------------------------------------------
\* What the proofs use of the types.
Plain ==
  /\ Map \in Rows /\ Items \subseteq Rows /\ None \notin Rows /\ Map \notin Items
  /\ Rows = Items \cup {Map}
  /\ \A j \in Threads : /\ th[j].pc \in Pcs /\ th[j].job \in Rows \cup {None}
                        /\ th[j].cur \in Rows \cup {None} /\ th[j].todo \subseteq Items
                        /\ th[j].verdict \in {None, "completed", "failed"} /\ CallOK(th[j])
  /\ \A r \in Rows : /\ status[r] \in {"absent", "pending", "running", "mapping", "completed",
                                       "failed", "skipped"}
                     /\ attempts[r] \in Nat /\ queue[r] \in Nat
                     /\ MaxAttempts[r] \in Nat \ {0}
  /\ \A e \in Events : budget[e] \in Nat
  /\ wf \in {"running", "completed", "failed"} /\ dead \subseteq Rows

LEMMA TypedIsPlain == ASSUME Typed PROVE Plain
BY MapAssumption DEF Typed, TypeOK, Plain, Rows

LEMMA BecomeDoes ==
  ASSUME Typed, NEW i \in Threads, NEW t, Become(i, t)
  PROVE th'[i] = t /\ \A j \in Threads : j # i => th'[j] = th[j]
BY DEF Typed, TypeOK, Become

LEMMA RestDoes ==
  ASSUME Typed, NEW i \in Threads, Rest(i)
  PROVE /\ th'[i].pc = "idle" /\ th'[i].job = None /\ th'[i].cur = None
        /\ \A j \in Threads : j # i => th'[j] = th[j]
BY BecomeDoes DEF Rest, Idle

LEMMA GotoDoes ==
  ASSUME Typed, NEW i \in Threads, NEW p, Goto(i, p)
  PROVE /\ th'[i].pc = p /\ th'[i].job = th[i].job /\ th'[i].cur = th[i].cur
        /\ th'[i].todo = th[i].todo /\ th'[i].verdict = th[i].verdict
        /\ \A j \in Threads : j # i => th'[j] = th[j]
BY DEF Typed, TypeOK, Goto

LEMMA MarkDoes ==
  ASSUME Typed, NEW r \in Rows, NEW x, Mark(r, x)
  PROVE status'[r] = x /\ \A q \in Rows : q # r => status'[q] = status[q]
BY DEF Typed, TypeOK, Mark

LEMMA PutDoes ==
  ASSUME Typed, NEW r \in Rows, Put(r)
  PROVE /\ queue'[r] > 0 /\ (queue[r] = 0 => queue'[r] = 1)
        /\ \A q \in Rows : q # r => queue'[q] = queue[q]
BY MapAssumption DEF Typed, TypeOK, Put

LEMMA SpendDoes ==
  ASSUME Typed, NEW e \in Events, Spend(e)
  PROVE /\ budget[e] > 0 /\ budget'[e] = budget[e] - 1
        /\ \A f \in Events : f # e => budget'[f] = budget[f]
BY DEF Typed, TypeOK, Spend

\* Budgets are only spent.
Spent == \A e \in Events : budget'[e] <= budget[e]

LEMMA CompatibleStays ==
  ASSUME Typed, Typed', Compatible(budget), Spent
  PROVE Compatible(budget)'
BY DEF Typed, TypeOK, Compatible, Spent, Events

\* What a proof uses of the invariant.
LEMMA MapInvParts ==
  MapInv => /\ Compatible(budget) /\ Typed /\ Unborn /\ Owned /\ FannedOutOnce /\ Unsent
            /\ Anchored /\ GivenUp /\ Mortal /\ Aggregated /\ Justified /\ Plain
BY TypedIsPlain DEF MapInv

\* Only the activation of i changes, and to nothing the others could notice.
Calm(i) ==
  /\ UNCHANGED <<status, attempts, queue, dead, wf>> /\ Spent
  /\ \A j \in Threads : j # i => th'[j] = th[j]
  /\ th'[i].job \in {th[i].job, None} /\ th'[i].cur \in {th[i].cur, None}
  /\ th'[i].pc \in {"idle", "begin", "claim", "siblings", "list"}
  /\ th[i].pc \notin Sending

LEMMA CalmKeeps == ASSUME MapInv, NEW i \in Threads, Calm(i), Typed' PROVE MapInv'
<1> USE MapInvParts
<1>d. /\ status' = status /\ attempts' = attempts /\ queue' = queue /\ dead' = dead /\ wf' = wf
      /\ \A j \in Threads : j # i => th'[j] = th[j]
      /\ th'[i].job \in {th[i].job, None} /\ th'[i].cur \in {th[i].cur, None}
      /\ th'[i].pc \in {"idle", "begin", "claim", "siblings", "list"}
      /\ th[i].pc \notin Sending
  BY DEF Calm
<1>e. \A e \in Events : budget[e] \in Nat /\ budget'[e] \in Nat /\ budget'[e] <= budget[e]
  BY DEF Calm, Spent, Typed, TypeOK
<1>k. Children' = Children
  BY <1>d DEF Children
<1>c. Compatible(budget)'
  BY CompatibleStays DEF Calm
<1>1. Unborn'
  BY <1>d DEF Plain, Unborn, Unclaimed
<1>2. Owned'
  BY <1>d DEF Owned, Owner, Direct
<1>3. FannedOutOnce'
  BY <1>d, <1>k, <1>e DEF FannedOutOnce, Owner, Direct, Sending, Events
<1>4. Unsent'
  BY <1>d, <1>k DEF Plain, Unsent, Unclaimed, Sending
<1>b. Blocked => Blocked'
  BY <1>d DEF Plain, Blocked, Blocker, Unclaimed, Sending
<1>5. Anchored'
  BY <1>b, <1>d, <1>k DEF Anchored, Failing
<1>6. GivenUp'
  BY <1>d, <1>e DEF Plain, GivenUp, Dropped, Owner, Direct, CallOK, Events
<1>7. Mortal'
  BY <1>b, <1>d, <1>e, <1>k DEF Plain, Mortal, MayDie, OneToken, Events
<1>8. Aggregated'
  BY <1>d, <1>k DEF Aggregated
<1>9. Justified'
  BY <1>d DEF Justified
<1> QED BY <1>c, <1>1, <1>2, <1>3, <1>4, <1>5, <1>6, <1>7, <1>8, <1>9 DEF MapInv

-----------------------------------------------------------------------------
(***************************************************************************)
(* One lemma per action that changes what the invariant looks at.          *)
(***************************************************************************)
LEMMA DeliverKeeps ==
  ASSUME MapInv, NEW i \in Threads, NEW r \in Rows, Deliver(i, r), Typed'
  PROVE MapInv'
<1> USE MapInvParts
<1>d. /\ th[i].pc = "idle" /\ queue[r] > 0 /\ queue'[r] = queue[r] - 1
      /\ \A q \in Rows : q # r => queue'[q] = queue[q]
      /\ th'[i].pc = "begin" /\ th'[i].job = r /\ th'[i].cur = r
      /\ \A j \in Threads : j # i => th'[j] = th[j]
      /\ UNCHANGED <<wf, status, attempts, dead, budget>>
  <2>1. th'[i] = [Idle EXCEPT !.pc = "begin", !.job = r, !.cur = r]
        /\ \A j \in Threads : j # i => th'[j] = th[j]
    BY BecomeDoes DEF Deliver
  <2> QED BY <2>1 DEF Deliver, At, Idle, rows, Typed, TypeOK
<1>k. Children' = Children
  BY <1>d DEF Children
<1>c. Compatible(budget)'
  BY <1>d, CompatibleStays DEF Spent
<1>1. Unborn'
  BY <1>d DEF Plain, Unborn, Unclaimed
<1>2. Owned'
  BY <1>d DEF Owned, Owner, Direct
<1>3. FannedOutOnce'
  BY <1>d, <1>k DEF FannedOutOnce, Owner, Direct
<1>4. Unsent'
  BY <1>d, <1>k DEF Plain, Unsent, Unclaimed, Sending
<1>b. Blocked => Blocked'
  BY <1>d DEF Plain, Blocked, Blocker, Unclaimed, Sending
<1>5. Anchored'
  BY <1>d, <1>k, <1>b DEF Anchored, Failing
<1>6. GivenUp'
  BY <1>d DEF Plain, GivenUp, Dropped, Owner, Direct, CallOK
<1>7. Mortal'
  BY <1>d, <1>k, <1>b DEF Plain, Mortal, MayDie, OneToken
<1>8. Aggregated'
  BY <1>d, <1>k DEF Aggregated
<1>9. Justified'
  BY <1>d DEF Justified
<1> QED BY <1>c, <1>1, <1>2, <1>3, <1>4, <1>5, <1>6, <1>7, <1>8, <1>9 DEF MapInv

LEMMA ExhaustKeeps ==
  ASSUME MapInv, NEW i \in Threads, NEW r \in Rows, Exhaust(i, r), Typed'
  PROVE MapInv'
<1> USE MapInvParts
<1>d. /\ th[i].pc = "idle" /\ r \in dead /\ dead' = dead \ {r}
      /\ \/ /\ th'[i].pc = "idle" /\ th'[i].job = None /\ th'[i].cur = None
         \/ /\ status[r] \notin {"completed", "failed", "skipped"}
            /\ th'[i].pc = "failalone" /\ th'[i].job = None /\ th'[i].cur = r
      /\ \A j \in Threads : j # i => th'[j] = th[j]
      /\ UNCHANGED <<wf, status, attempts, queue, budget>>
  <2>1. /\ th'[i] = IF status[r] \in {"completed", "failed", "skipped"} THEN Idle
                    ELSE [Idle EXCEPT !.pc = "failalone", !.cur = r]
        /\ \A j \in Threads : j # i => th'[j] = th[j]
    BY BecomeDoes DEF Exhaust
  <2> QED BY <2>1 DEF Exhaust, At, Idle, rows, Typed, TypeOK
<1>x. ASSUME status[r] \notin {"completed", "failed", "skipped"}
      PROVE /\ \A j \in Threads : Owner(th[j]) => th[j].cur # r
            /\ queue[r] = 0 /\ budget["sweep"] = 0
            /\ \A j \in Threads : th[j].job # r
            /\ \A j \in Threads : th[j].cur = r => th[j].pc \notin {"requeue", "resend"}
            /\ r = Map /\ Children # {} => Blocked
  BY <1>d, <1>x DEF Plain, Mortal, MayDie, OneToken, Owner, Direct, CallOK, OfJob
<1>k. Children' = Children
  BY <1>d DEF Children
<1>c. Compatible(budget)'
  BY <1>d, CompatibleStays DEF Spent
<1>1. Unborn'
  BY <1>d DEF Plain, Unborn, Unclaimed
<1>2. Owned'
  BY <1>d DEF Owned, Owner, Direct
<1>3. FannedOutOnce'
  BY <1>d, <1>k DEF FannedOutOnce, Owner, Direct
<1>4. Unsent'
  BY <1>d, <1>k DEF Plain, Unsent, Unclaimed, Sending
<1>b. Blocked => Blocked'
  BY <1>d DEF Plain, Blocked, Blocker, Unclaimed, Sending
<1>5. Anchored'
  BY <1>d, <1>k, <1>b, <1>x DEF Anchored, Failing
<1>6. GivenUp'
  BY <1>d, <1>x DEF Plain, GivenUp, Dropped, Owner, Direct, CallOK
<1>7. Mortal'
  BY <1>d, <1>k, <1>b DEF Plain, Mortal, MayDie, OneToken
<1>8. Aggregated'
  BY <1>d, <1>k DEF Aggregated
<1>9. Justified'
  BY <1>d DEF Justified
<1> QED BY <1>c, <1>1, <1>2, <1>3, <1>4, <1>5, <1>6, <1>7, <1>8, <1>9 DEF MapInv

LEMMA SweepKeeps == ASSUME MapInv, NEW i \in Threads, Sweep(i), Typed' PROVE MapInv'
<1> USE MapInvParts
<1>d. /\ th[i].pc = "idle" /\ th'[i].job = None
      /\ budget["sweep"] > 0 /\ \A e \in Events : e # "sweep" => budget'[e] = budget[e]
      /\ th'[i].cur \in Rows /\ status[th'[i].cur] = "running"
      /\ \A j \in Threads : th[j].cur = th'[i].cur => th[j].pc \notin Owning
      /\ \/ th'[i].pc = "requeue" /\ attempts[th'[i].cur] < MaxAttempts[th'[i].cur]
         \/ th'[i].pc = "failalone" /\ attempts[th'[i].cur] >= MaxAttempts[th'[i].cur]
      /\ \A j \in Threads : j # i => th'[j] = th[j]
      /\ \A e \in Events : budget[e] \in Nat /\ budget'[e] \in Nat /\ budget'[e] <= budget[e]
      /\ UNCHANGED <<wf, status, attempts, queue, dead>>
  <2>1. PICK r \in Stuck : Become(i, [Idle EXCEPT !.cur = r,
                    !.pc = IF attempts[r] < MaxAttempts[r] THEN "requeue" ELSE "failalone"])
    BY DEF Sweep
  <2>2. /\ th'[i] = [Idle EXCEPT !.cur = r,
                    !.pc = IF attempts[r] < MaxAttempts[r] THEN "requeue" ELSE "failalone"]
        /\ \A j \in Threads : j # i => th'[j] = th[j]
    BY <2>1, BecomeDoes
  <2>3. /\ th'[i].job = None /\ th'[i].cur = r
        /\ \/ th'[i].pc = "requeue" /\ attempts[r] < MaxAttempts[r]
           \/ th'[i].pc = "failalone" /\ ~(attempts[r] < MaxAttempts[r])
    BY <2>2 DEF Idle
  <2>4. /\ th[i].pc = "idle" /\ "sweep" \in Events /\ Spend("sweep")
        /\ UNCHANGED <<wf, status, attempts, queue, dead>>
    BY DEF Sweep, At, rows, Events
  <2>5. /\ budget["sweep"] > 0 /\ \A e \in Events : e # "sweep" => budget'[e] = budget[e]
        /\ \A e \in Events : budget[e] \in Nat /\ budget'[e] \in Nat /\ budget'[e] <= budget[e]
    BY <2>4, SpendDoes DEF Typed, TypeOK
  <2>6. /\ r \in Rows /\ status[r] = "running"
        /\ \A j \in Threads : th[j].cur = r => th[j].pc \notin Owning
    BY DEF Stuck
  <2> QED BY <2>2, <2>3, <2>4, <2>5, <2>6 DEF Plain
<1>x. /\ \A j \in Threads : Owner(th[j]) => th[j].cur # th'[i].cur
      /\ Children # {} => th'[i].cur # Map
  <2>1. \A j \in Threads : Owner(th[j]) => th[j].cur # th'[i].cur
    BY <1>d DEF Owner, Direct, Owning
  <2>2. ASSUME Children # {}, th'[i].cur = Map PROVE FALSE
    <3>1. PICK j \in Threads : th[j].pc = "mark"
      BY <1>d, <2>2 DEF FannedOutOnce
    <3> QED BY <2>1, <2>2, <3>1 DEF Plain, CallOK, Owner
  <2> QED BY <2>1, <2>2
<1>k. Children' = Children
  BY <1>d DEF Children
<1>c. Compatible(budget)'
  BY <1>d, CompatibleStays DEF Spent
<1>1. Unborn'
  BY <1>d DEF Plain, Unborn, Unclaimed
<1>2. Owned'
  BY <1>d, <1>x DEF Owned
<1>3. FannedOutOnce'
  BY <1>d, <1>k, <1>x DEF FannedOutOnce
<1>4. Unsent'
  BY <1>d, <1>k DEF Plain, Unsent, Unclaimed, Sending
<1>b. Blocked => Blocked'
  BY <1>d DEF Plain, Blocked, Blocker, Unclaimed, Sending
<1>5. Anchored'
  BY <1>d, <1>k, <1>b, <1>x DEF Anchored, Failing
<1>6. GivenUp'
  BY <1>d, <1>x DEF Plain, GivenUp, Dropped, Owner, Direct
<1>7. Mortal'
  BY <1>d DEF Mortal, MayDie, OneToken, Events
<1>8. Aggregated'
  BY <1>d, <1>k DEF Aggregated
<1>9. Justified'
  BY <1>d DEF Justified
<1> QED BY <1>c, <1>1, <1>2, <1>3, <1>4, <1>5, <1>6, <1>7, <1>8, <1>9 DEF MapInv

LEMMA ClaimKeeps ==
  ASSUME MapInv, NEW i \in Threads, Claim(i), ~UNCHANGED rows, Typed'
  PROVE MapInv'
<1> USE MapInvParts
<1>d. /\ th[i].pc = "claim" /\ th[i].cur \in Rows /\ th[i].job = th[i].cur
      /\ status[th[i].cur] = "pending" /\ status'[th[i].cur] = "running"
      /\ \A q \in Rows : q # th[i].cur => status'[q] = status[q] /\ attempts'[q] = attempts[q]
      /\ th'[i].pc = "handler" /\ th'[i].job = th[i].job /\ th'[i].cur = th[i].cur
      /\ \A j \in Threads : j # i => th'[j] = th[j]
      /\ UNCHANGED <<wf, queue, dead, budget>>
  BY GotoDoes, MarkDoes DEF Claim, At, Plain, CallOK, OfJob, Typed, TypeOK
<1>k. Children' = Children
  BY <1>d DEF Plain, Children
<1>c. Compatible(budget)'
  BY <1>d, CompatibleStays DEF Spent
<1>1. Unborn'
  BY <1>d DEF Plain, Unborn, Unclaimed
<1>2. Owned'
  BY <1>d DEF Plain, Owned, Owner, Direct, CallOK, OfJob
<1>3. FannedOutOnce'
  BY <1>d, <1>k DEF Plain, FannedOutOnce
<1>4. Unsent'
  BY <1>d, <1>k DEF Plain, Unsent, Unclaimed, Sending
<1>b. Blocked => Blocked'
  BY <1>d DEF Plain, Blocked, Blocker, Unclaimed, Sending
<1>5. Anchored'
  BY <1>d, <1>k, <1>b DEF Plain, Anchored, Failing
<1>6. GivenUp'
  BY <1>d DEF Plain, GivenUp, Dropped, CallOK
<1>7. Mortal'
  BY <1>d, <1>k, <1>b DEF Plain, Mortal, MayDie, OneToken, Sending
<1>8. Aggregated'
  BY <1>d DEF Plain, Aggregated, Children
<1>9. Justified'
  BY <1>d DEF Plain, Justified, CallOK
<1> QED BY <1>c, <1>1, <1>2, <1>3, <1>4, <1>5, <1>6, <1>7, <1>8, <1>9 DEF MapInv

LEMMA AnswerKeeps == ASSUME MapInv, NEW i \in Threads, Answer(i), Typed' PROVE MapInv'
<1> USE MapInvParts
<1>d. /\ th[i].pc = "handler" /\ th[i].cur \in Rows /\ th[i].job = th[i].cur
      /\ th'[i].pc \in {"complete", "spawn"} /\ th'[i].job = th[i].job /\ th'[i].cur = th[i].cur
      /\ \A j \in Threads : j # i => th'[j] = th[j]
      /\ UNCHANGED <<wf, status, attempts, queue, dead, budget>>
  BY GotoDoes DEF Answer, At, Plain, CallOK, OfJob, Typed, TypeOK, rows
<1>x. Children # {} => th[i].cur # Map
  BY <1>d DEF Owner, FannedOutOnce
<1>k. Children' = Children
  BY <1>d DEF Children
<1>c. Compatible(budget)'
  BY <1>d, CompatibleStays DEF Spent
<1>1. Unborn'
  BY <1>d DEF Unborn, Unclaimed
<1>2. Owned'
  BY <1>d DEF Owned, Owner
<1>3. FannedOutOnce'
  BY <1>d, <1>k, <1>x DEF FannedOutOnce
<1>4. Unsent'
  BY <1>d, <1>k DEF Unsent, Unclaimed, Sending
<1>b. Blocked => Blocked'
  BY <1>d DEF Blocked, Blocker, Unclaimed, Sending
<1>5. Anchored'
  BY <1>d, <1>k, <1>b DEF Anchored, Failing
<1>6. GivenUp'
  BY <1>d DEF GivenUp, Dropped, Owner
<1>7. Mortal'
  BY <1>d, <1>k, <1>b, <1>x DEF Mortal, MayDie, OneToken
<1>8. Aggregated'
  BY <1>d, <1>k, <1>x DEF Aggregated
<1>9. Justified'
  BY <1>d DEF Justified
<1> QED BY <1>c, <1>1, <1>2, <1>3, <1>4, <1>5, <1>6, <1>7, <1>8, <1>9 DEF MapInv

LEMMA ErrKeeps == ASSUME MapInv, NEW i \in Threads, Err(i), Typed' PROVE MapInv'
<1> USE MapInvParts
<1>d. /\ th[i].pc = "handler" /\ th[i].cur \in Rows /\ th[i].job = th[i].cur
      /\ th'[i].pc \in {"requeue", "fail"} /\ th'[i].job = th[i].job /\ th'[i].cur = th[i].cur
      /\ \A j \in Threads : j # i => th'[j] = th[j]
      /\ \A e \in Events : budget[e] \in Nat /\ budget'[e] \in Nat /\ budget'[e] <= budget[e]
      /\ UNCHANGED <<wf, status, attempts, queue, dead>>
  BY GotoDoes, SpendDoes DEF Err, At, Plain, CallOK, OfJob, Typed, TypeOK, rows, Events
<1>k. Children' = Children
  BY <1>d DEF Children
<1>c. Compatible(budget)'
  BY <1>d, CompatibleStays DEF Spent
<1>1. Unborn'
  BY <1>d DEF Unborn, Unclaimed
<1>2. Owned'
  BY <1>d DEF Owned, Owner
<1>3. FannedOutOnce'
  BY <1>d, <1>k DEF FannedOutOnce, Owner, Events
<1>4. Unsent'
  BY <1>d, <1>k DEF Unsent, Unclaimed, Sending
<1>b. Blocked => Blocked'
  BY <1>d DEF Blocked, Blocker, Unclaimed, Sending
<1>5. Anchored'
  BY <1>d, <1>k, <1>b DEF Anchored, Failing
<1>6. GivenUp'
  BY <1>d DEF GivenUp, Dropped, Owner, Events
<1>7. Mortal'
  BY <1>d, <1>k, <1>b DEF Mortal, MayDie, OneToken, Events, Sending
<1>8. Aggregated'
  BY <1>d, <1>k DEF Aggregated
<1>9. Justified'
  BY <1>d DEF Justified
<1> QED BY <1>c, <1>1, <1>2, <1>3, <1>4, <1>5, <1>6, <1>7, <1>8, <1>9 DEF MapInv

LEMMA RequeueKeeps == ASSUME MapInv, NEW i \in Threads, Requeue(i), Typed' PROVE MapInv'
<1> USE MapInvParts
<1>d. /\ th[i].pc = "requeue" /\ th[i].cur \in Rows /\ th[i].job \in {th[i].cur, None}
      /\ status'[th[i].cur] = "pending"
      /\ \A q \in Rows : q # th[i].cur => status'[q] = status[q]
      /\ th'[i].pc = "resend" /\ th'[i].job = th[i].job /\ th'[i].cur = th[i].cur
      /\ \A j \in Threads : j # i => th'[j] = th[j]
      /\ UNCHANGED <<wf, attempts, queue, dead, budget>>
  BY GotoDoes, MarkDoes DEF Requeue, At, Plain, CallOK
<1>x. /\ Owner(th[i])
      /\ status[th[i].cur] = "running" \/ (th[i].cur \in Items /\ status[th[i].cur] = "skipped")
      /\ Children # {} => th[i].cur # Map
  BY <1>d DEF Owner, Owned, FannedOutOnce
<1>k. Children' = Children
  BY <1>d, <1>x DEF Plain, Children
<1>c. Compatible(budget)'
  BY <1>d, CompatibleStays DEF Spent
<1>1. Unborn'
  BY <1>d DEF Plain, Unborn, Unclaimed
<1>2. Owned'
  BY <1>d DEF Plain, Owned, Owner, Direct, CallOK, OfJob
<1>3. FannedOutOnce'
  BY <1>d, <1>k, <1>x DEF Plain, FannedOutOnce
<1>4. Unsent'
  BY <1>d, <1>k DEF Plain, Unsent, Unclaimed, Sending
<1>b. Blocked => Blocked'
  <2>1. ASSUME NEW c \in Items, Blocker(c) PROVE Blocker(c)'
    <3>1. c # th[i].cur
      BY <1>x, <2>1 DEF Blocker, Unclaimed
    <3> QED BY <1>d, <2>1, <3>1 DEF Plain, Blocker, Unclaimed, Sending
  <2> QED BY <2>1 DEF Blocked
<1>5. Anchored'
  BY <1>d, <1>k, <1>b DEF Plain, Anchored, Failing
<1>6. GivenUp'
  BY <1>d, <1>x DEF Plain, GivenUp, Dropped, CallOK
<1>7. Mortal'
  BY <1>d, <1>k, <1>b, <1>x DEF Plain, Mortal, MayDie, OneToken
<1>8. Aggregated'
  BY <1>d, <1>x DEF Plain, Aggregated, Children
<1>9. Justified'
  BY <1>d, <1>x DEF Plain, Justified, CallOK
<1> QED BY <1>c, <1>1, <1>2, <1>3, <1>4, <1>5, <1>6, <1>7, <1>8, <1>9 DEF MapInv

LEMMA ResendKeeps == ASSUME MapInv, NEW i \in Threads, Resend(i), Typed' PROVE MapInv'
<1> USE MapInvParts
<1>d. /\ th[i].pc = "resend" /\ th[i].cur \in Rows /\ th[i].job \in {th[i].cur, None}
      /\ queue'[th[i].cur] > 0 /\ (queue[th[i].cur] = 0 => queue'[th[i].cur] = 1)
      /\ \A q \in Rows : q # th[i].cur => queue'[q] = queue[q]
      /\ th'[i].pc = "idle" /\ th'[i].job = None /\ th'[i].cur = None
      /\ \A j \in Threads : j # i => th'[j] = th[j]
      /\ UNCHANGED <<wf, status, attempts, dead, budget>>
  BY RestDoes, PutDoes DEF Resend, At, Plain, CallOK, rows
<1>k. Children' = Children
  BY <1>d DEF Children
<1>c. Compatible(budget)'
  BY <1>d, CompatibleStays DEF Spent
<1>1. Unborn'
  BY <1>d DEF Plain, Unborn, Unclaimed
<1>2. Owned'
  BY <1>d DEF Owned, Owner, Direct
<1>3. FannedOutOnce'
  BY <1>d, <1>k DEF FannedOutOnce, Owner, Direct
<1>4. Unsent'
  BY <1>d, <1>k DEF Plain, Unsent, Unclaimed, Sending
<1>b. Blocked => Blocked'
  BY <1>d DEF Plain, Blocked, Blocker, Unclaimed, Sending
<1>5. Anchored'
  BY <1>d, <1>k, <1>b DEF Anchored, Failing
<1>6. GivenUp'
  BY <1>d DEF Plain, GivenUp, Dropped, CallOK
<1>7. Mortal'
  <2> SUFFICES ASSUME MayDie PROVE Mortal'
    BY <1>d DEF Mortal, MayDie
  <2>1. th[i].job = th[i].cur /\ budget'["redeliver"] = 0 /\ budget'["sweep"] = 0
    BY <1>d DEF Mortal
  <2>2. ASSUME NEW r \in Rows PROVE OneToken(r)'
    BY <1>d, <2>1 DEF Mortal, OneToken, Plain
  <2>3. \A j \in Threads : th'[j].pc \in {"requeue", "resend"} => th'[j].job = th'[j].cur
    BY <1>d DEF Mortal
  <2>4. /\ Children' # {} /\ status'[Map] \notin {"completed", "failed"}
        /\ \/ queue'[Map] > 0 \/ Map \in dead'
           \/ \E j \in Threads : th'[j].job = Map /\ th'[j].pc \notin Sending
        => Blocked'
    BY <1>d, <1>k, <1>b, <2>1 DEF Mortal, Sending, Plain
  <2> QED BY <2>1, <2>2, <2>3, <2>4 DEF Mortal
<1>8. Aggregated'
  BY <1>d, <1>k DEF Aggregated
<1>9. Justified'
  BY <1>d DEF Justified
<1> QED BY <1>c, <1>1, <1>2, <1>3, <1>4, <1>5, <1>6, <1>7, <1>8, <1>9 DEF MapInv

LEMMA SpawnKeeps == ASSUME MapInv, NEW i \in Threads, Spawn(i), Typed' PROVE MapInv'
<1> USE MapInvParts
<1>d. /\ th[i].pc = "spawn" /\ th[i].cur = Map /\ th[i].job = Map /\ th[i].todo # {}
      /\ th[i].todo \subseteq Items
      /\ th'[i].pc = "mark"
      /\ th'[i].job = th[i].job /\ th'[i].cur = th[i].cur /\ th'[i].todo = th[i].todo
      /\ th'[i].verdict = th[i].verdict
      /\ \A j \in Threads : j # i => th'[j] = th[j]
      /\ \A c \in Items : status[c] = "absent"
      /\ \A r \in Rows : status'[r] = IF r \in th[i].todo THEN "pending" ELSE status[r]
      /\ UNCHANGED <<wf, attempts, queue, dead, budget>>
  <2>1. th[i].pc = "spawn" /\ th[i].cur = Map /\ th[i].job = Map /\ th[i].todo # {}
        /\ th[i].todo \subseteq Items
    BY DEF Spawn, At, Plain, CallOK, OfJob
  <2>2. \A c \in Items : status[c] = "absent"
    BY <2>1 DEF FannedOutOnce, Owner, Children
  <2>3. Children \cap th[i].todo = {}
    BY <2>2 DEF Children
  <2>4. Goto(i, "mark") /\ status' = [r \in Rows |-> IF r \in th[i].todo THEN "pending" ELSE status[r]]
        /\ UNCHANGED <<wf, attempts, queue, dead, budget>>
    BY <2>3 DEF Spawn
  <2> QED BY <2>1, <2>2, <2>4, GotoDoes
<1>x. /\ status[Map] = "running" /\ status'[Map] = "running" /\ Map \notin Items
      /\ Children = {} /\ Children' = th[i].todo
      /\ \A c \in th[i].todo : status'[c] = "pending"
      /\ \A j \in Threads : Owner(th[j]) /\ th[j].cur = Map => j = i
      /\ ~Blocked
      /\ \A j \in Threads : th[j].pc \notin Failing
      /\ \A j \in Threads : j # i => th[j].pc \notin Sending
      /\ \A c \in Items : Unclaimed(c)
      /\ \A j \in Threads : th[j].pc # "failalone"
      /\ \A j \in Threads : ~(th[j].pc = "complete" /\ th[j].cur = Map)
  <2>1. Owner(th[i])
    BY <1>d DEF Owner
  <2>2. status[Map] = "running" /\ status'[Map] = "running" /\ Map \notin Items
    BY <1>d, <2>1 DEF Owned, Plain
  <2>3. Children = {} /\ \A c \in th[i].todo : status'[c] = "pending"
    BY <1>d DEF Children, Plain
  <2>4. Children' = th[i].todo
    BY <1>d DEF Children, Plain
  <2>5. \A j \in Threads : Owner(th[j]) /\ th[j].cur = Map => j = i
    BY <1>d, <2>1 DEF Owned
  <2>6. ~Blocked
    BY <1>d DEF Blocked, Blocker
  <2>7. \A j \in Threads : th[j].pc \notin Failing
    BY <2>6 DEF Anchored
  <2>8. \A j \in Threads : j # i => th[j].pc \notin Sending
    BY <1>d, <2>3 DEF Unsent, Plain, CallOK, Sending
  <2>9. \A c \in Items : Unclaimed(c)
    BY <1>d DEF Unborn
  <2>10. \A j \in Threads : th[j].pc # "failalone"
    BY <1>d, <2>1, <2>9 DEF GivenUp, Plain, CallOK, Unclaimed
  <2>11. \A j \in Threads : ~(th[j].pc = "complete" /\ th[j].cur = Map)
    BY <1>d, <2>5, <2>9 DEF Plain, CallOK, Unclaimed, Owner, Direct
  <2> QED BY <2>2, <2>3, <2>4, <2>5, <2>6, <2>7, <2>8, <2>9, <2>10, <2>11
<1>k. Children' # {}
  BY <1>x, <1>d
<1>c. Compatible(budget)'
  BY <1>d, CompatibleStays DEF Spent
<1>1. Unborn'
  BY <1>d, <1>x DEF Unborn, Unclaimed
<1>2. Owned'
  BY <1>d DEF Plain, Owned, Owner, Direct, CallOK, OfJob
<1>3. FannedOutOnce'
  BY <1>d, <1>x DEF FannedOutOnce
<1>4. Unsent'
  BY <1>d, <1>x DEF Unsent, Unclaimed, Sending
<1>b. Blocked => Blocked'
  BY <1>x
<1>5. Anchored'
  BY <1>d, <1>x DEF Anchored, Failing
<1>6. GivenUp'
  BY <1>d, <1>x DEF GivenUp, Dropped
<1>7. Mortal'
  BY <1>d DEF Plain, Mortal, MayDie, OneToken, Sending
<1>8. Aggregated'
  BY <1>d, <1>x DEF Aggregated
<1>9. Justified'
  BY <1>d, <1>x DEF Justified
<1> QED BY <1>c, <1>1, <1>2, <1>3, <1>4, <1>5, <1>6, <1>7, <1>8, <1>9 DEF MapInv

LEMMA MarkMappingKeeps == ASSUME MapInv, NEW i \in Threads, MarkMapping(i), Typed' PROVE MapInv'
<1> USE MapInvParts
<1>d. /\ th[i].pc = "mark" /\ th[i].cur = Map /\ th[i].job = Map
      /\ th'[i].pc = "send"
      /\ th'[i].job = th[i].job /\ th'[i].cur = th[i].cur /\ th'[i].todo = th[i].todo
      /\ th'[i].verdict = th[i].verdict
      /\ \A j \in Threads : j # i => th'[j] = th[j]
      /\ status'[Map] = "mapping" /\ \A r \in Rows : r # Map => status'[r] = status[r]
      /\ UNCHANGED <<wf, attempts, queue, dead, budget>>
  BY GotoDoes, MarkDoes DEF MarkMapping, At, Plain, CallOK, OfJob
<1>x. /\ Owner(th[i]) /\ status[Map] = "running"
      /\ \A j \in Threads : Owner(th[j]) /\ th[j].cur = Map => j = i
      /\ \A j \in Threads : th[j].pc = "failalone" => th[j].cur # Map
  BY <1>d DEF Owner, Owned, GivenUp, Plain
<1>k. Children' = Children
  BY <1>d DEF Plain, Children
<1>c. Compatible(budget)'
  BY <1>d, CompatibleStays DEF Spent
<1>1. Unborn'
  BY <1>d DEF Plain, Unborn, Unclaimed
<1>2. Owned'
  BY <1>d DEF Plain, Owned, Owner, Direct, CallOK, OfJob
<1>3. FannedOutOnce'
  BY <1>d, <1>x DEF FannedOutOnce, Owner, Direct
<1>4. Unsent'
  BY <1>d DEF Plain, Unsent, Unclaimed, Sending
<1>b. Blocked => Blocked'
  BY <1>d DEF Plain, Blocked, Blocker, Unclaimed, Sending
<1>5. Anchored'
  BY <1>d, <1>b, <1>x DEF Anchored, Failing
<1>6. GivenUp'
  BY <1>d, <1>x DEF Plain, GivenUp, Dropped, CallOK
<1>7. Mortal'
  BY <1>d, <1>k, <1>b, <1>x DEF Mortal, MayDie, OneToken, Sending
<1>8. Aggregated'
  BY <1>d DEF Plain, Aggregated, Children
<1>9. Justified'
  BY <1>d, <1>x DEF Plain, Justified, CallOK
<1> QED BY <1>c, <1>1, <1>2, <1>3, <1>4, <1>5, <1>6, <1>7, <1>8, <1>9 DEF MapInv

LEMMA SendKeeps == ASSUME MapInv, NEW i \in Threads, Send(i), Typed' PROVE MapInv'
<1> USE MapInvParts
<1>s. PICK c \in th[i].todo, lost \in {0, 1} :
          /\ budget' = [budget EXCEPT !["sendfail"] = @ - lost]
          /\ IF lost = 1 THEN UNCHANGED queue ELSE Put(c)
          /\ Become(i, IF th[i].todo = {c} THEN Idle ELSE [th[i] EXCEPT !.todo = @ \ {c}])
  BY DEF Send
<1>d. /\ th[i].pc = "send" /\ th[i].cur = Map /\ th[i].job = Map /\ c \in Items
      /\ \/ th'[i].pc = "idle" /\ th'[i].job = None /\ th'[i].cur = None
         \/ /\ th'[i].pc = "send" /\ th'[i].job = Map /\ th'[i].cur = Map
            /\ th'[i].todo = th[i].todo \ {c}
      /\ queue'[c] \in {queue[c], 1}
      /\ \A q \in Rows : q # c => queue'[q] = queue[q]
      /\ \A j \in Threads : j # i => th'[j] = th[j]
      /\ \A e \in Events : budget[e] \in Nat /\ budget'[e] \in Nat /\ budget'[e] <= budget[e]
      /\ UNCHANGED <<wf, status, attempts, dead>>
  <2>1. th[i].pc = "send" /\ th[i].cur = Map /\ th[i].job = Map /\ c \in Items /\ c \in Rows
    BY <1>s DEF Send, At, Plain, CallOK, OfJob
  <2>2. queue[c] = 0
    BY <2>1 DEF Unsent, Unclaimed, Sending
  <2>3. /\ queue'[c] \in {queue[c], 1}
        /\ \A q \in Rows : q # c => queue'[q] = queue[q]
    BY <1>s, <2>1, <2>2, PutDoes
  <2>4. /\ th'[i] = IF th[i].todo = {c} THEN Idle ELSE [th[i] EXCEPT !.todo = @ \ {c}]
        /\ \A j \in Threads : j # i => th'[j] = th[j]
    BY <1>s, BecomeDoes
  <2>5. th[i] \in [pc : Pcs, job : Rows \cup {None}, cur : Rows \cup {None}, tries : Nat,
                   todo : SUBSET Items, verdict : {None, "completed", "failed"}]
    BY DEF Typed, TypeOK
  <2>6. \/ th'[i].pc = "idle" /\ th'[i].job = None /\ th'[i].cur = None
        \/ /\ th'[i].pc = "send" /\ th'[i].job = Map /\ th'[i].cur = Map
           /\ th'[i].todo = th[i].todo \ {c}
    BY <2>1, <2>4, <2>5 DEF Idle
  <2>7. \A e \in Events : budget[e] \in Nat /\ budget'[e] \in Nat /\ budget'[e] <= budget[e]
    BY <1>s DEF Events, Typed, TypeOK
  <2> QED BY <2>1, <2>3, <2>4, <2>6, <2>7 DEF rows, Send
<1>x. /\ status[c] \in {"pending", "skipped"} /\ Unclaimed(c)
      /\ \A j \in Threads : th[j].pc \in Sending => j = i
  BY <1>d DEF Unsent, Sending
<1>k. Children' = Children
  BY <1>d DEF Children
<1>c. Compatible(budget)'
  BY <1>d, CompatibleStays DEF Spent
<1>1. Unborn'
  BY <1>d DEF Plain, Unborn, Unclaimed
<1>2. Owned'
  BY <1>d DEF Owned, Owner, Direct
<1>3. FannedOutOnce'
  BY <1>d, <1>k DEF FannedOutOnce, Owner, Direct, Events
<1>4. Unsent'
  BY <1>d DEF Plain, Unsent, Unclaimed, Sending
<1>b. Blocked => Blocked'
  BY <1>d DEF Plain, Blocked, Blocker, Unclaimed, Sending
<1>5. Anchored'
  BY <1>d, <1>k, <1>b DEF Anchored, Failing
<1>6. GivenUp'
  <2>1. ASSUME NEW j \in Threads, th'[j].pc = "failalone"
        PROVE /\ j # i /\ th'[j] = th[j] /\ th[j].pc = "failalone"
              /\ th[j].cur # c /\ th[j].cur \in Rows
    BY <1>d, <1>x, <2>1 DEF Plain, CallOK, Unclaimed
  <2>2. ASSUME NEW k \in Threads, Owner(th'[k]) PROVE Owner(th[k]) /\ th'[k] = th[k]
    BY <1>d, <2>2 DEF Owner, Direct
  <2>3. ASSUME NEW r \in Rows, r # c, Dropped(r) PROVE Dropped(r)'
    BY <1>d, <2>3 DEF Plain, Dropped, Events
  <2> QED BY <1>d, <2>1, <2>2, <2>3 DEF GivenUp
<1>7. Mortal'
  <2> SUFFICES ASSUME MayDie PROVE Mortal'
    BY <1>d DEF Mortal, MayDie, Events
  <2>1. budget'["redeliver"] = 0 /\ budget'["sweep"] = 0
    BY <1>d DEF Mortal, Events
  <2>2. ASSUME NEW r \in Rows PROVE OneToken(r)'
    <3>1. OneToken(r)
      BY DEF Mortal
    <3>2. CASE r = c
      BY <1>d, <1>x, <3>1, <3>2 DEF OneToken, Plain, Unclaimed
    <3>3. CASE r # c
      BY <1>d, <3>1, <3>3 DEF OneToken, Plain
    <3> QED BY <3>2, <3>3
  <2>3. \A j \in Threads : th'[j].pc \in {"requeue", "resend"} => th'[j].job = th'[j].cur
    BY <1>d DEF Mortal
  <2>4. queue'[Map] = queue[Map] /\ status'[Map] = status[Map]
    BY <1>d DEF Plain
  <2>5. ASSUME NEW j \in Threads, th'[j].job = Map, th'[j].pc \notin Sending
        PROVE th[j].job = Map /\ th[j].pc \notin Sending
    BY <1>d, <2>5 DEF Plain, Sending
  <2>6. /\ Children' # {} /\ status'[Map] \notin {"completed", "failed"}
        /\ \/ queue'[Map] > 0 \/ Map \in dead'
           \/ \E j \in Threads : th'[j].job = Map /\ th'[j].pc \notin Sending
        => Blocked'
    BY <1>d, <1>k, <1>b, <2>4, <2>5 DEF Mortal
  <2> QED BY <2>1, <2>2, <2>3, <2>6 DEF Mortal
<1>8. Aggregated'
  BY <1>d, <1>k DEF Aggregated
<1>9. Justified'
  BY <1>d DEF Justified
<1> QED BY <1>c, <1>1, <1>2, <1>3, <1>4, <1>5, <1>6, <1>7, <1>8, <1>9 DEF MapInv

LEMMA CompleteKeeps == ASSUME MapInv, NEW i \in Threads, Complete(i), Typed' PROVE MapInv'
<1> USE MapInvParts
<1>d. /\ th[i].pc = "complete" /\ th[i].cur \in Rows /\ th[i].job \in Rows
      /\ th[i].cur \in Items => th[i].job = th[i].cur
      /\ status'[th[i].cur] = "completed"
      /\ \A r \in Rows : r # th[i].cur => status'[r] = status[r]
      /\ th'[i].pc \in {"siblings", "terminate", "idle"}
      /\ th[i].cur \in Items => th'[i].pc = "siblings"
      /\ th[i].cur = Map => th'[i].pc # "siblings"
      /\ th'[i].job \in {None, th[i].job} /\ th'[i].cur \in {None, th[i].cur}
      /\ th'[i].pc = "terminate" => th'[i].verdict = Verdict(status') /\ th'[i].verdict # None
      /\ \A j \in Threads : j # i => th'[j] = th[j]
      /\ UNCHANGED <<wf, attempts, queue, dead, budget>>
  <2>1. /\ th[i].pc = "complete" /\ th[i].cur \in Rows /\ th[i].job \in Rows
        /\ th[i].cur \in Items => th[i].job = th[i].cur
    BY DEF Complete, At, Plain, CallOK
  <2>2. /\ status'[th[i].cur] = "completed"
        /\ \A r \in Rows : r # th[i].cur => status'[r] = status[r]
        /\ UNCHANGED <<wf, attempts, queue, dead, budget>>
    BY <2>1, MarkDoes DEF Complete, Mark
  <2>3. CASE th[i].cur # Map
    <3>1. Goto(i, "siblings")
      BY <2>3 DEF Complete
    <3> QED BY <2>1, <2>2, <2>3, <3>1, GotoDoes DEF Plain
  <2>4. CASE th[i].cur = Map
    <3>1. Become(i, ToTerminate(th[i], status'))
      BY <2>4 DEF Complete
    <3>2. /\ th'[i] = ToTerminate(th[i], status')
          /\ \A j \in Threads : j # i => th'[j] = th[j]
      BY <3>1, BecomeDoes
    <3>3. th[i] \in [pc : Pcs, job : Rows \cup {None}, cur : Rows \cup {None}, tries : Nat,
                     todo : SUBSET Items, verdict : {None, "completed", "failed"}]
      BY DEF Typed, TypeOK
    <3>4. \/ /\ th'[i].pc = "terminate" /\ th'[i].job = th[i].job /\ th'[i].cur = th[i].cur
             /\ th'[i].verdict = Verdict(status') /\ th'[i].verdict # None
          \/ th'[i].pc = "idle" /\ th'[i].job = None /\ th'[i].cur = None
      BY <3>2, <3>3 DEF ToTerminate, Idle
    <3> QED BY <2>1, <2>2, <2>4, <3>2, <3>4 DEF Plain
  <2> QED BY <2>3, <2>4
<1>x. /\ th[i].cur \in Items => /\ Owner(th[i]) /\ status[th[i].cur] \in {"running", "skipped"}
      /\ th[i].cur = Map =>
           /\ \A c \in Children : status[c] = "completed"
           /\ ~Blocked /\ status[Map] # "failed"
           /\ \A j \in Threads : Owner(th[j]) => j = i \/ th[j].cur # Map
           /\ \A j \in Threads : th[j].pc = "failalone" => th[j].cur # Map
           /\ \A j \in Threads : th[j].pc \notin Failing
  <2>1. ASSUME th[i].cur \in Items
        PROVE Owner(th[i]) /\ status[th[i].cur] \in {"running", "skipped"}
    BY <1>d, <2>1 DEF Owner, Direct, Owned
  <2>2. ASSUME th[i].cur = Map
        PROVE /\ \A c \in Children : status[c] = "completed"
              /\ ~Blocked /\ status[Map] # "failed"
              /\ \A j \in Threads : Owner(th[j]) => j = i \/ th[j].cur # Map
              /\ \A j \in Threads : th[j].pc = "failalone" => th[j].cur # Map
              /\ \A j \in Threads : th[j].pc \notin Failing
    <3>1. \A c \in Children : status[c] = "completed"
      BY <1>d, <2>2 DEF Aggregated
    <3>2. CASE Children = {}
      <4>1. \A c \in Items : status[c] = "absent" /\ Unclaimed(c)
        BY <3>2 DEF Children, Unborn
      <4>2. th[i].job = Map
        BY <1>d, <4>1 DEF Unclaimed, Plain
      <4>3. Owner(th[i])
        BY <1>d, <4>2 DEF Owner, Direct
      <4>4. ~Blocked
        BY <4>1 DEF Blocked, Blocker
      <4> QED BY <2>2, <3>1, <4>3, <4>4 DEF Owned, GivenUp, Anchored, Plain
    <3>3. CASE Children # {}
      <4>1. \A c \in Items : status[c] \in {"absent", "completed"}
        BY <3>1 DEF Children
      <4>2. ~Blocked
        BY <4>1 DEF Blocked, Blocker
      <4>3. \A j \in Threads : th[j].pc # "mark"
        BY <3>1 DEF Unsent, Sending, Plain, CallOK
      <4> QED BY <2>2, <3>1, <3>3, <4>2, <4>3 DEF Anchored, FannedOutOnce
    <3> QED BY <3>2, <3>3
  <2> QED BY <2>1, <2>2
<1>k. Children' = Children
  BY <1>d, <1>x DEF Plain, Children
<1>c. Compatible(budget)'
  BY <1>d, CompatibleStays DEF Spent
<1>1. Unborn'
  BY <1>d DEF Plain, Unborn, Unclaimed
<1>2. Owned'
  BY <1>d, <1>x DEF Plain, Owned, Owner, Direct, CallOK, OfJob
<1>3. FannedOutOnce'
  BY <1>d, <1>k DEF Plain, FannedOutOnce, Owner, Direct
<1>4. Unsent'
  BY <1>d, <1>k DEF Plain, Unsent, Unclaimed, Sending
<1>b. Blocked => Blocked'
  <2>1. ASSUME NEW c \in Items, Blocker(c) PROVE Blocker(c)'
    <3>1. c # th[i].cur
      BY <1>x, <1>d, <2>1 DEF Blocker, Unclaimed, Plain
    <3> QED BY <1>d, <2>1, <3>1 DEF Plain, Blocker, Unclaimed, Sending
  <2> QED BY <2>1 DEF Blocked
<1>5. Anchored'
  BY <1>d, <1>k, <1>b DEF Plain, Anchored, Failing
<1>6. GivenUp'
  BY <1>d, <1>x DEF Plain, GivenUp, Dropped, CallOK
<1>7. Mortal'
  BY <1>d, <1>k, <1>b DEF Plain, Mortal, MayDie, OneToken
<1>8. Aggregated'
  BY <1>d DEF Plain, Aggregated, Children
<1>9. Justified'
  <2>1. status[Map] \in {"completed", "failed"} => status'[Map] = status[Map]
    BY <1>d, <1>x DEF Plain
  <2>2. th'[i].pc = "terminate" => th'[i].verdict = "completed"
    <3>1. SUFFICES ASSUME th[i].cur = Map PROVE Verdict(status') \in {None, "completed"}
      BY <1>d DEF Plain
    <3>2. \A r \in Rows : status'[r] \in {"absent", "completed"}
      BY <1>d, <1>x, <3>1 DEF Plain, Children
    <3> QED BY <3>2 DEF Verdict
  <2>3. th'[i].pc \in {"terminate", "finish"} => status'[Map] = th'[i].verdict
    BY <1>d, <2>2 DEF Plain
  <2> QED BY <1>d, <2>1, <2>3 DEF Plain, Justified, CallOK
<1> QED BY <1>c, <1>1, <1>2, <1>3, <1>4, <1>5, <1>6, <1>7, <1>8, <1>9 DEF MapInv

LEMMA SiblingsKeeps ==
  ASSUME MapInv, NEW i \in Threads, Siblings(i), th'[i].pc = "complete", Typed'
  PROVE MapInv'
<1> USE MapInvParts
<1>d. /\ th[i].pc = "siblings" /\ th[i].job = th[i].cur /\ th[i].cur \in Items
      /\ th'[i].pc = "complete" /\ th'[i].cur = Map /\ th'[i].job = th[i].job
      /\ \A c \in Children : status[c] = "completed"
      /\ \A j \in Threads : j # i => th'[j] = th[j]
      /\ UNCHANGED <<wf, status, attempts, queue, dead, budget>>
  BY RestDoes, GotoDoes DEF Siblings, At, rows, Plain, CallOK, OfJob, OfItem, Typed, TypeOK
<1>k. Children' = Children
  BY <1>d DEF Children
<1>c. Compatible(budget)'
  BY <1>d, CompatibleStays DEF Spent
<1>1. Unborn'
  BY <1>d DEF Plain, Unborn, Unclaimed
<1>2. Owned'
  BY <1>d DEF Plain, Owned, Owner, Direct
<1>3. FannedOutOnce'
  BY <1>d, <1>k DEF Plain, FannedOutOnce, Owner, Direct
<1>4. Unsent'
  BY <1>d DEF Plain, Unsent, Sending, Children
<1>b. Blocked => Blocked'
  BY <1>d DEF Blocked, Blocker, Children
<1>5. Anchored'
  BY <1>d, <1>k, <1>b DEF Anchored, Failing
<1>6. GivenUp'
  BY <1>d DEF Plain, GivenUp, Dropped, Owner, Direct
<1>7. Mortal'
  BY <1>d, <1>k, <1>b DEF Mortal, MayDie, OneToken, Sending
<1>8. Aggregated'
  BY <1>d, <1>k DEF Aggregated
<1>9. Justified'
  BY <1>d DEF Justified
<1> QED BY <1>c, <1>1, <1>2, <1>3, <1>4, <1>5, <1>6, <1>7, <1>8, <1>9 DEF MapInv

LEMMA FailKeeps == ASSUME MapInv, NEW i \in Threads, Fail(i), Typed' PROVE MapInv'
<1> USE MapInvParts
<1>d. /\ th[i].pc = "fail" /\ th[i].cur \in Rows /\ th[i].job = th[i].cur
      /\ status'[th[i].cur] = "failed"
      /\ \A r \in Rows : r # th[i].cur => status'[r] = status[r]
      /\ th'[i].pc = IF th[i].cur = Map THEN "list" ELSE "parent"
      /\ th'[i].job = th[i].job /\ th'[i].cur = th[i].cur /\ th'[i].todo = th[i].todo
      /\ th'[i].verdict = th[i].verdict
      /\ \A j \in Threads : j # i => th'[j] = th[j]
      /\ UNCHANGED <<wf, attempts, queue, dead, budget>>
  BY GotoDoes, MarkDoes DEF Fail, At, Plain, CallOK, OfJob
<1>x. /\ Owner(th[i])
      /\ status[th[i].cur] = "running" \/ (th[i].cur \in Items /\ status[th[i].cur] = "skipped")
      /\ Children # {} => th[i].cur # Map
  BY <1>d DEF Owner, Owned, FannedOutOnce
<1>k. Children' = Children
  BY <1>d, <1>x DEF Plain, Children
<1>c. Compatible(budget)'
  BY <1>d, CompatibleStays DEF Spent
<1>1. Unborn'
  BY <1>d DEF Plain, Unborn, Unclaimed
<1>2. Owned'
  BY <1>d DEF Plain, Owned, Owner, Direct, CallOK, OfJob
<1>3. FannedOutOnce'
  BY <1>d, <1>k, <1>x DEF Plain, FannedOutOnce
<1>4. Unsent'
  BY <1>d, <1>k DEF Plain, Unsent, Unclaimed, Sending
<1>b. Blocked => Blocked'
  <2>1. ASSUME NEW c \in Items, Blocker(c) PROVE Blocker(c)'
    <3>1. c # th[i].cur
      BY <1>x, <1>d, <2>1 DEF Blocker, Unclaimed, Plain
    <3> QED BY <1>d, <2>1, <3>1 DEF Plain, Blocker, Unclaimed, Sending
  <2> QED BY <2>1 DEF Blocked
<1>5. Anchored'
  <2>1. th[i].cur \in Items => Blocked'
    <3>1. CASE \E j \in Threads : th[j].pc = "skip"
      BY <1>b, <3>1 DEF Anchored, Failing
    <3>2. CASE th[i].cur \in Items /\ \A j \in Threads : th[j].pc # "skip"
      BY <1>d, <3>2 DEF Blocked, Blocker
    <3> QED BY <3>1, <3>2
  <2> QED BY <1>d, <1>k, <1>b, <1>x, <2>1 DEF Plain, Anchored, Failing
<1>6. GivenUp'
  BY <1>d, <1>x DEF Plain, GivenUp, Dropped, CallOK
<1>7. Mortal'
  BY <1>d, <1>k, <1>b DEF Plain, Mortal, MayDie, OneToken
<1>8. Aggregated'
  BY <1>d, <1>x DEF Plain, Aggregated, Children
<1>9. Justified'
  BY <1>d, <1>x DEF Plain, Justified, CallOK
<1> QED BY <1>c, <1>1, <1>2, <1>3, <1>4, <1>5, <1>6, <1>7, <1>8, <1>9 DEF MapInv

LEMMA ReadParentKeeps ==
  ASSUME MapInv, NEW i \in Threads, ReadParent(i), th'[i].pc = "failmap", Typed'
  PROVE MapInv'
<1> USE MapInvParts
<1>d. /\ th[i].pc = "parent" /\ th'[i].pc = "failmap" /\ th[i].cur \in Items /\ th[i].job = th[i].cur
      /\ th'[i].job = th[i].job /\ th'[i].cur = th[i].cur /\ th'[i].todo = th[i].todo
      /\ th'[i].verdict = th[i].verdict
      /\ \A j \in Threads : j # i => th'[j] = th[j]
      /\ UNCHANGED <<wf, status, attempts, queue, dead, budget>>
  BY GotoDoes DEF ReadParent, At, Plain, CallOK, OfJob, OfItem, rows
<1>k. Children' = Children
  BY <1>d DEF Children
<1>c. Compatible(budget)'
  BY <1>d, CompatibleStays DEF Spent
<1>1. Unborn'
  BY <1>d DEF Unborn, Unclaimed
<1>2. Owned'
  BY <1>d DEF Owned, Owner, Direct
<1>3. FannedOutOnce'
  BY <1>d, <1>k DEF FannedOutOnce, Owner, Direct
<1>4. Unsent'
  BY <1>d, <1>k DEF Unsent, Unclaimed, Sending
<1>b. Blocked => Blocked'
  BY <1>d DEF Blocked, Blocker, Unclaimed, Sending
<1>5. Anchored'
  BY <1>d, <1>b DEF Anchored, Failing
<1>6. GivenUp'
  BY <1>d DEF GivenUp, Dropped, Owner, Direct
<1>7. Mortal'
  BY <1>d, <1>k, <1>b DEF Mortal, MayDie, OneToken, Sending
<1>8. Aggregated'
  BY <1>d, <1>k DEF Aggregated
<1>9. Justified'
  BY <1>d DEF Justified
<1> QED BY <1>c, <1>1, <1>2, <1>3, <1>4, <1>5, <1>6, <1>7, <1>8, <1>9 DEF MapInv

LEMMA FailMapKeeps == ASSUME MapInv, NEW i \in Threads, FailMap(i), Typed' PROVE MapInv'
<1> USE MapInvParts
<1>d. /\ th[i].pc = "failmap" /\ th'[i].pc = "pending" /\ th[i].cur \in Items /\ th[i].job = th[i].cur
      /\ status'[Map] = "failed" /\ \A r \in Rows : r # Map => status'[r] = status[r]
      /\ th'[i].job = th[i].job /\ th'[i].cur = th[i].cur /\ th'[i].todo = th[i].todo
      /\ th'[i].verdict = th[i].verdict
      /\ \A j \in Threads : j # i => th'[j] = th[j]
      /\ UNCHANGED <<wf, attempts, queue, dead, budget>>
  BY GotoDoes, MarkDoes DEF FailMap, At, Plain, CallOK, OfJob, OfItem, rows
<1>x. /\ Blocked /\ Children # {}
      /\ \A j \in Threads : th[j].pc # "mark"
      /\ \A j \in Threads : Owner(th[j]) => th[j].cur # Map
      /\ \E c \in Children : status[c] # "completed"
      /\ status[Map] # "completed"
  <2>1. Blocked
    BY <1>d DEF Anchored, Failing
  <2>2. th[i].cur \in Children
    BY <1>d DEF Unborn, Unclaimed, Children
  <2>3. \A j \in Threads : th[j].pc # "mark"
    BY <1>d, <2>2 DEF Unsent, Unclaimed, Sending
  <2>4. \A j \in Threads : Owner(th[j]) => th[j].cur # Map
    BY <2>2, <2>3 DEF FannedOutOnce
  <2>5. \E c \in Children : status[c] # "completed"
    BY <2>1 DEF Blocked, Blocker, Children
  <2> QED BY <2>1, <2>2, <2>3, <2>4, <2>5 DEF Aggregated
<1>k. Children' = Children
  BY <1>d DEF Plain, Children
<1>c. Compatible(budget)'
  BY <1>d, CompatibleStays DEF Spent
<1>1. Unborn'
  BY <1>d DEF Plain, Unborn, Unclaimed
<1>2. Owned'
  BY <1>d, <1>x DEF Plain, Owned, Owner, Direct, CallOK, OfJob
<1>3. FannedOutOnce'
  BY <1>d, <1>x DEF FannedOutOnce, Owner, Direct
<1>4. Unsent'
  BY <1>d, <1>x DEF Plain, Unsent, Unclaimed, Sending
<1>b. Blocked => Blocked'
  BY <1>d DEF Plain, Blocked, Blocker, Unclaimed, Sending
<1>5. Anchored'
  BY <1>d, <1>b DEF Anchored, Failing
<1>6. GivenUp'
  BY <1>d DEF Plain, GivenUp, Dropped, Owner, Direct, CallOK
<1>7. Mortal'
  BY <1>d DEF Mortal, MayDie, OneToken
<1>8. Aggregated'
  BY <1>d, <1>x DEF Aggregated
<1>9. Justified'
  BY <1>d, <1>x DEF Plain, Justified, CallOK
<1> QED BY <1>c, <1>1, <1>2, <1>3, <1>4, <1>5, <1>6, <1>7, <1>8, <1>9 DEF MapInv

LEMMA ReadPendingKeeps ==
  ASSUME MapInv, NEW i \in Threads, ReadPending(i), th'[i].pc = "skip", Typed'
  PROVE MapInv'
<1> USE MapInvParts
<1>d. /\ th[i].pc = "pending" /\ th'[i].pc = "skip" /\ th[i].cur \in Items /\ th[i].job = th[i].cur
      /\ th'[i].job = th[i].job /\ th'[i].cur = th[i].cur
      /\ th'[i].todo \subseteq Children /\ \A c \in th'[i].todo : status[c] = "pending"
      /\ \A j \in Threads : j # i => th'[j] = th[j]
      /\ UNCHANGED <<wf, status, attempts, queue, dead, budget>>
  <2> DEFINE P == {c \in Children : status[c] = "pending"}
  <2>1. th' = [th EXCEPT ![i].pc = IF P = {} THEN "list" ELSE "skip", ![i].todo = P]
    BY DEF ReadPending
  <2>2. /\ th'[i].todo = P /\ th'[i].job = th[i].job /\ th'[i].cur = th[i].cur
        /\ \A j \in Threads : j # i => th'[j] = th[j]
    BY <2>1 DEF Typed, TypeOK
  <2>3. /\ th[i].pc = "pending" /\ th[i].cur \in Items /\ th[i].job = th[i].cur
        /\ UNCHANGED <<wf, status, attempts, queue, dead, budget>>
    BY DEF ReadPending, At, Plain, CallOK, OfJob, OfItem, rows
  <2> QED BY <2>2, <2>3
<1>k. Children' = Children
  BY <1>d DEF Children
<1>c. Compatible(budget)'
  BY <1>d, CompatibleStays DEF Spent
<1>1. Unborn'
  BY <1>d DEF Unborn, Unclaimed
<1>2. Owned'
  BY <1>d DEF Owned, Owner, Direct
<1>3. FannedOutOnce'
  BY <1>d, <1>k DEF FannedOutOnce, Owner, Direct
<1>4. Unsent'
  BY <1>d, <1>k DEF Unsent, Unclaimed, Sending
<1>b. Blocked => Blocked'
  BY <1>d DEF Blocked, Blocker, Unclaimed, Sending
<1>5. Anchored'
  BY <1>d, <1>b DEF Anchored, Failing
<1>6. GivenUp'
  BY <1>d DEF GivenUp, Dropped, Owner, Direct
<1>7. Mortal'
  BY <1>d, <1>k, <1>b DEF Mortal, MayDie, OneToken, Sending
<1>8. Aggregated'
  BY <1>d, <1>k DEF Aggregated
<1>9. Justified'
  BY <1>d DEF Justified
<1> QED BY <1>c, <1>1, <1>2, <1>3, <1>4, <1>5, <1>6, <1>7, <1>8, <1>9 DEF MapInv

LEMMA SkipSiblingKeeps == ASSUME MapInv, NEW i \in Threads, SkipSibling(i), Typed' PROVE MapInv'
<1> USE MapInvParts
<1>s. PICK c \in th[i].todo :
          /\ Mark(c, "skipped")
          /\ th' = [th EXCEPT ![i].todo = @ \ {c},
                              ![i].pc = IF th[i].todo = {c} THEN "list" ELSE @]
  BY DEF SkipSibling
<1>d. /\ th[i].pc = "skip" /\ c \in th[i].todo /\ c \in Items /\ th[i].cur \in Items /\ th[i].job = th[i].cur
      /\ th'[i].pc \in {"skip", "list"}
      /\ th'[i].job = th[i].job /\ th'[i].cur = th[i].cur
      /\ th'[i].todo = th[i].todo \ {c}
      /\ status'[c] = "skipped" /\ \A r \in Rows : r # c => status'[r] = status[r]
      /\ \A j \in Threads : j # i => th'[j] = th[j]
      /\ UNCHANGED <<wf, attempts, queue, dead, budget>>
  <2>1. /\ th[i].pc = "skip" /\ c \in th[i].todo /\ c \in Items /\ c \in Rows
        /\ th[i].cur \in Items /\ th[i].job = th[i].cur
        /\ UNCHANGED <<wf, attempts, queue, dead, budget>>
    BY <1>s DEF SkipSibling, At, Plain, CallOK, OfJob, OfItem
  <2>2. status'[c] = "skipped" /\ \A r \in Rows : r # c => status'[r] = status[r]
    BY <1>s, <2>1, MarkDoes
  <2>3. /\ th'[i].pc \in {th[i].pc, "list"} /\ th'[i].todo = th[i].todo \ {c}
        /\ th'[i].job = th[i].job /\ th'[i].cur = th[i].cur
        /\ \A j \in Threads : j # i => th'[j] = th[j]
    <3>1. th[i] \in [pc : Pcs, job : Rows \cup {None}, cur : Rows \cup {None}, tries : Nat,
                     todo : SUBSET Items, verdict : {None, "completed", "failed"}]
      BY DEF Typed, TypeOK
    <3>2. Become(i, [th[i] EXCEPT !.todo = @ \ {c}, !.pc = IF th[i].todo = {c} THEN "list" ELSE @])
      BY <1>s DEF Become
    <3>3. /\ th'[i] = [th[i] EXCEPT !.todo = @ \ {c}, !.pc = IF th[i].todo = {c} THEN "list" ELSE @]
          /\ \A j \in Threads : j # i => th'[j] = th[j]
      BY <3>2, BecomeDoes
    <3> QED BY <3>1, <3>3
  <2> QED BY <2>1, <2>2, <2>3
<1>x. /\ Blocked /\ status[c] # "absent" /\ \E k \in Children : status[k] # "completed"
  <2>1. Blocked
    BY <1>d DEF Anchored, Failing
  <2>2. status[c] # "absent"
    BY <1>d, <1>s DEF Unborn
  <2>3. \E k \in Children : status[k] # "completed"
    BY <2>1 DEF Blocked, Blocker, Children
  <2> QED BY <2>1, <2>2, <2>3
<1>k. Children' = Children
  BY <1>d, <1>x DEF Plain, Children
<1>c. Compatible(budget)'
  BY <1>d, CompatibleStays DEF Spent
<1>1. Unborn'
  BY <1>d DEF Plain, Unborn, Unclaimed
<1>2. Owned'
  BY <1>d DEF Plain, Owned, Owner, Direct, CallOK, OfJob
<1>3. FannedOutOnce'
  BY <1>d, <1>x DEF Plain, FannedOutOnce
<1>4. Unsent'
  BY <1>d, <1>k DEF Plain, Unsent, Unclaimed, Sending
<1>b. Blocked => Blocked'
  BY <1>d DEF Plain, Blocked, Blocker, Unclaimed, Sending
<1>5. Anchored'
  BY <1>d, <1>b DEF Anchored, Failing
<1>6. GivenUp'
  BY <1>d DEF Plain, GivenUp, Dropped, Owner, Direct, CallOK
<1>7. Mortal'
  BY <1>d, <1>b, <1>x DEF Mortal, MayDie, OneToken
<1>8. Aggregated'
  BY <1>d, <1>x DEF Plain, Aggregated
<1>9. Justified'
  BY <1>d DEF Plain, Justified
<1> QED BY <1>c, <1>1, <1>2, <1>3, <1>4, <1>5, <1>6, <1>7, <1>8, <1>9 DEF MapInv

LEMMA ListKeeps ==
  ASSUME MapInv, NEW i \in Threads, List(i), th'[i].pc = "terminate", Typed'
  PROVE MapInv'
<1> USE MapInvParts
<1>d. /\ th[i].pc = "list" /\ th'[i].pc = "terminate"
      /\ th'[i].job = th[i].job /\ th'[i].cur = th[i].cur
      /\ th'[i].verdict = Verdict(status) /\ Verdict(status) # None
      /\ \A j \in Threads : j # i => th'[j] = th[j]
      /\ UNCHANGED <<wf, status, attempts, queue, dead, budget>>
  <2>1. th'[i] = ToTerminate(th[i], status) /\ \A j \in Threads : j # i => th'[j] = th[j]
    BY BecomeDoes DEF List
  <2>2. th[i] \in [pc : Pcs, job : Rows \cup {None}, cur : Rows \cup {None}, tries : Nat,
                   todo : SUBSET Items, verdict : {None, "completed", "failed"}]
    BY DEF Typed, TypeOK
  <2>3. Verdict(status) # None
    BY <2>1 DEF ToTerminate, Idle
  <2> QED BY <2>1, <2>2, <2>3 DEF List, At, ToTerminate, rows
<1>x. status[Map] = Verdict(status)
  <2>1. status[Map] \in {"completed", "failed"}
    BY <1>d DEF Verdict, Typed, Plain
  <2>2. status[Map] = "completed" => \A r \in Rows : status[r] \in {"absent", "completed"}
    BY DEF Aggregated, Plain, Children
  <2> QED BY <1>d, <2>1, <2>2 DEF Verdict, Plain
<1>k. Children' = Children
  BY <1>d DEF Children
<1>c. Compatible(budget)'
  BY <1>d, CompatibleStays DEF Spent
<1>1. Unborn'
  BY <1>d DEF Unborn, Unclaimed
<1>2. Owned'
  BY <1>d DEF Owned, Owner, Direct
<1>3. FannedOutOnce'
  BY <1>d, <1>k DEF FannedOutOnce, Owner, Direct
<1>4. Unsent'
  BY <1>d, <1>k DEF Unsent, Unclaimed, Sending
<1>b. Blocked => Blocked'
  BY <1>d DEF Blocked, Blocker, Unclaimed, Sending
<1>5. Anchored'
  BY <1>d, <1>k, <1>b DEF Anchored, Failing
<1>6. GivenUp'
  BY <1>d DEF GivenUp, Dropped, Owner, Direct
<1>7. Mortal'
  BY <1>d, <1>k, <1>b DEF Mortal, MayDie, OneToken, Sending
<1>8. Aggregated'
  BY <1>d, <1>k DEF Aggregated
<1>9. Justified'
  BY <1>d, <1>x DEF Justified
<1> QED BY <1>c, <1>1, <1>2, <1>3, <1>4, <1>5, <1>6, <1>7, <1>8, <1>9 DEF MapInv

LEMMA TerminateKeeps ==
  ASSUME MapInv, NEW i \in Threads, Terminate(i), th'[i].pc = "finish", Typed'
  PROVE MapInv'
<1> USE MapInvParts
<1>d. /\ th[i].pc = "terminate" /\ th'[i].pc = "finish"
      /\ th'[i].job = th[i].job /\ th'[i].cur = th[i].cur /\ th'[i].todo = th[i].todo
      /\ th'[i].verdict = th[i].verdict
      /\ \A j \in Threads : j # i => th'[j] = th[j]
      /\ UNCHANGED <<wf, status, attempts, queue, dead, budget>>
  BY GotoDoes, RestDoes DEF Terminate, At, rows
<1>k. Children' = Children
  BY <1>d DEF Children
<1>c. Compatible(budget)'
  BY <1>d, CompatibleStays DEF Spent
<1>1. Unborn'
  BY <1>d DEF Unborn, Unclaimed
<1>2. Owned'
  BY <1>d DEF Owned, Owner, Direct
<1>3. FannedOutOnce'
  BY <1>d, <1>k DEF FannedOutOnce, Owner, Direct
<1>4. Unsent'
  BY <1>d, <1>k DEF Unsent, Unclaimed, Sending
<1>b. Blocked => Blocked'
  BY <1>d DEF Blocked, Blocker, Unclaimed, Sending
<1>5. Anchored'
  BY <1>d, <1>k, <1>b DEF Anchored, Failing
<1>6. GivenUp'
  BY <1>d DEF GivenUp, Dropped, Owner, Direct
<1>7. Mortal'
  BY <1>d, <1>k, <1>b DEF Mortal, MayDie, OneToken, Sending
<1>8. Aggregated'
  BY <1>d, <1>k DEF Aggregated
<1>9. Justified'
  BY <1>d DEF Justified
<1> QED BY <1>c, <1>1, <1>2, <1>3, <1>4, <1>5, <1>6, <1>7, <1>8, <1>9 DEF MapInv

LEMMA FinishKeeps == ASSUME MapInv, NEW i \in Threads, Finish(i), Typed' PROVE MapInv'
<1> USE MapInvParts
<1>d. /\ th[i].pc = "finish" /\ wf' = th[i].verdict
      /\ th'[i].pc = "idle" /\ th'[i].job = None /\ th'[i].cur = None
      /\ \A j \in Threads : j # i => th'[j] = th[j]
      /\ UNCHANGED <<status, attempts, queue, dead, budget>>
  BY RestDoes DEF Finish, At, rows
<1>k. Children' = Children
  BY <1>d DEF Children
<1>c. Compatible(budget)'
  BY <1>d, CompatibleStays DEF Spent
<1>1. Unborn'
  BY <1>d DEF Plain, Unborn, Unclaimed
<1>2. Owned'
  BY <1>d DEF Owned, Owner, Direct
<1>3. FannedOutOnce'
  BY <1>d, <1>k DEF FannedOutOnce, Owner, Direct
<1>4. Unsent'
  BY <1>d, <1>k DEF Plain, Unsent, Unclaimed, Sending
<1>b. Blocked => Blocked'
  BY <1>d DEF Plain, Blocked, Blocker, Unclaimed, Sending
<1>5. Anchored'
  BY <1>d, <1>k, <1>b DEF Anchored, Failing
<1>6. GivenUp'
  BY <1>d DEF Plain, GivenUp, Dropped, CallOK
<1>7. Mortal'
  BY <1>d, <1>k, <1>b DEF Plain, Mortal, MayDie, OneToken
<1>8. Aggregated'
  BY <1>d, <1>k DEF Aggregated
<1>9. Justified'
  BY <1>d DEF Justified
<1> QED BY <1>c, <1>1, <1>2, <1>3, <1>4, <1>5, <1>6, <1>7, <1>8, <1>9 DEF MapInv

LEMMA FailAloneKeeps == ASSUME MapInv, NEW i \in Threads, FailAlone(i), Typed' PROVE MapInv'
<1> USE MapInvParts
<1>d. /\ th[i].pc = "failalone" /\ th'[i].pc = "list" /\ th[i].cur \in Rows /\ th[i].job = None
      /\ status'[th[i].cur] = "failed" /\ \A r \in Rows : r # th[i].cur => status'[r] = status[r]
      /\ th'[i].job = th[i].job /\ th'[i].cur = th[i].cur /\ th'[i].todo = th[i].todo
      /\ th'[i].verdict = th[i].verdict
      /\ \A j \in Threads : j # i => th'[j] = th[j]
      /\ UNCHANGED <<wf, attempts, queue, dead, budget>>
  BY GotoDoes, MarkDoes DEF FailAlone, At, Plain, CallOK
<1>x. /\ \A j \in Threads : Owner(th[j]) => th[j].cur # th[i].cur
      /\ status[th[i].cur] # "completed"
      /\ th[i].cur \in Items => status[th[i].cur] # "absent"
  BY <1>d DEF GivenUp, Unborn, Unclaimed
<1>k. Children' = Children
  BY <1>d, <1>x DEF Plain, Children
<1>c. Compatible(budget)'
  BY <1>d, CompatibleStays DEF Spent
<1>1. Unborn'
  BY <1>d DEF Plain, Unborn, Unclaimed
<1>2. Owned'
  BY <1>d, <1>x DEF Plain, Owned, Owner, Direct, CallOK, OfJob
<1>3. FannedOutOnce'
  BY <1>d, <1>k DEF Plain, FannedOutOnce, Owner, Direct
<1>4. Unsent'
  BY <1>d, <1>k DEF Plain, Unsent, Unclaimed, Sending
<1>b. Blocked => Blocked'
  BY <1>d DEF Plain, Blocked, Blocker, Unclaimed, Sending
<1>5. Anchored'
  BY <1>d, <1>k, <1>b DEF Plain, Anchored, Failing
<1>6. GivenUp'
  BY <1>d DEF Plain, GivenUp, Dropped, Owner, Direct, CallOK
<1>7. Mortal'
  BY <1>d, <1>k, <1>b DEF Plain, Mortal, MayDie, OneToken
<1>8. Aggregated'
  BY <1>d, <1>x DEF Plain, Aggregated, Children
<1>9. Justified'
  BY <1>d, <1>x DEF Plain, Justified, CallOK
<1> QED BY <1>c, <1>1, <1>2, <1>3, <1>4, <1>5, <1>6, <1>7, <1>8, <1>9 DEF MapInv

LEMMA CrashKeeps == ASSUME MapInv, NEW i \in Threads, Crash(i), Typed' PROVE MapInv'
<1> USE MapInvParts
<1>d. /\ th[i].job \in Rows
      /\ th'[i].pc = "idle" /\ th'[i].job = None /\ th'[i].cur = None
      /\ \/ /\ dead' = dead \cup {th[i].job} /\ queue' = queue
            /\ budget["deadletter"] + budget["mapdead"] > 0
         \/ /\ dead' = dead /\ queue'[th[i].job] > 0
            /\ queue[th[i].job] = 0 => queue'[th[i].job] = 1
            /\ \A q \in Rows : q # th[i].job => queue'[q] = queue[q]
      /\ \A j \in Threads : j # i => th'[j] = th[j]
      /\ th[i].pc \in Sending => budget["latecrash"] > 0
      /\ \A e \in Events : budget[e] \in Nat /\ budget'[e] \in Nat /\ budget'[e] <= budget[e]
      /\ UNCHANGED <<wf, status, attempts>>
  <2>1. PICK e \in Deaths(th[i]) :
          /\ Spend(e)
          /\ IF e \in {"deadletter", "mapdead"}
               THEN dead' = dead \cup {th[i].job} /\ UNCHANGED queue
               ELSE Put(th[i].job) /\ UNCHANGED dead
    BY DEF Crash
  <2>2. e \in Events
    BY DEF Deaths, Events
  <2>3. /\ budget[e] > 0
        /\ \A f \in Events : budget[f] \in Nat /\ budget'[f] \in Nat /\ budget'[f] <= budget[f]
    BY <2>1, <2>2, SpendDoes DEF Typed, TypeOK
  <2>4. th[i].job \in Rows /\ UNCHANGED <<wf, status, attempts>>
    BY DEF Crash, rows
  <2>5. /\ th'[i].pc = "idle" /\ th'[i].job = None /\ th'[i].cur = None
        /\ \A j \in Threads : j # i => th'[j] = th[j]
    BY RestDoes DEF Crash
  <2>6. th[i].pc \in Sending => e = "latecrash"
    BY DEF Deaths, Sending, Plain, CallOK, OfJob
  <2>7. e \in {"deadletter", "mapdead"} => budget["deadletter"] + budget["mapdead"] > 0
    BY <2>3 DEF Plain, Events
  <2>8. CASE e \in {"deadletter", "mapdead"}
    BY <2>1, <2>3, <2>4, <2>5, <2>6, <2>7, <2>8
  <2>9. CASE e \notin {"deadletter", "mapdead"}
    BY <2>1, <2>3, <2>4, <2>5, <2>6, <2>9, PutDoes
  <2> QED BY <2>8, <2>9
<1>x. th[i].pc \in Sending => Blocked'
  <2> SUFFICES ASSUME th[i].pc \in Sending PROVE Blocked'
    OBVIOUS
  <2>1. PICK c \in th[i].todo : TRUE
    BY DEF Plain, CallOK, Sending
  <2>2. /\ c \in Items /\ status[c] \in {"pending", "skipped"} /\ Unclaimed(c)
        /\ \A j \in Threads : th[j].pc \in Sending => j = i
    BY <2>1 DEF Unsent, Plain
  <2>3. Unclaimed(c)'
    BY <1>d, <2>2 DEF Unclaimed, Plain
  <2> QED BY <1>d, <2>2, <2>3 DEF Blocked, Blocker, Sending
<1>k. Children' = Children
  BY <1>d DEF Children
<1>c. Compatible(budget)'
  BY <1>d, CompatibleStays DEF Spent
<1>1. Unborn'
  BY <1>d DEF Plain, Unborn, Unclaimed
<1>2. Owned'
  BY <1>d DEF Owned, Owner, Direct
<1>y. th[i].pc = "mark" => budget["sweep"] = 0
  BY <1>d DEF Compatible, Sending
<1>3. FannedOutOnce'
  BY <1>d, <1>k, <1>y DEF FannedOutOnce, Owner, Direct, Events
<1>4. Unsent'
  BY <1>d, <1>k DEF Plain, Unsent, Unclaimed, Sending
<1>b. Blocked => Blocked'
  BY <1>d DEF Plain, Blocked, Blocker, Unclaimed, Sending
<1>5. Anchored'
  BY <1>d, <1>k, <1>b DEF Anchored, Failing
<1>6. GivenUp'
  BY <1>d DEF Plain, GivenUp, Dropped, Events, CallOK
<1>7. Mortal'
  BY <1>d, <1>k, <1>b, <1>x DEF Plain, Mortal, MayDie, OneToken, Events
<1>8. Aggregated'
  BY <1>d, <1>k DEF Aggregated
<1>9. Justified'
  BY <1>d DEF Justified
<1> QED BY <1>c, <1>1, <1>2, <1>3, <1>4, <1>5, <1>6, <1>7, <1>8, <1>9 DEF MapInv

LEMMA RedeliverKeeps == ASSUME MapInv, NEW i \in Threads, Redeliver(i), Typed' PROVE MapInv'
<1> USE MapInvParts
<1>d. /\ th[i].job \in Rows /\ budget["redeliver"] > 0
      /\ \A q \in Rows : q # th[i].job => queue'[q] = queue[q]
      /\ \A e \in Events : budget[e] \in Nat /\ budget'[e] \in Nat /\ budget'[e] <= budget[e]
      /\ UNCHANGED <<wf, status, attempts, dead, th>>
  <2>1. "redeliver" \in Events
    BY DEF Events
  <2> QED BY <2>1, PutDoes, SpendDoes DEF Redeliver, rows, Typed, TypeOK
<1>k. Children' = Children
  BY <1>d DEF Children
<1>c. Compatible(budget)'
  BY <1>d, CompatibleStays DEF Spent
<1>1. Unborn'
  BY <1>d DEF Plain, Unborn, Unclaimed
<1>2. Owned'
  BY <1>d DEF Owned
<1>3. FannedOutOnce'
  BY <1>d, <1>k DEF FannedOutOnce, Events
<1>4. Unsent'
  BY <1>d, <1>k DEF Plain, Unsent, Unclaimed
<1>b. Blocked => Blocked'
  BY <1>d DEF Plain, Blocked, Blocker, Unclaimed
<1>5. Anchored'
  BY <1>d, <1>k, <1>b DEF Anchored, Failing
<1>6. GivenUp'
  BY <1>d DEF Plain, GivenUp, Dropped, Events, CallOK
<1>7. Mortal'
  BY <1>d DEF Mortal, MayDie, OneToken, Events
<1>8. Aggregated'
  BY <1>d, <1>k DEF Aggregated
<1>9. Justified'
  BY <1>d DEF Justified
<1> QED BY <1>c, <1>1, <1>2, <1>3, <1>4, <1>5, <1>6, <1>7, <1>8, <1>9 DEF MapInv

\* The reads that change nothing for the others.
LEMMA ReadsAreCalm ==
  ASSUME MapInv, NEW i \in Threads,
         \/ Begin(i)
         \/ Claim(i) /\ UNCHANGED rows
         \/ Siblings(i) /\ th'[i].pc # "complete"
         \/ ReadParent(i) /\ th'[i].pc # "failmap"
         \/ ReadPending(i) /\ th'[i].pc # "skip"
         \/ List(i) /\ th'[i].pc # "terminate"
         \/ Terminate(i) /\ th'[i].pc # "finish"
  PROVE  Calm(i)
<1>i. Typed /\ Plain
  BY TypedIsPlain DEF MapInv
<1>r. th[i] \in [pc : Pcs, job : Rows \cup {None}, cur : Rows \cup {None}, tries : Nat,
                 todo : SUBSET Items, verdict : {None, "completed", "failed"}]
  BY <1>i DEF Typed, TypeOK
<1>b. ASSUME UNCHANGED budget PROVE Spent
  BY <1>b, <1>i DEF Spent, Plain
<1>1. CASE Begin(i)
  BY <1>1, <1>i, <1>b, RestDoes, GotoDoes DEF Begin, Calm, At, rows, Sending, Typed, TypeOK
<1>2. CASE Claim(i) /\ UNCHANGED rows
  <2>1. status[th[i].cur] # "pending"
    BY <1>2, <1>i DEF Claim, At, Plain, CallOK, OfJob, Mark, rows, Typed, TypeOK
  <2> QED BY <1>2, <2>1, <1>i, <1>b, RestDoes DEF Claim, Calm, At, rows, Sending
<1>3. CASE Siblings(i) /\ th'[i].pc # "complete"
  <2>1. ~(th' = [th EXCEPT ![i].pc = "complete", ![i].cur = Map])
    BY <1>3, <1>i DEF Typed, TypeOK
  <2> QED BY <1>3, <2>1, <1>i, <1>b, RestDoes, GotoDoes DEF Siblings, Calm, At, rows, Sending
<1>4. CASE ReadParent(i) /\ th'[i].pc # "failmap"
  BY <1>4, <1>i, <1>b, GotoDoes DEF ReadParent, Calm, At, rows, Sending
<1>5. CASE ReadPending(i) /\ th'[i].pc # "skip"
  <2> DEFINE P == {c \in Children : status[c] = "pending"}
  <2>1. th' = [th EXCEPT ![i].pc = IF P = {} THEN "list" ELSE "skip", ![i].todo = P]
    BY <1>5 DEF ReadPending
  <2>2. /\ th'[i].pc = "list" /\ th'[i].job = th[i].job /\ th'[i].cur = th[i].cur
        /\ \A j \in Threads : j # i => th'[j] = th[j]
    BY <1>5, <1>i, <2>1 DEF Typed, TypeOK
  <2> QED BY <1>5, <2>2, <1>b DEF ReadPending, Calm, At, rows, Sending
<1>6. CASE List(i) /\ th'[i].pc # "terminate"
  <2>1. th'[i] = ToTerminate(th[i], status) /\ \A j \in Threads : j # i => th'[j] = th[j]
    BY <1>6, <1>i, BecomeDoes DEF List
  <2>2. th'[i].pc = "idle" /\ th'[i].job = None /\ th'[i].cur = None
    BY <1>6, <1>r, <2>1 DEF ToTerminate, Idle
  <2> QED BY <1>6, <2>1, <2>2, <1>b DEF List, Calm, At, rows, Sending
<1>7. CASE Terminate(i) /\ th'[i].pc # "finish"
  BY <1>7, <1>i, <1>b, RestDoes, GotoDoes DEF Terminate, Calm, At, rows, Sending
<1> QED BY <1>1, <1>2, <1>3, <1>4, <1>5, <1>6, <1>7

LEMMA MapInvStays == ASSUME MapInv, [Next]_vars PROVE MapInv'
<1>t. Typed'
  BY TypedStays DEF MapInv
<1>c. ASSUME NEW i \in Threads, Calm(i) PROVE MapInv'
  BY <1>c, <1>t, CalmKeeps
<1>0. CASE UNCHANGED vars
  BY <1>0
  DEF vars, rows, MapInv, Typed, TypeOK, Unborn, Unclaimed, Owned, FannedOutOnce, Unsent,
      Anchored,
     Blocked, Blocker, GivenUp, Dropped, Mortal, MayDie, OneToken, Aggregated, Justified, Children
<1>1. ASSUME NEW i \in Threads, NEW r \in Rows, Deliver(i, r) \/ Exhaust(i, r) PROVE MapInv'
  BY <1>1, <1>t, DeliverKeeps, ExhaustKeeps
<1>2. ASSUME NEW i \in Threads, Sweep(i) \/ Crash(i) \/ Redeliver(i) PROVE MapInv'
  BY <1>2, <1>t, SweepKeeps, CrashKeeps, RedeliverKeeps
<1>3. ASSUME NEW i \in Threads, Begin(i) \/ Claim(i) PROVE MapInv'
  BY <1>3, <1>t, <1>c, ReadsAreCalm, ClaimKeeps
<1>4. ASSUME NEW i \in Threads, Answer(i) \/ Err(i) \/ Requeue(i) \/ Resend(i) PROVE MapInv'
  BY <1>4, <1>t, AnswerKeeps, ErrKeeps, RequeueKeeps, ResendKeeps
<1>5. ASSUME NEW i \in Threads, Spawn(i) \/ MarkMapping(i) \/ Send(i) \/ Complete(i) PROVE MapInv'
  BY <1>5, <1>t, SpawnKeeps, MarkMappingKeeps, SendKeeps, CompleteKeeps
<1>6. ASSUME NEW i \in Threads, Siblings(i) \/ ReadParent(i) PROVE MapInv'
  BY <1>6, <1>t, <1>c, ReadsAreCalm, SiblingsKeeps, ReadParentKeeps
<1>7. ASSUME NEW i \in Threads, Fail(i) \/ FailMap(i) \/ SkipSibling(i) \/ FailAlone(i) PROVE MapInv'
  BY <1>7, <1>t, FailKeeps, FailMapKeeps, SkipSiblingKeeps, FailAloneKeeps
<1>8. ASSUME NEW i \in Threads, ReadPending(i) \/ List(i) PROVE MapInv'
  BY <1>8, <1>t, <1>c, ReadsAreCalm, ReadPendingKeeps, ListKeeps
<1>9. ASSUME NEW i \in Threads, Terminate(i) \/ Finish(i) PROVE MapInv'
  BY <1>9, <1>t, <1>c, ReadsAreCalm, TerminateKeeps, FinishKeeps
<1> QED BY <1>0, <1>1, <1>2, <1>3, <1>4, <1>5, <1>6, <1>7, <1>8, <1>9 DEF Next, Step, Start

-----------------------------------------------------------------------------
LEMMA MapInvStarts == ASSUME Fresh, Compatible(budget) PROVE MapInv
<1>1. Typed
  BY TypedStarts
<1>2. /\ \A r \in Rows : status[r] = IF r = Map THEN "pending" ELSE "absent"
      /\ \A r \in Rows : queue[r] \in {0, 1} /\ (queue[r] = 1 => r = Map)
      /\ dead = {} /\ wf = "running"
      /\ \A i \in Threads : /\ th[i].pc = "idle" /\ th[i].job = None /\ th[i].cur = None
      /\ Map \in Rows /\ Items \subseteq Rows /\ None \notin Rows /\ Map \notin Items
  BY MapAssumption DEF Fresh, Idle, Rows
<1>3. Children = {}
  BY <1>2 DEF Children
<1>4. Unborn /\ Owned /\ FannedOutOnce /\ Unsent /\ Anchored
  BY <1>2, <1>3
  DEF Unborn, Unclaimed, Owned, Owner, Direct, FannedOutOnce, Unsent, Sending, Anchored, Failing
<1>5. GivenUp /\ Aggregated /\ Justified
  BY <1>2, <1>3 DEF GivenUp, Aggregated, Justified
<1>6. Mortal
  BY <1>2, <1>3 DEF Mortal, MayDie, OneToken, Compatible
<1> QED BY <1>1, <1>2, <1>4, <1>5, <1>6 DEF MapInv

\* A map is completed with every child completed, and a completed run with the map.
LEMMA Aggregates == MapInv => AggregatesEveryItem
BY DEF MapInv, Aggregated, Justified, AggregatesEveryItem

-----------------------------------------------------------------------------
\* To the rest of the run `mapping` is a way of running.
Seen(x) == IF x = "mapping" THEN "running" ELSE x

\* What a step may do to the map and to the run.
Moves ==
  \/ /\ wf' = wf
     /\ \/ Seen(status'[Map]) = Seen(status[Map])
        \/ status[Map] = "pending" /\ status'[Map] \in {"running", "failed"}
        \/ status[Map] \in {"running", "mapping"} /\ status'[Map] \in {"pending", "completed", "failed"}
  \/ /\ status'[Map] = status[Map]
     /\ wf = "running" /\ wf' = status[Map] /\ wf' \in {"completed", "failed"}

LEMMA MapMoves == ASSUME MapInv, [Next]_vars PROVE Moves
<1>i. /\ Typed /\ Owned /\ FannedOutOnce /\ Unsent /\ Anchored /\ Unborn
      /\ GivenUp /\ Aggregated /\ Justified
  BY DEF MapInv
<1>p. Plain
  BY <1>i, TypedIsPlain
<1>m. Map \in Rows /\ Map \notin Items /\ status \in [Rows -> {"absent", "pending", "running",
                "mapping", "completed", "failed", "skipped"}]
      /\ status[Map] \notin {"absent", "skipped"}
  BY <1>i, <1>p DEF Plain, Typed, TypeOK
<1>u. CASE UNCHANGED <<wf, status>>
  BY <1>u DEF Moves
<1>1. ASSUME NEW i \in Threads, Claim(i) PROVE Moves
  BY <1>1, <1>m, <1>p, MarkDoes, <1>i DEF Claim, Moves, rows, Mark, At, Plain, CallOK, OfJob
<1>2. ASSUME NEW i \in Threads, Requeue(i) \/ Fail(i) PROVE Moves
  <2>1. Owner(th[i]) /\ th[i].cur \in Rows
    BY <1>2, <1>p DEF Requeue, Fail, At, Owner, Plain, CallOK, OfJob
  <2>2. th[i].cur = Map => status[Map] = "running"
    BY <1>i, <1>m, <2>1 DEF Owned
  <2> QED BY <1>2, <1>m, <2>1, <2>2 DEF Requeue, Fail, Mark, Moves
<1>3. ASSUME NEW i \in Threads, Spawn(i) PROVE Moves
  BY <1>3, <1>m, <1>p DEF Spawn, Moves, Plain
<1>4. ASSUME NEW i \in Threads, MarkMapping(i) PROVE Moves
  <2>1. Owner(th[i]) /\ th[i].cur = Map
    BY <1>4, <1>p DEF MarkMapping, At, Owner, Plain, CallOK
  <2>2. status[Map] = "running"
    BY <1>i, <1>m, <2>1 DEF Owned
  <2> QED BY <1>4, <1>m, <2>2 DEF MarkMapping, Mark, Moves, Seen
<1>5. ASSUME NEW i \in Threads, Complete(i) PROVE Moves
  <2>0. th[i].cur \in Rows /\ th[i].job \in Rows
    BY <1>5, <1>p DEF Complete, At, Plain, CallOK
  <2>1. CASE th[i].cur # Map
    BY <1>5, <1>m, <2>0, <2>1 DEF Complete, Moves
  <2>2. CASE th[i].cur = Map
    <3>1. \A c \in Children : status[c] = "completed"
      BY <1>5, <1>i, <2>2 DEF Complete, At, Aggregated
    <3>2. status[Map] \in {"running", "mapping", "completed"}
      <4>1. CASE Children = {}
        <5>1. th[i].job = Map
          BY <1>i, <1>p, <2>0, <4>1 DEF Children, Unborn, Unclaimed, Plain
        <5> QED BY <1>5, <1>i, <1>m, <2>2, <5>1 DEF Owner, Direct, Owned, Complete, At
      <4>2. CASE Children # {}
        <5>1. ~Blocked
          BY <3>1 DEF Blocked, Blocker, Children
        <5> QED BY <1>i, <1>m, <4>2, <5>1 DEF FannedOutOnce, Anchored
      <4> QED BY <4>1, <4>2
    <3> QED BY <1>5, <1>m, <2>2, <3>2 DEF Complete, Moves
  <2> QED BY <2>1, <2>2
<1>6. ASSUME NEW i \in Threads, FailMap(i) PROVE Moves
  <2>1. th[i].cur \in Children
    BY <1>6, <1>i, <1>p DEF FailMap, At, Plain, CallOK, OfItem, Unborn, Unclaimed, Children
  <2>2. \E c \in Children : status[c] # "completed"
    BY <1>6, <1>i DEF FailMap, At, Anchored, Failing, Blocked, Blocker, Children
  <2>3. status[Map] \in {"running", "mapping", "failed"}
    BY <1>i, <1>m, <2>1, <2>2 DEF FannedOutOnce, Aggregated
  <2> QED BY <1>6, <1>m, <2>3 DEF FailMap, Mark, Moves
<1>7. ASSUME NEW i \in Threads, FailAlone(i) PROVE Moves
  BY <1>7, <1>i, <1>m, <1>p DEF FailAlone, At, GivenUp, Mark, Moves, Plain, CallOK
<1>8. ASSUME NEW i \in Threads, SkipSibling(i) PROVE Moves
  BY <1>8, <1>m, <1>p DEF SkipSibling, Mark, Moves, Plain
<1>9. ASSUME NEW i \in Threads, Finish(i) PROVE Moves
  <2>1. status[Map] = th[i].verdict /\ th[i].verdict \in {"completed", "failed"}
    BY <1>9, <1>i, <1>p DEF Finish, At, Justified, Plain, CallOK
  <2> QED BY <1>9, <1>i, <2>1, <1>p DEF Finish, rows, Moves, Justified, Plain
<1> QED BY <1>u, <1>1, <1>2, <1>3, <1>4, <1>5, <1>6, <1>7, <1>8, <1>9
        DEF Next, Step, Start, vars, rows, Deliver, Exhaust, Sweep, Begin, Answer, Err, Resend,
            Send, Siblings, ReadParent, ReadPending, List, Terminate, Crash, Redeliver

LEMMA MovesImplement == ASSUME Typed, Moves PROVE [Promise!Next]_(Promise!vars)
<1> DEFINE row == [s \in {Map} |-> IF status[s] = "mapping" THEN "running" ELSE status[s]]
<1>m. Map \in Rows /\ row[Map] = Seen(status[Map]) /\ row'[Map] = Seen(status'[Map])
  BY DEF Rows, Seen
<1>r. row[Map] = "pending" => Map \in Promise!ReadyPlan(row)
  <2>1. \A P : ~Promise!Blocked(row, P, Map) /\ Promise!Satisfied(row, P, Map)
    BY DEF Promise!Blocked, Promise!Satisfied, Promise!DepStates
  <2>2. Promise!SkipPlan(row) = {}
    <3>1. Promise!Closed(row, {})
      BY <2>1 DEF Promise!Closed, Promise!Pending
    <3> QED BY <3>1 DEF Promise!SkipPlan
  <2> QED BY <2>1, <2>2 DEF Promise!ReadyPlan, Promise!Pending
<1>1. CASE wf' = wf /\ Seen(status'[Map]) = Seen(status[Map])
  BY <1>1 DEF Promise!vars, Seen
<1>2. CASE wf' = wf /\ status[Map] = "pending" /\ status'[Map] = "running"
  <2>1. Promise!Start({Map})
    BY <1>2, <1>r, <1>m DEF Promise!Start, Promise!Began, Seen
  <2> QED BY <2>1 DEF Promise!Next
<1>3. CASE wf' = wf /\ status[Map] = "pending" /\ status'[Map] = "failed"
  <2>1. Promise!Abandon(Map)
    BY <1>3, <1>r, <1>m DEF Promise!Abandon, Seen
  <2> QED BY <2>1 DEF Promise!Next
<1>4. CASE wf' = wf /\ status[Map] \in {"running", "mapping"} /\ status'[Map] = "pending"
  <2>1. Promise!GiveBack(Map)
    BY <1>4, <1>m DEF Promise!GiveBack, Seen
  <2> QED BY <2>1 DEF Promise!Next
<1>5. CASE wf' = wf /\ status[Map] \in {"running", "mapping"} /\ status'[Map] \in {"completed", "failed"}
  <2>1. Promise!Settle(Map, status'[Map], {})
    BY <1>5, <1>m DEF Promise!Settle, Promise!Began, Seen
  <2> QED BY <1>5, <2>1 DEF Promise!Next
<1>6. CASE /\ status'[Map] = status[Map]
           /\ wf = "running" /\ wf' = status[Map] /\ wf' \in {"completed", "failed"}
  <2>1. Promise!Finish
    BY <1>6, <1>m DEF Promise!Finish, Promise!AllTerminal, Promise!TerminalStatuses, Seen
  <2> QED BY <2>1 DEF Promise!Next
<1> QED BY <1>1, <1>2, <1>3, <1>4, <1>5, <1>6 DEF Moves

LEMMA PromiseStarts == Fresh => Promise!Init
<1>1. Fresh => status[Map] = "pending" /\ wf = "running"
  BY DEF Fresh, Rows
<1> QED BY <1>1 DEF Promise!Init, Promise!Began

-----------------------------------------------------------------------------
\* Every engine call keeps to its row and its job, whatever faults occur
\* (executeStep, spawnMapChildren, failMapParent).
THEOREM MapIsTyped == Spec => []TypeOK
<1>1. Typed => TypeOK
  BY DEF Typed
<1> QED BY <1>1, InitIsFresh, TypedStarts, TypedStays, PTL DEF Spec

\* A map is completed only when all of its children are, however their completions
\* interleave and whatever is retried, swept or delivered twice, and a completed
\* run has a completed map (advanceAfterChildCompleted, settle).
THEOREM MapAggregatesEveryItem ==
  ASSUME \A b \in Budgets : Compatible(b) PROVE Spec => []AggregatesEveryItem
<1>1. Init => MapInv
  BY InitIsFresh, MapInvStarts DEF Init
<1> QED BY <1>1, MapInvStays, Aggregates, PTL DEF Spec

\* To the rest of the run the map is one step of it: it starts, runs while its
\* children do, settles for good, and the verdict of the run is its own.
THEOREM MapIsOneStep ==
  ASSUME \A b \in Budgets : Compatible(b) PROVE Spec => ImplementsOneStep
<1>1. Init => MapInv /\ Promise!Init
  BY InitIsFresh, MapInvStarts, PromiseStarts DEF Init
<1>2. MapInv /\ [Next]_vars => [Promise!Next]_(Promise!vars)
  BY MapMoves, MovesImplement DEF MapInv
<1> QED BY <1>1, <1>2, MapInvStays, PTL DEF Spec, ImplementsOneStep, Promise!Spec

=============================================================================
