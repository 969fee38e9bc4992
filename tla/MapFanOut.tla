------------------------------ MODULE MapFanOut ------------------------------
(***************************************************************************)
(* One map step of a run (defineMapStep): its handler answers with a list, *)
(* the engine inserts one child row per item and dispatches it like any    *)
(* step, and the outcome of the last child settles the map, which lets the *)
(* run end.  As in Engine one action is one store call and an activation   *)
(* keeps what it has read.  The map is the only keyed step, so that a      *)
(* completion dispatches nothing and settle has nothing to prune.          *)
(***************************************************************************)
EXTENDS Naturals, FiniteSets

CONSTANTS
  Map,          \* the row of the map step
  Items,        \* the rows its list may have children for
  Lists,        \* the lists its handler may answer with
  Threads,      \* engine calls that may be in progress at once
  None,         \* a model value: no row, no job
  MaxAttempts,  \* MaxAttempts[r]: retry.maxAttempts of the map, itemRetry of a child
  MaxQueued,    \* bound: copies of one job the queue counts
  Budgets       \* bounds: how often each event may occur, one way for each

Rows   == Items \cup {Map}
Events == {"transient", "fatal", "redeliver", "crash", "deadletter", "mapcrash",
           "mapdead", "latecrash", "sendfail", "sweep"}

ASSUME MapAssumption ==
  /\ IsFiniteSet(Items) /\ Map \notin Items /\ None \notin Rows
  /\ Lists \subseteq SUBSET Items
  /\ MaxAttempts \in [Rows -> Nat \ {0}]
  /\ MaxQueued \in Nat \ {0}
  /\ Budgets \subseteq [Events -> Nat]

VARIABLES
  wf,        \* the status of the run
  status,    \* the status of the rows; a child not yet inserted is "absent"
  attempts,  \* their attempts
  queue,     \* queue[r]: copies of the job of row r waiting to be delivered
  dead,      \* rows with a job on the dead-letter queue
  th,        \* th[i]: the activation of thread i
  budget     \* what is left of the budget chosen at the start

rows == <<status, attempts>>
vars == <<wf, rows, queue, dead, th, budget>>

(***************************************************************************)
(* An activation: where it is, the row whose job started it, the row it is *)
(* about, the attempt it believes it runs, the rows it has still to insert,*)
(* enqueue or skip, and the verdict it has read off the rows.              *)
(***************************************************************************)
Idle == [pc |-> "idle", job |-> None, cur |-> None, tries |-> 0, todo |-> {},
         verdict |-> None]

At(i, p) == th[i].pc = p
Become(i, t) == th' = [th EXCEPT ![i] = t]
Goto(i, p) == th' = [th EXCEPT ![i].pc = p]
Rest(i) == Become(i, Idle)
Spend(e) == budget[e] > 0 /\ budget' = [budget EXCEPT ![e] = @ - 1]
Put(r) == queue' = [queue EXCEPT ![r] = IF @ < MaxQueued THEN @ + 1 ELSE @]
Mark(r, x) == status' = [status EXCEPT ![r] = x]

Children == {c \in Items : status[c] # "absent"}

Init ==
  /\ wf = "running"
  /\ status = [r \in Rows |-> IF r = Map THEN "pending" ELSE "absent"]
  /\ attempts = [r \in Rows |-> 0]
  /\ queue = [r \in Rows |-> IF r = Map THEN 1 ELSE 0]
  /\ dead = {}
  /\ th = [i \in Threads |-> Idle]
  /\ budget \in Budgets

-----------------------------------------------------------------------------
(***************************************************************************)
(* In front of some definitions stands a variant with a seeded fault, out  *)
(* of reach of Next: it must break the property said to watch for it.      *)
(***************************************************************************)

(***************************************************************************)
(* executeStep, for the map and for its children.  Neither has             *)
(* dependencies to resolve.                                                *)
(***************************************************************************)
Deliver(i, r) ==
  /\ At(i, "idle")
  /\ queue[r] > 0
  /\ queue' = [queue EXCEPT ![r] = @ - 1]
  /\ Become(i, [Idle EXCEPT !.pc = "begin", !.job = r, !.cur = r])
  /\ UNCHANGED <<wf, rows, dead, budget>>

BeginWithoutRedrive(i) ==
  LET r == th[i].cur IN
  /\ At(i, "begin")
  /\ IF wf # "failed" /\ status[r] = "pending"
       THEN th' = [th EXCEPT ![i].pc = "claim", ![i].tries = attempts[r] + 1]
       ELSE Rest(i)
  /\ UNCHANGED <<wf, rows, queue, dead, budget>>

\* A job for a row that has completed drives the advance of the run again.
Begin(i) ==
  LET r == th[i].cur IN
  /\ At(i, "begin")
  /\ \/ /\ wf # "failed" /\ status[r] = "pending"
        /\ th' = [th EXCEPT ![i].pc = "claim", ![i].tries = attempts[r] + 1]
     \/ /\ wf = "running" /\ status[r] = "completed"
        /\ Goto(i, IF r = Map THEN "list" ELSE "siblings")
     \/ /\ \/ wf = "failed"
           \/ status[r] \notin {"pending", "completed"}
           \/ wf = "completed" /\ status[r] = "completed"
        /\ Rest(i)
  /\ UNCHANGED <<wf, rows, queue, dead, budget>>

Claim(i) ==
  LET r == th[i].cur IN
  /\ At(i, "claim")
  /\ IF status[r] = "pending"
       THEN /\ Mark(r, "running")
            /\ attempts' = [attempts EXCEPT ![r] = @ + 1]
            /\ Goto(i, "handler")
       ELSE Rest(i) /\ UNCHANGED rows
  /\ UNCHANGED <<wf, queue, dead, budget>>

(***************************************************************************)
(* The handler answers: a child with its output, the map with a list.  An  *)
(* empty list completes the map at once.                                   *)
(***************************************************************************)
Answer(i) ==
  /\ At(i, "handler")
  /\ IF th[i].cur # Map
       THEN Goto(i, "complete")
       ELSE \E L \in Lists :
              th' = [th EXCEPT ![i].pc = IF L = {} THEN "complete" ELSE "spawn",
                               ![i].todo = L]
  /\ UNCHANGED <<wf, rows, queue, dead, budget>>

Err(i) ==
  /\ At(i, "handler")
  /\ \/ /\ Spend("transient")
        /\ Goto(i, IF th[i].tries < MaxAttempts[th[i].cur] THEN "requeue" ELSE "fail")
     \/ Spend("fatal") /\ Goto(i, "fail")
  /\ UNCHANGED <<wf, rows, queue, dead>>

Requeue(i) ==
  /\ At(i, "requeue")
  /\ Mark(th[i].cur, "pending")
  /\ Goto(i, "resend")
  /\ UNCHANGED <<wf, attempts, queue, dead, budget>>

Resend(i) ==
  /\ At(i, "resend")
  /\ Put(th[i].cur)
  /\ Rest(i)
  /\ UNCHANGED <<wf, rows, dead, budget>>

-----------------------------------------------------------------------------
(***************************************************************************)
(* spawnMapChildren: insert the children, mark the map, enqueue the        *)
(* children one by one.  Keys are unique in a run: inserting the children  *)
(* of a second list throws, and the catch clause fails the map.            *)
(***************************************************************************)
SpawnAndEnqueue(i) ==
  LET t == th[i] IN
  /\ At(i, "spawn")
  /\ status' = [r \in Rows |-> IF r \in t.todo THEN "pending" ELSE status[r]]
  /\ queue' = [r \in Rows |-> IF r \in t.todo THEN 1 ELSE queue[r]]
  /\ Goto(i, "mark")
  /\ UNCHANGED <<wf, attempts, dead, budget>>

Spawn(i) ==
  LET t == th[i] IN
  /\ At(i, "spawn")
  /\ IF Children \cap t.todo = {}
       THEN /\ status' = [r \in Rows |-> IF r \in t.todo THEN "pending" ELSE status[r]]
            /\ Goto(i, "mark")
       ELSE Goto(i, "fail") /\ UNCHANGED status
  /\ UNCHANGED <<wf, attempts, queue, dead, budget>>

MarkMapping(i) ==
  /\ At(i, "mark")
  /\ Mark(Map, "mapping")
  /\ Goto(i, "send")
  /\ UNCHANGED <<wf, attempts, queue, dead, budget>>

\* A child that cannot be enqueued is only logged.
Send(i) ==
  LET t == th[i] IN
  /\ At(i, "send")
  /\ \E c \in t.todo, lost \in {0, 1} :
       /\ lost <= budget["sendfail"]
       /\ budget' = [budget EXCEPT !["sendfail"] = @ - lost]
       /\ IF lost = 1 THEN UNCHANGED queue ELSE Put(c)
       /\ Become(i, IF t.todo = {c} THEN Idle ELSE [t EXCEPT !.todo = @ \ {c}])
  /\ UNCHANGED <<wf, rows, dead>>

-----------------------------------------------------------------------------
(***************************************************************************)
(* onChildCompleted writes a child's outcome and reads its siblings.  The  *)
(* map is completed by onStepCompleted, whose transaction also reads the   *)
(* rows that settle then looks at.                                         *)
(***************************************************************************)
Verdict(st) ==
  IF \E r \in Rows : st[r] \notin {"absent", "completed", "failed", "skipped"} THEN None
  ELSE IF \E r \in Rows : st[r] = "failed" THEN "failed"
  ELSE "completed"

ToTerminateBlank(t, st) ==
  IF Verdict(st) = None THEN Idle ELSE [t EXCEPT !.pc = "terminate", !.todo = {}]

\* terminateIfSettled up to its next store call, after reading the rows st.
ToTerminate(t, st) ==
  IF Verdict(st) = None THEN Idle
  ELSE [t EXCEPT !.pc = "terminate", !.todo = {}, !.verdict = Verdict(st)]

Complete(i) ==
  LET r  == th[i].cur
      st == [status EXCEPT ![r] = "completed"]
  IN
  /\ At(i, "complete")
  /\ status' = st
  /\ IF r = Map THEN Become(i, ToTerminate(th[i], st)) ELSE Goto(i, "siblings")
  /\ UNCHANGED <<wf, attempts, queue, dead, budget>>

SiblingsSomeCompleted(i) ==
  /\ At(i, "siblings")
  /\ th' = [th EXCEPT ![i].pc = "complete", ![i].cur = Map]
  /\ UNCHANGED <<wf, rows, queue, dead, budget>>

SiblingsAllSettled(i) ==
  /\ At(i, "siblings")
  /\ IF \A c \in Children : status[c] \in {"completed", "failed", "skipped"}
       THEN th' = [th EXCEPT ![i].pc = "complete", ![i].cur = Map]
       ELSE Rest(i)
  /\ UNCHANGED <<wf, rows, queue, dead, budget>>

\* advanceAfterChildCompleted: the child that finds every sibling completed
\* completes the map; with a failed one among them the run may be over.
Siblings(i) ==
  /\ At(i, "siblings")
  /\ \/ /\ \E c \in Children : status[c] = "failed"
        /\ Goto(i, "list")
     \/ /\ \A c \in Children : status[c] = "completed"
        /\ th' = [th EXCEPT ![i].pc = "complete", ![i].cur = Map]
     \/ /\ \A c \in Children : status[c] # "failed"
        /\ \E c \in Children : status[c] # "completed"
        /\ Rest(i)
  /\ UNCHANGED <<wf, rows, queue, dead, budget>>

(***************************************************************************)
(* failStepTerminal: a failed child fails the map, unless the map has      *)
(* already settled, and skips the siblings it finds pending.               *)
(***************************************************************************)
Fail(i) ==
  /\ At(i, "fail")
  /\ Mark(th[i].cur, "failed")
  /\ Goto(i, IF th[i].cur = Map THEN "list" ELSE "parent")
  /\ UNCHANGED <<wf, attempts, queue, dead, budget>>

ReadParent(i) ==
  /\ At(i, "parent")
  /\ Goto(i, IF status[Map] \in {"completed", "failed"} THEN "list" ELSE "failmap")
  /\ UNCHANGED <<wf, rows, queue, dead, budget>>

FailMap(i) ==
  /\ At(i, "failmap")
  /\ Mark(Map, "failed")
  /\ Goto(i, "pending")
  /\ UNCHANGED <<wf, attempts, queue, dead, budget>>

ReadPending(i) ==
  LET P == {c \in Children : status[c] = "pending"} IN
  /\ At(i, "pending")
  /\ th' = [th EXCEPT ![i].pc = IF P = {} THEN "list" ELSE "skip", ![i].todo = P]
  /\ UNCHANGED <<wf, rows, queue, dead, budget>>

SkipSibling(i) ==
  LET t == th[i] IN
  /\ At(i, "skip")
  /\ \E c \in t.todo :
       /\ Mark(c, "skipped")
       /\ th' = [th EXCEPT ![i].todo = @ \ {c},
                           ![i].pc = IF t.todo = {c} THEN "list" ELSE @]
  /\ UNCHANGED <<wf, attempts, queue, dead, budget>>

-----------------------------------------------------------------------------
(***************************************************************************)
(* settle: the rows count as read only if every one of them is terminal.   *)
(***************************************************************************)
List(i) ==
  /\ At(i, "list")
  /\ Become(i, ToTerminate(th[i], status))
  /\ UNCHANGED <<wf, rows, queue, dead, budget>>

Terminate(i) ==
  /\ At(i, "terminate")
  /\ IF wf = "running" THEN Goto(i, "finish") ELSE Rest(i)
  /\ UNCHANGED <<wf, rows, queue, dead, budget>>

Finish(i) ==
  /\ At(i, "finish")
  /\ wf' = th[i].verdict
  /\ Rest(i)
  /\ UNCHANGED <<rows, queue, dead, budget>>

-----------------------------------------------------------------------------
(***************************************************************************)
(* The sweeper, one stuck row at a time, and the dead-letter worker.  Both *)
(* fail a row without looking whose child it is.                           *)
(***************************************************************************)
Owning == {"handler", "spawn", "mark", "requeue", "fail", "complete"}

Stuck == {r \in Rows : /\ status[r] = "running"
                       /\ \A i \in Threads : th[i].cur = r => th[i].pc \notin Owning}

Sweep(i) ==
  /\ At(i, "idle")
  /\ wf = "running"
  /\ Spend("sweep")
  /\ \E r \in Stuck :
       Become(i, [Idle EXCEPT !.cur = r,
                    !.pc = IF attempts[r] < MaxAttempts[r] THEN "requeue" ELSE "failalone"])
  /\ UNCHANGED <<wf, rows, queue, dead>>

Exhaust(i, r) ==
  /\ At(i, "idle")
  /\ r \in dead
  /\ dead' = dead \ {r}
  /\ Become(i, IF status[r] \in {"completed", "failed", "skipped"} THEN Idle
               ELSE [Idle EXCEPT !.pc = "failalone", !.cur = r])
  /\ UNCHANGED <<wf, rows, queue, budget>>

FailAlone(i) ==
  /\ At(i, "failalone")
  /\ Mark(th[i].cur, "failed")
  /\ Goto(i, "list")
  /\ UNCHANGED <<wf, attempts, queue, dead, budget>>

-----------------------------------------------------------------------------
(***************************************************************************)
(* The environment.  A worker's call dies: its job comes back or, its      *)
(* deliveries exhausted, is dead-lettered.  The events tell a child's call *)
(* from the map's, and that one before from after the children are there.  *)
(***************************************************************************)
Deaths(t) ==
  IF t.job \in Items THEN {"crash", "deadletter"}
  ELSE IF t.pc \in {"begin", "claim", "handler", "spawn"} THEN {"mapcrash", "mapdead"}
  ELSE {"latecrash"}

Crash(i) ==
  LET r == th[i].job IN
  /\ r \in Rows
  /\ \E e \in Deaths(th[i]) :
       /\ Spend(e)
       /\ IF e \in {"deadletter", "mapdead"}
            THEN dead' = dead \cup {r} /\ UNCHANGED queue
            ELSE Put(r) /\ UNCHANGED dead
  /\ Rest(i)
  /\ UNCHANGED <<wf, rows>>

Redeliver(i) ==
  /\ th[i].job \in Rows
  /\ Spend("redeliver")
  /\ Put(th[i].job)
  /\ UNCHANGED <<wf, rows, dead, th>>

-----------------------------------------------------------------------------
Step(i) ==
  \/ Begin(i) \/ Claim(i) \/ Answer(i) \/ Err(i) \/ Requeue(i) \/ Resend(i)
  \/ Spawn(i) \/ MarkMapping(i) \/ Send(i) \/ Complete(i) \/ Siblings(i)
  \/ Fail(i) \/ ReadParent(i) \/ FailMap(i) \/ ReadPending(i) \/ SkipSibling(i)
  \/ List(i) \/ Terminate(i) \/ Finish(i) \/ FailAlone(i)

Start(i) ==
  \/ \E r \in Rows : Deliver(i, r) \/ Exhaust(i, r)
  \/ Sweep(i)

Next == \E i \in Threads : Step(i) \/ Start(i) \/ Crash(i) \/ Redeliver(i)

\* A call in progress goes on, and queued jobs, dead letters and the sweep are
\* taken up: whatever can, something does.
Fairness == WF_vars(\E i \in Threads : Step(i) \/ Start(i))

Spec == Init /\ [][Next]_vars /\ Fairness

-----------------------------------------------------------------------------
Pcs == {"idle", "begin", "claim", "handler", "requeue", "resend", "spawn", "mark",
        "send", "complete", "siblings", "fail", "parent", "failmap", "pending", "skip",
        "list", "terminate", "finish", "failalone"}

AboutRow == {"begin", "claim", "handler", "requeue", "resend", "complete", "fail",
             "failalone"}

(***************************************************************************)
(* Types; an activation about a row names it, and one that is to write the *)
(* verdict has read it.                                                    *)
(***************************************************************************)
TypeOK ==
  /\ wf \in {"running", "completed", "failed"}
  /\ status \in [Rows -> {"absent", "pending", "running", "mapping", "completed",
                          "failed", "skipped"}]
  /\ attempts \in [Rows -> Nat]
  /\ queue \in [Rows -> Nat]
  /\ dead \subseteq Rows
  /\ th \in [Threads -> [pc : Pcs, job : Rows \cup {None}, cur : Rows \cup {None},
                         tries : Nat, todo : SUBSET Items,
                         verdict : {None, "completed", "failed"}]]
  /\ \A i \in Threads :
       /\ th[i].pc \in AboutRow => th[i].cur \in Rows
       /\ th[i].pc \in {"terminate", "finish"} => th[i].verdict # None
  /\ budget \in [Events -> Nat]

Quiet ==
  /\ \A i \in Threads : At(i, "idle")
  /\ \A r \in Rows : queue[r] = 0
  /\ dead = {}

\* The output of the map is made of every item's: it is completed only when all
\* of its children are, however their completions interleave, and a completed
\* run means a completed map.
AggregatesEveryItem ==
  /\ status[Map] = "completed" => \A c \in Children : status[c] = "completed"
  /\ wf = "completed" => status[Map] = "completed"

\* The run is not left open with nothing that could move it: the sweeper looks
\* only at `running` rows, and a `mapping` one has children that can settle it.
NoStrandedRun ==
  wf = "running" /\ Quiet => \E r \in Rows : status[r] = "running"

\* Once a run is over and quiet, every child has an outcome of its own.
SettledWhenOver ==
  wf # "running" /\ Quiet => Verdict(status) # None

\* "finishing the workflow out from under that item would lose its outcome": no
\* child is still being worked on when the verdict is written.
NoItemInFlight ==
  wf # "running" => \A i \in Threads : At(i, "handler") => th[i].cur \notin Items

\* The map is completed once: nobody is about to complete it a second time.
SettlesOnce ==
  \A i \in Threads : At(i, "complete") /\ th[i].cur = Map => status[Map] # "completed"

\* Once the job of the map is queued, the run ends.
Finishes == queue[Map] > 0 ~> wf # "running"

(***************************************************************************)
(* To the rest of the run a map is one step: it starts once, runs while    *)
(* its children do, settles for good, and the verdict is its own.          *)
(***************************************************************************)
Promise == INSTANCE DagRun WITH
  Steps   <- {Map},
  Deps    <- [s \in {Map} |-> {}],
  AnyJoin <- {},
  verdict <- wf,
  row     <- [s \in {Map} |-> IF status[s] = "mapping" THEN "running" ELSE status[s]]

ImplementsOneStep == Promise!Spec

=============================================================================
