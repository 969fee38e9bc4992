------------------------- MODULE StepWorker_proofs -------------------------
(***************************************************************************)
(* Every job is settled on its own outcome, for every number of workers,   *)
(* lanes and jobs, every size of a batch, and whatever throws, dies or     *)
(* expires.                                                                *)
(***************************************************************************)
EXTENDS StepWorker, TLAPS

Outcomes == {"completed", "failed", "deadletter"}
States == {"queued", "active", "done", "dead", "reported", "dropped"}

Instance ==
  /\ RetryLimit \in Nat /\ None \notin Jobs
  /\ \A c \in Cases : c.valid \subseteq Jobs

Typed ==
  /\ valid \subseteq Jobs /\ handled \subseteq Jobs /\ late \subseteq Jobs
  /\ job \in [Jobs -> States]
  /\ delivered \in [Jobs -> Nat] /\ failed \in [Jobs -> Nat]
  /\ fetched \in [Workers -> SUBSET Jobs] /\ pending \in [Workers -> SUBSET Jobs]
  /\ lane \in [Workers -> [Lanes -> Jobs \cup {None}]]
  /\ results \in [Workers -> SUBSET (Jobs \X Outcomes)]

Outcome(w, j, s) == <<j, s>> \in results[w]
HasResult(w, j) == \E s \in Outcomes : Outcome(w, j, s)
InLane(w, j) == \E l \in Lanes : lane[w][l] = j

\* A job of a batch waits, is in one lane, or has its outcome.
PlacedAt(w, j) ==
  /\ j \in fetched[w] <=> j \in pending[w] \/ InLane(w, j) \/ HasResult(w, j)
  /\ j \in pending[w] => ~InLane(w, j) /\ ~HasResult(w, j)
  /\ InLane(w, j) => ~HasResult(w, j) /\ j \in valid
  /\ \A l, m \in Lanes : lane[w][l] = j /\ lane[w][m] = j => l = m
Placed == \A w \in Workers, j \in Jobs : PlacedAt(w, j)

\* An outcome says what happened.
Truthful ==
  \A w \in Workers, j \in Jobs :
    /\ Outcome(w, j, "completed") => j \in handled
    /\ Outcome(w, j, "deadletter") => j \notin valid

\* A job no delivery of which was late is in one batch at most, and all of its
\* deliveries but the present one have failed.
CountedAt(j) ==
  /\ job[j] = "queued" => delivered[j] = failed[j]
  /\ \A w \in Workers : j \in fetched[w] =>
       /\ job[j] = "active"
       /\ delivered[j] = failed[j] + IF Outcome(w, j, "failed") THEN 0 ELSE 1
       /\ \A v \in Workers : j \in fetched[v] => v = w
Counted == \A j \in Jobs \ late : CountedAt(j)

IInv == Typed /\ Placed /\ Truthful /\ Counted /\ OwnOutcome

-----------------------------------------------------------------------------
\* What Result and Release do, pointwise.
LEMMA ResultEffect ==
  ASSUME Typed, NEW w \in Workers, NEW l \in Lanes, NEW status \in Outcomes,
         lane[w][l] # None, Result(w, l, status)
  PROVE  /\ lane[w][l] \in Jobs
         /\ lane' \in [Workers -> [Lanes -> Jobs \cup {None}]]
         /\ results' \in [Workers -> SUBSET (Jobs \X Outcomes)]
         /\ \A v \in Workers, m \in Lanes :
              lane'[v][m] = IF v = w /\ m = l THEN None ELSE lane[v][m]
         /\ \A v \in Workers, j \in Jobs, s \in Outcomes :
              Outcome(v, j, s)' <=> Outcome(v, j, s) \/ (v = w /\ j = lane[w][l] /\ s = status)
PROOF
<1>1. lane[w][l] \in Jobs
  BY DEF Typed
<1>2. lane' \in [Workers -> [Lanes -> Jobs \cup {None}]]
  BY DEF Typed, Result
<1>3. results' \in [Workers -> SUBSET (Jobs \X Outcomes)]
  BY <1>1 DEF Typed, Result
<1>4. \A v \in Workers, m \in Lanes :
        lane'[v][m] = IF v = w /\ m = l THEN None ELSE lane[v][m]
  BY DEF Typed, Result
<1>5. \A v \in Workers, j \in Jobs, s \in Outcomes :
        Outcome(v, j, s)' <=> Outcome(v, j, s) \/ (v = w /\ j = lane[w][l] /\ s = status)
  BY DEF Typed, Result, Outcome
<1> QED BY <1>1, <1>2, <1>3, <1>4, <1>5

LEMMA ResultPlaces ==
  ASSUME Instance, Typed, Placed, NEW w \in Workers, NEW l \in Lanes, NEW status \in Outcomes,
         lane[w][l] # None, Result(w, l, status), UNCHANGED <<valid, fetched, pending>>
  PROVE  Placed'
PROOF
<1>1. lane[w][l] \in Jobs /\ None \notin Jobs
  BY DEF Typed, Instance
<1>2. ASSUME NEW v \in Workers, NEW j \in Jobs PROVE PlacedAt(v, j)'
  <2>1. HasResult(v, j)' <=> HasResult(v, j) \/ (v = w /\ j = lane[w][l])
    BY ResultEffect DEF HasResult
  <2>2. \A m \in Lanes : lane'[v][m] = IF v = w /\ m = l THEN None ELSE lane[v][m]
    BY ResultEffect
  <2>3. PlacedAt(v, j)
    BY DEF Placed
  <2>4. InLane(v, j)' <=> InLane(v, j) /\ ~(v = w /\ j = lane[w][l])
    BY <1>1, <2>2, <2>3 DEF InLane, PlacedAt
  <2>5. \A k, m \in Lanes : lane'[v][k] = j /\ lane'[v][m] = j => k = m
    BY <1>1, <2>2, <2>3 DEF PlacedAt
  <2>6. v = w /\ j = lane[w][l] => InLane(v, j)
    BY DEF InLane
  <2> QED BY <2>1, <2>3, <2>4, <2>5, <2>6 DEF PlacedAt
<1> QED BY <1>2 DEF Placed

LEMMA ReleaseEffect ==
  ASSUME Typed, NEW w \in Workers, Release(w)
  PROVE  /\ fetched' \in [Workers -> SUBSET Jobs] /\ pending' \in [Workers -> SUBSET Jobs]
         /\ lane' \in [Workers -> [Lanes -> Jobs \cup {None}]]
         /\ results' \in [Workers -> SUBSET (Jobs \X Outcomes)]
         /\ \A v \in Workers : v # w => /\ fetched'[v] = fetched[v] /\ pending'[v] = pending[v]
                                        /\ lane'[v] = lane[v] /\ results'[v] = results[v]
         /\ fetched'[w] = {} /\ pending'[w] = {} /\ results'[w] = {}
         /\ \A m \in Lanes : lane'[w][m] = None
PROOF BY DEF Typed, Release, NoLane

LEMMA ReleasePlaces ==
  ASSUME Instance, Typed, Placed, NEW w \in Workers, Release(w), UNCHANGED valid
  PROVE  Placed'
PROOF
<1>1. ASSUME NEW v \in Workers, NEW j \in Jobs, v # w PROVE PlacedAt(v, j)'
  <2>1. fetched'[v] = fetched[v] /\ pending'[v] = pending[v] /\ lane'[v] = lane[v] /\ results'[v] = results[v]
    BY <1>1, ReleaseEffect
  <2>2. (InLane(v, j)' <=> InLane(v, j)) /\ (HasResult(v, j)' <=> HasResult(v, j))
    BY <2>1 DEF InLane, HasResult, Outcome
  <2>3. PlacedAt(v, j)
    BY DEF Placed
  <2> QED BY <2>1, <2>2, <2>3 DEF PlacedAt
<1>2. ASSUME NEW j \in Jobs PROVE PlacedAt(w, j)'
  BY ReleaseEffect DEF PlacedAt, InLane, HasResult, Outcome, Instance
<1> QED BY <1>1, <1>2 DEF Placed

-----------------------------------------------------------------------------

\* What is in a batch that is fetched only when there is none.
LEMMA EmptyBatch ==
  ASSUME Instance, Typed, Placed, NEW w \in Workers, fetched[w] = {}
  PROVE  /\ pending[w] = {}
         /\ \A j \in Jobs : ~InLane(w, j) /\ ~HasResult(w, j)
PROOF BY DEF Typed, Placed, PlacedAt

LEMMA FetchKeeps == ASSUME Instance, IInv, NEW w \in Workers, Fetch(w) PROVE IInv'
PROOF
<1>1. PICK B \in SUBSET Queued :
        /\ fetched' = [fetched EXCEPT ![w] = B]
        /\ pending' = [pending EXCEPT ![w] = B]
        /\ job' = [j \in Jobs |-> IF j \in B THEN "active" ELSE job[j]]
        /\ delivered' = [j \in Jobs |-> IF j \in B THEN delivered[j] + 1 ELSE delivered[j]]
  BY DEF Fetch
<1>2. /\ fetched[w] = {}
      /\ UNCHANGED <<valid, failed, handled, lane, results, misreported, late>>
  BY DEF Fetch, config
<1>3. \A j \in B : j \in Jobs /\ job[j] = "queued"
  BY DEF Queued
<1>4. Typed'
  BY <1>1, <1>2, <1>3 DEF IInv, Typed, States
<1>5. ASSUME NEW v \in Workers, NEW j \in Jobs
      PROVE  (InLane(v, j)' <=> InLane(v, j)) /\ (HasResult(v, j)' <=> HasResult(v, j))
             /\ \A s \in Outcomes : Outcome(v, j, s)' <=> Outcome(v, j, s)
  BY <1>2 DEF InLane, HasResult, Outcome
<1>6. Placed'
  <2>1. ASSUME NEW v \in Workers, NEW j \in Jobs PROVE PlacedAt(v, j)'
    <3>1. PlacedAt(v, j)
      BY DEF IInv, Placed
    <3>2. CASE v = w
      BY <1>1, <1>2, <1>5, <3>1, <3>2, EmptyBatch DEF IInv, Typed, PlacedAt
    <3>3. CASE v # w
      BY <1>1, <1>2, <1>5, <3>1, <3>3 DEF IInv, Typed, PlacedAt
    <3> QED BY <3>2, <3>3
  <2> QED BY <2>1 DEF Placed
<1>7. Truthful'
  BY <1>2 DEF IInv, Truthful, Outcome
<1>8. Counted'
  <2>1. ASSUME NEW j \in Jobs \ late PROVE CountedAt(j)'
    <3>1. CountedAt(j)
      BY DEF IInv, Counted
    <3>2. CASE j \in B
      <4>1. job[j] = "queued" /\ \A v \in Workers : j \notin fetched[v]
        BY <1>3, <3>1, <3>2 DEF CountedAt
      <4>2. ~HasResult(w, j)
        BY <1>2, EmptyBatch DEF IInv
      <4>3. ~Outcome(w, j, "failed")'
        BY <1>5, <4>2 DEF HasResult, Outcomes
      <4>4. \A v \in Workers : j \in fetched'[v] <=> v = w
        BY <1>1, <3>2, <4>1 DEF IInv, Typed
      <4>5. job'[j] = "active" /\ delivered'[j] = failed'[j] + 1
        BY <1>1, <1>2, <3>1, <3>2, <4>1 DEF IInv, Typed, CountedAt
      <4> QED BY <4>3, <4>4, <4>5 DEF CountedAt
    <3>3. CASE j \notin B
      <4>1. job'[j] = job[j] /\ delivered'[j] = delivered[j] /\ failed'[j] = failed[j]
        BY <1>1, <1>2, <3>3 DEF IInv, Typed
      <4>2. \A v \in Workers : j \in fetched'[v] => j \in fetched[v]
        BY <1>1, <3>3 DEF IInv, Typed
      <4>3. \A v \in Workers : Outcome(v, j, "failed")' <=> Outcome(v, j, "failed")
        BY <1>5 DEF Outcomes
      <4> QED BY <3>1, <4>1, <4>2, <4>3 DEF CountedAt
    <3> QED BY <3>2, <3>3
  <2> QED BY <1>2, <2>1 DEF Counted
<1>9. OwnOutcome'
  BY <1>1, <1>2, <1>3 DEF IInv, Typed, OwnOutcome
<1> QED BY <1>4, <1>6, <1>7, <1>8, <1>9 DEF IInv

\* A lane reports the outcome of its job; it fails, or its handler has returned.
LEMMA ReportKeeps ==
  ASSUME Instance, IInv, NEW w \in Workers, NEW l \in Lanes, NEW status \in {"completed", "failed"},
         lane[w][l] # None, Result(w, l, status),
         UNCHANGED <<config, job, delivered, fetched, pending, misreported, late>>,
         handled' = IF status = "completed" THEN handled \cup {lane[w][l]} ELSE handled,
         failed' = IF status = "failed" THEN [failed EXCEPT ![lane[w][l]] = @ + 1] ELSE failed
  PROVE  IInv'
PROOF
<1> DEFINE i == lane[w][l]
<1>1. i \in Jobs /\ Typed /\ status \in Outcomes
  BY ResultEffect DEF IInv, Outcomes
<1>2. UNCHANGED <<valid, job, delivered, fetched, pending, misreported, late>>
  BY DEF config
<1>3. Typed'
  BY <1>1, <1>2, ResultEffect DEF Typed
<1>4. Placed'
  BY <1>1, <1>2, ResultPlaces DEF IInv
<1>5. \A v \in Workers, j \in Jobs, s \in Outcomes :
        Outcome(v, j, s)' <=> Outcome(v, j, s) \/ (v = w /\ j = i /\ s = status)
  BY <1>1, ResultEffect
<1>6. Truthful'
  BY <1>2, <1>5 DEF IInv, Truthful, Outcomes
<1>7. i \in valid /\ i \in fetched[w] /\ ~HasResult(w, i)
  BY <1>1 DEF IInv, Placed, PlacedAt, InLane
<1>8. Counted'
  <2>1. ASSUME NEW j \in Jobs \ late PROVE CountedAt(j)'
    <3>1. CountedAt(j)
      BY DEF IInv, Counted
    <3>2. CASE j = i /\ status = "failed"
      <4>1. /\ \A v \in Workers : j \in fetched[v] => v = w
            /\ job[j] = "active" /\ delivered[j] = failed[j] + 1
        BY <1>7, <3>1, <3>2 DEF CountedAt, HasResult, Outcomes
      <4>2. failed'[j] = failed[j] + 1 /\ Outcome(w, j, "failed")'
        BY <1>1, <1>5, <3>2 DEF Typed
      <4> QED BY <1>1, <1>2, <4>1, <4>2 DEF CountedAt, Typed
    <3>3. CASE ~(j = i /\ status = "failed")
      <4>1. failed'[j] = failed[j]
        BY <1>1, <3>3 DEF Typed
      <4>2. \A v \in Workers : Outcome(v, j, "failed")' <=> Outcome(v, j, "failed")
        BY <1>5, <3>3 DEF Outcomes
      <4> QED BY <1>2, <3>1, <4>1, <4>2 DEF CountedAt
    <3> QED BY <3>2, <3>3
  <2> QED BY <1>2, <2>1 DEF Counted
<1>9. OwnOutcome'
  <2>1. \A j \in Jobs : failed'[j] \in Nat /\ failed[j] \in Nat /\ failed'[j] >= failed[j]
    BY <1>1 DEF Typed
  <2>2. handled \subseteq handled' /\ \A j \in handled' : j \in handled \/ j = i
    OBVIOUS
  <2> QED BY <1>1, <1>2, <1>7, <2>1, <2>2 DEF IInv, Instance, OwnOutcome
<1> QED BY <1>3, <1>4, <1>6, <1>8, <1>9 DEF IInv

LEMMA ReturnKeeps ==
  ASSUME Instance, IInv, NEW w \in Workers, NEW l \in Lanes, Return(w, l) PROVE IInv'
PROOF BY ReportKeeps DEF Return

LEMMA ThrowKeeps ==
  ASSUME Instance, IInv, NEW w \in Workers, NEW l \in Lanes, Throw(w, l) PROVE IInv'
PROOF BY ReportKeeps DEF Throw

LEMMA TakeJobKeeps ==
  ASSUME Instance, IInv, NEW w \in Workers, NEW l \in Lanes, TakeJob(w, l) PROVE IInv'
PROOF
<1>1. PICK i \in pending[w] :
        /\ pending' = [pending EXCEPT ![w] = @ \ {i}]
        /\ IF i \in valid
             THEN lane' = [lane EXCEPT ![w][l] = i] /\ UNCHANGED results
             ELSE results' = [results EXCEPT ![w] = @ \cup {<<i, "deadletter">>}] /\ UNCHANGED lane
  BY DEF TakeJob
<1>2. /\ lane[w][l] = None
      /\ UNCHANGED <<valid, job, delivered, failed, handled, fetched, misreported, late>>
  BY DEF TakeJob, config, queueVars
<1>3. Typed /\ i \in Jobs /\ None \notin Jobs
  BY DEF IInv, Typed, Instance
<1>4. Typed'
  <2>1. CASE i \in valid
    <3>1. lane' \in [Workers -> [Lanes -> Jobs \cup {None}]]
      BY <1>1, <1>3, <2>1 DEF Typed
    <3> QED BY <1>1, <1>2, <1>3, <2>1, <3>1 DEF Typed
  <2>2. CASE i \notin valid
    <3>1. <<i, "deadletter">> \in Jobs \X Outcomes
      BY <1>3 DEF Outcomes
    <3> QED BY <1>1, <1>2, <1>3, <2>2, <3>1 DEF Typed
  <2> QED BY <2>1, <2>2
<1>5. \A v \in Workers, j \in Jobs : j \in pending'[v] <=> j \in pending[v] /\ ~(v = w /\ j = i)
  BY <1>1, <1>3 DEF Typed
<1>6. \A v \in Workers, m \in Lanes :
        lane'[v][m] = IF v = w /\ m = l /\ i \in valid THEN i ELSE lane[v][m]
  BY <1>1, <1>3 DEF Typed
<1>7. \A v \in Workers, j \in Jobs, s \in Outcomes :
        Outcome(v, j, s)' <=>
          Outcome(v, j, s) \/ (v = w /\ j = i /\ s = "deadletter" /\ i \notin valid)
  BY <1>1, <1>3 DEF Typed, Outcome
<1>8. Placed'
  <2>1. ASSUME NEW v \in Workers, NEW j \in Jobs PROVE PlacedAt(v, j)'
    <3>1. PlacedAt(v, j)
      BY DEF IInv, Placed
    <3>2. HasResult(v, j)' <=> HasResult(v, j) \/ (v = w /\ j = i /\ i \notin valid)
      BY <1>7 DEF HasResult, Outcomes
    <3>3. InLane(v, j)' <=> InLane(v, j) \/ (v = w /\ j = i /\ i \in valid)
      BY <1>2, <1>3, <1>6 DEF InLane
    <3>4. v = w /\ j = i => j \in pending[v]
      OBVIOUS
    <3>5. \A k, m \in Lanes : lane'[v][k] = j /\ lane'[v][m] = j => k = m
      BY <1>2, <1>3, <1>6, <3>1, <3>4 DEF PlacedAt, InLane
    <3> QED BY <1>2, <1>5, <3>1, <3>2, <3>3, <3>4, <3>5 DEF PlacedAt
  <2> QED BY <2>1 DEF Placed
<1>9. Truthful'
  BY <1>2, <1>7 DEF IInv, Truthful, Outcomes
<1>10. Counted'
  BY <1>2, <1>7 DEF IInv, Counted, CountedAt, Outcomes
<1>11. OwnOutcome'
  BY <1>2 DEF IInv, OwnOutcome
<1> QED BY <1>4, <1>8, <1>9, <1>10, <1>11 DEF IInv

LEMMA EndBatchKeeps == ASSUME Instance, IInv, NEW w \in Workers, EndBatch(w) PROVE IInv'
PROOF
<1>1. /\ pending[w] = {} /\ \A l \in Lanes : lane[w][l] = None
      /\ job' = [j \in Jobs |-> IF j \in fetched[w] /\ job[j] = "active" THEN Verdict(w, j) ELSE job[j]]
      /\ Release(w)
      /\ UNCHANGED <<valid, delivered, failed, handled, misreported, late>>
  BY DEF EndBatch, Drained, Busy, config
<1>2. Typed /\ None \notin Jobs
  BY DEF IInv, Instance
<1>3. \A j \in Jobs : j \in fetched[w] => HasResult(w, j)
  BY <1>1, <1>2 DEF IInv, Placed, PlacedAt, InLane
<1>4. ASSUME NEW j \in Jobs
      PROVE  \/ Verdict(w, j) = "done" /\ Outcome(w, j, "completed")
             \/ Verdict(w, j) = AfterFailure(j) /\ Outcome(w, j, "failed")
             \/ /\ Verdict(w, j) = "dead"
                /\ ~Outcome(w, j, "completed") /\ ~Outcome(w, j, "failed")
  BY DEF Verdict, Outcome
<1>5. \A j \in Jobs : Verdict(w, j) \in States
  BY <1>4 DEF AfterFailure, States
<1>6. Typed'
  <2>1. job' \in [Jobs -> States]
    BY <1>1, <1>2, <1>5 DEF Typed
  <2> QED BY <1>1, <1>2, <2>1, ReleaseEffect DEF Typed
<1>7. Placed'
  BY <1>1, ReleasePlaces DEF IInv
<1>8. \A v \in Workers, j \in Jobs, s \in Outcomes : Outcome(v, j, s)' <=> v # w /\ Outcome(v, j, s)
  BY <1>1, <1>2, ReleaseEffect DEF Outcome
<1>9. Truthful'
  BY <1>1, <1>8 DEF IInv, Truthful, Outcomes
<1>10. Counted'
  <2>1. ASSUME NEW j \in Jobs \ late PROVE CountedAt(j)'
    <3>1. CountedAt(j)
      BY DEF IInv, Counted
    <3>2. CASE j \in fetched[w]
      <4>1. \A v \in Workers : j \notin fetched'[v]
        BY <1>1, <1>2, <3>1, <3>2, ReleaseEffect DEF CountedAt
      <4>2. job'[j] = Verdict(w, j) /\ delivered'[j] = delivered[j] /\ failed'[j] = failed[j]
        BY <1>1, <3>1, <3>2 DEF CountedAt
      <4>3. job'[j] = "queued" => Outcome(w, j, "failed")
        BY <1>4, <4>2
      <4> QED BY <3>1, <3>2, <4>1, <4>2, <4>3 DEF CountedAt, IInv, Typed
    <3>3. CASE j \notin fetched[w]
      <4>1. \A v \in Workers : j \in fetched'[v] => v # w /\ j \in fetched[v]
        BY <1>1, <1>2, <3>3, ReleaseEffect
      <4>2. job'[j] = job[j] /\ delivered'[j] = delivered[j] /\ failed'[j] = failed[j]
        BY <1>1, <3>3
      <4>3. \A v \in Workers : v # w => (Outcome(v, j, "failed")' <=> Outcome(v, j, "failed"))
        BY <1>8 DEF Outcomes
      <4> QED BY <3>1, <4>1, <4>2, <4>3 DEF CountedAt
    <3> QED BY <3>2, <3>3
  <2> QED BY <1>1, <2>1 DEF Counted
<1>11. OwnOutcome'
  <2>1. ASSUME NEW j \in Jobs, j \in fetched[w], job[j] = "active"
        PROVE  /\ job'[j] \in {"done", "queued", "dead"}
               /\ job'[j] = "done" => j \in handled
               /\ job'[j] = "dead" /\ j \in valid => failed[j] > RetryLimit \/ j \in late
    <3>1. job'[j] = Verdict(w, j)
      BY <1>1, <2>1
    <3>2. Outcome(w, j, "completed") \/ Outcome(w, j, "failed") \/ j \notin valid
      BY <1>3, <2>1 DEF IInv, Truthful, HasResult, Outcomes
    <3>3. Outcome(w, j, "completed") => j \in handled
      BY DEF IInv, Truthful
    <3>4. Outcome(w, j, "failed") /\ j \notin late => delivered[j] = failed[j]
      BY <2>1 DEF IInv, Counted, CountedAt, Typed
    <3> QED BY <1>4, <3>1, <3>2, <3>3, <3>4 DEF AfterFailure, IInv, Typed, Instance
  <2>2. ASSUME NEW j \in Jobs, ~(j \in fetched[w] /\ job[j] = "active") PROVE job'[j] = job[j]
    BY <1>1, <2>2
  <2> QED BY <1>1, <2>1, <2>2 DEF IInv, OwnOutcome
<1> QED BY <1>6, <1>7, <1>9, <1>10, <1>11 DEF IInv

\* Deliveries that expire unreported, their process dead or not.
LEMMA UnreportedEffect ==
  ASSUME Instance, IInv, NEW w \in Workers, Unreported(w), UNCHANGED <<valid, delivered>>
  PROVE  /\ job' \in [Jobs -> States] /\ failed' \in [Jobs -> Nat]
         /\ \A j \in Jobs : j \notin Lost(w) => job'[j] = job[j] /\ failed'[j] = failed[j]
         /\ \A j \in Lost(w) : /\ j \in Jobs /\ job'[j] \in {"queued", "dead"}
                               /\ failed'[j] >= failed[j]
                               /\ j \notin late => /\ failed'[j] = delivered[j]
                                                   /\ job'[j] = "dead" => failed'[j] > RetryLimit
PROOF
<1>1. \A j \in Jobs : AfterFailure(j) \in {"queued", "dead"}
  BY DEF AfterFailure
<1>2. \A j \in Jobs :
        /\ job'[j] = IF j \in Lost(w) THEN AfterFailure(j) ELSE job[j]
        /\ failed'[j] = IF j \in Lost(w) /\ ~Outcome(w, j, "failed") THEN failed[j] + 1 ELSE failed[j]
  BY DEF Unreported, Outcome
<1>3. job' \in [Jobs -> States]
  BY <1>1 DEF Unreported, IInv, Typed, States
<1>4. failed' \in [Jobs -> Nat]
  BY DEF Unreported, IInv, Typed
<1>5. ASSUME NEW j \in Lost(w)
      PROVE  /\ j \in Jobs /\ job'[j] \in {"queued", "dead"} /\ failed'[j] >= failed[j]
             /\ j \notin late => /\ failed'[j] = delivered[j]
                                 /\ job'[j] = "dead" => failed'[j] > RetryLimit
  <2>1. j \in Jobs /\ j \in fetched[w]
    BY DEF Lost, IInv, Typed
  <2>2. failed[j] \in Nat /\ delivered[j] \in Nat
    BY <2>1 DEF IInv, Typed
  <2>3. j \notin late => delivered[j] = failed[j] + IF Outcome(w, j, "failed") THEN 0 ELSE 1
    BY <2>1 DEF IInv, Counted, CountedAt
  <2> QED BY <1>1, <1>2, <2>1, <2>2, <2>3 DEF AfterFailure, Instance
<1> QED BY <1>2, <1>3, <1>4, <1>5

LEMMA UnreportedKeepsOutcomes ==
  ASSUME Instance, IInv, NEW w \in Workers, Unreported(w),
         UNCHANGED <<valid, delivered, handled, misreported>>, late \subseteq late'
  PROVE  OwnOutcome'
PROOF
<1>1. ASSUME NEW j \in Jobs, j \in Lost(w)
      PROVE  /\ job'[j] \in {"queued", "dead"}
             /\ job'[j] = "dead" => failed'[j] > RetryLimit \/ j \in late'
  BY <1>1, UnreportedEffect
<1>2. ASSUME NEW j \in Jobs, j \notin Lost(w) PROVE job'[j] = job[j] /\ failed'[j] = failed[j]
  BY <1>2, UnreportedEffect
<1> QED BY <1>1, <1>2 DEF IInv, OwnOutcome

LEMMA CrashKeeps == ASSUME Instance, IInv, NEW w \in Workers, Crash(w) PROVE IInv'
PROOF
<1>1. /\ Unreported(w) /\ Release(w)
      /\ UNCHANGED <<valid, delivered, handled, misreported, late>>
  BY DEF Crash, config
<1>2. Typed'
  BY <1>1, UnreportedEffect, ReleaseEffect DEF IInv, Typed
<1>3. Placed'
  BY <1>1, ReleasePlaces DEF IInv
<1>4. \A v \in Workers, j \in Jobs, s \in Outcomes : Outcome(v, j, s)' <=> v # w /\ Outcome(v, j, s)
  BY <1>1, ReleaseEffect DEF Outcome, IInv
<1>5. Truthful'
  BY <1>1, <1>4 DEF IInv, Truthful, Outcomes
<1>6. Counted'
  <2>1. ASSUME NEW j \in Jobs \ late PROVE CountedAt(j)'
    <3>1. CountedAt(j)
      BY DEF IInv, Counted
    <3>2. \A v \in Workers : j \in fetched'[v] => v # w /\ j \in fetched[v]
      BY <1>1, ReleaseEffect DEF IInv
    <3>3. CASE j \in Lost(w)
      <4>1. j \in fetched[w]
        BY <3>3 DEF Lost
      <4>2. \A v \in Workers : j \notin fetched'[v]
        BY <3>1, <3>2, <4>1 DEF CountedAt
      <4>3. delivered'[j] = failed'[j]
        BY <1>1, <3>3, UnreportedEffect
      <4> QED BY <4>2, <4>3 DEF CountedAt
    <3>4. CASE j \notin Lost(w)
      <4>1. job'[j] = job[j] /\ delivered'[j] = delivered[j] /\ failed'[j] = failed[j]
        BY <1>1, <3>4, UnreportedEffect
      <4>2. \A v \in Workers : v # w => (Outcome(v, j, "failed")' <=> Outcome(v, j, "failed"))
        BY <1>4 DEF Outcomes
      <4> QED BY <3>1, <3>2, <4>1, <4>2 DEF CountedAt
    <3> QED BY <3>3, <3>4
  <2> QED BY <1>1, <2>1 DEF Counted
<1>7. OwnOutcome'
  BY <1>1, UnreportedKeepsOutcomes
<1> QED BY <1>2, <1>3, <1>5, <1>6, <1>7 DEF IInv

\* A step outside the batches.
LEMMA BatchesUntouched ==
  ASSUME Placed, UNCHANGED <<valid, fetched, pending, lane, results>>
  PROVE  /\ Placed'
         /\ \A v \in Workers, j \in Jobs, s \in Outcomes : Outcome(v, j, s)' <=> Outcome(v, j, s)
PROOF
<1>1. ASSUME NEW v \in Workers, NEW j \in Jobs
      PROVE  /\ \A s \in Outcomes : Outcome(v, j, s)' <=> Outcome(v, j, s)
             /\ PlacedAt(v, j)'
  <2>1. \A s \in Outcomes : Outcome(v, j, s)' <=> Outcome(v, j, s)
    BY DEF Outcome
  <2>2. (InLane(v, j)' <=> InLane(v, j)) /\ (HasResult(v, j)' <=> HasResult(v, j))
    BY <2>1 DEF InLane, HasResult
  <2>3. PlacedAt(v, j)
    BY DEF Placed
  <2> QED BY <2>1, <2>2, <2>3 DEF PlacedAt
<1> QED BY <1>1 DEF Placed

LEMMA ExpireKeeps == ASSUME Instance, IInv, NEW w \in Workers, Expire(w) PROVE IInv'
PROOF
<1>1. /\ Unreported(w) /\ late' = late \cup Lost(w)
      /\ UNCHANGED <<valid, delivered, handled, fetched, pending, lane, results, misreported>>
  BY DEF Expire, config, workerVars
<1>2. Lost(w) \subseteq Jobs
  BY DEF Lost, IInv, Typed
<1>3. Typed'
  BY <1>1, <1>2, UnreportedEffect DEF IInv, Typed
<1>4. Placed'
  BY <1>1, BatchesUntouched DEF IInv
<1>5. Truthful'
  BY <1>1 DEF IInv, Truthful, Outcome
<1>6. Counted'
  <2>1. ASSUME NEW j \in Jobs \ late' PROVE CountedAt(j)'
    <3>1. CountedAt(j) /\ j \notin Lost(w)
      BY <1>1 DEF IInv, Counted
    <3>2. job'[j] = job[j] /\ failed'[j] = failed[j]
      BY <1>1, <3>1, UnreportedEffect
    <3> QED BY <1>1, <3>1, <3>2 DEF CountedAt, Outcome
  <2> QED BY <2>1 DEF Counted
<1>7. OwnOutcome'
  BY <1>1, UnreportedKeepsOutcomes
<1> QED BY <1>3, <1>4, <1>5, <1>6, <1>7 DEF IInv

LEMMA DeadLetterKeeps == ASSUME Instance, IInv, NEW i \in Jobs, DeadLetter(i) PROVE IInv'
PROOF
<1>1. /\ job[i] = "dead"
      /\ \/ /\ job' = [job EXCEPT ![i] = IF i \in valid THEN "reported" ELSE "dropped"]
            /\ misreported' = misreported
         \/ job' = [job EXCEPT ![i] = "dropped"] /\ misreported' = misreported \cup {i}
      /\ UNCHANGED <<valid, delivered, failed, handled, fetched, pending, lane, results, late>>
  BY DEF DeadLetter, config, workerVars
<1>2. \A j \in Jobs : j # i => job'[j] = job[j]
  BY <1>1 DEF IInv, Typed
<1>3. job'[i] \in {"reported", "dropped"} /\ job' \in [Jobs -> States]
  <2>1. "reported" \in States /\ "dropped" \in States
    BY DEF States
  <2> QED BY <1>1, <2>1 DEF IInv, Typed
<1>4. Typed'
  BY <1>1, <1>3 DEF IInv, Typed
<1>5. Placed' /\ Truthful'
  BY <1>1, BatchesUntouched DEF IInv, Truthful, Outcomes
<1>6. Counted'
  <2>1. ASSUME NEW j \in Jobs \ late PROVE CountedAt(j)'
    <3>1. CountedAt(j)
      BY DEF IInv, Counted
    <3>2. j = i => \A v \in Workers : j \notin fetched[v]
      BY <1>1, <3>1 DEF CountedAt
    <3> QED BY <1>1, <1>2, <1>3, <3>1, <3>2 DEF CountedAt, Outcome
  <2> QED BY <1>1, <2>1 DEF Counted
<1>7. OwnOutcome'
  <2>1. misreported \subseteq misreported'
    BY <1>1
  <2>2. job'[i] = "dropped" => i \notin valid \/ i \in misreported'
    BY <1>1 DEF IInv, Typed
  <2>3. i \in valid => failed[i] > RetryLimit \/ i \in late
    BY <1>1 DEF IInv, OwnOutcome
  <2> QED BY <1>1, <1>2, <1>3, <2>1, <2>2, <2>3 DEF IInv, OwnOutcome
<1> QED BY <1>4, <1>5, <1>6, <1>7 DEF IInv

LEMMA NextKeeps == ASSUME Instance, IInv, [Next]_vars PROVE IInv'
PROOF
<1>1. CASE UNCHANGED vars
  <2>1. UNCHANGED <<valid, fetched, pending, lane, results, job, delivered, failed, handled,
                    misreported, late>>
    BY <1>1 DEF vars, config, queueVars, workerVars
  <2>2. Placed' /\ Truthful'
    BY <2>1, BatchesUntouched DEF IInv, Truthful, Outcomes
  <2>3. Typed' /\ OwnOutcome'
    BY <2>1 DEF IInv, Typed, OwnOutcome
  <2>4. Counted'
    BY <2>1 DEF IInv, Counted, CountedAt, Outcome
  <2> QED BY <2>2, <2>3, <2>4 DEF IInv
<1> QED
  BY <1>1, FetchKeeps, EndBatchKeeps, CrashKeeps, ExpireKeeps, TakeJobKeeps, ReturnKeeps,
     ThrowKeeps, DeadLetterKeeps
  DEF Next

LEMMA InitHolds == ASSUME Instance, Init PROVE IInv
PROOF
<1>1. Typed
  BY DEF Init, Instance, Typed, States, NoLane
<1>2. \A w \in Workers, j \in Jobs : /\ ~InLane(w, j) /\ ~HasResult(w, j)
                                     /\ \A s \in Outcomes : ~Outcome(w, j, s)
  BY DEF Init, Instance, InLane, HasResult, Outcome, NoLane
<1>3. Placed
  BY <1>2 DEF Init, Placed, PlacedAt, InLane
<1>4. Truthful /\ Counted /\ OwnOutcome
  BY <1>2 DEF Init, Truthful, Counted, CountedAt, OwnOutcome, Outcomes
<1> QED BY <1>1, <1>3, <1>4 DEF IInv

\* No neighbour in its batch, dead worker or expiry settles a job on anything but
\* its own outcome (createPgBossStepWorker, perJobResults).
THEOREM JobsKeepTheirOutcomes == ASSUME Instance PROVE Spec => []OwnOutcome
PROOF
<1>1. Init => IInv
  BY InitHolds
<1>2. IInv /\ [Next]_vars => IInv'
  BY NextKeeps
<1>3. IInv => OwnOutcome
  BY DEF IInv
<1> QED BY <1>1, <1>2, <1>3, PTL DEF Spec

=============================================================================
