-------------------------- MODULE StartOnce_proofs --------------------------
(***************************************************************************)
(* One run for a key, for every number of ticks, workers and redeliveries. *)
(***************************************************************************)
EXTENDS StartOnce, FiniteSetTheorems, TLAPS

KeyValues == Ticks \cup {0, None}
States == {"unused", "open", "committed", "gone"}
Rows == [state : States, key : KeyValues, roots : BOOLEAN]
Working == {"enqueue", "commit"}

Instance ==
  /\ None \notin Nat /\ MaxTicks \in Nat
  /\ Cases \subseteq [payload : [key : BOOLEAN, prefix : BOOLEAN], atomic : BOOLEAN,
                      batch : Nat, budget : [Events -> Nat]]

Typed ==
  /\ payload \in [key : BOOLEAN, prefix : BOOLEAN]
  /\ run \in [Ids -> Rows]
  /\ got \in [Ticks -> SUBSET Ids]
  /\ at \in [Workers -> [pc : {"idle", "start", "enqueue", "commit"}, jobs : Seq(Ticks),
                         n : Nat \ {0}, id : Ids \cup {None}]]

\* The unique index: two rows that are not rolled back have different keys.
UniqueKeys ==
  \A i, j \in Ids :
    /\ run[i].state \in {"open", "committed"} /\ run[j].state \in {"open", "committed"}
    /\ run[i].key = run[j].key /\ run[i].key # None
    => i = j

\* A worker between its insert and its answer has a job at hand, and a run of
\* its key.
Holders ==
  \A w \in Workers : at[w].pc \in Working =>
    /\ at[w].n \in DOMAIN at[w].jobs
    /\ at[w].id \in Ids
    /\ run[at[w].id].state # "unused" /\ run[at[w].id].key = Key(Tick(w))
    /\ ~atomic => run[at[w].id].state # "open"

\* What was returned to a tick has the tick's key, and is not open.
Returned ==
  \A t \in Ticks : \A i \in got[t] :
    run[i].state \in {"committed", "gone"} /\ run[i].key = Key(t)

IInv == Typed /\ UniqueKeys /\ Holders /\ Returned

-----------------------------------------------------------------------------
LEMMA KeyType == ASSUME Typed, NEW t \in Ticks PROVE Key(t) \in KeyValues
PROOF BY DEF Key, KeyValues, Typed

\* The job at hand.
LEMMA AtHand ==
  ASSUME Typed, NEW w \in Workers, at[w].n \in DOMAIN at[w].jobs
  PROVE  Tick(w) \in Ticks
PROOF BY DEF Typed, Tick

\* An answer leaves the rows alone.
LEMMA AnswerKeeps ==
  ASSUME Instance, IInv, NEW w \in Workers, NEW i \in Ids, Answer(w, i),
         at[w].n \in DOMAIN at[w].jobs,
         UNCHANGED <<payload, atomic>>, run' \in [Ids -> Rows],
         UniqueKeys',
         \A j \in Ids : run[j].state # "unused" => run'[j].key = run[j].key,
         \A j \in Ids : run[j].state # "unused" => run'[j].state # "unused",
         \A j \in Ids : run[j].state # "open" /\ run[j].state # "unused" => run'[j].state # "open",
         run'[i].state \in {"committed", "gone"}, run'[i].key = Key(Tick(w))
  PROVE  IInv'
PROOF
<1>1. Tick(w) \in Ticks
  BY AtHand DEF IInv
<1>2. Typed'
  <2>1. got' \in [Ticks -> SUBSET Ids]
    BY <1>1 DEF Answer, IInv, Typed
  <2>2. at[w].n + 1 \in Nat \ {0}
    BY DEF IInv, Typed
  <2>3. at' \in [Workers -> [pc : {"idle", "start", "enqueue", "commit"}, jobs : Seq(Ticks),
                            n : Nat \ {0}, id : Ids \cup {None}]]
    BY <2>2 DEF Answer, IInv, Typed
  <2> QED BY <2>1, <2>3 DEF IInv, Typed
<1>3. Holders'
  <2> SUFFICES ASSUME NEW v \in Workers, at'[v].pc \in Working
               PROVE  /\ at'[v].n \in DOMAIN at'[v].jobs
                      /\ at'[v].id \in Ids
                      /\ run'[at'[v].id].state # "unused" /\ run'[at'[v].id].key = Key(Tick(v))'
                      /\ ~atomic' => run'[at'[v].id].state # "open"
    BY DEF Holders
  <2>1. v # w /\ at'[v] = at[v]
    BY DEF Answer, IInv, Typed, Working
  <2>2. Key(Tick(v))' = Key(Tick(v))
    BY <2>1 DEF Key, Tick
  <2> QED BY <2>1, <2>2 DEF IInv, Holders
<1>4. Returned'
  <2> SUFFICES ASSUME NEW t \in Ticks, NEW j \in got'[t]
               PROVE  run'[j].state \in {"committed", "gone"} /\ run'[j].key = Key(t)'
    BY DEF Returned
  <2>1. Key(t)' = Key(t)
    BY DEF Key
  <2>2. CASE j \in got[t]
    <3>1. run[j].state \in {"committed", "gone"} /\ run[j].key = Key(t) /\ j \in Ids
      BY <2>2 DEF IInv, Returned, Typed
    <3>2. run'[j].state # "unused" /\ run'[j].state # "open" /\ run'[j].key = Key(t)
      BY <3>1
    <3> QED BY <2>1, <3>1, <3>2 DEF Rows, States
  <2>3. CASE j \notin got[t]
    <3>1. j = i /\ t = Tick(w)
      BY <1>1, <2>3 DEF Answer, IInv, Typed
    <3> QED BY <2>1, <3>1
  <2> QED BY <2>2, <2>3
<1> QED BY <1>2, <1>3, <1>4 DEF IInv

-----------------------------------------------------------------------------
(***************************************************************************)
(* The steps of startWorkflow on Postgres.                                 *)
(***************************************************************************)

\* The index is what keeps a second row with the key out (store.ts, createWorkflow).
LEMMA CreateKeeps ==
  ASSUME Instance, IInv, NEW w \in Workers, CreateWorkflow(w)
  PROVE  IInv'
PROOF
<1>. DEFINE k == Key(Tick(w))
<1>0. /\ at[w].n \in DOMAIN at[w].jobs
      /\ UNCHANGED <<payload, atomic>>
  BY DEF CreateWorkflow, IInv, Typed, fixed
<1>1. Tick(w) \in Ticks /\ k \in KeyValues
  BY <1>0, AtHand, KeyType DEF IInv
<1>2. ASSUME NEW i \in With(k, {"committed"}), Answer(w, i), UNCHANGED run
      PROVE  IInv'
  <2>1. i \in Ids /\ run[i].state = "committed" /\ run[i].key = k
    BY <1>2 DEF With
  <2> HIDE DEF k
  <2>2. UniqueKeys'
    BY <1>2 DEF IInv, UniqueKeys
  <2>3. run' \in [Ids -> Rows]
    BY <1>2 DEF IInv, Typed
  <2> USE DEF k
  <2> QED BY <1>0, <1>2, <2>1, <2>2, <2>3, AnswerKeeps
<1>3. ASSUME With(k, {"committed"}) = {}, With(k, {"open"}) = {}, UNCHANGED got,
             NEW i \in Fresh,
             run' = [run EXCEPT ![i] = [state |-> IF atomic THEN "open" ELSE "committed",
                                        key |-> k, roots |-> FALSE]],
             at' = [at EXCEPT ![w].pc = "enqueue", ![w].id = i]
      PROVE  IInv'
  <2>1. i \in Ids /\ run[i].state = "unused"
    BY <1>3 DEF Fresh
  <2>2. \A j \in Ids : run[j].state \in {"open", "committed"} /\ k # None => run[j].key # k
    BY <1>3 DEF With
  <2> HIDE DEF k
  <2>3. Typed'
    <3>1. run' \in [Ids -> Rows]
      BY <1>1, <1>3, <2>1 DEF IInv, Typed, Rows, States
    <3>2. at' \in [Workers -> [pc : {"idle", "start", "enqueue", "commit"}, jobs : Seq(Ticks),
                              n : Nat \ {0}, id : Ids \cup {None}]]
      BY <1>3, <2>1 DEF IInv, Typed
    <3> QED BY <1>0, <1>3, <3>1, <3>2 DEF IInv, Typed
  <2>4. /\ \A j \in Ids \ {i} : run'[j] = run[j]
        /\ run'[i].key = k /\ run'[i].state \in {"open", "committed"}
        /\ ~atomic => run'[i].state = "committed"
    BY <1>3, <2>1 DEF IInv, Typed
  <2>5. UniqueKeys'
    BY <2>2, <2>4 DEF IInv, UniqueKeys
  <2>6. Holders'
    <3> SUFFICES ASSUME NEW v \in Workers, at'[v].pc \in Working
                 PROVE  /\ at'[v].n \in DOMAIN at'[v].jobs
                        /\ at'[v].id \in Ids
                        /\ run'[at'[v].id].state # "unused" /\ run'[at'[v].id].key = Key(Tick(v))'
                        /\ ~atomic' => run'[at'[v].id].state # "open"
      BY DEF Holders
    <3>1. at'[v].jobs = at[v].jobs /\ at'[v].n = at[v].n
      BY <1>3 DEF IInv, Typed
    <3>2. Key(Tick(v))' = Key(Tick(v))
      BY <1>0, <3>1 DEF Key, Tick
    <3>3. CASE v = w
      <4>1. at'[v].id = i
        BY <1>3, <3>3 DEF IInv, Typed
      <4> QED BY <1>0, <2>1, <2>4, <3>1, <3>2, <3>3, <4>1 DEF k
    <3>4. CASE v # w
      <4>1. at'[v] = at[v]
        BY <1>3, <3>4 DEF IInv, Typed
      <4>2. at[v].id # i
        BY <2>1, <4>1 DEF IInv, Holders
      <4> QED BY <1>0, <2>4, <3>2, <4>1, <4>2 DEF IInv, Holders
    <3> QED BY <3>3, <3>4
  <2>7. Returned'
    <3> SUFFICES ASSUME NEW t \in Ticks, NEW j \in got[t]
                 PROVE  run'[j].state \in {"committed", "gone"} /\ run'[j].key = Key(t)'
      BY <1>3 DEF Returned
    <3>1. j \in Ids /\ run[j].state \in {"committed", "gone"} /\ run[j].key = Key(t)
      BY DEF IInv, Typed, Returned
    <3>2. Key(t)' = Key(t)
      BY <1>0 DEF Key
    <3> QED BY <2>1, <2>4, <3>1, <3>2
  <2> QED BY <2>3, <2>5, <2>6, <2>7 DEF IInv
<1> QED BY <1>2, <1>3 DEF CreateWorkflow, Insert, InsertUnseen

\* The rows of others do not change, nor any key; a run is enqueued, rolled back
\* or committed.
Advances(w) ==
  /\ UNCHANGED <<payload, atomic>>
  /\ run' \in [Ids -> Rows]
  /\ \A j \in Ids \ {at[w].id} : run'[j] = run[j]
  /\ run'[at[w].id].key = run[at[w].id].key
  /\ run'[at[w].id].state \in {run[at[w].id].state, "gone"}
       \/ (run[at[w].id].state = "open" /\ run'[at[w].id].state = "committed")

LEMMA AdvancesKeeps ==
  ASSUME Instance, IInv, NEW w \in Workers, at[w].pc \in Working, Advances(w)
  PROVE  /\ at[w].id \in Ids /\ at[w].n \in DOMAIN at[w].jobs
         /\ UniqueKeys'
         /\ \A j \in Ids : run[j].state # "unused" =>
              run'[j].key = run[j].key /\ run'[j].state # "unused"
         /\ \A j \in Ids : run[j].state # "open" /\ run[j].state # "unused" => run'[j].state # "open"
         /\ run'[at[w].id].key = Key(Tick(w))
PROOF
<1>1. /\ at[w].id \in Ids /\ at[w].n \in DOMAIN at[w].jobs
      /\ run[at[w].id].state # "unused" /\ run[at[w].id].key = Key(Tick(w))
  BY DEF IInv, Holders
<1>2. \A j \in Ids : /\ run'[j].key = run[j].key
                     /\ run'[j].state \in {"open", "committed"} =>
                          run[j].state \in {"open", "committed"}
  BY <1>1 DEF Advances, IInv, Typed, Rows, States
<1>3. UniqueKeys'
  BY <1>2 DEF IInv, UniqueKeys
<1> QED BY <1>1, <1>2, <1>3 DEF Advances

LEMMA EnqueueKeeps ==
  ASSUME Instance, IInv, NEW w \in Workers, EnqueueRoots(w)
  PROVE  IInv'
PROOF
<1>1. at[w].pc \in Working /\ UNCHANGED <<payload, atomic>> /\ at[w].pc = "enqueue"
  BY DEF EnqueueRoots, Working, fixed
<1>2. at[w].id \in Ids /\ run[at[w].id] \in Rows
  BY <1>1 DEF IInv, Holders, Typed
<1>3. Advances(w)
  <2>1. CASE run' = [run EXCEPT ![at[w].id].roots = TRUE]
    BY <1>1, <1>2, <2>1 DEF Advances, IInv, Typed, Rows
  <2>2. CASE run' = run
    BY <1>1, <1>2, <2>2 DEF Advances, IInv, Typed
  <2>3. CASE run' = [run EXCEPT ![at[w].id].state = "gone"]
    BY <1>1, <1>2, <2>3 DEF Advances, IInv, Typed, Rows, States
  <2> QED BY <2>1, <2>2, <2>3 DEF EnqueueRoots
<1>4. CASE ~atomic
  <2>1. Answer(w, at[w].id)
    BY <1>4 DEF EnqueueRoots
  <2>2. run'[at[w].id].state \in {"committed", "gone"}
    BY <1>1, <1>2, <1>3, <1>4 DEF IInv, Holders, Advances, Rows, States
  <2>3. run' \in [Ids -> Rows]
    BY <1>3 DEF Advances
  <2> QED BY <1>1, <1>2, <1>3, <2>1, <2>2, <2>3, AdvancesKeeps, AnswerKeeps
<1>5. CASE atomic
  <2>1. at' = [at EXCEPT ![w].pc = "commit"] /\ UNCHANGED got
    BY <1>5 DEF EnqueueRoots
  <2>2. Typed'
    <3>1. at' \in [Workers -> [pc : {"idle", "start", "enqueue", "commit"}, jobs : Seq(Ticks),
                              n : Nat \ {0}, id : Ids \cup {None}]]
      BY <2>1 DEF IInv, Typed
    <3> QED BY <1>1, <1>3, <2>1, <3>1 DEF IInv, Typed, Advances
  <2>3. Holders'
    <3> SUFFICES ASSUME NEW v \in Workers, at'[v].pc \in Working
                 PROVE  /\ at'[v].n \in DOMAIN at'[v].jobs
                        /\ at'[v].id \in Ids
                        /\ run'[at'[v].id].state # "unused" /\ run'[at'[v].id].key = Key(Tick(v))'
      BY <1>1, <1>5 DEF Holders
    <3>1. at'[v].jobs = at[v].jobs /\ at'[v].n = at[v].n /\ at'[v].id = at[v].id
          /\ at[v].pc \in Working
      BY <1>1, <2>1 DEF IInv, Typed
    <3>2. Key(Tick(v))' = Key(Tick(v))
      BY <1>1, <3>1 DEF Key, Tick
    <3> QED BY <1>1, <1>3, <3>1, <3>2, AdvancesKeeps DEF IInv, Holders
  <2>4. Returned'
    <3>1. \A t \in Ticks : Key(t)' = Key(t)
      BY <1>1 DEF Key
    <3>2. \A j \in Ids : run[j].state \in {"committed", "gone"} =>
             run'[j].state \in {"committed", "gone"} /\ run'[j].key = run[j].key
      BY <1>1, <1>3, AdvancesKeeps DEF Advances, Rows, States
    <3>3. \A t \in Ticks : got[t] \subseteq Ids
      BY DEF IInv, Typed
    <3> QED BY <2>1, <3>1, <3>2, <3>3 DEF IInv, Returned
  <2> QED BY <1>1, <1>3, <2>2, <2>3, <2>4, AdvancesKeeps DEF IInv
<1> QED BY <1>4, <1>5

LEMMA CommitKeeps ==
  ASSUME Instance, IInv, NEW w \in Workers, Commit(w)
  PROVE  IInv'
PROOF
<1>1. at[w].pc \in Working /\ UNCHANGED <<payload, atomic>> /\ Answer(w, at[w].id)
  BY DEF Commit, Working, fixed
<1>2. at[w].id \in Ids /\ run[at[w].id] \in Rows /\ run[at[w].id].state # "unused"
  BY <1>1 DEF IInv, Holders, Typed
<1>3. Advances(w) /\ run'[at[w].id].state \in {"committed", "gone"}
  <2>1. CASE run[at[w].id].state = "open"
    <3>1. run' = [run EXCEPT ![at[w].id].state = "committed"]
      BY <2>1 DEF Commit
    <3> QED BY <1>1, <1>2, <2>1, <3>1 DEF Advances, IInv, Typed, Rows, States
  <2>2. CASE run[at[w].id].state # "open"
    <3>1. run' = run
      BY <2>2 DEF Commit
    <3> QED BY <1>1, <1>2, <2>2, <3>1 DEF Advances, IInv, Typed, Rows, States
  <2> QED BY <2>1, <2>2
<1>4. run' \in [Ids -> Rows]
  BY <1>3 DEF Advances
<1> QED BY <1>1, <1>2, <1>3, <1>4, AdvancesKeeps, AnswerKeeps

\* A fetch, the end of a batch, and its death: the worker is no longer, or not yet,
\* at work on a run; an open one is rolled back.
LEMMA BatchKeeps ==
  ASSUME Instance, IInv, NEW w \in Workers, UNCHANGED <<payload, atomic, got>>,
         NEW b, at' = [at EXCEPT ![w] = b],
         b \in [pc : {"idle", "start"}, jobs : Seq(Ticks), n : Nat \ {0}, id : Ids \cup {None}],
         run' = [i \in Ids |-> IF i = at[w].id /\ run[i].state = "open"
                                 THEN [run[i] EXCEPT !.state = "gone"] ELSE run[i]]
                \/ UNCHANGED run
  PROVE  IInv'
PROOF
<1>1. /\ run' \in [Ids -> Rows]
      /\ \A j \in Ids : /\ run'[j].key = run[j].key
                        /\ run'[j].state \in {run[j].state, "gone"}
                        /\ run[j].state # "open" => run'[j] = run[j]
  <2>1. CASE UNCHANGED run
    BY <2>1 DEF IInv, Typed
  <2>2. CASE run' = [i \in Ids |-> IF i = at[w].id /\ run[i].state = "open"
                                    THEN [run[i] EXCEPT !.state = "gone"] ELSE run[i]]
    <3>1. ASSUME NEW j \in Ids
          PROVE  /\ run'[j] \in Rows
                 /\ run'[j].key = run[j].key
                 /\ run'[j].state \in {run[j].state, "gone"}
                 /\ run[j].state # "open" => run'[j] = run[j]
      <4>1. run[j] \in Rows
        BY DEF IInv, Typed
      <4>2. run'[j] \in {run[j], [run[j] EXCEPT !.state = "gone"]}
        BY <2>2
      <4>3. run[j].state # "open" => run'[j] = run[j]
        BY <2>2
      <4> QED BY <4>1, <4>2, <4>3 DEF Rows, States
    <3> QED BY <2>2, <3>1
  <2> QED BY <2>1, <2>2
<1>2. Typed'
  <2>1. at' \in [Workers -> [pc : {"idle", "start", "enqueue", "commit"}, jobs : Seq(Ticks),
                            n : Nat \ {0}, id : Ids \cup {None}]]
    BY DEF IInv, Typed
  <2> QED BY <1>1, <2>1 DEF IInv, Typed
<1>3. UniqueKeys'
  BY <1>1 DEF IInv, UniqueKeys
<1>4. Holders'
  <2> SUFFICES ASSUME NEW v \in Workers, at'[v].pc \in Working
               PROVE  /\ at'[v].n \in DOMAIN at'[v].jobs
                      /\ at'[v].id \in Ids
                      /\ run'[at'[v].id].state # "unused" /\ run'[at'[v].id].key = Key(Tick(v))'
                      /\ ~atomic' => run'[at'[v].id].state # "open"
    BY DEF Holders
  <2>1. v # w /\ at'[v] = at[v]
    BY DEF IInv, Typed, Working
  <2>2. Key(Tick(v))' = Key(Tick(v))
    BY <2>1 DEF Key, Tick
  <2> QED BY <1>1, <2>1, <2>2 DEF IInv, Holders
<1>5. Returned'
  <2>1. \A t \in Ticks : Key(t)' = Key(t) /\ got[t] \subseteq Ids
    BY DEF Key, IInv, Typed
  <2> QED BY <1>1, <2>1 DEF IInv, Returned
<1> QED BY <1>2, <1>3, <1>4, <1>5 DEF IInv

LEMMA IdleType ==
  Idle \in [pc : {"idle", "start"}, jobs : Seq(Ticks), n : Nat \ {0}, id : Ids \cup {None}]
PROOF BY DEF Idle

LEMMA LoadType ==
  ASSUME NEW r \in [pc : {"idle", "start"}, jobs : Seq(Ticks), n : Nat \ {0}, id : Ids \cup {None}],
         NEW s \in Seq(Ticks)
  PROVE  [r EXCEPT !.pc = "start", !.jobs = s] \in
           [pc : {"idle", "start"}, jobs : Seq(Ticks), n : Nat \ {0}, id : Ids \cup {None}]
PROOF OBVIOUS

LEMMA FetchKeeps ==
  ASSUME Instance, IInv, NEW w \in Workers, Fetch(w)
  PROVE  IInv'
PROOF
<1>0. PICK B \in SUBSET Queued : \E s \in [1..Cardinality(B) -> B] :
        at' = [at EXCEPT ![w] = [Idle EXCEPT !.pc = "start", !.jobs = s]]
  BY DEF Fetch
<1>1. PICK s \in [1..Cardinality(B) -> B] :
        at' = [at EXCEPT ![w] = [Idle EXCEPT !.pc = "start", !.jobs = s]]
  BY <1>0
<1>2. IsFiniteSet(B) /\ B \subseteq Ticks
  <2>1. IsFiniteSet(Ticks)
    BY FS_Interval DEF Instance, Ticks
  <2> QED BY <2>1, FS_Subset DEF Queued
<1>3. Cardinality(B) \in Nat
  BY <1>2, FS_CardinalityType
<1>4. s \in Seq(Ticks)
  BY <1>2, <1>3
<1>5. [Idle EXCEPT !.pc = "start", !.jobs = s] \in
        [pc : {"idle", "start"}, jobs : Seq(Ticks), n : Nat \ {0}, id : Ids \cup {None}]
  BY <1>4, IdleType, LoadType
<1> QED BY <1>1, <1>5, BatchKeeps DEF Fetch, fixed

\* Whatever happens, the four parts of the invariant are kept.
LEMMA NextKeeps == ASSUME Instance, IInv, [Next]_vars PROVE IInv'
PROOF
<1>1. CASE UNCHANGED vars
  BY <1>1 DEF vars, IInv, Typed, UniqueKeys, Holders, Returned, Key, Tick
<1>2. ASSUME NEW t \in Ticks, CronFires(t) PROVE IInv'
  BY <1>2 DEF CronFires, fixed, IInv, Typed, UniqueKeys, Holders, Returned, Key, Tick
<1>3. ASSUME NEW w \in Workers, EndBatch(w) PROVE IInv'
  BY <1>3, IdleType, BatchKeeps DEF EndBatch, fixed
<1>4. ASSUME NEW w \in Workers, Fail(w) PROVE IInv'
  BY <1>4, IdleType, BatchKeeps DEF Fail, fixed
<1>5. ASSUME NEW w \in Workers, Expire(w) PROVE IInv'
  BY <1>5 DEF Expire, fixed, IInv, Typed, UniqueKeys, Holders, Returned, Key, Tick
<1> QED BY <1>1, <1>2, <1>3, <1>4, <1>5, FetchKeeps, CreateKeeps, EnqueueKeeps, CommitKeeps DEF Next

LEMMA InitHolds == ASSUME Instance, Init PROVE IInv
PROOF
<1>1. PICK c \in Cases : payload = c.payload
  BY DEF Init
<1>2. Unused \in Rows
  BY DEF Unused, Rows, States, KeyValues
<1>3. Typed
  BY <1>1, <1>2, IdleType DEF Init, Instance, Typed
<1>4. Holders /\ Returned /\ UniqueKeys
  BY DEF Init, Holders, Returned, UniqueKeys, Idle, Working, Unused
<1> QED BY <1>3, <1>4 DEF IInv

\* Any two of them equal: at most one.
LEMMA AtMostOne ==
  ASSUME NEW S, \A i, j \in S : i = j
  PROVE  Cardinality(S) <= 1
PROOF
<1>1. CASE S = {}
  BY <1>1, FS_EmptySet
<1>2. CASE S # {}
  <2>1. PICK i \in S : TRUE
    BY <1>2
  <2>2. S = {i}
    BY <2>1
  <2>3. Cardinality({i}) = 1
    BY FS_Singleton
  <2> QED BY <2>2, <2>3
<1> QED BY <1>1, <1>2

LEMMA OneRun == ASSUME Instance, IInv PROVE OneRunPerKey
PROOF
<1>1. \A t \in Ticks : \A i \in Kept(t) :
        i \in Ids /\ run[i].state = "committed" /\ run[i].key = Key(t)
  BY DEF IInv, Typed, Returned, Kept
<1>2. \A t \in Ticks : t \in Nat /\ t # 0
  BY DEF Ticks, Instance
<1>3. payload.key \/ payload.prefix => \A t \in Ticks : Key(t) # None
  BY <1>2 DEF Key, Instance
<1>4. ASSUME payload.key \/ payload.prefix, NEW t \in Ticks PROVE Cardinality(Kept(t)) <= 1
  <2>1. \A i, j \in Kept(t) : i = j
    BY <1>1, <1>3, <1>4 DEF IInv, UniqueKeys
  <2> QED BY <2>1, AtMostOne
<1>5. ASSUME payload.key PROVE Cardinality(UNION {Kept(t) : t \in Ticks}) <= 1
  <2>1. \A t \in Ticks : Key(t) = 0
    BY <1>5 DEF Key
  <2>2. \A i, j \in UNION {Kept(t) : t \in Ticks} : i = j
    BY <1>1, <1>3, <1>5, <2>1 DEF IInv, UniqueKeys
  <2> QED BY <2>2, AtMostOne
<1>6. ASSUME payload.prefix, ~payload.key, NEW t \in Ticks, NEW u \in Ticks, t # u
      PROVE  Kept(t) \cap Kept(u) = {}
  <2>1. Key(t) = t /\ Key(u) = u
    BY <1>6 DEF Key
  <2> QED BY <1>1, <1>6, <2>1
<1> QED BY <1>4, <1>5, <1>6 DEF OneRunPerKey

\* However often a start job is redelivered and to whichever worker, and whatever
\* rolls back, a key has one run (store.ts, createWorkflow; payload.ts,
\* resolveStartIdempotencyKey).
THEOREM OneRunForAKey == ASSUME Instance PROVE Spec => []OneRunPerKey
PROOF
<1>1. Init => IInv
  BY InitHolds
<1>2. IInv /\ [Next]_vars => IInv'
  BY NextKeeps
<1>3. IInv => OneRunPerKey
  BY OneRun
<1> QED BY <1>1, <1>2, <1>3, PTL DEF Spec

=============================================================================
