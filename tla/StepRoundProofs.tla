-------------------------- MODULE StepRoundProofs ---------------------------
(* Proofs about StepRound, and about ClusterTurn which composes it with the  *)
(* servers, for any number of workers, servers, tasks, clients and calls.    *)
EXTENDS ClusterTurn, FiniteSetTheorems, TLAPS

-----------------------------------------------------------------------------
(* Type correctness                                                          *)

\* Every step of the leader, of a worker's Step handler and of the
\* environment keeps the variables within their types.
LEMMA TypeStep == TypeOK /\ [Next]_vars => TypeOK'
<1> SUFFICES ASSUME TypeOK, [Next]_vars PROVE TypeOK'
  OBVIOUS
<1> USE DEF TypeOK, leaderVars, workerVars, historyVars, TaskStates, JobStates
<1>1. ASSUME NEW t \in Tasks, Stepper(t) PROVE TypeOK'
  <2>1. CASE BeginStep(t)      BY <2>1 DEF BeginStep
  <2>2. CASE BroadcastStep(t)  BY <2>2 DEF BroadcastStep
  <2>3. CASE IncrementClock(t) BY <2>3 DEF IncrementClock
  <2>4. ASSUME NEW w \in Workers, IsBlocking(t, w) PROVE TypeOK'
    BY <2>4 DEF IsBlocking
  <2>5. ASSUME NEW w \in Workers, CallFails(t, w) PROVE TypeOK'
    BY <2>5 DEF CallFails
  <2>6. ASSUME NEW w \in Workers, StepReturns(t, w) PROVE TypeOK'
    BY <2>6 DEF StepReturns
  <2> QED BY <1>1, <2>1, <2>2, <2>3, <2>4, <2>5, <2>6 DEF Stepper
<1>2. ASSUME NEW t \in Tasks, NEW w \in Workers, Handler(t, w) PROVE TypeOK'
  <2>1. CASE ReadClock(t, w)     BY <2>1 DEF ReadClock
  <2>2. CASE SetClock(t, w)      BY <2>2 DEF SetClock
  <2>3. ASSUME NEW s \in Servers, NotifyServer(t, w, s) PROVE TypeOK'
    BY <2>3 DEF NotifyServer
  <2>4. CASE RunBehaviors(t, w)  BY <2>4 DEF RunBehaviors
  <2>5. CASE BehaviorsDone(t, w) BY <2>5 DEF BehaviorsDone
  <2> QED BY <1>2, <2>1, <2>2, <2>3, <2>4, <2>5 DEF Handler
<1>3. ASSUME NEW w \in Workers, AddWorker(w) PROVE TypeOK'
  BY <1>3 DEF AddWorker
<1>4. ASSUME NEW w \in Workers, RemoveWorker(w) PROVE TypeOK'
  BY <1>4 DEF RemoveWorker
<1>5. ASSUME NEW w \in Workers, LoseWorker(w) PROVE TypeOK'
  BY <1>5 DEF LoseWorker
<1>6. ASSUME NEW w \in Workers, Initialize(w) PROVE TypeOK'
  BY <1>6 DEF Initialize
<1>7. ASSUME NEW w \in Workers, NEW b \in BOOLEAN, SetBlocking(w, b)
      PROVE  TypeOK'
  BY <1>7 DEF SetBlocking
<1>8. ASSUME NEW w \in Workers, NEW s \in Servers, InsertServer(w, s)
      PROVE  TypeOK'
  BY <1>8 DEF InsertServer
<1>9. ASSUME NEW n \in Snapshots, LoadSnapshot(n) PROVE TypeOK'
  BY <1>9, BoundsAssumption DEF LoadSnapshot
<1>10. CASE UNCHANGED vars
  BY <1>10 DEF vars
<1> QED
  BY <1>1, <1>2, <1>3, <1>4, <1>5, <1>6, <1>7, <1>8, <1>9, <1>10
  DEF Next, Environment

\* The state of the leader and of the workers is well typed in every
\* reachable state.
THEOREM TypeCorrect == Spec => []TypeOK
<1>1. Init => TypeOK
  BY DEF Init, TypeOK, TaskStates, JobStates
<1> QED BY <1>1, TypeStep, PTL DEF Spec

-----------------------------------------------------------------------------
(* A blocked worker is overrun by at most one step per task                  *)

\* The inductive strengthening of OverrunBound: a task that still holds w's
\* answer to IsBlocking has not stepped w since w was marked blocked.
OverrunInv ==
  \A t \in Tasks, w \in Workers : blocked_watch[w] =>
    /\ overrun[t][w] <= 1
    /\ pc[t] = "barrier" /\ w \in (snap[t] \ awaited[t]) \intersect reach
         => overrun[t][w] = 0

\* Every step preserves it: only SetBlocking marks a worker, and it restarts
\* the count; only BroadcastStep adds to the count, and it uses the answer up.
LEMMA OverrunStep == TypeOK /\ OverrunInv /\ [Next]_vars => OverrunInv'
<1> SUFFICES ASSUME TypeOK, OverrunInv, [Next]_vars,
                    NEW u \in Tasks, NEW v \in Workers, blocked_watch'[v]
             PROVE  /\ overrun'[u][v] <= 1
                    /\ pc'[u] = "barrier" /\
                       v \in (snap'[u] \ awaited'[u]) \intersect reach'
                         => overrun'[u][v] = 0
  BY DEF OverrunInv
<1> DEFINE Goal == /\ overrun'[u][v] <= 1
                   /\ pc'[u] = "barrier" /\
                      v \in (snap'[u] \ awaited'[u]) \intersect reach'
                        => overrun'[u][v] = 0
<1> USE DEF TypeOK, OverrunInv, leaderVars, workerVars, historyVars
<1>1. ASSUME NEW t \in Tasks, Stepper(t) PROVE Goal
  <2>1. CASE BeginStep(t)      BY <2>1 DEF BeginStep
  <2>2. CASE BroadcastStep(t)
    <3>1. CASE u = t
      <4>1. overrun'[t][v] = IF v \in snap[t] \intersect reach /\ blocked_watch[v]
                               THEN overrun[t][v] + 1 ELSE overrun[t][v]
        BY <2>2 DEF BroadcastStep
      <4>2. blocked_watch[v] /\ pc[t] = "barrier" /\ awaited[t] = {}
        BY <2>2 DEF BroadcastStep
      <4>3. pc'[t] = "stepping"
        BY <2>2 DEF BroadcastStep
      <4>4. overrun[t][v] \in Nat /\ overrun[t][v] <= 1
        BY <4>2
      <4>5. v \in snap[t] \intersect reach => overrun[t][v] = 0
        BY <4>2
      <4> QED BY <3>1, <4>1, <4>3, <4>4, <4>5
    <3>2. CASE u # t           BY <2>2, <3>2 DEF BroadcastStep
    <3> QED BY <3>1, <3>2
  <2>3. CASE IncrementClock(t) BY <2>3 DEF IncrementClock
  <2>4. ASSUME NEW w \in Workers, IsBlocking(t, w) PROVE Goal
    BY <2>4 DEF IsBlocking
  <2>5. ASSUME NEW w \in Workers, CallFails(t, w) PROVE Goal
    BY <2>5 DEF CallFails
  <2>6. ASSUME NEW w \in Workers, StepReturns(t, w) PROVE Goal
    BY <2>6 DEF StepReturns
  <2> QED BY <1>1, <2>1, <2>2, <2>3, <2>4, <2>5, <2>6 DEF Stepper
<1>2. ASSUME NEW t \in Tasks, NEW w \in Workers, Handler(t, w) PROVE Goal
  BY <1>2 DEF Handler, ReadClock, SetClock, NotifyServer, RunBehaviors,
              BehaviorsDone
<1>3. ASSUME NEW w \in Workers,
             AddWorker(w) \/ RemoveWorker(w) \/ LoseWorker(w) \/ Initialize(w)
      PROVE  Goal
  BY <1>3 DEF AddWorker, RemoveWorker, LoseWorker, Initialize
<1>4. ASSUME NEW w \in Workers, NEW b \in BOOLEAN, SetBlocking(w, b)
      PROVE  Goal
  <2>1. CASE w = v BY <1>4, <2>1 DEF SetBlocking
  <2>2. CASE w # v BY <1>4, <2>2 DEF SetBlocking
  <2> QED BY <2>1, <2>2
<1>5. ASSUME NEW w \in Workers, NEW s \in Servers, InsertServer(w, s)
      PROVE  Goal
  BY <1>5 DEF InsertServer
<1>6. ASSUME NEW n \in Snapshots, LoadSnapshot(n) PROVE Goal
  BY <1>6 DEF LoadSnapshot
<1>7. CASE UNCHANGED vars
  BY <1>7 DEF vars
<1> QED
  BY <1>1, <1>2, <1>3, <1>4, <1>5, <1>6, <1>7 DEF Next, Environment

\* From the moment a worker is marked blocked, no task of the leader sends it
\* more than one further Step request, however many tasks step the cluster.
THEOREM OverrunBounded == Spec => []OverrunBound
<1>1. Init => OverrunInv
  BY DEF Init, OverrunInv
<1>2. OverrunInv => OverrunBound
  BY DEF OverrunInv, OverrunBound
<1> QED BY <1>1, <1>2, OverrunStep, TypeCorrect, PTL DEF Spec

-----------------------------------------------------------------------------
(* The rounds of one task                                                    *)

\* What a task knows of its round: it waits only for workers it engaged, and
\* the Step handler of a reachable worker exists exactly while the worker is
\* engaged, and is over once the leader has its answer.
RoundInv(t) ==
  /\ awaited[t] \subseteq snap[t]
  /\ pc[t] # "idle" => snap[t] # {}
  /\ \A w \in reach :
       IF pc[t] = "stepping" /\ w \in snap[t]
         THEN job[t][w] # "none" /\ (w \notin awaited[t] => job[t][w] = "done")
         ELSE job[t][w] = "none"

\* Every step preserves it, whichever other tasks step the cluster: the
\* handlers, the snapshot and the awaited answers of a round are its own.
LEMMA RoundStep ==
  ASSUME NEW u \in Tasks, TypeOK, RoundInv(u), [Next]_vars
  PROVE  RoundInv(u)'
<1> USE DEF TypeOK, RoundInv, leaderVars, workerVars, historyVars
<1>1. ASSUME NEW t \in Tasks, Stepper(t) PROVE RoundInv(u)'
  <2>1. CASE BeginStep(t)      BY <2>1 DEF BeginStep
  <2>2. CASE BroadcastStep(t)  BY <2>2 DEF BroadcastStep
  <2>3. CASE IncrementClock(t) BY <2>3 DEF IncrementClock
  <2>4. ASSUME NEW w \in Workers, IsBlocking(t, w) PROVE RoundInv(u)'
    BY <2>4 DEF IsBlocking
  <2>5. ASSUME NEW w \in Workers, CallFails(t, w) PROVE RoundInv(u)'
    BY <2>5 DEF CallFails
  <2>6. ASSUME NEW w \in Workers, StepReturns(t, w) PROVE RoundInv(u)'
    BY <2>6 DEF StepReturns
  <2> QED BY <1>1, <2>1, <2>2, <2>3, <2>4, <2>5, <2>6 DEF Stepper
<1>2. ASSUME NEW t \in Tasks, NEW w \in Workers, Handler(t, w)
      PROVE  RoundInv(u)'
  <2>1. CASE ReadClock(t, w)     BY <2>1 DEF ReadClock
  <2>2. CASE SetClock(t, w)      BY <2>2 DEF SetClock
  <2>3. ASSUME NEW s \in Servers, NotifyServer(t, w, s) PROVE RoundInv(u)'
    BY <2>3 DEF NotifyServer
  <2>4. CASE RunBehaviors(t, w)  BY <2>4 DEF RunBehaviors
  <2>5. CASE BehaviorsDone(t, w) BY <2>5 DEF BehaviorsDone
  <2> QED BY <1>2, <2>1, <2>2, <2>3, <2>4, <2>5 DEF Handler
<1>3. ASSUME NEW w \in Workers,
             AddWorker(w) \/ RemoveWorker(w) \/ LoseWorker(w) \/ Initialize(w)
      PROVE  RoundInv(u)'
  BY <1>3 DEF AddWorker, RemoveWorker, LoseWorker, Initialize
<1>4. ASSUME NEW w \in Workers, NEW b \in BOOLEAN, SetBlocking(w, b)
      PROVE  RoundInv(u)'
  BY <1>4 DEF SetBlocking
<1>5. ASSUME NEW w \in Workers, NEW s \in Servers, InsertServer(w, s)
      PROVE  RoundInv(u)'
  BY <1>5 DEF InsertServer
<1>6. ASSUME NEW n \in Snapshots, LoadSnapshot(n) PROVE RoundInv(u)'
  BY <1>6 DEF LoadSnapshot
<1>7. CASE UNCHANGED vars
  BY <1>7 DEF vars
<1> QED
  BY <1>1, <1>2, <1>3, <1>4, <1>5, <1>6, <1>7 DEF Next, Environment

\* A Step handler about to store the clock holds its current value, and the
\* clocks are aligned as LockStepClocks has it.
ClockInv(t) ==
  /\ \A w \in Workers \ disturbed :
       job[t][w] = "write" => cur[t][w] = clock_watch[w]
  /\ \A w \in reach \ disturbed :
       clock_watch[w] + lag[w] = leaderClock + IF Moved(t, w) THEN 1 ELSE 0

\* With a single task every step preserves it: no second Step handler can
\* store a clock between ReadClock and SetClock.
LEMMA ClockStep ==
  ASSUME NEW u, Tasks = {u}, TypeOK, RoundInv(u), ClockInv(u), [Next]_vars
  PROVE  ClockInv(u)'
<1> USE DEF TypeOK, RoundInv, ClockInv, Moved, leaderVars, workerVars,
            historyVars
<1>1. ASSUME NEW t \in Tasks, Stepper(t) PROVE ClockInv(u)'
  <2>1. CASE BeginStep(t)      BY <2>1 DEF BeginStep
  <2>2. CASE BroadcastStep(t)  BY <2>2 DEF BroadcastStep
  <2>3. CASE IncrementClock(t) BY <2>3 DEF IncrementClock
  <2>4. ASSUME NEW w \in Workers, IsBlocking(t, w) PROVE ClockInv(u)'
    BY <2>4 DEF IsBlocking
  <2>5. ASSUME NEW w \in Workers, CallFails(t, w) PROVE ClockInv(u)'
    BY <2>5 DEF CallFails
  <2>6. ASSUME NEW w \in Workers, StepReturns(t, w) PROVE ClockInv(u)'
    BY <2>6 DEF StepReturns
  <2> QED BY <1>1, <2>1, <2>2, <2>3, <2>4, <2>5, <2>6 DEF Stepper
<1>2. ASSUME NEW t \in Tasks, NEW w \in Workers, Handler(t, w)
      PROVE  ClockInv(u)'
  <2>1. CASE ReadClock(t, w)     BY <2>1 DEF ReadClock
  <2>2. CASE SetClock(t, w)      BY <2>2 DEF SetClock
  <2>3. ASSUME NEW s \in Servers, NotifyServer(t, w, s) PROVE ClockInv(u)'
    BY <2>3 DEF NotifyServer
  <2>4. CASE RunBehaviors(t, w)  BY <2>4 DEF RunBehaviors
  <2>5. CASE BehaviorsDone(t, w) BY <2>5 DEF BehaviorsDone
  <2> QED BY <1>2, <2>1, <2>2, <2>3, <2>4, <2>5 DEF Handler
<1>3. ASSUME NEW w \in Workers, AddWorker(w) \/ RemoveWorker(w) \/ LoseWorker(w)
      PROVE  ClockInv(u)'
  BY <1>3 DEF AddWorker, RemoveWorker, LoseWorker
<1>4. ASSUME NEW w \in Workers, Initialize(w) PROVE ClockInv(u)'
  BY <1>4 DEF Initialize
<1>5. ASSUME NEW w \in Workers, NEW b \in BOOLEAN, SetBlocking(w, b)
      PROVE  ClockInv(u)'
  BY <1>5 DEF SetBlocking
<1>6. ASSUME NEW w \in Workers, NEW s \in Servers, InsertServer(w, s)
      PROVE  ClockInv(u)'
  BY <1>6 DEF InsertServer
<1>7. ASSUME NEW n \in Snapshots, LoadSnapshot(n) PROVE ClockInv(u)'
  BY <1>7 DEF LoadSnapshot
<1>8. CASE UNCHANGED vars
  BY <1>8 DEF vars
<1> QED
  BY <1>1, <1>2, <1>3, <1>4, <1>5, <1>6, <1>7, <1>8 DEF Next, Environment

\* The three invariants hold together in every reachable state.
LEMMA RoundsOfOneTask ==
  ASSUME NEW u, Tasks = {u}
  PROVE  Spec => [](TypeOK /\ RoundInv(u) /\ ClockInv(u))
<1>1. Init => TypeOK /\ RoundInv(u) /\ ClockInv(u)
  BY DEF Init, TypeOK, TaskStates, JobStates, RoundInv, ClockInv, Moved
<1>2. TypeOK /\ RoundInv(u) /\ ClockInv(u) /\ [Next]_vars
        => (TypeOK /\ RoundInv(u) /\ ClockInv(u))'
  BY TypeStep, RoundStep, ClockStep
<1> QED BY <1>1, <1>2, PTL DEF Spec

\* One task stepping the cluster keeps every undisturbed worker within reach
\* exactly in step with the leader, whatever calls fail, workers join, leave
\* or block, and servers connect meanwhile.
THEOREM ClocksInLockStep ==
  ASSUME NEW u, Tasks = {u}
  PROVE  Spec => []LockStepClocks
<1>1. ClockInv(u) => LockStepClocks
  <2> SUFFICES ASSUME ClockInv(u), NEW w \in reach \ disturbed
               PROVE  clock_watch[w] + lag[w] =
                        leaderClock + Cardinality({t \in Tasks : Moved(t, w)})
    BY DEF LockStepClocks
  <2>1. CASE Moved(u, w)
    <3>1. {t \in Tasks : Moved(t, w)} = {u}
      BY <2>1
    <3> QED BY <2>1, <3>1, FS_Singleton DEF ClockInv
  <2>2. CASE ~Moved(u, w)
    <3>1. {t \in Tasks : Moved(t, w)} = {}
      BY <2>2
    <3> QED BY <2>2, <3>1, FS_EmptySet DEF ClockInv
  <2> QED BY <2>1, <2>2
<1> QED BY <1>1, RoundsOfOneTask, PTL

-----------------------------------------------------------------------------
(* Any number of tasks                                                       *)

\* Only so many rounds are ever under way at once, however many tasks there
\* are to begin one.
FewRounds == IsFiniteSet({t \in Tasks : pc[t] # "idle"})

Movers(w) == {t \in Tasks : Moved(t, w)}

\* How far the clock of w may have come.
Limit(w) == leaderClock + Cardinality(Movers(w)) - lag[w]

\* No clock is past its limit, nor will one be that a Step handler has read
\* and is about to store: by then the handler counts as moved.
AheadInv ==
  \A w \in reach \ disturbed :
    /\ clock_watch[w] <= Limit(w)
    /\ \A t \in Tasks : job[t][w] = "write" => cur[t][w] <= Limit(w)

\* A round begins or ends alone.
LEMMA FewRoundsStep == TypeOK /\ FewRounds /\ [Next]_vars => FewRounds'
<1> SUFFICES ASSUME TypeOK, FewRounds, [Next]_vars PROVE FewRounds'
  OBVIOUS
<1>1. PICK S \in SUBSET Tasks : IsFiniteSet(S) /\ {t \in Tasks : pc'[t] # "idle"} \subseteq S
  <2>1. ASSUME NEW t \in Tasks, Stepper(t)
        PROVE  {u \in Tasks : pc'[u] # "idle"} \subseteq {u \in Tasks : pc[u] # "idle"} \cup {t}
    BY <2>1 DEF Stepper, BeginStep, BroadcastStep, IncrementClock, IsBlocking, CallFails,
                StepReturns, TypeOK
  <2>2. ASSUME ~\E t \in Tasks : Stepper(t)
        PROVE  pc' = pc
    BY <2>2 DEF Next, Handler, Environment, ReadClock, SetClock, NotifyServer, RunBehaviors,
                BehaviorsDone, AddWorker, RemoveWorker, LoseWorker, Initialize, SetBlocking,
                InsertServer, LoadSnapshot, leaderVars, vars
  <2>3. \A t \in Tasks : IsFiniteSet({u \in Tasks : pc[u] # "idle"} \cup {t})
    BY FS_AddElement DEF FewRounds
  <2>4. CASE \E t \in Tasks : Stepper(t)
    <3>1. PICK t \in Tasks : Stepper(t)
      BY <2>4
    <3>2. {u \in Tasks : pc[u] # "idle"} \cup {t} \in SUBSET Tasks
      OBVIOUS
    <3> QED BY <2>1, <2>3, <3>1, <3>2
  <2>5. CASE ~\E t \in Tasks : Stepper(t)
    <3>1. {t \in Tasks : pc'[t] # "idle"} = {t \in Tasks : pc[t] # "idle"}
      BY <2>2, <2>5
    <3> QED BY <3>1 DEF FewRounds
  <2> QED BY <2>4, <2>5
<1> QED BY <1>1, FS_Subset DEF FewRounds

LEMMA MoversFinite ==
  ASSUME FewRounds, NEW w
  PROVE  IsFiniteSet(Movers(w)) /\ Cardinality(Movers(w)) \in Nat
<1>1. Movers(w) \subseteq {t \in Tasks : pc[t] # "idle"}
  BY DEF Movers, Moved
<1> QED BY <1>1, FS_Subset, FS_CardinalityType DEF FewRounds

\* The limit of a worker within reach rises by a step that is stored, and
\* never falls: a round that ends takes its mover along and is counted by the
\* leader, or by the lag of a worker it passed over.
LEMMA LimitStep ==
  ASSUME TypeOK, FewRounds, \A u \in Tasks : RoundInv(u), Next, NEW v \in reach',
         v \notin disturbed'
  PROVE  /\ Limit(v) \in Int /\ Limit(v)' \in Int
         /\ Limit(v)' >= Limit(v)
         /\ \A t \in Tasks : SetClock(t, v) => Limit(v)' = Limit(v) + 1
<1> DEFINE Kept == /\ UNCHANGED <<leaderClock, lag>>
                   /\ \A t \in Tasks : /\ Moved(t, v)' <=> Moved(t, v)
                                       /\ ~(job[t][v] = "write" /\ job'[t][v] = "notify")
           Goal == /\ Limit(v)' \in Int /\ Limit(v)' >= Limit(v)
                   /\ \A t \in Tasks : job[t][v] = "write" /\ job'[t][v] = "notify" =>
                        Limit(v)' = Limit(v) + 1
           c == Cardinality(Movers(v))
<1>0. /\ c \in Nat /\ IsFiniteSet(Movers(v)) /\ lag[v] \in Nat /\ leaderClock \in Nat
      /\ Limit(v) = leaderClock + c - lag[v] /\ v \in reach /\ v \in Workers
  <2>1. reach' \subseteq reach
    BY DEF Next, Stepper, Handler, Environment, BeginStep, BroadcastStep, IncrementClock, IsBlocking,
           CallFails, StepReturns, ReadClock, SetClock, NotifyServer, RunBehaviors, BehaviorsDone,
           AddWorker, RemoveWorker, LoseWorker, Initialize, SetBlocking, InsertServer, LoadSnapshot,
           leaderVars
  <2> QED BY <2>1, MoversFinite DEF Limit, TypeOK
<1>1. ASSUME Kept PROVE Goal
  <2>1. Movers(v)' = Movers(v)
    BY <1>1 DEF Movers
  <2> QED BY <1>0, <1>1, <2>1 DEF Limit
<1>2. \A t \in Tasks : job[t][v] # "none" => pc[t] = "stepping" /\ v \in snap[t]
  BY <1>0 DEF RoundInv
<1>3. ASSUME NEW t \in Tasks, IncrementClock(t) PROVE Goal
  <2>1. /\ leaderClock' = leaderClock + 1
        /\ lag'[v] = IF v \in snap[t] THEN lag[v] ELSE lag[v] + 1
        /\ \A u \in Tasks : job'[u][v] \in {job[u][v], "none"}
    BY <1>0, <1>3 DEF IncrementClock, TypeOK
  <2>2. Movers(v)' = Movers(v) \ {t}
    BY <1>0, <1>2, <1>3 DEF IncrementClock, Movers, Moved, TypeOK
  <2>3. v \notin snap[t] => Movers(v) \ {t} = Movers(v)
    BY DEF Movers, Moved
  <2>4. Cardinality(Movers(v) \ {t}) = IF t \in Movers(v) THEN c - 1 ELSE c
    BY <1>0, FS_RemoveElement
  <2> HIDE DEF c
  <2>5. Limit(v)' = leaderClock' + Cardinality(Movers(v) \ {t}) - lag'[v]
    BY <2>2 DEF Limit
  <2> QED BY <1>0, <2>1, <2>3, <2>4, <2>5 DEF c
<1>4. ASSUME NEW t \in Tasks, NEW w \in Workers, SetClock(t, w) PROVE Goal
  <2>1. UNCHANGED <<leaderClock, lag>>
    BY <1>4 DEF SetClock, leaderVars, historyVars
  <2>2. CASE w = v
    <3>1. Movers(v)' = Movers(v) \cup {t} /\ t \notin Movers(v)
      BY <1>2, <1>4, <2>2 DEF SetClock, Movers, Moved, TypeOK, leaderVars
    <3>2. Cardinality(Movers(v) \cup {t}) = c + 1
      BY <1>0, <3>1, FS_AddElement
    <3>3. Limit(v)' = leaderClock + (c + 1) - lag[v]
      BY <2>1, <3>1, <3>2 DEF Limit
    <3> QED BY <1>0, <3>3
  <2>3. CASE w # v
    <3>1. Kept
      BY <2>1, <1>4, <2>3 DEF SetClock, Moved, TypeOK, leaderVars
    <3> QED BY <1>1, <3>1
  <2> QED BY <2>2, <2>3
<1>5. ASSUME NEW t \in Tasks, Stepper(t), ~IncrementClock(t) PROVE Kept
  <2> USE <1>0, <1>2 DEF Moved, TypeOK, leaderVars, workerVars, historyVars
  <2>1. CASE BeginStep(t)      BY <2>1 DEF BeginStep
  <2>2. CASE BroadcastStep(t)  BY <2>2 DEF BroadcastStep
  <2>3. ASSUME NEW w \in Workers, IsBlocking(t, w) PROVE Kept
    BY <2>3 DEF IsBlocking
  <2>4. ASSUME NEW w \in Workers, CallFails(t, w) PROVE Kept
    BY <2>4 DEF CallFails
  <2>5. ASSUME NEW w \in Workers, StepReturns(t, w) PROVE Kept
    BY <2>5 DEF StepReturns
  <2> QED BY <1>5, <2>1, <2>2, <2>3, <2>4, <2>5 DEF Stepper
<1>6. ASSUME NEW t \in Tasks, NEW w \in Workers, Handler(t, w), ~SetClock(t, w) PROVE Kept
  <2> USE <1>0, <1>2 DEF Moved, TypeOK, leaderVars, workerVars, historyVars
  <2>1. CASE ReadClock(t, w)     BY <2>1 DEF ReadClock
  <2>2. ASSUME NEW s \in Servers, NotifyServer(t, w, s) PROVE Kept
    BY <2>2 DEF NotifyServer
  <2>3. CASE RunBehaviors(t, w)  BY <2>3 DEF RunBehaviors
  <2>4. CASE BehaviorsDone(t, w) BY <2>4 DEF BehaviorsDone
  <2> QED BY <1>6, <2>1, <2>2, <2>3, <2>4 DEF Handler
<1>7. ASSUME Environment PROVE Kept
  <2> USE <1>0, <1>2 DEF Moved, TypeOK, leaderVars, workerVars, historyVars
  <2>1. ASSUME NEW w \in Workers, AddWorker(w) \/ RemoveWorker(w) \/ LoseWorker(w) PROVE Kept
    BY <2>1 DEF AddWorker, RemoveWorker, LoseWorker
  <2>2. ASSUME NEW w \in Workers, Initialize(w) PROVE Kept
    BY <2>2 DEF Initialize
  <2>3. ASSUME NEW w \in Workers, NEW b \in BOOLEAN, SetBlocking(w, b) PROVE Kept
    BY <2>3 DEF SetBlocking
  <2>4. ASSUME NEW w \in Workers, NEW s \in Servers, InsertServer(w, s) PROVE Kept
    BY <2>4 DEF InsertServer
  <2>5. ASSUME NEW n \in Snapshots, LoadSnapshot(n) PROVE FALSE
    <3>1. disturbed' = Workers
      BY <2>5 DEF LoadSnapshot
    <3> QED BY <3>1
  <2> QED BY <1>7, <2>1, <2>2, <2>3, <2>4, <2>5 DEF Environment
<1>8. Goal
  BY <1>1, <1>3, <1>4, <1>5, <1>6, <1>7 DEF Next
<1>9. \A t \in Tasks : SetClock(t, v) => job[t][v] = "write" /\ job'[t][v] = "notify"
  BY <1>0 DEF SetClock, TypeOK
<1> QED BY <1>0, <1>8, <1>9 DEF Limit

\* Every step keeps the clocks within their limits: what a handler stores is
\* one more than a clock that was within it, and the limit rises by one.
LEMMA AheadStep ==
  ASSUME TypeOK, FewRounds, \A u \in Tasks : RoundInv(u), AheadInv, [Next]_vars
  PROVE  AheadInv'
<1>0. CASE UNCHANGED vars
  BY <1>0 DEF vars, leaderVars, workerVars, historyVars, AheadInv, Limit, Movers, Moved
<1>1. ASSUME Next, NEW v \in reach' \ disturbed'
      PROVE  /\ clock_watch'[v] <= Limit(v)'
             /\ \A t \in Tasks : job'[t][v] = "write" => cur'[t][v] <= Limit(v)'
  <2>0. /\ Limit(v) \in Int /\ Limit(v)' \in Int /\ Limit(v)' >= Limit(v)
        /\ \A t \in Tasks : SetClock(t, v) => Limit(v)' = Limit(v) + 1
    BY <1>1, LimitStep
  <2>1. v \in reach \ disturbed /\ v \in Workers
    BY <1>1 DEF TypeOK, Next, Stepper, Handler, Environment, BeginStep, BroadcastStep, IncrementClock,
           IsBlocking, CallFails, StepReturns, ReadClock, SetClock, NotifyServer, RunBehaviors,
           BehaviorsDone, AddWorker, RemoveWorker, LoseWorker, Initialize, SetBlocking, InsertServer,
           LoadSnapshot, leaderVars, historyVars
  <2> DEFINE k == Limit(v)
             k1 == Limit(v)'
  <2>2. /\ k \in Int /\ k1 \in Int /\ k1 >= k /\ clock_watch[v] <= k
        /\ \A t \in Tasks : SetClock(t, v) => k1 = k + 1
        /\ \A t \in Tasks : job[t][v] = "write" => cur[t][v] <= k
    BY <2>0, <2>1 DEF AheadInv
  <2> HIDE DEF k, k1
  <2> DEFINE Goal == clock_watch'[v] <= k1 /\ \A t \in Tasks : job'[t][v] = "write" => cur'[t][v] <= k1
             Kept == /\ clock_watch'[v] = clock_watch[v]
                     /\ \A t \in Tasks : job'[t][v] = "write" => job[t][v] = "write" /\ cur'[t][v] = cur[t][v]
  <2>3. clock_watch[v] \in Nat /\ \A t \in Tasks : cur[t][v] \in Nat
    BY <2>1 DEF TypeOK
  <2>4. ASSUME Kept PROVE Goal
    BY <2>2, <2>3, <2>4
  <2>5. ASSUME NEW t \in Tasks, NEW w \in Workers, ReadClock(t, w) PROVE Goal
    <3>1. /\ clock_watch' = clock_watch
          /\ \A u \in Tasks : job'[u][v] = "write" =>
               \/ cur'[u][v] = clock_watch[v]
               \/ job[u][v] = "write" /\ cur'[u][v] = cur[u][v]
      BY <2>1, <2>5 DEF ReadClock, TypeOK
    <3> QED BY <2>2, <2>3, <3>1
  <2>6. ASSUME NEW t \in Tasks, NEW w \in Workers, SetClock(t, w) PROVE Goal
    <3>1. /\ \A u \in Tasks : job'[u][v] = "write" => job[u][v] = "write" /\ cur'[u][v] = cur[u][v]
          /\ IF w = v THEN job[t][v] = "write" /\ clock_watch'[v] = cur[t][v] + 1
                      ELSE clock_watch'[v] = clock_watch[v]
      BY <2>1, <2>6 DEF SetClock, TypeOK
    <3> QED BY <2>2, <2>3, <2>6, <3>1
  <2>7. ASSUME NEW t \in Tasks, Stepper(t) PROVE Kept
    <3>1. UNCHANGED <<clock_watch, cur>>
      BY <2>7 DEF Stepper, BeginStep, BroadcastStep, IncrementClock, IsBlocking, CallFails,
                  StepReturns, workerVars
    <3>2. \A u \in Tasks : job'[u][v] \in {job[u][v], "read", "none"}
      BY <2>1, <2>7 DEF Stepper, BeginStep, BroadcastStep, IncrementClock, IsBlocking, CallFails,
                        StepReturns, workerVars, TypeOK
    <3> QED BY <3>1, <3>2
  <2>8. ASSUME NEW t \in Tasks, NEW w \in Workers,
               (\E s \in Servers : NotifyServer(t, w, s)) \/ RunBehaviors(t, w) \/ BehaviorsDone(t, w)
        PROVE  Kept
    <3>1. UNCHANGED <<clock_watch, cur>>
      BY <2>8 DEF NotifyServer, RunBehaviors, BehaviorsDone
    <3>2. \A u \in Tasks : job'[u][v] \in {job[u][v], "behave", "done"}
      <4>1. CASE \E s \in Servers : NotifyServer(t, w, s)
        BY <4>1 DEF NotifyServer
      <4>2. CASE RunBehaviors(t, w)
        BY <2>1, <4>2 DEF RunBehaviors, TypeOK
      <4>3. CASE BehaviorsDone(t, w)
        BY <2>1, <4>3 DEF BehaviorsDone, TypeOK
      <4> QED BY <2>8, <4>1, <4>2, <4>3
    <3> QED BY <3>1, <3>2
  <2>9. ASSUME Environment PROVE Kept
    <3>1. UNCHANGED <<job, cur>>
      BY <2>9 DEF Environment, AddWorker, RemoveWorker, LoseWorker, Initialize, SetBlocking,
                  InsertServer, LoadSnapshot, workerVars
    <3>2. clock_watch'[v] = clock_watch[v]
      BY <1>1, <2>1, <2>9 DEF Environment, AddWorker, RemoveWorker, LoseWorker, Initialize, SetBlocking,
                  InsertServer, LoadSnapshot, workerVars, TypeOK
    <3> QED BY <3>1, <3>2
  <2>10. Goal
    <3>1. ASSUME NEW t \in Tasks, NEW w \in Workers, Handler(t, w) PROVE Goal
      BY <3>1, <2>4, <2>5, <2>6, <2>8 DEF Handler
    <3> QED BY <1>1, <2>4, <2>7, <2>9, <3>1 DEF Next
  <2> QED BY <2>10 DEF k1
<1>2. CASE Next
  BY <1>1, <1>2 DEF AheadInv
<1> QED BY <1>0, <1>2

\* However many tasks step the cluster, and whichever calls fail meanwhile, no
\* worker's clock runs ahead of the rounds that were begun: two Step handlers
\* that race on the clock watch (worker/mod.rs:884) may lose an increment, and
\* never add one.
THEOREM ClocksNeverAhead == Spec => []NeverAhead
<1> DEFINE Inv == TypeOK /\ FewRounds /\ (\A u \in Tasks : RoundInv(u)) /\ AheadInv
<1>1. Init => Inv
  <2> SUFFICES ASSUME Init PROVE Inv
    OBVIOUS
  <2>1. TypeOK /\ \A u \in Tasks : RoundInv(u)
    BY DEF Init, TypeOK, TaskStates, JobStates, RoundInv
  <2>2. {t \in Tasks : pc[t] # "idle"} = {} /\ \A w : Movers(w) = {}
    BY DEF Init, Movers, Moved
  <2>3. ASSUME NEW w \in Workers PROVE Limit(w) = 0
    <3>1. Cardinality(Movers(w)) = 0
      BY <2>2, FS_EmptySet
    <3>2. leaderClock = 0 /\ lag[w] = 0
      BY DEF Init
    <3> QED BY <3>1, <3>2 DEF Limit
  <2>4. FewRounds
    BY <2>2, FS_EmptySet DEF FewRounds
  <2>5. AheadInv
    BY <2>3 DEF Init, AheadInv
  <2> QED BY <2>1, <2>4, <2>5
<1>2. Inv /\ [Next]_vars => Inv'
  BY TypeStep, FewRoundsStep, RoundStep, AheadStep
<1>3. Inv => NeverAhead
  <2> SUFFICES ASSUME Inv, NEW w \in reach \ disturbed
               PROVE  clock_watch[w] + lag[w] <= leaderClock + Cardinality(Movers(w))
    BY DEF NeverAhead, Movers
  <2>1. Cardinality(Movers(w)) \in Nat /\ clock_watch[w] \in Nat /\ lag[w] \in Nat /\ leaderClock \in Nat
    BY MoversFinite DEF TypeOK
  <2> QED BY <2>1 DEF AheadInv, Limit
<1> QED BY <1>1, <1>2, <1>3, PTL DEF Spec

-----------------------------------------------------------------------------
(* One task implements LockStep                                              *)

\* Without Initialize and LoadSnapshot requests no clock is ever reset.
Undisturbed == resets = 0 /\ disturbed = {}

\* The refinement mapping, written for a cluster stepped by task u alone.
RoundOf(u) == IF pc[u] = "stepping" THEN snap[u] ELSE {}
MovedOf(u) == {w \in reach : Moved(u, w)}
OwingOf(u) == {w \in Workers \ reach : job[u][w] \in {"read", "write"}}

\* With one task, the unions and quantifiers over tasks in the refinement
\* mapping of Abstract collapse.
LEMMA MappingOfOneTask ==
  ASSUME NEW u, Tasks = {u}
  PROVE  /\ UNION {snap[t] : t \in {v \in Tasks : pc[v] = "stepping"}} = RoundOf(u)
         /\ {w \in reach : \E t \in Tasks : Moved(t, w)} = MovedOf(u)
         /\ {w \in Workers \ reach : \E t \in Tasks : job[t][w] \in {"read", "write"}}
              = OwingOf(u)
<1>1. {v \in Tasks : pc[v] = "stepping"} = IF pc[u] = "stepping" THEN {u} ELSE {}
  OBVIOUS
<1>2. UNION {snap[t] : t \in {v \in Tasks : pc[v] = "stepping"}} = RoundOf(u)
  BY <1>1 DEF RoundOf
<1> QED BY <1>2 DEF MovedOf, OwingOf

\* Every step of the cluster is a step of LockStep or leaves its variables
\* alone: BroadcastStep begins the round, a handler's SetClock is the move (or
\* the late move of a worker cut off meanwhile), IncrementClock ends the round.
LEMMA RefinementStep ==
  ASSUME NEW u, Tasks = {u}, MaxResets = 0,
         TypeOK, RoundInv(u), ClockInv(u), Undisturbed, [Next]_vars
  PROVE  [Abstract!Next]_(Abstract!vars)
<1> DEFINE Stutter == /\ UNCHANGED <<leaderClock, clock_watch, reach>>
                      /\ RoundOf(u)' = RoundOf(u)
                      /\ MovedOf(u)' = MovedOf(u)
                      /\ OwingOf(u)' = OwingOf(u)
<1>1. /\ UNION {snap[t] : t \in {v \in Tasks : pc[v] = "stepping"}} = RoundOf(u)
      /\ {w \in reach : \E t \in Tasks : Moved(t, w)} = MovedOf(u)
      /\ {w \in Workers \ reach : \E t \in Tasks : job[t][w] \in {"read", "write"}}
           = OwingOf(u)
  BY MappingOfOneTask
<1>2. (/\ UNION {snap[t] : t \in {v \in Tasks : pc[v] = "stepping"}} = RoundOf(u)
       /\ {w \in reach : \E t \in Tasks : Moved(t, w)} = MovedOf(u)
       /\ {w \in Workers \ reach : \E t \in Tasks : job[t][w] \in {"read", "write"}}
            = OwingOf(u))'
  BY MappingOfOneTask, PTL
<1>3. u \in Tasks
  OBVIOUS
<1>4. ASSUME Stutter PROVE UNCHANGED Abstract!vars
  BY <1>1, <1>2, <1>4 DEF Abstract!vars
<1> USE DEF TypeOK, RoundInv, Moved, RoundOf, MovedOf, OwingOf, leaderVars,
            workerVars, historyVars
<1>5. CASE BroadcastStep(u)
  <2>1. /\ RoundOf(u) = {} /\ RoundOf(u)' = snap[u]
        /\ snap[u] # {} /\ snap[u] \in SUBSET Workers
    BY <1>3, <1>5 DEF BroadcastStep
  <2>2. MovedOf(u) = {} /\ MovedOf(u)' = {}
    BY <1>3, <1>5 DEF BroadcastStep
  <2>3. OwingOf(u)' = OwingOf(u) /\ UNCHANGED <<leaderClock, clock_watch, reach>>
    BY <1>3, <1>5 DEF BroadcastStep
  <2>4. \E W \in SUBSET Workers : Abstract!Begin(W)
    BY <1>1, <1>2, <2>1, <2>2, <2>3 DEF Abstract!Begin
  <2> QED BY <2>4, Zenon DEF Abstract!Next
<1>6. CASE IncrementClock(u)
  <2>1. RoundOf(u) # {} /\ RoundOf(u)' = {} /\ MovedOf(u)' = {}
    BY <1>3, <1>6 DEF IncrementClock
  <2>2. RoundOf(u) \ (Workers \ reach) \subseteq MovedOf(u)
    BY <1>3, <1>6 DEF IncrementClock
  <2>3. /\ leaderClock' = leaderClock + 1
        /\ OwingOf(u)' = OwingOf(u) /\ UNCHANGED <<clock_watch, reach>>
    BY <1>3, <1>6 DEF IncrementClock
  <2>4. Abstract!End
    BY <1>1, <1>2, <2>1, <2>2, <2>3 DEF Abstract!End
  <2> QED BY <2>4 DEF Abstract!Next
<1>7. ASSUME NEW w \in Workers, SetClock(u, w)
      PROVE  [Abstract!Next]_(Abstract!vars)
  <2>1. clock_watch' = [clock_watch EXCEPT ![w] = clock_watch[w] + 1]
    BY <1>3, <1>7 DEF SetClock, ClockInv, Undisturbed
  <2>2. /\ UNCHANGED <<leaderClock, reach, pc, snap>>
        /\ RoundOf(u)' = RoundOf(u)
    BY <1>7 DEF SetClock
  <2>3. CASE w \in reach
    <3>1. pc[u] = "stepping" /\ w \in snap[u] /\ job[u][w] = "write"
      BY <1>3, <1>7, <2>3 DEF SetClock
    <3>2. w \in RoundOf(u) \ (MovedOf(u) \union (Workers \ reach))
      BY <2>3, <3>1
    <3>3. MovedOf(u)' = MovedOf(u) \union {w}
      BY <1>3, <1>7, <2>3, <3>1 DEF SetClock
    <3>4. OwingOf(u)' = OwingOf(u)
      BY <1>3, <1>7, <2>3 DEF SetClock
    <3>5. Abstract!Move(w)
      BY <1>1, <1>2, <2>1, <2>2, <3>2, <3>3, <3>4 DEF Abstract!Move
    <3> QED BY <3>5 DEF Abstract!Next
  <2>4. CASE w \notin reach
    <3>1. w \in OwingOf(u) /\ OwingOf(u)' = OwingOf(u) \ {w}
      BY <1>3, <1>7, <2>4 DEF SetClock
    <3>2. MovedOf(u)' = MovedOf(u)
      BY <1>3, <1>7, <2>4 DEF SetClock
    <3>3. Abstract!MoveLate(w)
      BY <1>1, <1>2, <2>1, <2>2, <3>1, <3>2 DEF Abstract!MoveLate
    <3> QED BY <3>3 DEF Abstract!Next
  <2> QED BY <2>3, <2>4
<1>8. ASSUME NEW w \in Workers, LoseWorker(w)
      PROVE  [Abstract!Next]_(Abstract!vars)
  <2>1. /\ w \notin Workers \ reach
        /\ Workers \ reach' = (Workers \ reach) \union {w}
        /\ UNCHANGED <<leaderClock, clock_watch>>
        /\ RoundOf(u)' = RoundOf(u)
    BY <1>8 DEF LoseWorker
  <2>2. MovedOf(u)' = MovedOf(u) \ {w}
    BY <1>8 DEF LoseWorker
  <2>3. OwingOf(u)' = IF w \in RoundOf(u) \ MovedOf(u)
                        THEN OwingOf(u) \union {w} ELSE OwingOf(u)
    BY <1>3, <1>8 DEF LoseWorker, JobStates
  <2>4. Abstract!Lose(w)
    BY <1>1, <1>2, <2>1, <2>2, <2>3 DEF Abstract!Lose
  <2> QED BY <2>4 DEF Abstract!Next
<1>9. CASE BeginStep(u)
  BY <1>3, <1>4, <1>9 DEF BeginStep
<1>10. ASSUME NEW w \in Workers,
              IsBlocking(u, w) \/ CallFails(u, w) \/ StepReturns(u, w)
       PROVE  Stutter
  BY <1>10 DEF IsBlocking, CallFails, StepReturns
<1>11. ASSUME NEW w \in Workers, ReadClock(u, w) PROVE Stutter
  BY <1>3, <1>11 DEF ReadClock
<1>12. ASSUME NEW w \in Workers, NEW s \in Servers, NotifyServer(u, w, s)
       PROVE  Stutter
  BY <1>12 DEF NotifyServer
<1>13. ASSUME NEW w \in Workers, RunBehaviors(u, w) \/ BehaviorsDone(u, w)
       PROVE  Stutter
  BY <1>3, <1>13 DEF RunBehaviors, BehaviorsDone
<1>14. ASSUME NEW w \in Workers, AddWorker(w) \/ RemoveWorker(w)
       PROVE  Stutter
  BY <1>14 DEF AddWorker, RemoveWorker
<1>15. ASSUME NEW w \in Workers, NEW b \in BOOLEAN, SetBlocking(w, b)
       PROVE  Stutter
  BY <1>15 DEF SetBlocking
<1>16. ASSUME NEW w \in Workers, NEW s \in Servers, InsertServer(w, s)
       PROVE  Stutter
  BY <1>16 DEF InsertServer
<1>17. ~(resets < MaxResets)
  BY DEF Undisturbed
<1>18. CASE UNCHANGED vars
  <2>1. Stutter BY <1>18 DEF vars
  <2> QED BY <1>4, <2>1
<1> QED
  BY <1>4, <1>5, <1>6, <1>7, <1>8, <1>9, <1>10, <1>11, <1>12, <1>13, <1>14,
     <1>15, <1>16, <1>17, <1>18
  DEF Next, Stepper, Handler, Environment, Initialize, LoadSnapshot

\* The rounds of one stepping task are the rounds of LockStep: no interleaving
\* of failed calls, late workers, joining, leaving and blocking makes a clock
\* move outside a round, twice in a round, or the leader count a round that a
\* reachable worker has not finished.
THEOREM OneTaskImplementsLockStep ==
  ASSUME NEW u, Tasks = {u}, MaxResets = 0
  PROVE  Spec => ImplementsLockStep
<1>1. Init => Undisturbed
  BY DEF Init, Undisturbed
<1>2. Undisturbed /\ [Next]_vars => Undisturbed'
  BY DEF Undisturbed, Next, Stepper, Handler, Environment, BeginStep,
         BroadcastStep, IncrementClock, IsBlocking, CallFails, StepReturns,
         ReadClock, SetClock, NotifyServer, RunBehaviors, BehaviorsDone,
         AddWorker, RemoveWorker, LoseWorker, Initialize, LoadSnapshot,
         SetBlocking, InsertServer, vars, leaderVars, workerVars, historyVars
<1>3. Init => Abstract!Init
  <2> SUFFICES ASSUME Init PROVE Abstract!Init
    OBVIOUS
  <2>1. RoundOf(u) = {} /\ MovedOf(u) = {} /\ OwingOf(u) = {}
    BY DEF Init, RoundOf, MovedOf, OwingOf, Moved
  <2> QED BY <2>1, MappingOfOneTask DEF Abstract!Init, Init
<1>4. TypeOK /\ RoundInv(u) /\ ClockInv(u) /\ Undisturbed /\ [Next]_vars
        => [Abstract!Next]_(Abstract!vars)
  BY RefinementStep
<1> QED
  BY <1>1, <1>2, <1>3, <1>4, RoundsOfOneTask, PTL
  DEF Spec, ImplementsLockStep, Abstract!Spec

-----------------------------------------------------------------------------
(* The composition                                                           *)

Stepping(t) ==
  \/ BeginStep(t) \/ BroadcastStep(t) \/ IncrementClock(t)
  \/ \E w \in Workers : IsBlocking(t, w) \/ CallFails(t, w) \/ StepReturns(t, w)

Member(w) == AddWorker(w) \/ RemoveWorker(w) \/ LoseWorker(w)

\* What a server's turns do to the state the two systems share: nothing, but
\* that a monitor computes the verdict it will pass on.
TurnOnly ==
  /\ UNCHANGED <<vars, clock>>
  /\ verdict' = verdict \/ \E s \in Servers : verdict' = [verdict EXCEPT ![s] = blocked[s] # 0]

\* The steps of the composition, as the rest of the module looks at them.
LEMMA Steps ==
  ASSUME ClusterNext
  PROVE  \/ \E t \in Tasks : Stepping(t) /\ UNCHANGED turnVars
         \/ \E t \in Tasks, w \in Workers :
              /\ ReadClock(t, w) \/ SetClock(t, w) \/ RunBehaviors(t, w)
                   \/ BehaviorsDone(t, w)
              /\ UNCHANGED turnVars
         \/ \E t \in Tasks, w \in Workers, s \in Servers : Announce(t, w, s)
         \/ \E s \in Servers : Tell(s)
         \/ \E s \in Servers : InsertServer(WorkerOf[s], s) /\ UNCHANGED turnVars
         \/ \E w \in Workers : Member(w) /\ UNCHANGED turnVars
         \/ \E w \in Workers : Initialize(w) /\ UNCHANGED turnVars
         \/ \E n \in Snapshots : LoadSnapshot(n) /\ UNCHANGED turnVars
         \/ TurnOnly
<1>1. ASSUME NEW t \in Tasks, LeaderStepper(t) PROVE Stepping(t) /\ UNCHANGED turnVars
  BY <1>1 DEF LeaderStepper, Stepper, Stepping
<1>2. ASSUME NEW s \in Servers, Monitor(s) \/ Connect(s)
      PROVE  \/ Tell(s)
             \/ InsertServer(WorkerOf[s], s) /\ UNCHANGED turnVars
             \/ TurnOnly
  BY <1>2 DEF Monitor, Connect, TurnOnly, Turn!MonitorStart, Turn!MonitorLook, Turn!MonitorRelink,
              Turn!SetWorker, Turn!monitorVars
<1>3. ASSUME NEW k \in Calls, Request(k) PROVE TurnOnly
  BY <1>3 DEF Request, TurnOnly, Turn!Request, Turn!CheckClient, Turn!SetTarget, Turn!Unblock, Turn!Panic,
              Turn!WakeUp, Turn!Block, Turn!monitorVars
<1>4. ASSUME NEW c \in Clients, Session(c) PROVE TurnOnly
  BY <1>4 DEF Session, TurnOnly, Turn!Session, Turn!CountClient, Turn!InsertClient, Turn!Disconnect,
              Turn!monitorVars
<1>5. ASSUME Membership PROVE \E w \in Workers : Member(w) /\ UNCHANGED turnVars
  BY <1>5 DEF Membership, Member
<1>6. ASSUME NEW t \in Tasks, NEW w \in Workers, WorkerHandler(t, w)
      PROVE  \/ /\ ReadClock(t, w) \/ SetClock(t, w) \/ RunBehaviors(t, w)
                     \/ BehaviorsDone(t, w)
                /\ UNCHANGED turnVars
             \/ \E s \in Servers : Announce(t, w, s)
  BY <1>6 DEF WorkerHandler
<1>7. ASSUME Reset
      PROVE  \/ \E w \in Workers : Initialize(w) /\ UNCHANGED turnVars
             \/ \E n \in Snapshots : LoadSnapshot(n) /\ UNCHANGED turnVars
  BY <1>7 DEF Reset
<1> QED BY <1>1, <1>2, <1>3, <1>4, <1>5, <1>6, <1>7 DEF ClusterNext

\* A verdict is a Boolean.
VerdictOK == verdict \in [Servers -> BOOLEAN]

LEMMA VerdictStep == VerdictOK /\ [ClusterNext]_clusterVars => VerdictOK'
<1> SUFFICES ASSUME VerdictOK, [ClusterNext]_clusterVars PROVE VerdictOK'
  OBVIOUS
<1>1. CASE verdict' = verdict
  BY <1>1 DEF VerdictOK
<1>2. ASSUME NEW s \in Servers, verdict' = [verdict EXCEPT ![s] = blocked[s] # 0] PROVE VerdictOK'
  BY <1>2 DEF VerdictOK
<1>3. CASE UNCHANGED clusterVars
  BY <1>1, <1>3 DEF clusterVars, turnVars
<1>4. CASE ClusterNext
  BY <1>1, <1>2, <1>4, Steps DEF turnVars, TurnOnly, Announce, Tell, Turn!ClockChangedTo, Turn!MonitorTell,
                                 Turn!monitorVars
<1> QED BY <1>3, <1>4

\* The composed cluster is a cluster whose servers announce and block as
\* StepRound allows: a step of the composition is a step of it or none, so what
\* holds of the leader's rounds there holds with the servers' turns as well.
THEOREM ClusterImplementsRounds == ClusterSpec => Spec
<1>1. ClusterInit => Init /\ VerdictOK
  BY DEF ClusterInit, Turn!Init, VerdictOK
<1>2. VerdictOK /\ [ClusterNext]_clusterVars => [Next]_vars
  <2> SUFFICES ASSUME VerdictOK, [ClusterNext]_clusterVars PROVE Next \/ UNCHANGED vars
    OBVIOUS
  <2>1. ASSUME NEW t \in Tasks, Stepping(t) PROVE Next
    BY <2>1 DEF Stepping, Next, Stepper
  <2>2. ASSUME NEW t \in Tasks, NEW w \in Workers,
               \/ ReadClock(t, w) \/ SetClock(t, w) \/ RunBehaviors(t, w)
               \/ BehaviorsDone(t, w) \/ \E s \in Servers : Announce(t, w, s)
        PROVE  Next
    BY <2>2 DEF Announce, Next, Handler
  <2>3. ASSUME NEW s \in Servers, Tell(s) PROVE Next
    <3>1. WorkerOf[s] \in Workers /\ verdict[s] \in BOOLEAN
      BY WorkerOfAssumption DEF VerdictOK
    <3>2. SetBlocking(WorkerOf[s], verdict[s])
      BY <2>3 DEF Tell
    <3>3. Environment
      BY <3>1, <3>2 DEF Environment
    <3> QED BY <3>3 DEF Next
  <2>4. ASSUME NEW s \in Servers, InsertServer(WorkerOf[s], s) PROVE Next
    <3>1. WorkerOf[s] \in Workers
      BY WorkerOfAssumption
    <3> QED BY <2>4, <3>1 DEF Next, Environment
  <2>5. ASSUME NEW w \in Workers, Member(w) PROVE Next
    BY <2>5 DEF Member, Next, Environment
  <2>6. CASE UNCHANGED clusterVars
    BY <2>6 DEF clusterVars
  <2>8. ASSUME NEW w \in Workers, Initialize(w) PROVE Next
    BY <2>8 DEF Next, Environment
  <2>9. ASSUME NEW n \in Snapshots, LoadSnapshot(n) PROVE Next
    BY <2>9 DEF Next, Environment
  <2>7. CASE ClusterNext
    BY <2>1, <2>2, <2>3, <2>4, <2>5, <2>7, <2>8, <2>9, Steps DEF TurnOnly
  <2> QED BY <2>6, <2>7
<1> QED BY <1>1, <1>2, VerdictStep, PTL DEF ClusterSpec, Spec

-----------------------------------------------------------------------------
(* A server's clock                                                          *)

\* The part of the state the clocks depend on.
ClockTypes ==
  /\ clock \in [Servers -> Int]
  /\ clock_watch \in [Workers -> Int]
  /\ cur \in [Tasks -> [Workers -> Int]]
  /\ job \in [Tasks -> [Workers -> JobStates]]
  /\ servers \in [Workers -> SUBSET Servers]
  /\ toNotify \in [Tasks -> [Workers -> SUBSET Servers]]

\* A worker has none but its own servers in its map, and a Step handler tells
\* none but those.  Until it is done with them the clock it has stored stands,
\* unless it is reset, and whoever it is not about to tell has been told.
FollowsInv(u) ==
  /\ \A w \in Workers : \A s \in servers[w] : WorkerOf[s] = w
  /\ \A w \in Workers : toNotify[u][w] \subseteq servers[w]
  /\ \A w \in Workers : job[u][w] = "notify" =>
       clock_watch[w] \in {cur[u][w] + 1, 0}
  /\ \A s \in Servers : clock[s] # 0 =>
       /\ s \in servers[WorkerOf[s]]
       /\ \/ clock[s] = clock_watch[WorkerOf[s]]
          \/ s \in toNotify[u][WorkerOf[s]]
          \/ clock_watch[WorkerOf[s]] = 0

\* With one stepping task every step preserves it: only the handler that has
\* stored the clock announces it, and no other stores one meanwhile.
LEMMA FollowsStep ==
  ASSUME NEW u, Tasks = {u}, ClockTypes, FollowsInv(u), [ClusterNext]_clusterVars
  PROVE  ClockTypes' /\ FollowsInv(u)'
<1> DEFINE Goal == ClockTypes' /\ FollowsInv(u)'
<1>0. \A s \in Servers : WorkerOf[s] \in Workers
  BY WorkerOfAssumption
<1>1. ASSUME UNCHANGED <<clock, clock_watch, cur, servers, toNotify>>,
             job' \in [Tasks -> [Workers -> JobStates]],
             \A w \in Workers : job'[u][w] = "notify" => job[u][w] = "notify"
      PROVE  Goal
  BY <1>1 DEF ClockTypes, FollowsInv
<1>2. ASSUME NEW t \in Tasks, Stepping(t), UNCHANGED turnVars PROVE Goal
  <2>1. UNCHANGED <<clock, clock_watch, cur, servers, toNotify>>
    BY <1>2 DEF Stepping, turnVars, BeginStep, BroadcastStep, IncrementClock,
                IsBlocking, CallFails, StepReturns, workerVars
  <2>2. /\ job' \in [Tasks -> [Workers -> JobStates]]
        /\ \A w \in Workers : job'[u][w] \in {job[u][w], "read", "none"}
    <3>1. CASE job' = job
      BY <3>1 DEF ClockTypes
    <3>2. CASE BroadcastStep(t)
      BY <3>2 DEF ClockTypes, BroadcastStep, JobStates
    <3>3. CASE IncrementClock(t)
      BY <3>3 DEF ClockTypes, IncrementClock, JobStates
    <3> QED
      BY <1>2, <3>1, <3>2, <3>3 DEF Stepping, BeginStep, IsBlocking, CallFails,
                                    StepReturns, workerVars
  <2> QED BY <1>1, <2>1, <2>2
<1>3. ASSUME NEW w \in Workers, ReadClock(u, w), UNCHANGED turnVars PROVE Goal
  <2>1. /\ UNCHANGED <<clock, clock_watch, servers, toNotify>>
        /\ cur' = [cur EXCEPT ![u] = [cur[u] EXCEPT ![w] = clock_watch[w]]]
        /\ job' = [job EXCEPT ![u] = [job[u] EXCEPT ![w] = "write"]]
    BY <1>3 DEF ReadClock, turnVars
  <2>2. ClockTypes'
    BY <2>1 DEF ClockTypes, JobStates
  <2>3. \A v \in Workers : IF v = w THEN job'[u][v] = "write"
                         ELSE job'[u][v] = job[u][v] /\ cur'[u][v] = cur[u][v]
    BY <2>1 DEF ClockTypes
  <2> QED BY <2>1, <2>2, <2>3 DEF FollowsInv
<1>4. ASSUME NEW w \in Workers, SetClock(u, w), UNCHANGED turnVars PROVE Goal
  <2>1. /\ clock' = clock /\ servers' = servers /\ cur' = cur
        /\ clock_watch' = [clock_watch EXCEPT ![w] = cur[u][w] + 1]
        /\ toNotify' = [toNotify EXCEPT ![u] = [toNotify[u] EXCEPT ![w] = servers[w]]]
        /\ job' = [job EXCEPT ![u] = [job[u] EXCEPT ![w] = "notify"]]
    BY <1>4 DEF SetClock, turnVars
  <2>2. ClockTypes'
    BY <2>1 DEF ClockTypes, JobStates
  <2>3. /\ clock_watch'[w] = cur[u][w] + 1 /\ toNotify'[u][w] = servers[w]
        /\ \A v \in Workers : v # w => /\ clock_watch'[v] = clock_watch[v]
                                       /\ toNotify'[u][v] = toNotify[u][v]
                                       /\ job'[u][v] = job[u][v]
    BY <2>1 DEF ClockTypes
  <2> QED BY <1>0, <2>1, <2>2, <2>3 DEF FollowsInv
<1>5. ASSUME NEW w \in Workers, RunBehaviors(u, w) \/ BehaviorsDone(u, w), UNCHANGED turnVars
      PROVE  Goal
  <2>1. UNCHANGED <<clock, clock_watch, cur, servers, toNotify>>
    BY <1>5 DEF turnVars, RunBehaviors, BehaviorsDone
  <2>2. /\ job' \in [Tasks -> [Workers -> JobStates]]
        /\ \A v \in Workers : job'[u][v] \in {job[u][v], "behave", "done"}
    <3>1. CASE RunBehaviors(u, w)
      BY <3>1 DEF ClockTypes, RunBehaviors, JobStates
    <3>2. CASE BehaviorsDone(u, w)
      BY <3>2 DEF ClockTypes, BehaviorsDone, JobStates
    <3> QED BY <1>5, <3>1, <3>2
  <2> QED BY <1>1, <2>1, <2>2
<1>6. ASSUME NEW w \in Workers, NEW s \in Servers, Announce(u, w, s) PROVE Goal
  <2>1. /\ UNCHANGED <<clock_watch, cur, servers, job>>
        /\ job[u][w] = "notify" /\ s \in toNotify[u][w]
        /\ toNotify' = [toNotify EXCEPT ![u] = [toNotify[u] EXCEPT ![w] = toNotify[u][w] \ {s}]]
        /\ clock' = [clock EXCEPT ![s] = cur[u][w] + 1]
    BY <1>6 DEF Announce, NotifyServer, Turn!ClockChangedTo
  <2>2. s \in servers[w] /\ WorkerOf[s] = w /\ clock_watch[w] \in {cur[u][w] + 1, 0}
    BY <2>1 DEF FollowsInv
  <2>3. ClockTypes'
    BY <2>1 DEF ClockTypes
  <2>4. /\ clock'[s] = clock_watch[w] \/ clock_watch[w] = 0
        /\ \A x \in Servers : x # s => /\ clock'[x] = clock[x]
                                       /\ \A v \in Workers : x \in toNotify'[u][v] <=> x \in toNotify[u][v]
        /\ \A v \in Workers : toNotify'[u][v] \subseteq toNotify[u][v]
    BY <2>1, <2>2 DEF ClockTypes
  <2> QED BY <1>0, <2>1, <2>2, <2>3, <2>4 DEF FollowsInv
<1>7. ASSUME NEW s \in Servers, Tell(s) PROVE Goal
  <2>1. UNCHANGED <<clock, clock_watch, cur, servers, toNotify, job>>
    BY <1>7 DEF Tell, SetBlocking, Turn!MonitorTell
  <2> QED BY <1>1, <2>1 DEF ClockTypes
<1>8. ASSUME NEW s \in Servers, InsertServer(WorkerOf[s], s), UNCHANGED turnVars PROVE Goal
  <2>1. /\ UNCHANGED <<clock, clock_watch, cur, toNotify, job>>
        /\ servers' = [servers EXCEPT ![WorkerOf[s]] = servers[WorkerOf[s]] \cup {s}]
    BY <1>8 DEF turnVars, InsertServer
  <2>2. ClockTypes'
    BY <1>0, <2>1 DEF ClockTypes
  <2>3. \A w \in Workers : /\ servers[w] \subseteq servers'[w]
                           /\ \A x \in servers'[w] : x \in servers[w] \/ (x = s /\ WorkerOf[s] = w)
    BY <1>0, <2>1 DEF ClockTypes
  <2> QED BY <1>0, <2>1, <2>2, <2>3 DEF FollowsInv
<1>9. ASSUME NEW w \in Workers, Member(w), UNCHANGED turnVars PROVE Goal
  <2>1. UNCHANGED <<clock, clock_watch, cur, servers, toNotify, job>>
    BY <1>9 DEF Member, turnVars, AddWorker, RemoveWorker, LoseWorker, workerVars
  <2> QED BY <1>1, <2>1 DEF ClockTypes
<1>10. CASE UNCHANGED clusterVars
  <2>1. UNCHANGED <<clock, clock_watch, cur, servers, toNotify, job>>
    BY <1>10 DEF clusterVars, vars, leaderVars, workerVars, turnVars
  <2> QED BY <1>1, <2>1 DEF ClockTypes
<1>11. ASSUME TurnOnly PROVE Goal
  <2>1. UNCHANGED <<clock, clock_watch, cur, servers, toNotify, job>>
    BY <1>11 DEF TurnOnly, vars, leaderVars, workerVars
  <2> QED BY <1>1, <2>1 DEF ClockTypes
<1>13. ASSUME NEW w \in Workers, Initialize(w), UNCHANGED turnVars PROVE Goal
  <2>1. /\ UNCHANGED <<clock, cur, servers, toNotify, job>>
        /\ clock_watch' = [clock_watch EXCEPT ![w] = 0]
    BY <1>13 DEF Initialize, turnVars
  <2>2. ClockTypes'
    BY <2>1 DEF ClockTypes
  <2>3. \A v \in Workers : clock_watch'[v] \in {clock_watch[v], 0}
    BY <2>1 DEF ClockTypes
  <2> QED BY <1>0, <2>1, <2>2, <2>3 DEF FollowsInv
<1>14. ASSUME NEW n \in Snapshots, LoadSnapshot(n), UNCHANGED turnVars PROVE Goal
  <2>1. UNCHANGED <<clock, clock_watch, cur, servers, toNotify, job>>
    BY <1>14 DEF LoadSnapshot, turnVars, workerVars
  <2> QED BY <1>1, <2>1 DEF ClockTypes
<1>12. CASE ClusterNext
  BY <1>2, <1>3, <1>4, <1>5, <1>6, <1>7, <1>8, <1>9, <1>11, <1>12, <1>13, <1>14, Steps
<1> QED BY <1>10, <1>12

\* With one stepping task no announcement is lost or overtaken on its way from
\* the worker's Step handler to the server (worker/mod.rs:884): a server that
\* has heard of the clock shows its worker's, or is about to be told, or its
\* worker was re-initialized (worker/mod.rs:976) and has made no step since,
\* whatever calls of the leader fail, workers and servers join, and clients do.
THEOREM ClockOfServerFollows ==
  ASSUME NEW u, Tasks = {u}
  PROVE  ClusterSpec => []ServerClockFollows
<1>1. ClusterInit => ClockTypes /\ FollowsInv(u)
  <2> SUFFICES ASSUME ClusterInit PROVE ClockTypes /\ FollowsInv(u)
    OBVIOUS
  <2>1. ClockTypes
    BY DEF ClusterInit, Init, Turn!Init, ClockTypes, JobStates
  <2>2. /\ \A w \in Workers : servers[w] = {} /\ toNotify[u][w] = {} /\ job[u][w] = "none"
        /\ \A s \in Servers : clock[s] = 0
    BY DEF ClusterInit, Init, Turn!Init
  <2> QED BY <2>1, <2>2 DEF FollowsInv
<1>2. ClockTypes /\ FollowsInv(u) /\ [ClusterNext]_clusterVars => ClockTypes' /\ FollowsInv(u)'
  BY FollowsStep
<1>3. FollowsInv(u) => ServerClockFollows
  BY DEF FollowsInv, ServerClockFollows
<1> QED BY <1>1, <1>2, <1>3, PTL DEF ClusterSpec
=============================================================================
