----------------------------- MODULE StepRound ------------------------------
(***************************************************************************)
(* The step barrier of a bigworlds cluster.                                *)
(*                                                                         *)
(* A task of the leader (the auto-step loop, or a controller calling Step) *)
(* runs process_step: it takes a snapshot of the registered workers, asks  *)
(* each of them IsBlocking{wait: true}, once all answered sends Step to    *)
(* all of them, and once all Step calls returned increments the leader's   *)
(* clock.  Failed calls are only logged and count as answers.  The leader  *)
(* runs every controller request on a task of its own, so several          *)
(* process_step calls may be under way at once.                            *)
(*                                                                         *)
(* A worker's Step handler reads the clock watch, stores the value plus    *)
(* one (two separate calls of the worker's manager), tells every connected *)
(* server ClockChangedTo, lets the synced behaviors run and returns.       *)
(***************************************************************************)
EXTENDS Integers, FiniteSets

CONSTANTS
  Workers,     \* worker ids
  Servers,     \* server ids
  Tasks,       \* tasks of the leader that run process_step
  MaxClock,    \* bound: no round begins once the leader's clock is here
  MaxResets,   \* bound on Initialize and LoadSnapshot requests
  Snapshots    \* clocks of the snapshots there are to load

ASSUME BoundsAssumption ==
  MaxClock \in Nat /\ MaxResets \in Nat /\ Snapshots \subseteq Nat

VARIABLES
  workers,        \* leader State.workers: ids of the registered workers
  reach,          \* workers the leader's executors still reach
  leaderClock,    \* leader State.clock
  pc,             \* pc[t]: where task t is in process_step
  snap,           \* snap[t]: the workers map process_step cloned
  awaited,        \* awaited[t]: workers whose answer join_all waits for
  servers,        \* servers[w]: worker State.servers
  blocked_watch,  \* blocked_watch[w]: worker State.blocked_watch
  clock_watch,    \* clock_watch[w]: worker State.clock_watch
  job,            \* job[t][w]: worker w's handler of the Step request of t
  cur,            \* cur[t][w]: current_clock of that handler
  toNotify,       \* toNotify[t][w]: servers it has yet to tell
  resets,         \* number of Initialize / LoadSnapshot requests so far
  lag,            \* history: rounds completed without engaging w
  disturbed,      \* history: workers whose clock was set by a reset
  overrun         \* history: overrun[t][w], Step requests t sent to w since
                  \* w was last marked blocked

leaderVars == <<workers, reach, leaderClock, pc, snap, awaited>>
workerVars == <<servers, blocked_watch, clock_watch, job, cur, toNotify>>
historyVars == <<lag, disturbed, overrun>>
vars == <<leaderVars, workerVars, resets, historyVars>>

TaskStates == {"idle", "barrier", "stepping"}
JobStates == {"none", "read", "write", "notify", "behave", "done"}

TypeOK ==
  /\ workers \subseteq Workers
  /\ reach \subseteq Workers
  /\ leaderClock \in Nat
  /\ pc \in [Tasks -> TaskStates]
  /\ snap \in [Tasks -> SUBSET Workers]
  /\ awaited \in [Tasks -> SUBSET Workers]
  /\ servers \in [Workers -> SUBSET Servers]
  /\ blocked_watch \in [Workers -> BOOLEAN]
  /\ clock_watch \in [Workers -> Nat]
  /\ job \in [Tasks -> [Workers -> JobStates]]
  /\ cur \in [Tasks -> [Workers -> Nat]]
  /\ toNotify \in [Tasks -> [Workers -> SUBSET Servers]]
  /\ resets \in Nat
  /\ lag \in [Workers -> Nat]
  /\ disturbed \subseteq Workers
  /\ overrun \in [Tasks -> [Workers -> Nat]]

Init ==
  /\ workers = {}
  /\ reach = Workers
  /\ leaderClock = 0
  /\ pc = [t \in Tasks |-> "idle"]
  /\ snap = [t \in Tasks |-> {}]
  /\ awaited = [t \in Tasks |-> {}]
  /\ servers = [w \in Workers |-> {}]
  /\ blocked_watch = [w \in Workers |-> FALSE]
  /\ clock_watch = [w \in Workers |-> 0]
  /\ job = [t \in Tasks |-> [w \in Workers |-> "none"]]
  /\ cur = [t \in Tasks |-> [w \in Workers |-> 0]]
  /\ toNotify = [t \in Tasks |-> [w \in Workers |-> {}]]
  /\ resets = 0
  /\ lag = [w \in Workers |-> 0]
  /\ disturbed = {}
  /\ overrun = [t \in Tasks |-> [w \in Workers |-> 0]]

-----------------------------------------------------------------------------
(***************************************************************************)
(* The leader: membership and process_step                                 *)
(***************************************************************************)

\* manager AddWorker: the worker enters the map.  Its clock is not aligned
\* with the leader's.
AddWorker(w) ==
  /\ w \notin workers
  /\ w \in reach
  /\ workers' = workers \union {w}
  /\ UNCHANGED <<reach, leaderClock, pc, snap, awaited>>
  /\ UNCHANGED <<workerVars, resets, historyVars>>

\* DisconnectWorker, sent by a worker that shuts down.  Rounds under way keep
\* the snapshot they cloned.
RemoveWorker(w) ==
  /\ w \in workers
  /\ workers' = workers \ {w}
  /\ UNCHANGED <<reach, leaderClock, pc, snap, awaited>>
  /\ UNCHANGED <<workerVars, resets, historyVars>>

\* The connection to a worker breaks, or the worker stops: every call to it
\* fails from now on.  The leader keeps the worker in its map.
LoseWorker(w) ==
  /\ w \in reach
  /\ reach' = reach \ {w}
  /\ UNCHANGED <<workers, leaderClock, pc, snap, awaited>>
  /\ UNCHANGED <<workerVars, resets, historyVars>>

\* process_step clones the worker map; with no worker it returns
\* NoAvailableWorkers and changes nothing.
BeginStep(t) ==
  /\ pc[t] = "idle"
  /\ workers # {}
  /\ leaderClock < MaxClock
  /\ pc' = [pc EXCEPT ![t] = "barrier"]
  /\ snap' = [snap EXCEPT ![t] = workers]
  /\ awaited' = [awaited EXCEPT ![t] = workers]
  /\ UNCHANGED <<workers, reach, leaderClock, workerVars, resets, historyVars>>

\* Mutant of IsBlocking: the handler answers without waiting for the watch.
IsBlockingNoWait(t, w) ==
  /\ pc[t] = "barrier"
  /\ w \in awaited[t] \intersect reach
  /\ awaited' = [awaited EXCEPT ![t] = @ \ {w}]
  /\ UNCHANGED <<workers, reach, leaderClock, pc, snap>>
  /\ UNCHANGED <<workerVars, resets, historyVars>>

\* The worker's IsBlocking handler, waiting on the blocked watch, finds it
\* false and answers.
IsBlocking(t, w) ==
  /\ pc[t] = "barrier"
  /\ w \in awaited[t] \intersect reach
  /\ ~blocked_watch[w]
  /\ awaited' = [awaited EXCEPT ![t] = @ \ {w}]
  /\ UNCHANGED <<workers, reach, leaderClock, pc, snap>>
  /\ UNCHANGED <<workerVars, resets, historyVars>>

\* Mutant of CallFails: an error is an answer to IsBlocking only.
CallFailsAtBarrier(t, w) ==
  /\ pc[t] = "barrier"
  /\ w \in awaited[t] \ reach
  /\ awaited' = [awaited EXCEPT ![t] = @ \ {w}]
  /\ UNCHANGED <<workers, reach, leaderClock, pc, snap>>
  /\ UNCHANGED <<workerVars, resets, historyVars>>

\* Mutant of CallFails: a failed Step call is made again, and arrives.
CallFailsRetried(t, w) ==
  /\ pc[t] # "idle"
  /\ w \in awaited[t] \ reach
  /\ awaited' = [awaited EXCEPT ![t] = @ \ {w}]
  /\ job' = IF pc[t] = "stepping" THEN [job EXCEPT ![t][w] = "read"] ELSE job
  /\ UNCHANGED <<workers, reach, leaderClock, pc, snap>>
  /\ UNCHANGED <<servers, blocked_watch, clock_watch, cur, toNotify>>
  /\ UNCHANGED <<resets, historyVars>>

\* An IsBlocking or Step call to a worker out of reach returns an error, which
\* process_step logs and takes for an answer.
CallFails(t, w) ==
  /\ pc[t] # "idle"
  /\ w \in awaited[t] \ reach
  /\ awaited' = [awaited EXCEPT ![t] = @ \ {w}]
  /\ UNCHANGED <<workers, reach, leaderClock, pc, snap>>
  /\ UNCHANGED <<workerVars, resets, historyVars>>

\* All workers answered: Step goes to every worker of the snapshot, and
\* reaches those within reach.
BroadcastStep(t) ==
  /\ pc[t] = "barrier"
  /\ awaited[t] = {}
  /\ pc' = [pc EXCEPT ![t] = "stepping"]
  /\ awaited' = [awaited EXCEPT ![t] = snap[t]]
  /\ job' = [job EXCEPT ![t] = [w \in Workers |->
                IF w \in snap[t] \intersect reach THEN "read" ELSE @[w]]]
  /\ overrun' = [overrun EXCEPT ![t] = [w \in Workers |->
                IF w \in snap[t] \intersect reach /\ blocked_watch[w]
                  THEN @[w] + 1 ELSE @[w]]]
  /\ UNCHANGED <<workers, reach, leaderClock, snap, resets, lag, disturbed>>
  /\ UNCHANGED <<servers, blocked_watch, clock_watch, cur, toNotify>>

\* The response of a Step call arrives.
StepReturns(t, w) ==
  /\ pc[t] = "stepping"
  /\ w \in awaited[t] \intersect reach
  /\ job[t][w] = "done"
  /\ awaited' = [awaited EXCEPT ![t] = @ \ {w}]
  /\ UNCHANGED <<workers, reach, leaderClock, pc, snap>>
  /\ UNCHANGED <<workerVars, resets, historyVars>>

\* Mutant of IncrementClock: the Step calls are not joined.
IncrementClockUnjoined(t) ==
  /\ pc[t] = "stepping"
  /\ leaderClock' = leaderClock + 1
  /\ pc' = [pc EXCEPT ![t] = "idle"]
  /\ job' = [job EXCEPT ![t] = [w \in Workers |->
                IF w \in snap[t] \intersect reach THEN "none" ELSE @[w]]]
  /\ snap' = [snap EXCEPT ![t] = {}]
  /\ lag' = [w \in Workers |-> IF w \in snap[t] THEN lag[w] ELSE lag[w] + 1]
  /\ UNCHANGED <<workers, reach, awaited, resets, disturbed, overrun>>
  /\ UNCHANGED <<servers, blocked_watch, clock_watch, cur, toNotify>>

\* All Step calls returned: the manager increments the clock and process_step
\* ends.
IncrementClock(t) ==
  /\ pc[t] = "stepping"
  /\ awaited[t] = {}
  /\ leaderClock' = leaderClock + 1
  /\ pc' = [pc EXCEPT ![t] = "idle"]
  /\ job' = [job EXCEPT ![t] = [w \in Workers |->
                IF w \in snap[t] \intersect reach THEN "none" ELSE @[w]]]
  /\ snap' = [snap EXCEPT ![t] = {}]
  /\ lag' = [w \in Workers |-> IF w \in snap[t] THEN lag[w] ELSE lag[w] + 1]
  /\ UNCHANGED <<workers, reach, awaited, resets, disturbed, overrun>>
  /\ UNCHANGED <<servers, blocked_watch, clock_watch, cur, toNotify>>

\* LoadSnapshot hands the model to every worker, and if none of the calls
\* fails sets the leader's clock and no other.
LoadSnapshot(n) ==
  /\ resets < MaxResets
  /\ workers \subseteq reach
  /\ leaderClock' = n
  /\ resets' = resets + 1
  /\ disturbed' = Workers
  /\ UNCHANGED <<workers, reach, pc, snap, awaited, workerVars, lag, overrun>>

-----------------------------------------------------------------------------
(***************************************************************************)
(* A worker: the Step handler and the requests that interfere with it      *)
(***************************************************************************)

\* get_clock_watch, then the value is read.
ReadClock(t, w) ==
  /\ job[t][w] = "read"
  /\ cur' = [cur EXCEPT ![t][w] = clock_watch[w]]
  /\ job' = [job EXCEPT ![t][w] = "write"]
  /\ UNCHANGED <<leaderVars, resets, historyVars>>
  /\ UNCHANGED <<servers, blocked_watch, clock_watch, toNotify>>

\* Mutants of SetClock: the clock moves by d instead of one.
SetClockBy(t, w, d) ==
  /\ job[t][w] = "write"
  /\ clock_watch' = [clock_watch EXCEPT ![w] = cur[t][w] + d]
  /\ toNotify' = [toNotify EXCEPT ![t][w] = servers[w]]
  /\ job' = [job EXCEPT ![t][w] = "notify"]
  /\ UNCHANGED <<leaderVars, resets, historyVars>>
  /\ UNCHANGED <<servers, blocked_watch, cur>>
SetClockTwice(t, w) == SetClockBy(t, w, 2)
SetClockBack(t, w) == SetClockBy(t, w, -1)

\* set_clock_watch(current_clock + 1), then the server map is fetched.
SetClock(t, w) ==
  /\ job[t][w] = "write"
  /\ clock_watch' = [clock_watch EXCEPT ![w] = cur[t][w] + 1]
  /\ toNotify' = [toNotify EXCEPT ![t][w] = servers[w]]
  /\ job' = [job EXCEPT ![t][w] = "notify"]
  /\ UNCHANGED <<leaderVars, resets, historyVars>>
  /\ UNCHANGED <<servers, blocked_watch, cur>>

\* ClockChangedTo(new_clock) is executed by one of the servers.
NotifyServer(t, w, s) ==
  /\ job[t][w] = "notify"
  /\ s \in toNotify[t][w]
  /\ toNotify' = [toNotify EXCEPT ![t][w] = @ \ {s}]
  /\ UNCHANGED <<leaderVars, resets, historyVars>>
  /\ UNCHANGED <<servers, blocked_watch, clock_watch, job, cur>>

\* The "step" event goes out to the behaviors and the machines.
RunBehaviors(t, w) ==
  /\ job[t][w] = "notify"
  /\ toNotify[t][w] = {}
  /\ job' = [job EXCEPT ![t][w] = "behave"]
  /\ UNCHANGED <<leaderVars, resets, historyVars>>
  /\ UNCHANGED <<servers, blocked_watch, clock_watch, cur, toNotify>>

\* Synced behaviors, machines and step subscriptions are through, or one of
\* them failed; either way the handler is over.
BehaviorsDone(t, w) ==
  /\ job[t][w] = "behave"
  /\ job' = [job EXCEPT ![t][w] = "done"]
  /\ UNCHANGED <<leaderVars, resets, historyVars>>
  /\ UNCHANGED <<servers, blocked_watch, clock_watch, cur, toNotify>>

\* SetBlocking(b): the watch takes whatever value a server sends last.
SetBlocking(w, b) ==
  /\ blocked_watch' = [blocked_watch EXCEPT ![w] = b]
  /\ overrun' = IF b /\ ~blocked_watch[w]
                  THEN [t \in Tasks |-> [overrun[t] EXCEPT ![w] = 0]]
                  ELSE overrun
  /\ UNCHANGED <<leaderVars, servers, clock_watch, job, cur, toNotify>>
  /\ UNCHANGED <<resets, lag, disturbed>>

\* IntroduceServer / ConnectToServer: the server enters the worker's map.
InsertServer(w, s) ==
  /\ s \notin servers[w]
  /\ servers' = [servers EXCEPT ![w] = @ \union {s}]
  /\ UNCHANGED <<leaderVars, resets, historyVars>>
  /\ UNCHANGED <<blocked_watch, clock_watch, job, cur, toNotify>>

\* Initialize resets the clock of the worker, not that of the leader.
Initialize(w) ==
  /\ resets < MaxResets
  /\ w \in reach
  /\ clock_watch' = [clock_watch EXCEPT ![w] = 0]
  /\ resets' = resets + 1
  /\ disturbed' = disturbed \union {w}
  /\ UNCHANGED <<leaderVars, servers, blocked_watch, job, cur, toNotify>>
  /\ UNCHANGED <<lag, overrun>>

-----------------------------------------------------------------------------
Handler(t, w) ==
  \/ ReadClock(t, w)
  \/ SetClock(t, w)
  \/ \E s \in Servers : NotifyServer(t, w, s)
  \/ RunBehaviors(t, w)
  \/ BehaviorsDone(t, w)

Stepper(t) ==
  \/ BeginStep(t)
  \/ BroadcastStep(t)
  \/ IncrementClock(t)
  \/ \E w \in Workers : IsBlocking(t, w) \/ CallFails(t, w) \/ StepReturns(t, w)

Environment ==
  \/ \E w \in Workers : AddWorker(w) \/ RemoveWorker(w) \/ LoseWorker(w)
  \/ \E w \in Workers : Initialize(w)
  \/ \E w \in Workers : \E b \in BOOLEAN : SetBlocking(w, b)
  \/ \E w \in Workers : \E s \in Servers : InsertServer(w, s)
  \/ \E n \in Snapshots : LoadSnapshot(n)

Next ==
  \/ \E t \in Tasks : Stepper(t)
  \/ \E t \in Tasks, w \in Workers : Handler(t, w)
  \/ Environment

Spec == Init /\ [][Next]_vars

\* Handlers and tasks are tokio tasks that are polled until they finish, and
\* synced behaviors answer their events.  Nothing makes a controller start a
\* step, a server change its mind or a connection break.
Fairness ==
  /\ \A t \in Tasks : WF_vars(BroadcastStep(t)) /\ WF_vars(IncrementClock(t))
  /\ \A t \in Tasks, w \in Workers :
       /\ WF_vars(IsBlocking(t, w))
       /\ WF_vars(CallFails(t, w))
       /\ WF_vars(StepReturns(t, w))
       /\ WF_vars(Handler(t, w))

FairSpec == Spec /\ Fairness

-----------------------------------------------------------------------------
(***************************************************************************)
(* Properties                                                              *)
(***************************************************************************)

\* Task t's Step handler on w has stored the new clock in the round under way.
Moved(t, w) ==
  /\ pc[t] = "stepping"
  /\ w \in snap[t]
  /\ job[t][w] \in {"notify", "behave", "done"}

\* Once a worker is marked blocked, every stepping task sends it at most one
\* more Step request: the one whose IsBlocking question had been answered
\* before the mark (process_step checks first and broadcasts later).
OverrunBound ==
  \A t \in Tasks, w \in Workers : blocked_watch[w] => overrun[t][w] <= 1

\* With one task stepping the cluster, the clock of a worker is exactly the
\* leader's, less the rounds completed without the worker, plus the step it
\* has made in the round under way.  So the clocks of any two workers keep
\* their distance up to one step, whatever calls failed on the way.
LockStepClocks ==
  \A w \in reach \ disturbed :
    clock_watch[w] + lag[w] =
      leaderClock + Cardinality({t \in Tasks : Moved(t, w)})

\* However many tasks step the cluster, a worker's clock never runs ahead of
\* the rounds that were begun: racing Step handlers may lose an increment but
\* cannot add one.
NeverAhead ==
  \A w \in reach \ disturbed :
    clock_watch[w] + lag[w] <=
      leaderClock + Cardinality({t \in Tasks : Moved(t, w)})

\* A round under way is completed unless one of its workers is blocked: no
\* failed call, lost connection or departed worker can hang process_step.
RoundCompletes ==
  \A t \in Tasks :
    pc[t] # "idle" ~>
      \/ pc[t] = "idle"
      \/ \E w \in snap[t] \intersect reach : blocked_watch[w]

\* What an observer of the clocks sees of one stepping task.
Abstract == INSTANCE LockStep WITH
  clock  <- clock_watch,
  round  <- UNION {snap[t] : t \in {u \in Tasks : pc[u] = "stepping"}},
  moved  <- {w \in reach : \E t \in Tasks : Moved(t, w)},
  cutOff <- Workers \ reach,
  owing  <- {w \in Workers \ reach :
               \E t \in Tasks : job[t][w] \in {"read", "write"}}

\* One task's rounds are the rounds of LockStep: workers move once per round,
\* nobody moves outside a round, and the leader counts a round only when all
\* workers within reach have moved.
ImplementsLockStep == Abstract!Spec
=============================================================================
