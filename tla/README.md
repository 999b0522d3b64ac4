# A TLA+ verification of bigworlds

bigworlds runs large simulations on a cluster. A *leader* drives the simulation
clock; *workers* hold the entities and run the behaviors; *servers* let clients
in; *machines* interpret scripts bound to entities. All of them are tokio tasks
that talk over channels or QUIC. This directory holds TLA+ models of the parts
whose correctness depends on how these tasks interleave, TLC configurations that
check them on small instances, and TLAPS proofs for any number of workers,
servers, clients and tasks.

Paths below are relative to `src/bigworlds/src/`, but for `examples/` in `src/` and `tests/` in `src/bigworlds/`.

## 1. Inventory

| component | state | operations | modelled in |
|---|---|---|---|
| leader, step rounds (`leader/mod.rs`, `leader/manager.rs`) | registered workers, clock | `Step` / auto-step (`process_step`), AddWorker, DisconnectWorker, LoadSnapshot | `StepRound`, `LockStep` |
| worker, stepping and blocking (`worker/mod.rs`) | clock watch, blocked watch, servers | `IsBlocking`, `Step`, `SetBlocking`, `Initialize`, `IntroduceServer` | `StepRound` |
| server, turns of clients (`server/mod.rs`, `server/turn.rs`) | clients, counter of blocking clients, clock watch, its worker | registration, disconnection, advance request, `ClockChangedTo`, blocking monitor | `ServerTurn` |
| the loop through all three | | a client's turn end to end | `ClusterTurn` |
| entities (`worker/part.rs`, `worker/manager.rs`, `entity/`) | entities in memory and archive, behavior handles, metadata | spawn, read, write, archive, remove, migrate, reorganize | `Entities` |
| machines (`machine/`) | commands, state, line, call stack | `Step`, events, single commands, shutdown; 15 kinds of commands | `Machine`, `Script` |
| script preprocessor and parser (`machine/script/`) | | lines to commands, conditionals, includes, print | `ScriptText` |
| models (`model/`, `entity/mod.rs`, `machine/cmd/register.rs`) | entities, prefabs, components, behaviors | reading files, conversion, merging, the entities to start with | `ModelFiles` |
| model propagation and membership (`leader/manager.rs`, `leader/mod.rs`, `worker/mod.rs`, `worker/manager.rs`) | the model on the leader and on each worker, the worker map | PullModel, MergeModel, SetModel, Initialize, AddWorker, IntroduceWorker, DisconnectWorker | `ModelSync` |
| election (`worker/mod.rs`, `worker/pov.rs`) | leader situation, peers | leader check, orphaning, election, fork of a leader, rejoining | `Election` |
| signals (`rpc/`, `executor.rs`, `worker/mod.rs`, `leader/mod.rs`) | contexts with hops, seen calls | broadcast of an event, global query, request passed to the leader; delivery modes | `Signals`, `Flood` |
| queries (`query.rs`, `query/process.rs`) | | filters, limits, mappings, descriptions, layouts, merging of products | `Query` |
| subscriptions (`worker/`, `server/mod.rs`, `executor.rs`, `net/quic.rs`) | subscriptions, channels, streams | subscribe, products of steps and events, relay, unsubscribe | `Subscriptions` |
| variables and addresses (`var.rs`, `address.rs`, `entity/storage.rs`, `machine/cmd/set.rs`) | an entity's storage | coercion, texts and parsing, set command | `Vars` |
| gRPC service (`server/grpc/`) and data pulls (`server/mod.rs`) | | conversions of queries, products and registrations; writes | `Grpc` |
| gRPC client (`clients/grpc-client`) | status, connection attempt, channel | connect, update, disconnect, query threads | `GrpcClient` |
| Lua and dynamic-library behaviors (`behavior/`) | | foreign code | not modelled beyond their handles |
| HTTP; client library's sockets; transport; nodes; `sim.rs`; CLI; examples | | translation, encoding, assembly | not modelled |

**Interactions.** The leader sends workers `IsBlocking`, `Step`, `SetModel`,
`Initialize`, `SpawnEntity`, `MigrateEntities`. Workers send the leader
`ConnectToWorker`, `PullModel`, `TakeEntity` for somebody else, status checks. A
worker's `Step` handler tells its servers `ClockChangedTo`; a server's monitor
tells its worker `SetBlocking`. Every state-holding component has a *manager*, a
task that serves one request at a time: one request is atomic, two are not. That
is the granularity of all modules: one action per access to a manager, a mutex or
a watch channel, and one per message that may be lost.

**What is hard.** Steps started by the auto-step loop and by controllers overlap.
`IsBlocking` answers are used after the worker may have been blocked again. A
request that fails is logged and counts as an answer. Workers join and leave in
the middle of a round. Client requests interleave with the client's own
disconnection, and the counter they share is an unchecked `u8`. The monitor's
watch coalesces changes. A change of
the model reaches the workers one by one, and can stop half way, while others join,
stop or restart behaviors. Migration copies, sends and removes in three steps, each
of which can fail or be overtaken. Script blocks are found by a textual search
and left by a stack that does not know which block an `end` closes. A signal reaches
a worker along several chains; its context is what keeps it from going round. A
worker that loses its leader has a monitor and orphan tasks that write its situation
while it is connected again. Subscriptions run over channels of one message, so
a client that does not read holds up a step. Queries, addresses and values are
converted several times on their way. The lines where the most important of these bite are in `PROJECT.json` under `hazards`, with the properties that
watch it.

## 2. Modules

| module | content |
|---|---|
| `LockStep` | abstract: simulation steps are rounds; an engaged worker moves once per round |
| `StepRound` | leader's barrier and workers' Step handlers |
| `StepRoundProofs` | proofs about `StepRound`, with the refinement of `LockStep`, and about `ClusterTurn`, which implements `StepRound` |
| `ServerTurn` | one or more servers, their clients, requests and monitors |
| `ServerTurnProofs` | proofs about `ServerTurn` |
| `ClusterTurn` | `StepRound` and `ServerTurn` composed |
| `Entities` | partitions, archive, behaviors, removal, migration |
| `EntitiesProofs` | proofs about `Entities` |
| `ModelSync` | the model on the leader and the workers, joining and leaving, behaviors that follow |
| `ModelSyncProofs` | proofs about `ModelSync` |
| `Flood` | abstract: a broadcast is answered when every member of a group has handled it |
| `Signals` | signals with contexts: Invoke, global query, requests proxied to the leader |
| `SignalsProofs` | a broadcast implements `Flood`; what a signal does to the cluster and what its caller is told |
| `Election` | loss of the leader: checks, orphans, elections, forks, rejoining |
| `ElectionProofs` | proofs about `Election` |
| `Subscriptions` | subscriptions from the worker's handlers to the client's stream |
| `SubscriptionsProofs` | proofs about `Subscriptions` |
| `Vars` | values, texts, addresses, storage, the set command |
| `Query` | a query on one partition, and products merged over workers |
| `Grpc` | queries, products and registrations over the wire; data pulls |
| `GrpcClient` | the gRPC client, and a query from the request to the decoded answer |
| `ScriptText` | the text of a script to commands |
| `ModelFiles` | files to a model to entities |
| `Data` | the client and single calls of the six modules above, with their reference definitions |
| `Script` | abstract: what a script means |
| `Machine` | the interpreter, with the refinement of `Script` |
| `MachineProofs` | what the search for ends finds; the interpreter implements `Script` |
| `MC*` | constants, symmetry and constraints for TLC |

### StepRound

`pc[t]` is where the task `t` is in `process_step` (`leader/mod.rs`): *idle*,
*barrier* (`join_all` over `IsBlocking{wait: true}`), *stepping* (`join_all` over
`Step`). `snap[t]` is the worker map it cloned, `awaited[t]` the futures still
pending. `job[t][w]` is the Step handler of worker `w` on behalf of `t`: it reads
the clock watch, stores the value plus one, tells each server, runs behaviors.
The read and the store are two requests to the worker's manager and two actions.
`LoseWorker` cuts a worker off from the leader: calls to it fail (`CallFails`)
and count as answers, as `process_step` logs and drops the error. `lag`,
`disturbed` and `overrun` are history variables of the properties.

### ServerTurn

`client[c]`, `blocked[s]` (the `u8`), `call[k]` (a request slot: *checked* the
client exists, *targeted*, *waiting* after its decrement, *reached* before its
increment), `fresh[k]` (its watch receiver has an unseen value), `monitor[s]`,
`changed[s]` (the version of the counter's watch is newer than what the monitor
saw). `SendModify` wraps modulo 256; `Panic` is the debug build's alternative,
which ends the request's task.

### ClusterTurn

Extends `StepRound` and has an instance of `ServerTurn`, `Turn`. Conjoins `NotifyServer`
with `Turn!ClockChangedTo` and `Turn!MonitorTell` with `SetBlocking`. Every other action
of either side leaves the other unchanged, also `Reset`: a worker that is initialized sets its clock
back, and a snapshot sets the leader's, without telling any server.

### Entities

`memory[w][n]` and `archive[w][n]` are the two stores of a partition,
`handles[w][n]` the behaviors spawned for `n` there. `reorg[r]` is one
ReorganizeEntities request, worker by worker and entity by entity: `Fetch`,
`TakeEntity` at the destination, `RemoveMigrated` at the source. `seen` is the set
of workers that recorded the request's id, which is why they refuse the same id
over the network. `despawn` is the leader's RemoveEntity loop. `latest` is what
the last write or removal asked for; `upset` collects the names to which something
happened that the code has no provision for (listed at `Upset`): the properties
promise nothing about them. The list is the result of looking for an inductive
invariant: an entity that the leader hands back to the worker it comes from, for one,
arrives there before the worker removes the original, and is removed with it.

### ModelSync

`manager` is the request the leader's manager serves: it awaits `SetModel` on one
worker after the other (`todo`, `at`), and takes no other request before the last has answered
or one has failed. `ctl[c]` is a task of the leader that handles a request to
change the model; `Initialize` is four requests to the manager and to workers with
gaps in between. `setting[w]` is a worker's SetModel handler, which fetches the
behavior's handles and restarts them one by one before it stores the model.
`join[w]` follows ConnectToLeader: the leader adds the worker, and answers its
introduction, which the worker takes before it listens. `stopping[w]` is the shutdown.
A model is abstracted to the script of one behavior, which all models
contain, and the parts that merges added. `missed` (workers a failed propagation
did not get to) and `tangled` (workers initialized during a SetModel) are
history variables.

### Machine and Script

A script is a sequence of commands `[op, name]`. `Search` is `command_search`
with, for each kind of block, the list of other openings its constructor passes
(`IfOthers`...`MachineOthers`); `Scan` is one line of it, with the number of other blocks
open. It yields the ends the interpreter jumps by.
`Finish` to `EndComponent` are the commands of `execute`; `BeginStep`,
`BeginEvent`, `Redirect`, `FetchFails` and `Shutdown` the requests to the task. The end of a component
sends the worker a MergeModel request and drops the result, so the component may be missing afterwards
(`EndComponent`).
`Script` states the meaning of the same commands without a search and without a
common stack: the end of a block is where the brackets balance, calls return
behind the call, a component is registered with the
variables declared in it, if the leader takes it. An event in a script without states may end the machine (`NoState`).

### Signals

A call is known by the chain of participants it went along (`calls`); a handler
opens it, waits for the calls it made in turn, and responds to the one above. `ctx`
is the context: id, origin, delivery, hops. `seen` is a worker's `seen_calls`. A cluster is
a graph of peers, the workers that have a leader, those reached over the network,
an entry and a request. `Reachable` are the workers that peers and the leader connect with the entry; a
query asks the leader only where a worker has no peers (`ByLeader`). `Flood` is what a broadcast promises; `IsFlood` maps the
workers that triggered the event to it. A call over the network may `Fail`, before or after the other side
took it, up to `MaxLost` times (`lost`). What the caller makes of that is what the code makes of it: a
broadcast passes over it and answers as if nothing had happened, a query fails, a request to the leader
fails or is tried elsewhere (`Told`). Where a cluster is `networked`, the leader does not
take requests other than those it implements for the network; it panics.

### Election

`monitor[w]` is the leader check, from the question for the leader's status to the last peer
asked to elect; `orphan[w][i]` are the tasks an orphan spawns, each asleep, then
relieved by a change of situation, forking a leader, or stopping the worker.
Connections are modelled by both ends, as the worker and the leader store them at
different times (`dialling`, `admitting`). Not every connection is served at both: only
ConnectToLeader serves the connection it makes. A leader that connected to a worker
answers nothing on it (`unserved`), nor does a worker on a connection it made to
another one (`silent`), so that a call there hangs until it breaks. An orphan's task looks first, then reads its
configuration and acts: `FindsAlone`, and then `Fork` or `Stop`. `overridden` collects the workers whose
situation was written while another task still acted on the old one: the code does not
protect these writes, and the properties name what holds without them.

### Subscriptions

From a handler on the worker to a client's `got`: `chan` (one message), the
server's `relay`, `stream` (one message), and for a client on the network the `pump`
and the `wire`. A handler of Step or Invoke copies the subscriptions, queries and
sends for each, waiting for room. An Invoke by a client holds the server's `lock`, which
ClockChangedTo, called by every Step, needs. Clients subscribe, unsubscribe,
drop their stream, read or do not read.

### The data modules

These are operators, one per function of the code, with outcomes *ok*, *error*, *panic* (and
*endless* for includes). Numbers are small: an Int is at most 5, a Float counts halves,
so that truncation and overflow show. Texts are the tokens that parsing distinguishes: a name
is one token, or several if it contains a separator; a line of a script is a sequence of words, of which each
is a command, a tag, a comment sign, a semicolon or a backslash. `Data` makes each call a behavior of one step
whose inputs are the `Jobs`, beside the state machine of the client
(`Connect`, `Finish`, `Update`, `Disconnect`, query threads). The properties compare the outcomes
with definitions written independently: a selection by quantifiers over the entities,
a script by the commands it was laid out from, a model by the walks along its includes.

## 3. Runs

| run | question | properties |
|---|---|---|
| StepRoundOne | one task, two workers that join, leave, fail and block | `OverrunBound`, `LockStepClocks`, `ImplementsLockStep`, `RoundCompletes`, `TypeOK` |
| StepRoundRacing | two tasks on one worker, resets in between | `NeverAhead` |
| ServerTurnAny | two blocking clients and a passive one, any order of requests | `BlockAccounting`, `MonitorAgrees` |
| ClusterTurnLive | is an advance request answered? | `ServerClockFollows`, `AdvanceEnds` |
| EntitiesMixed | two entities, three workers, with and without archives | `NothingLost`, `OneHome`, `CopiesAgree`, `BehaviorsFollow` |
| ModelSync | two workers that join, leave and fail, two controllers that change the model | `InSync`, `StoresCurrent`, `BehaviorFollows`, `ManagerFree` |
| ModelSyncJoin | does a worker that joins a running cluster get in? **No** | `JoinEnds` |
| MachineScripts | scripts of up to three blocks | `EndsFound`, `ImplementsScript`, `RunEnds` |
| Signals | broadcasts, queries and requests to the leader in graphs of three workers | `HandledOnce`, `AnswerTrue`, `IsFlood`, `CallEnds` |
| Election | two workers that lose their leader, one of them twice, are taken in again and get to know each other | `NoFalseAlarm`, `OnlyOrphansGiveUp`, `LossNoticed`, `OrphanEnds`, `ElectionSpreads` |
| Subscriptions | two clients that subscribe, leave, vanish or do not read, during steps and events | `StreamRight`, `NoneLeftOut`, `HandlersEnd`, `StreamLives` |
| Data | a gRPC client of two clusters; single calls over bounded inputs | `ClientRight`, `QueriesRight`, `WritesRight`, `RoundTrips`, `ScriptsRight`, `ModelsRight` |

Several of these are conjunctions of named parts, each with a comment of its own in
its module: `AnswerTrue` of what the context, the product and the effect of a call
say; `StreamRight` of order and end; `StreamLives` of beginning and end of a stream;
those of `Data` of one part per function. Every property of a passing run, and every
such part, has a mutant in `PROJECT.json`: a change of one definition, as a
plausible mistake in the code would make it, under which TLC finds the property
violated. The modules' `TypeOK` say what values the state takes; the one checked in a run is
`StepRound`'s.

**Violation.** `JoinEnds`: the leader's manager sends a worker that dials in the model and
awaits the answer; the worker serves the leader only when its introduction
is answered, which needs the manager. Both wait, and so does every later
request to the leader's manager. `worker/mod.rs:139` says that workers can join an
initialized cluster dynamically.

### Bounds and why they are enough

* Workers, servers, clients: one to three. The properties are about one worker,
  or relate two; those that have a proof are proved for any number.
* `MaxClock` = 2 stops new rounds. Two rounds are enough for a first round to
  leave something behind for a second; nothing in the code depends on the value of
  a clock. `MaxResets` = 1 lets a reset fall anywhere in a round (in `ClusterTurn` a snapshot may also set the leader's
  clock ahead, to 2). `MaxStepCount`
  = 1: a request for more steps waits for a later clock and does nothing else.
* The guards, not constraints, carry these bounds, so they do not disturb the
  liveness checks. `AdvanceEnds` speaks only of requests whose target fits below
  the bound.
* `Entities`: the constraint `Quiet` stops the search once a name is upset, as
  nothing is promised about it from then on. There is one
  ReorganizeEntities request at a time, as a second one on the same entity upsets it. `Setups`
  are one cluster where a worker has an archive and one where two workers are told
  to use an archive they do not have. Handles are counted up to "two or more".
  Names are symmetric; workers are not, as they differ in links.
* `ModelSync`: a local worker and one that dials, two requests of two
  controllers, one worker that is lost or stops. A cluster starts empty or as
  `sim::spawn_from` leaves it, with a model of `FirstScript`, so that two requests are
  two changes. Every property is about one worker and the leader; the second worker is
  there for the loop of the manager to have a before and an after.
* `Machine`: the 4,754 and more scripts are those of a block with one command, possibly
  inside another block, and possibly a call, alone or in a block, behind it. That is
  every pair of nested kinds, every kind before and around a call, and
  recursion. `Depth` = 3 instead of 32 lets the stack overflow in every way that
  needs at most four frames.

* `Signals`: every graph of peers of three workers for a broadcast that is limited to
  one delivery, with every set of workers that have a leader; for the
  other deliveries, remote workers, queries and requests to the leader, the
  graphs in which they behave differently: alone, a pair, a path, a ring, one-way peers, and
  for queries workers that have both a leader and peers.
  Workers reached over the network are one, two, or all that take part, also two peers of which one
  asks the other. `MaxLost` = 2 lets one call fail after another did. `MaxPath` = 7 cuts chains that go round,
  which only `GoesRound` clusters have: queries among peers, and workers that know each other over the
  network besides the one the signal enters at. `CallEnds` excepts them.
* `Election`: a worker that forks a leader when orphaned and one that shuts down, who
  know nobody, or one the other. Two losses for one, so that one orphan task can
  meet the next, and one for the other; one rejoining; one introduction of a worker to the other (`MaxMeets`).
* `Subscriptions`: one client in every role, alone, here and over the network; two
  clients of which one stays. Up to two steps, one Invoke of two events, and five steps
  over the network, enough to fill everything between the worker and the client. `Window` = 1 instead of what QUIC
  allows: a connection that takes more only delays the same blocking.
* `Data`: three entities with two components on one to three workers; up to two filters,
  every mapping, seven descriptions and layouts; pulls of three writes; every pair of
  target and source of a set command; scripts of three things, each a command laid out in one of six ways (alone, behind a semicolon, continued,
  with a comment, in a comment, a comment that continues) or one of six directives, and of five commands and
  conditions; small file systems with the includes that
  matter (beside, below, a directory, the root's directory, a diamond, a cycle, a missing file), and entities to start with
  that have data of their own. `MaxReads` = 20 cuts off a
  cycle only.

### Fairness and why the code justifies it

* Tasks and handlers are polled until they finish: weak fairness of the leader's
  and the workers' steps in a round, of a request's accesses to the server, of the
  monitor's steps, of a machine's run.
* The auto-step loop calls `process_step` again and again, so in `ClusterTurn`
  its beginning is fair. In `StepRound` no task owes a round: a controller need not
  come back.
* The leader's manager takes requests from one queue. A joining worker's request
  therefore gets its turn if the manager is idle again and again: strong
  fairness of `Joining` in `ModelSync`.
* In `Signals` every call under way goes on: its handlers are tasks and nothing
  they await is but another call. In `Election` the monitors, the orphan tasks and dialling
  go on; nobody has to take a worker in again. In `Subscriptions` the tasks of the worker, the
  server and the network go on when there is room; clients need not read, subscribe or leave,
  but a client that has the end of its stream before it sees it. `HandlersEnd` and `StreamLives` name the exception, a client
  that keeps its stream and does not read.
* Nothing is assumed of clients, of connections, or of anybody who could
  unblock a worker. `RoundCompletes` and `AdvanceEnds` therefore name the
  exceptions: a reachable worker that is blocked; a server that is held back or
  detached.
* Synced behaviors are assumed to answer the events they are sent. A behavior
  that never does holds the round, by design.
* Deadlock is checked except in `ClusterTurn` (everything may come to rest once
  clients have left and the only worker is unreachable), in `ModelSync` (nobody has to
  ask for anything) and in `Machine` (a machine that died does nothing), in `Signals` (the one call was answered), in
`Election` (all workers have stopped or none loses its leader any more), in
`Subscriptions` (the bounds are reached, or everybody waits for a client that
does not read) and in `Data` (a call is one step).

## 4. Proofs

The modules `*Proofs` hold for all values of the constants under the assumptions
named in the modules they extend. In each of them the argument is an inductive
invariant, with one step per action; TLC had checked each invariant on the instance of
the module's run before it was proved. `TypeCorrect` is the type invariant of a module; it
needs no other invariant.

`StepRoundProofs` (any workers, servers and tasks, any failure)
* **OverrunBounded**. `OverrunBound` is
  not inductive: it needs that a task which still holds the answer of a blocked
  worker has not stepped it since (`OverrunInv`). `SetBlocking` restarts the
  count, `BroadcastStep` uses the answer up.
* **ClocksNeverAhead**, for any number of tasks. A worker's `Limit` is the leader's clock
  and the handlers that have moved it in rounds not yet counted. `AheadInv`: neither the
  clock of a worker nor what a handler has read and is about to store is past the limit; a store
  raises it by one. `FewRounds` says that the rounds under way are finitely many, which
  their cardinality needs: `Tasks` itself may be infinite.
* **ClocksInLockStep**, with one task. `RoundInv` ties `pc`, `snap`, `awaited`
  and `job` together (a handler works for a round its task is in); `ClockInv`
  carries the value a handler read from the read to the store, which is what a
  second task would break. Assumption: `Tasks` is a singleton.
* **OneTaskImplementsLockStep**: initial states map to initial states, and each
  step to a step of `LockStep` or a stutter; `RoundInv` and `ClockInv` give the
  guards of the abstract steps.

`ServerTurnProofs` (any clients, any interleaving)
* **MonitorNeverStale**. `MonitorInv`: a monitor
  that watches an unchanged counter has told what the counter says, and one
  that is sending an unchanged verdict is about to.
* **AccountsBalance**: fewer than 256 clients per server (`FewClients`).
  `CallInv` says what a request slot's stage implies of its client; the counter
  then changes with the set of `Holders`, whose cardinality lemmas
  (`HolderJoins`, `HolderLeaves`) rest on finite-set theorems.

`StepRoundProofs`, on `ClusterTurn` (any workers, servers, clients and calls)
* **ClusterImplementsRounds**: every step of the composition is a step of
  `StepRound` or leaves its variables alone, so the theorems above
  hold of the composition. The other half, that it implements `ServerTurn`, holds up to the
  bound on clocks only, which `ServerTurn` counts by itself; the run covers it.
* **ClockOfServerFollows**, with one task. `FollowsInv`: until a Step handler has told everybody, the
  clock it has stored stands, and every server of the worker that it is not about to tell has been
  told, or the worker was reset and its clock is 0 still. A second task's handler could store another clock meanwhile.

`EntitiesProofs` (any workers, names, settings and concurrent requests)
* **EntitiesKept**, **EntitiesHaveOneHome**, **EntitiesAgree**, **BehaviorsFollowEntities**, all from
  `EntitiesInv`. What makes the four inductive is `Spoken`: the copy a request has
  under way is spoken for by that request alone; its original is where the request took
  it from, with the last value written; when the copy has arrived, it is somewhere else. `TwoHomes`:
  two workers hold an entity only as the two ends of such a request. All of this is said of
  names that are not `upset`, and the proof has to show, action by action, that what breaks
  it upsets the name.

`ModelSyncProofs` (any workers, controllers and models, any failure)
* **Synced**. `InSync` is not
  inductive. `SyncedInv` extends it to the middle of a propagation: a worker
  that is behind is on the manager's list. `HandlerInv` says that a SetModel handler has
  the leader's model unless the manager gave it up, and then its worker is cut off
  and missed; `ManagerInv` and `JoinInv` say that only a worker that has asked
  is added, and that one the manager is adding is not one that dialled and
  already answers.
* **NeverBack**: from the same invariant, one case per action that stores a model.
* **BehaviorsFollowModel**: `FollowInv` says of a following worker that of the handles in
  its partition only the last is live, and in the middle of a SetModel what the handler has fetched
  and how far it is: a handler that fetched more than one handle fails at the first, a dead one,
  before it replaces any.

`SignalsProofs` (any workers, any graph of peers, any chains of calls)
* **TriggersOnce**. `HandledInv`: while a signal is limited to one delivery and no network
  lies between, every call carries the id of the first; a worker has at most one call of it
  open, which will trigger the event, none once it has triggered it, and in both cases has
  noted the id, so that it refuses every other.
* **AnswersAreTrue** joins the three theorems on what a caller is told:
  * **ToldWhatTookEffect** (`TakesEffectOnce`), whatever fails on the network. `Line`: the calls of a request to
    the leader form one line, each waiting for the next, and only the last can be answered. `Effects`: a
    call that waits has not failed; the last one's error says whether the leader has
    taken the request, unless the call itself was lost (`KeptFailed`, `FailureHeard`).
  * **AnswerNames** (`AnswerNamesAll`). `Names`: while a broadcast goes on, the hops of
    every context are distinct, a worker that has triggered the event is named in a call still open, and
    so is the leader, or it is asked, once a worker that has it was visited. The leader's answers
    come back one at a time, so each begins with what the leader had (`InTurn`). `SendNames` is
    the same for a request to the leader, which is passed on to workers that are not named yet.
  * **QueryAnswersCover** (`QueryCovers`). Until a call fails the query is a broadcast
    whose effects are parts of products (`Going`, below). Afterwards it is `Doomed`: a failed call is awaited from
    the root, call by call (`Heard`), and each tells the next. What goes on besides
    cannot come back into that line, as no chain of participants is gone along
    twice (`Kept`). `Parts` follows the only way of a query without peers: entry, leader, the other workers.
* **BroadcastFloods** (`IsFlood`), for all deliveries and networks. The calls form a `Tree` that grows at its leaves
  and is answered from them. `Spread`: a worker that was visited has passed the signal on to all peers
  and to the leader, unless the context shows that they know (`Traced`), so that at the end those that
  have triggered the event are closed under the cluster's connections, if no call was lost; `Sound`: nobody else
  is asked. `Reachable` being the least closed set, the two are equal then. `Marked`: a call
  is refused only by a worker that was visited.
* They rest on lemmas that say once what opening a call (`OpenIs`), answering it (`RespondIs`)
  and the leader's next worker (`NextIs`) do to all calls, and on those about hops: the loop
  of `MergeHopsUnique` defines a function (`MergeLoop`), which keeps what was there, its order and its
  distinctness, and adds what is new.

`ElectionProofs` (any workers that know any others, any number of losses and rejoinings)
* **WaitingIsAlone** and **GivingUpIsSafe**, from `ElectionInv`. `ConInv`: a connection
  is to the cluster's leader, made by one of the joins so far, or to a worker's own fork, whose task is still
  at it or done. `CallInv`: who
  is called to an election knows the caller. `Settled(w)`: what the situation of a worker says
  and what its check and its connections are agree, for a worker that was not `overridden`. The
  writes the code does not protect are the ones that override; an orphan's task minds its worker's situation from
  its look to its act, so whoever turns up in between overrides.

`SubscriptionsProofs` (any streams, any window)
* **StreamsRight** and **NobodyLeftOut**, from `SubscriptionsInv`. What is between a handler and a
  client is one line of six places (`Flow`): what the client got, the wire, the network's task, the stream,
  the server's task, the channel. `Line*` lemmas say that every action moves a message along that line
  or loses its end, so that order, origin and number need to be kept only where a
  handler sends. That products of steps come only on subscriptions to steps is part of what a handler sends. `Sent` and `ToSend` relate the line to the handlers under way, `Ended` to the tasks that
  have ended, `Served` to the step in progress.

`MachineProofs` (any scripts, names and capacity of the stack)
* **TypeCorrect**, from `IInv`: besides the types, that a frame's line to go back to is a line of the
  script (`Ranges`), as the stack outlives the blocks its frames are for.
* **BlocksFound** (`EndsFound`). The reference is a count: a block ends where as many blocks have ended as were
  opened (`Level`). `Nested` says that blocks lie in one another, and `AroundIs` which one a line is in. The search
  is a table of lines and of other blocks open (`SearchTable`); for a block that contains only what it knows, its
  entry at a line and that line's level is the block's own end and the elses from there on (`SearchLine`), from the
  last line back to the first; for a nested block of its own kind, by that block's own search.
* **ScriptImplemented** (`ImplementsScript`), from `Walk`: what the frames say of the line. With a procedure's
  frame on top the line is in that procedure, and below it each call is where its caller's frame puts it, down to
  the run's own body (`Places`); a component's frame is on top exactly while the line is in a component; the
  frames that an if leaves behind lie below all others and only where the rest of the script is being
  run, so that the run does not end early for want of an empty stack (`Frames`). `Walk` is not in the
  code anywhere: the stack is popped by whatever `end` comes along, and it is the fragment that makes it the right
  one. One lemma per command (`IfMeant`, `CallMeant`, `EndProcMeant`, ...) maps its step to the step of `Script`,
  and scripts outside the fragment stutter. `BlocksFound` gives the ends that both sides jump by.

`Signals` builds its small functions with constructors, as the prover does not expand `:>` and `@@`,
and writes the loop that merges hops as a function on the numbers of its rounds. That such
a function exists is proved by a least counterexample among those numbers, the tree of calls by
one among their lengths; `Machine` does the same with the table of its search and the frames of its stack, with
`Upwards` and `Downwards` for the steps: the library's induction theorems cannot be cited here.
The assumptions `ViewsAssumption` (nobody knows itself), `LeaderAssumption`, `NobodyAssumption` (who calls for
no participant is none), `ClustersAssumption`, `SetupsAssumption` and `MachineAssumption` (which names a command may have, and that the
two names every script may use are there) say what the constants are and restrict nothing the
program can be in.

**Only model-checked.**
* Liveness (`RoundCompletes`, `AdvanceEnds`, `RunEnds`,
  `ManagerFree`, `CallEnds`, `LossNoticed`, `OrphanEnds`, `ElectionSpreads`, `HandlersEnd`, `StreamLives`),
  as the prover does not reason about fairness and ENABLED.
* The modules below `Data` use
  recursive operators on values, texts and files, and their properties compare
  recursive functions: `QueriesRight`, `WritesRight`, `RoundTrips`, `ScriptsRight`, `ModelsRight`, and
  `ClientRight` in the same module.

## 5. What the modelling showed besides

**Where the code and a document disagree.** The properties of the passing runs name these cases and
allow what the code does, so that they can say what holds of everything else. They
are small enough to be seen in the lines quoted; only `JoinEnds` needs a trace.
* `worker/part.rs:288-290`: removing an entity that does not exist is an error. With an
  archive it succeeds (`part.rs:294-311`), and the leader's search for the entity stops at that worker. `CopiesAgree` says in
  its comment that it does not cover it.
* `query.rs:226-232`: a subscription's triggers are the events it names. An event is sent to every subscription
  (`worker/mod.rs:1268-1293`), also to those to steps alone. `StreamRight` promises only that products of steps
  come on subscriptions to steps (`StepsIfSubscribed`).
* `query.rs:256-262`, `query/process.rs:34`, `tests/query.rs:136-154`: filters are applied one after the other, to
  what the last one left. `Filter::Component` starts again from all entities (`query/process.rs:225-236`). `SelectionRight` and
  `AnswerRight` exclude selections in which it follows another filter (`Forgets`).
* `examples/tour/behaviors/script.bw:27-30`, `machine/script/mod.rs:66-81`: a `#` starts a comment. One that ends in a
  backslash takes the next line with it, and a semicolon in it ends it. `preprocessor.rs:142-143`: a condition
  selects a branch. Both are lost. `ScriptsRight` says which commands must be there and which may.
* `examples/tour/behaviors/script.bw:202-204`: a script without states can be run on an event. Its machine's task ends.
  The reference `Script` may end there (`NoState`).
* `examples/tour/model.toml:35-36`: an include may be `*`. Only `/*` at the end of a path is taken for a directory
  (`model/intermediate.rs:71`), so a `*` in the root file is looked for as a file and reading the model fails.
  The reference of `ModelsRight` expects the failure (`Directory`).

The rest contradicts no document: it is how the code behaves.

Turns:
* Two overlapping rounds make two Step handlers on one worker read the same clock and
  store the same value: the worker stays one behind for good.
* A client that disconnects while its advance request waits gets its block added back
  later: the server holds the cluster back for nobody (`server/turn.rs:75`).
* The monitor misses a first change made before it knows its worker: the cluster
  does not wait for a blocking client that registers that early.
* A request that finds the clock beyond its target does not block again, and a
  retry takes away a block it does not hold.
* A client is answered when its server's worker has stepped; other workers may
  still be stepping and the leader's clock is behind.
* Two servers of a worker share its one blocked flag: `SetBlocking` overwrites it, so a
  second server whose clients left unblocks the worker over the head of the first.
* `client_keepalive` is not read anywhere.

Entities:
* The leader leaves out the workers in a signal's hops; a worker reached over
  the network is not among them. Its entity comes back to it and is then removed as
  migrated (`leader/mod.rs:667`).
* A write to an absent or archived entity is acknowledged and dropped.
* An entity that is archived, or was removed since names were listed, ends
  the whole reorganization with an error; so does a refused `TakeEntity` in a
  cluster of local and remote workers.
* A worker without peers that lost its leader sends the entity nowhere and
  removes it.
* Auto-archiving without an archive takes an entity from memory and drops it.

Models:
* A worker that shuts down waits for the leader's manager to remove it, while the
  manager may be waiting for that worker's SetModel: each waits for the other
  (`Stuck`).
* A worker that died stays in the leader's map and makes every later propagation
  fail; workers behind it in the map's order do not get the model.
* A restarted behavior's old handle stays in the partition. The next change of the
  same script finds its task ended, and SetModel fails from then on.
* `Initialize` reads the model and sets it again later: a merge in between is
  overwritten. One that falls into a SetModel runs the behavior twice.
* A second `Initialize` drops the handles of running behaviors without ending them; a
  Lua task whose handle is gone loops without waiting.
* A worker that joins locally gets the model but is not initialized.
* IntroduceWorker is answered with a model only after a propagation that failed.
* MergeModel on a leader without a model does nothing and succeeds.

Signals:
* Two workers that know each other over the network, besides the one a broadcast enters at, pass it to each other for ever: streams
  over the network leave no trace in its context. So do local peers with a global query of unlimited delivery; with
  one delivery, or remote peers, the query fails.
* A broadcast answers Ok whatever became of its calls: a worker that cannot be reached, or whose answer is lost, is
  passed over (`worker/mod.rs:1617-1622`, `1651`, `leader/mod.rs:595-601`). Who is told that an event was
  triggered knows nothing of the other workers.
* Over the network the leader does not take ReplaceModel, Initialize, Step or Ping: these end its task
  (`leader/mod.rs:500-507`), and whoever asked hears of a failure.
* A limit of two or more deliveries never refuses anything; the leader's record of
  signals it has seen is made anew for each and never filled.
* Where workers know each other one way, parts of a query arrive twice.
* A query is passed to the leader only by a worker that has no peers: one with a single peer
  gets no answer from the rest of the cluster.
* A request to the leader that ends at a worker with nobody left to ask panics there.

Election:
* Connections are served at one end only, but stored and used at both (`worker/mod.rs:676-690`, `745-758`, `848`, `1310`): a monitor
  that asks its leader or a peer on the wrong one waits for as long as the connection lasts, and notices no loss.
* An election is never decided; a worker with a live leader is pulled into one by a peer,
  and a local peer that is asked to elect panics.
* The monitor's late write can make a worker an orphan that was connected again
  meanwhile; an orphan task forks or stops the worker although a peer turned up; two orphan tasks
  can both fork.
* A fork goes on stepping its worker after the old leader took it in again; it has no
  model and starts at clock 0.

Subscriptions:
* A client that steps or invokes and does not read its own stream blocks itself, after
  three messages on one machine.
* Errors are not sent on such streams; a client on the network sees an error where a
  local one sees the end.
* The subscription of a client that is gone stays with the worker for good, and its query runs in every step.

Behaviors (not modelled):
* A worker that shuts down awaits its behaviors in its manager; a Lua script that
  is asking that manager for data never answers. Machines are not told.
* A machine or Lua task that died fails every later step of its worker. Tasks
  whose channel was closed loop without waiting. Unsynced behaviors that lag by more than
  20 events lose some.

Queries and data:
* Limits do not apply without a filter, and apply to each worker and each filter.
* Products described natively or laid out by type cannot be merged: a global query of
  two workers panics. The layout by type leaves strings out.
* A gRPC client gets an empty product for every kind but values and addressed values,
  and for errors. A filter's address that cannot be read back becomes that of the component
  `default`. Its ready-made queries ask for layouts that do not exist.
* Data pulled for an entity of another worker is acknowledged and dropped.
* The server holds its state during a client's query, pull or Invoke, so its clock waits.
* A short address is `type.name` or `component.type.name`, and names may have separators: `int.int.x`, the text of the
  variable `int.x`, reads back as that of the variable `x` of a component `int` (`address.rs:29-48`; `RoundTrips` says so).
* An address with an unknown type panics, as does `set` with a type twice.

Scripts and models:
* A condition that is left open is accepted. A quoted semicolon cuts a line. Includes and prints look into a model that is
  always empty, so they make the preprocessor refuse the script.
* An include that comes back to its file is read for ever; a file included in two ways is
  merged twice.
* A variable without a type that is given as a text is registered as an Int, one given as a number as
  a String. Values given to an entity of the model are not used by Initialize.
* Model::merge leaves behaviors and scenarios out.

Machines:
* Only `Request::Step` falls back to the whole script. An event looks for the state
  `start`, which a script without states does not have (`machine/mod.rs:284`).
* The component at the end of a `component` block is lost without a word if the leader does not take it
  (`machine/cmd/flow/end.rs:92-102`).
* A `loop` never ends, `break` or not; the condition of a `while` and the list of a
  `for` have no effect; the body of an `else` also runs after the true branch.
* A true `if` leaves its frame behind. In a state, the run then goes on past the
  state's end; in a procedure, the procedure does not return.
* A `for` in a procedure pops the procedure's frame at its own end; the run then
  may go round for ever. `loop` and `component` are unknown to some searches and shift the
  ends of the blocks around them.
* A machine that died makes every later step of its worker fail.

## 6. Plan

In this order:

1. **Proofs**: an abstract map of entities that `Entities` implements for names that are not
   upset; a subscription as an abstract stream; the action properties of `LockStep` for more than one
   task.
2. **Behaviors** (`Behaviors`): the worker's manager, its Step and Shutdown
   against tasks that ask the manager themselves, die or lag.
3. **Entities**: Initialize and reads that fail.

**Not modelled**: the formats of messages, sockets and TLS, HTTP, the CLI and
examples (no state that outlives a call); what behaviors, Lua or native, compute; services, which
are programs of their own; snapshots, which are kept in memory only; nodes, most of whose
requests are not implemented; `sim.rs`, which assembles a local cluster and passes
requests on.
