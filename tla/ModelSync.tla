----------------------------- MODULE ModelSync ------------------------------
(***************************************************************************)
(* The model of a bigworlds cluster: how a change made at the leader gets  *)
(* to the workers, how a worker that joins late gets it, and how a         *)
(* worker's behaviors follow it.                                           *)
(*                                                                         *)
(* The leader's manager serves one request at a time, and it serves        *)
(* PullModel, SetModel, MergeModel and AddWorker to the end: it awaits the *)
(* SetModel call to each worker, one after the other, before it looks at   *)
(* the next request.  The first call that fails ends the request; the      *)
(* leader keeps the new model and the workers not yet called keep the old. *)
(*                                                                         *)
(* A model is abstracted to the script of the one behavior that all models *)
(* here contain, and the set of parts that merges added.                   *)
(***************************************************************************)
EXTENDS Integers, FiniteSets, Sequences

CONSTANTS
  Workers,      \* worker ids
  Dialling,     \* workers that connect to the leader over the network; the
                \* others are local, or called by the leader
  Following,    \* workers configured with behaviors_follow_model_changes
  Controllers,  \* leader tasks that handle requests to change the model
  Scripts,      \* scripts of the behavior
  Parts,        \* what a merge can add to a model
  FirstScript,  \* the script of the model a cluster was started with
  MaxRequests,  \* bound on the requests of controllers
  MaxGone,      \* bound on the workers that are lost or stop
  NoModel, NoOne

ASSUME ModelSyncAssumption ==
  /\ Dialling \subseteq Workers
  /\ Following \subseteq Workers
  /\ FirstScript \in Scripts
  /\ MaxRequests \in Nat /\ MaxGone \in Nat
  /\ NoOne \notin Workers \union Controllers

VARIABLES
  leaderModel,  \* leader State.model
  registered,   \* keys of leader State.workers
  manager,      \* the request the leader's manager is serving
  ctl,          \* ctl[c]: where controller task c is, and the model it holds
  model,        \* model[w]: worker State.model
  behaviors,    \* behaviors[w]: the partition's handles of the behavior
  setting,      \* setting[w]: the worker's SetModel handler; of the handles it
                \* fetched, which were live (old), the next one to look at,
                \* and whether the partition is still the same
  join,         \* join[w]: how far w is in joining, and the model it was told
  stopping,     \* stopping[w]: how far w is in shutting down
  reach,        \* workers whose connection to the leader stands
  issued,       \* number of requests of controllers so far
  missed,       \* history: workers the last propagation did not get to
  tangled       \* history: workers that were initialized during a SetModel

leaderVars == <<leaderModel, registered, manager>>
workerVars == <<model, behaviors, setting>>
memberVars == <<join, stopping, reach>>
historyVars == <<missed, tangled>>
vars == <<leaderVars, ctl, workerVars, memberVars, issued, historyVars>>

Models == [script : Scripts, parts : SUBSET Parts]
ASSUME NoModelAssumption == NoModel \notin Models

Plain(s) == [script |-> s, parts |-> {}]
Handles == [script : Scripts, live : BOOLEAN]

Free == [task |-> "idle", sends |-> NoModel, todo |-> {}, at |-> NoOne, by |-> NoOne]
Busy(task, m, todo, c) ==
  [task |-> task, sends |-> m, todo |-> todo, at |-> NoOne, by |-> c]
Resting == [at |-> "idle", holds |-> NoModel, todo |-> {}]
Quiet == [at |-> "idle", takes |-> NoModel, old |-> <<>>, next |-> 1, same |-> TRUE]

\* What is under way carries a model: a call of the leader's manager, an
\* Initialize that has read it, a SetModel handler, an answer that tells it.
Calls ==
  {k \in [task : {"idle", "set", "add"}, sends : Models \union {NoModel},
          todo : SUBSET Workers, at : Workers \union {NoOne},
          by : Controllers \union {NoOne}] :
     /\ k.at \in k.todo \union {NoOne}
     /\ k.task # "idle" => k.sends \in Models}

Tasks ==
  {t \in [at : {"idle", "waiting", "got", "setting", "set", "init"},
          holds : Models \union {NoModel}, todo : SUBSET Workers] :
     t.at = "got" => t.holds \in Models}

Settings ==
  {h \in [at : {"idle", "asked", "respawn"}, takes : Models \union {NoModel},
          old : Seq(BOOLEAN), next : Nat \ {0}, same : BOOLEAN] :
     h.at # "idle" => h.takes \in Models}

Joins ==
  {j \in [at : {"out", "asked", "added", "told", "in", "failed"},
          told : Models \union {NoModel}] :
     j.at = "told" => j.told \in Models}

TypeOK ==
  /\ leaderModel \in Models \union {NoModel}
  /\ registered \subseteq Workers
  /\ manager \in Calls
  /\ ctl \in [Controllers -> Tasks]
  /\ model \in [Workers -> Models \union {NoModel}]
  /\ behaviors \in [Workers -> Seq(Handles)]
  /\ setting \in [Workers -> Settings]
  /\ join \in [Workers -> Joins]
  /\ stopping \in [Workers -> {"no", "cancelled", "leaving", "left"}]
  /\ reach \subseteq Workers
  /\ issued \in 0..MaxRequests
  /\ missed \subseteq Workers
  /\ tangled \subseteq Workers

\* The new partition of a worker that is initialized: one task, the worker's
\* script.
NewPartition(m) == <<[script |-> m.script, live |-> TRUE]>>

\* A cluster in which the workers of up have joined.  If there is a model they
\* have been initialized with it.
StartWith(up, m) ==
  /\ leaderModel = m
  /\ registered = up
  /\ model = [w \in Workers |-> IF w \in up THEN m ELSE NoModel]
  /\ behaviors = [w \in Workers |->
       IF w \in up /\ m # NoModel THEN NewPartition(m) ELSE <<>>]
  /\ join = [w \in Workers |-> [at |-> IF w \in up THEN "in" ELSE "out", told |-> NoModel]]

\* Nothing is under way: either nothing is up yet, or a cluster was started with
\* the model of a simulation.
Init ==
  /\ \/ StartWith({}, NoModel)
     \/ \E up \in (SUBSET Workers) \ {{}} : StartWith(up, Plain(FirstScript))
  /\ manager = Free
  /\ ctl = [c \in Controllers |-> Resting]
  /\ setting = [w \in Workers |-> Quiet]
  /\ stopping = [w \in Workers |-> "no"]
  /\ reach = Workers
  /\ issued = 0
  /\ missed = {}
  /\ tangled = {}

-----------------------------------------------------------------------------
(***************************************************************************)
(* Requests to the leader that change the model                            *)
(***************************************************************************)

Idle == manager.task = "idle"

\* Mutant of Propagate: the leader does not keep the model.
PropagateOnly(c, m) ==
  /\ manager' = Busy("set", m, registered, c)
  /\ UNCHANGED <<leaderModel, registered>>

\* PullModel, SetModel, MergeModel: the leader's model is replaced, then the
\* workers in the map are called.
Propagate(c, m) ==
  /\ leaderModel' = m
  /\ manager' = Busy("set", m, registered, c)
  /\ UNCHANGED registered

Issue(c) ==
  /\ ctl[c].at = "idle"
  /\ issued < MaxRequests
  /\ issued' = issued + 1

\* ReplaceModel and LoadSnapshot hand a model of their own to the manager.
ReplaceModel(c, s) ==
  /\ Issue(c)
  /\ Idle
  /\ Propagate(c, Plain(s))
  /\ ctl' = [ctl EXCEPT ![c].at = "waiting"]
  /\ UNCHANGED <<workerVars, memberVars, historyVars>>

\* MergeModel adds to the leader's model; without one it does nothing and
\* succeeds.
MergeModel(c, p) ==
  /\ Issue(c)
  /\ Idle
  /\ leaderModel # NoModel
  /\ Propagate(c, [leaderModel EXCEPT !.parts = @ \union {p}])
  /\ ctl' = [ctl EXCEPT ![c].at = "waiting"]
  /\ UNCHANGED <<workerVars, memberVars, historyVars>>

\* Initialize: get_model; the model is given back later.
InitializeGet(c) ==
  /\ Issue(c)
  /\ Idle
  /\ leaderModel # NoModel
  /\ ctl' = [ctl EXCEPT ![c].at = "got", ![c].holds = leaderModel]
  /\ UNCHANGED <<leaderVars, workerVars, memberVars, historyVars>>

\* Initialize: set_model with what get_model returned.
InitializeSet(c) ==
  /\ ctl[c].at = "got"
  /\ Idle
  /\ Propagate(c, ctl[c].holds)
  /\ ctl' = [ctl EXCEPT ![c].at = "setting", ![c].holds = NoModel]
  /\ UNCHANGED <<workerVars, memberVars, issued, historyVars>>

\* Initialize: get_workers, the workers to be called.
InitializeWorkers(c) ==
  /\ ctl[c].at = "set"
  /\ Idle
  /\ ctl' = [ctl EXCEPT ![c].at = "init", ![c].todo = registered]
  /\ UNCHANGED <<leaderVars, workerVars, memberVars, issued, historyVars>>

-----------------------------------------------------------------------------
(***************************************************************************)
(* The manager at work                                                     *)
(***************************************************************************)

\* The manager's request is over, and so is the controller's, unless it was
\* the set_model of an Initialize that succeeded.
Finish(ok) ==
  /\ manager' = Free
  /\ ctl' = [c \in Controllers |->
       IF c # manager.by THEN ctl[c]
       ELSE [Resting EXCEPT !.at = IF ok /\ ctl[c].at = "setting" THEN "set" ELSE "idle"]]

\* A call of the manager to a worker failed: `?` ends the request.  A worker
\* that was to be added is not.
Abort ==
  /\ Finish(FALSE)
  /\ missed' = IF manager.task = "set" THEN missed \union manager.todo ELSE missed
  /\ join' = IF manager.task = "add"
               THEN [join EXCEPT ![manager.at].at = "failed"] ELSE join
  /\ UNCHANGED <<leaderModel, registered>>

\* The next worker of the map is called; the map's order is arbitrary.
CallWorker(w) ==
  /\ manager.task = "set"
  /\ manager.at = NoOne
  /\ w \in manager.todo \intersect reach
  /\ manager' = [manager EXCEPT !.at = w]
  /\ setting' = [setting EXCEPT ![w] = [Quiet EXCEPT !.at = "asked", !.takes = manager.sends]]
  /\ UNCHANGED <<leaderModel, registered, ctl, model, behaviors>>
  /\ UNCHANGED <<memberVars, issued, historyVars>>

\* Mutant of CallFails: a call that was sent does not notice that the
\* connection breaks.
CallFailsEarly(w) ==
  /\ ~Idle
  /\ w \notin reach
  /\ manager.at = NoOne
  /\ w \in manager.todo
  /\ Abort
  /\ UNCHANGED <<workerVars, stopping, reach, issued, tangled>>

\* A worker out of reach is called, or goes out of reach while the manager
\* waits for its answer.
CallFails(w) ==
  /\ ~Idle
  /\ w \notin reach
  /\ \/ manager.at = w
     \/ (manager.at = NoOne /\ w \in manager.todo)
  /\ Abort
  /\ UNCHANGED <<workerVars, stopping, reach, issued, tangled>>

\* All workers have answered.
FinishModel ==
  /\ manager.task = "set"
  /\ manager.todo = {}
  /\ Finish(TRUE)
  /\ UNCHANGED <<leaderModel, registered, workerVars, memberVars, issued, historyVars>>

\* What the manager does with the answer of w.  An answer it no longer waits
\* for is dropped.
Answered(w, ok) ==
  IF manager.at # w THEN UNCHANGED <<leaderVars, ctl, join, missed>>
  ELSE IF ~ok THEN Abort
  ELSE IF manager.task = "add"
    THEN /\ Finish(TRUE)
         /\ registered' = registered \union {w}
         /\ join' = [join EXCEPT ![w].at = IF w \in Dialling THEN "added" ELSE "in"]
         /\ missed' = missed \ {w}
         /\ UNCHANGED leaderModel
    ELSE /\ manager' = [manager EXCEPT !.at = NoOne, !.todo = @ \ {w}]
         /\ missed' = missed \ {w}
         /\ UNCHANGED <<leaderModel, registered, ctl, join>>

-----------------------------------------------------------------------------
(***************************************************************************)
(* A worker's SetModel and Initialize handlers                             *)
(***************************************************************************)

\* The worker takes requests from the leader.  One that dialled starts to only
\* when its introduction has been answered.
Listens(w) == stopping[w] = "no" /\ (w \in Dialling => join[w].at = "in")

\* The worker's manager still serves requests: it is not waiting for the
\* leader to take note that the worker leaves.
Serving(w) == stopping[w] \in {"no", "cancelled"}

Store(w, m) ==
  /\ model' = [model EXCEPT ![w] = m]
  /\ setting' = [setting EXCEPT ![w] = Quiet]
  /\ Answered(w, TRUE)

\* The behavior's script changed and the worker follows.
Respawns(w, m) ==
  /\ w \in Following
  /\ model[w] # NoModel
  /\ model[w].script # m.script

\* SetModel: the worker compares the models; nothing to respawn.
SetModel(w) ==
  /\ setting[w].at = "asked"
  /\ Listens(w)
  /\ ~Respawns(w, setting[w].takes)
  /\ Store(w, setting[w].takes)
  /\ UNCHANGED <<behaviors, stopping, reach, issued, tangled>>

\* SetModel: the behavior changed; the handles are fetched.
SetModelDiff(w) ==
  /\ setting[w].at = "asked"
  /\ Listens(w)
  /\ Respawns(w, setting[w].takes)
  /\ setting' = [setting EXCEPT
       ![w].at = "respawn",
       ![w].old = [i \in DOMAIN behaviors[w] |-> behaviors[w][i].live]]
  /\ UNCHANGED <<leaderVars, ctl, model, behaviors, memberVars, issued, historyVars>>

\* Mutant of Respawn: the old task is left running.
RespawnBeside(w) ==
  /\ setting[w].at = "respawn"
  /\ Serving(w)
  /\ setting[w].next <= Len(setting[w].old)
  /\ setting[w].old[setting[w].next]
  /\ behaviors' = [behaviors EXCEPT ![w] =
       Append(@, [script |-> setting[w].takes.script, live |-> TRUE])]
  /\ setting' = [setting EXCEPT ![w].next = @ + 1]
  /\ UNCHANGED <<leaderVars, ctl, model, memberVars, issued, historyVars>>

\* SetModel: a handle that was fetched is told to shut down, and a task with
\* the new script is added to the partition.  The old handle stays there.
Respawn(w) ==
  LET new == [script |-> setting[w].takes.script, live |-> TRUE]
      i == setting[w].next
  IN /\ setting[w].at = "respawn"
     /\ Serving(w)
     /\ i <= Len(setting[w].old)
     /\ setting[w].old[i]
     /\ behaviors' = [behaviors EXCEPT ![w] =
          Append(IF setting[w].same THEN [@ EXCEPT ![i].live = FALSE] ELSE @, new)]
     /\ setting' = [setting EXCEPT ![w].next = i + 1]
     /\ UNCHANGED <<leaderVars, ctl, model, memberVars, issued, historyVars>>

\* SetModel: the task of a fetched handle has ended before, which fails the
\* whole request.
RespawnFails(w) ==
  /\ setting[w].at = "respawn"
  /\ setting[w].next <= Len(setting[w].old)
  /\ ~setting[w].old[setting[w].next]
  /\ setting' = [setting EXCEPT ![w] = Quiet]
  /\ Answered(w, FALSE)
  /\ UNCHANGED <<model, behaviors, stopping, reach, issued, tangled>>

\* SetModel: the behaviors are through, the model is stored.
SetModelDone(w) ==
  /\ setting[w].at = "respawn"
  /\ Serving(w)
  /\ setting[w].next > Len(setting[w].old)
  /\ Store(w, setting[w].takes)
  /\ UNCHANGED <<behaviors, stopping, reach, issued, tangled>>

\* Initialize: the next worker gets a new partition.
InitializeWorker(c, w) ==
  /\ ctl[c].at = "init"
  /\ w \in ctl[c].todo \intersect reach
  /\ Listens(w)
  /\ model[w] # NoModel
  /\ behaviors' = [behaviors EXCEPT ![w] = NewPartition(model[w])]
  /\ setting' = [setting EXCEPT ![w].same = setting[w].at # "respawn"]
  /\ tangled' = IF setting[w].at = "respawn" THEN tangled \union {w} ELSE tangled
  /\ ctl' = [ctl EXCEPT ![c].todo = @ \ {w}]
  /\ UNCHANGED <<leaderVars, model, memberVars, issued, missed>>

\* Initialize: the call fails, as the worker is gone or has no model, and ends
\* the request.
InitializeFails(c, w) ==
  /\ ctl[c].at = "init"
  /\ w \in ctl[c].todo
  /\ w \notin reach \/ stopping[w] # "no" \/ (Listens(w) /\ model[w] = NoModel)
  /\ ctl' = [ctl EXCEPT ![c] = Resting]
  /\ UNCHANGED <<leaderVars, workerVars, memberVars, issued, historyVars>>

\* Initialize: all workers are initialized.
InitializeDone(c) ==
  /\ ctl[c].at = "init"
  /\ ctl[c].todo = {}
  /\ ctl' = [ctl EXCEPT ![c] = Resting]
  /\ UNCHANGED <<leaderVars, workerVars, memberVars, issued, historyVars>>

-----------------------------------------------------------------------------
(***************************************************************************)
(* Workers come and go                                                     *)
(***************************************************************************)

JoinStep(w, from, to) ==
  /\ join[w].at = from
  /\ join' = [join EXCEPT ![w].at = to]

\* ConnectToLeader or ConnectToWorker is under way: the leader has the handle
\* of the worker's connection.
StartJoin(w) ==
  /\ JoinStep(w, "out", "asked")
  /\ UNCHANGED <<leaderVars, ctl, workerVars, stopping, reach, issued, historyVars>>

\* AddWorker, the leader having no model: the worker enters the map.
AddWorker(w) ==
  /\ Idle
  /\ leaderModel = NoModel
  /\ JoinStep(w, "asked", IF w \in Dialling THEN "added" ELSE "in")
  /\ registered' = registered \union {w}
  /\ UNCHANGED <<leaderModel, manager, ctl, workerVars>>
  /\ UNCHANGED <<stopping, reach, issued, historyVars>>

\* Mutant of AddWorkerWithModel: the worker enters the map as it is.
AddWorkerAsItIs(w) ==
  /\ Idle
  /\ leaderModel # NoModel
  /\ JoinStep(w, "asked", IF w \in Dialling THEN "added" ELSE "in")
  /\ registered' = registered \union {w}
  /\ UNCHANGED <<leaderModel, manager, ctl, workerVars>>
  /\ UNCHANGED <<stopping, reach, issued, historyVars>>

\* AddWorker with a model: SetModel is sent to the worker first, and the
\* manager waits for its answer.
AddWorkerWithModel(w) ==
  /\ Idle
  /\ leaderModel # NoModel
  /\ join[w].at = "asked"
  /\ manager' = [Busy("add", leaderModel, {w}, NoOne) EXCEPT !.at = w]
  /\ setting' = IF w \notin reach THEN setting ELSE
       [setting EXCEPT ![w] = [Quiet EXCEPT !.at = "asked", !.takes = leaderModel]]
  /\ UNCHANGED <<leaderModel, registered, ctl, model, behaviors>>
  /\ UNCHANGED <<memberVars, issued, historyVars>>

\* IntroduceWorker is answered with the model the leader has by now.
AnswerIntroduction(w) ==
  /\ Idle
  /\ join[w].at = "added"
  /\ join' = [join EXCEPT ![w] =
       IF leaderModel = NoModel THEN [at |-> "in", told |-> NoModel]
                                ELSE [at |-> "told", told |-> leaderModel]]
  /\ UNCHANGED <<leaderVars, ctl, workerVars, stopping, reach, issued, historyVars>>

\* The worker takes the model it was answered with, initializes, and listens.
TakeAnswer(w) ==
  /\ join[w].at = "told"
  /\ Serving(w)
  /\ model' = [model EXCEPT ![w] = join[w].told]
  /\ behaviors' = [behaviors EXCEPT ![w] = NewPartition(join[w].told)]
  /\ join' = [join EXCEPT ![w] = [at |-> "in", told |-> NoModel]]
  /\ UNCHANGED <<leaderVars, ctl, setting, stopping, reach, issued, historyVars>>

\* Workers that are lost or stop.
Gone == {w \in Workers : w \notin reach \/ stopping[w] # "no"}
MayGo(w) == w \in Gone \/ Cardinality(Gone) < MaxGone

\* The connection breaks, or the worker's process dies.  The leader keeps the
\* worker in its map.
LoseWorker(w) ==
  /\ w \in reach
  /\ MayGo(w)
  /\ reach' = reach \ {w}
  /\ UNCHANGED <<leaderVars, ctl, workerVars, join, stopping, issued, historyVars>>

\* The worker is cancelled: it takes no new requests.
Cancel(w) ==
  /\ stopping[w] = "no"
  /\ MayGo(w)
  /\ stopping' = [stopping EXCEPT ![w] = "cancelled"]
  /\ UNCHANGED <<leaderVars, ctl, workerVars, join, reach, issued, historyVars>>

\* A SetModel call that a cancelled worker did not take before is dropped.  It
\* may also be left without an answer.
CallDropped(w) ==
  /\ stopping[w] # "no"
  /\ setting[w].at = "asked"
  /\ setting' = [setting EXCEPT ![w] = Quiet]
  /\ Answered(w, FALSE)
  /\ UNCHANGED <<model, behaviors, stopping, reach, issued, tangled>>

\* Shutdown, in the worker's manager: the behaviors end, and the manager waits
\* for the leader to have removed the worker.
Shutdown(w) ==
  /\ stopping[w] = "cancelled"
  /\ stopping' = [stopping EXCEPT ![w] = "leaving"]
  /\ behaviors' = [behaviors EXCEPT ![w] =
       [i \in DOMAIN @ |-> [@[i] EXCEPT !.live = FALSE]]]
  /\ UNCHANGED <<leaderVars, ctl, model, setting, join, reach, issued, historyVars>>

\* DisconnectWorker reaches the leader's manager, and the worker is gone.
RemoveWorker(w) ==
  /\ stopping[w] = "leaving"
  /\ w \in reach
  /\ Idle
  /\ registered' = registered \ {w}
  /\ stopping' = [stopping EXCEPT ![w] = "left"]
  /\ reach' = reach \ {w}
  /\ UNCHANGED <<leaderModel, manager, ctl, workerVars, join, issued, historyVars>>

\* A worker that is not connected to the leader, or no longer, goes silently.
GoSilently(w) ==
  /\ stopping[w] = "leaving"
  /\ w \notin reach \/ join[w].at # "in"
  /\ stopping' = [stopping EXCEPT ![w] = "left"]
  /\ reach' = reach \ {w}
  /\ UNCHANGED <<leaderVars, ctl, workerVars, join, issued, historyVars>>

-----------------------------------------------------------------------------
Request(c) ==
  \/ \E s \in Scripts : ReplaceModel(c, s)
  \/ \E p \in Parts : MergeModel(c, p)
  \/ InitializeGet(c)

Controller(c) ==
  \/ InitializeSet(c)
  \/ InitializeWorkers(c)
  \/ \E w \in Workers : InitializeWorker(c, w) \/ InitializeFails(c, w)
  \/ InitializeDone(c)

Manager ==
  \/ FinishModel
  \/ \E w \in Workers : CallWorker(w) \/ CallFails(w)

Handler(w) ==
  \/ SetModel(w)
  \/ SetModelDiff(w)
  \/ Respawn(w)
  \/ RespawnFails(w)
  \/ SetModelDone(w)

Joining(w) ==
  \/ AddWorker(w)
  \/ AddWorkerWithModel(w)
  \/ AnswerIntroduction(w)
  \/ TakeAnswer(w)

Leaving(w) == Shutdown(w) \/ RemoveWorker(w) \/ GoSilently(w)

Next ==
  \/ \E c \in Controllers : Request(c) \/ Controller(c)
  \/ Manager
  \/ \E w \in Workers : Handler(w) \/ Joining(w) \/ Leaving(w)
  \/ \E w \in Workers : StartJoin(w) \/ LoseWorker(w) \/ Cancel(w) \/ CallDropped(w)

Spec == Init /\ [][Next]_vars

\* Tasks and handlers are polled until they finish.  The leader's manager takes
\* requests in the order they arrive, so one that waits gets its turn as
\* long as the manager gets idle again and again.  Nobody has to ask for a
\* change, join or leave.
Fairness ==
  /\ WF_vars(Manager)
  /\ \A w \in Workers : WF_vars(Handler(w)) /\ SF_vars(Joining(w))

FairSpec == Spec /\ Fairness

-----------------------------------------------------------------------------
(***************************************************************************)
(* Properties                                                              *)
(***************************************************************************)

\* When the leader's manager is at rest, a registered worker has the leader's
\* model, whatever changes, joins and failures it went through, unless the
\* last propagation did not get to it.
InSync ==
  Idle => \A w \in registered \ missed : model[w] = leaderModel

\* A worker never steps back to a model the leader has replaced: what it
\* stores is the leader's model at that moment, or it has lost the leader, or
\* stores what its introduction was answered with.
StoresCurrent ==
  [][\A w \in Workers : model'[w] # model[w] =>
       \/ model'[w] = leaderModel
       \/ w \notin reach
       \/ join[w].at = "told"]_vars

\* behaviors_follow_model_changes: on an initialized worker exactly one task
\* runs the behavior, with the script of the worker's model, unless a SetModel
\* handler is between the two or was overtaken by an Initialize.
BehaviorFollows ==
  \A w \in Following \ tangled :
    behaviors[w] # <<>> /\ setting[w].at # "respawn" /\ Serving(w) =>
      LET live == {i \in DOMAIN behaviors[w] : behaviors[w][i].live}
      IN /\ Cardinality(live) = 1
         /\ \A i \in live : behaviors[w][i].script = model[w].script

\* The leader's manager waits for a worker that does not listen before the
\* leader has answered it, or that waits for the leader to let it go.
Stuck ==
  \E w \in Workers :
    /\ manager.at = w
    /\ stopping[w] # "no" \/ (w \in Dialling /\ join[w].at \in {"asked", "added"})

\* The leader's manager gets through every request: neither a failed call nor
\* a worker that comes, goes or lags behind holds it, save the two waits above.
ManagerFree == ~Idle ~> Idle \/ Stuck

\* A worker that asks to join a running cluster is in, or gets an error.
JoinEnds ==
  \A w \in Workers : join[w].at = "asked" ~> join[w].at # "asked"
=============================================================================
