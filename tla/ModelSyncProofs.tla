-------------------------- MODULE ModelSyncProofs ---------------------------
(* Proofs about ModelSync, for any number of workers, controllers and models. *)
EXTENDS ModelSync, FiniteSetTheorems, SequenceTheorems, TLAPS

-----------------------------------------------------------------------------
(* Values of the types                                                       *)

LEMMA ModelValues ==
  /\ \A s \in Scripts : Plain(s) \in Models
  /\ \A m \in Models, p \in Parts : [m EXCEPT !.parts = @ \union {p}] \in Models
  BY DEF Plain, Models

LEMMA CallValues ==
  /\ Free \in Calls
  /\ \A m \in Models, c \in Controllers : \A up \in SUBSET Workers :
       Busy("set", m, up, c) \in Calls
  /\ \A m \in Models, w \in Workers :
       [Busy("add", m, {w}, NoOne) EXCEPT !.at = w] \in Calls
  /\ \A k \in Calls, w \in Workers : w \in k.todo => [k EXCEPT !.at = w] \in Calls
  /\ \A k \in Calls, w \in Workers : [k EXCEPT !.at = NoOne, !.todo = @ \ {w}] \in Calls
  BY DEF Calls, Free, Busy

LEMMA TaskValues ==
  /\ Resting \in Tasks
  /\ \A b \in {"idle", "set"} : [Resting EXCEPT !.at = b] \in Tasks
  /\ \A t \in Tasks :
       /\ [t EXCEPT !.at = "waiting"] \in Tasks
       /\ [t EXCEPT !.at = "setting", !.holds = NoModel] \in Tasks
       /\ \A m \in Models : [t EXCEPT !.at = "got", !.holds = m] \in Tasks
       /\ \A up \in SUBSET Workers : [t EXCEPT !.at = "init", !.todo = up] \in Tasks
       /\ \A w \in Workers : [t EXCEPT !.todo = @ \ {w}] \in Tasks
  BY DEF Tasks, Resting

LEMMA SettingValues ==
  /\ Quiet \in Settings
  /\ \A m \in Models : [Quiet EXCEPT !.at = "asked", !.takes = m] \in Settings
  /\ \A h \in Settings :
       /\ \A q \in Seq(BOOLEAN) :
            h.at = "asked" => [h EXCEPT !.at = "respawn", !.old = q] \in Settings
       /\ [h EXCEPT !.next = @ + 1] \in Settings
       /\ \A b \in BOOLEAN : [h EXCEPT !.same = b] \in Settings
  <1>1. Quiet \in Settings /\ \A m \in Models : [Quiet EXCEPT !.at = "asked", !.takes = m] \in Settings
    <2>1. <<>> \in Seq(BOOLEAN) /\ 1 \in Nat \ {0}
      OBVIOUS
    <2>2. Quiet \in Settings
      BY <2>1 DEF Settings, Quiet
    <2> QED BY <2>1, <2>2 DEF Settings, Quiet
  <1>2. ASSUME NEW h \in Settings, NEW q \in Seq(BOOLEAN), h.at = "asked"
        PROVE  [h EXCEPT !.at = "respawn", !.old = q] \in Settings
    BY <1>2 DEF Settings
  <1>3. ASSUME NEW h \in Settings PROVE [h EXCEPT !.next = @ + 1] \in Settings
    BY DEF Settings
  <1>4. ASSUME NEW h \in Settings, NEW b \in BOOLEAN PROVE [h EXCEPT !.same = b] \in Settings
    BY DEF Settings
  <1> QED BY <1>1, <1>2, <1>3, <1>4

LEMMA JoinValues ==
  /\ [at |-> "in", told |-> NoModel] \in Joins
  /\ [at |-> "out", told |-> NoModel] \in Joins
  /\ \A m \in Models : [at |-> "told", told |-> m] \in Joins
  /\ \A j \in Joins : \A b \in {"asked", "added", "in", "failed"} :
       [j EXCEPT !.at = b] \in Joins
  BY DEF Joins

LEMMA HandleValues ==
  /\ \A m \in Models : NewPartition(m) \in Seq(Handles)
  /\ \A q \in Seq(Handles), m \in Models :
       /\ [i \in DOMAIN q |-> q[i].live] \in Seq(BOOLEAN)
       /\ [i \in DOMAIN q |-> [q[i] EXCEPT !.live = FALSE]] \in Seq(Handles)
       /\ Append(q, [script |-> m.script, live |-> TRUE]) \in Seq(Handles)
       /\ \A i \in Nat :
            Append([q EXCEPT ![i].live = FALSE], [script |-> m.script, live |-> TRUE])
              \in Seq(Handles)
  <1>1. \A m \in Models : [script |-> m.script, live |-> TRUE] \in Handles
    BY DEF Models, Handles
  <1>2. \A h \in Handles : [h EXCEPT !.live = FALSE] \in Handles /\ h.live \in BOOLEAN
    BY DEF Handles
  <1>3. ASSUME NEW m \in Models PROVE NewPartition(m) \in Seq(Handles)
    BY <1>1 DEF NewPartition
  <1> SUFFICES ASSUME NEW q \in Seq(Handles), NEW m \in Models
               PROVE  /\ [i \in DOMAIN q |-> q[i].live] \in Seq(BOOLEAN)
                      /\ [i \in DOMAIN q |-> [q[i] EXCEPT !.live = FALSE]] \in Seq(Handles)
                      /\ Append(q, [script |-> m.script, live |-> TRUE]) \in Seq(Handles)
                      /\ \A i \in Nat :
                           Append([q EXCEPT ![i].live = FALSE],
                                  [script |-> m.script, live |-> TRUE]) \in Seq(Handles)
    BY <1>3
  <1>0. Len(q) \in Nat /\ q \in [1 .. Len(q) -> Handles]
    OBVIOUS
  <1>s. \A S : [1 .. Len(q) -> S] \subseteq Seq(S)
    BY <1>0
  <1>4. [i \in DOMAIN q |-> q[i].live] \in Seq(BOOLEAN)
    <2>1. [i \in DOMAIN q |-> q[i].live] \in [1 .. Len(q) -> BOOLEAN]
      BY <1>0, <1>2
    <2> QED BY <2>1, <1>s
  <1>5. [i \in DOMAIN q |-> [q[i] EXCEPT !.live = FALSE]] \in Seq(Handles)
    <2>1. [i \in DOMAIN q |-> [q[i] EXCEPT !.live = FALSE]] \in [1 .. Len(q) -> Handles]
      BY <1>0, <1>2
    <2> QED BY <2>1, <1>s
  <1>6. Append(q, [script |-> m.script, live |-> TRUE]) \in Seq(Handles)
    BY <1>1
  <1>7. ASSUME NEW i \in Nat
        PROVE  Append([q EXCEPT ![i].live = FALSE],
                      [script |-> m.script, live |-> TRUE]) \in Seq(Handles)
    <2>0. [q EXCEPT ![i].live = FALSE] \in [1 .. Len(q) -> Handles]
      BY <1>0, <1>2
    <2>1. [q EXCEPT ![i].live = FALSE] \in Seq(Handles)
      BY <2>0, <1>s
    <2> QED BY <2>1, <1>1
  <1> QED BY <1>4, <1>5, <1>6, <1>7

-----------------------------------------------------------------------------
(* Type correctness                                                          *)

\* What the answer of a worker does to the leader is well typed.
LEMMA AnsweredType ==
  ASSUME TypeOK, NEW w \in Workers, NEW ok \in BOOLEAN, Answered(w, ok)
  PROVE  /\ leaderModel' = leaderModel
         /\ registered' \subseteq Workers
         /\ manager' \in Calls
         /\ ctl' \in [Controllers -> Tasks]
         /\ join' \in [Workers -> Joins]
         /\ missed' \subseteq Workers
  <1> USE DEF TypeOK, leaderVars
  <1>1. CASE manager.at # w
    BY <1>1 DEF Answered
  <1>2. ASSUME NEW b \in BOOLEAN, Finish(b)
        PROVE  manager' \in Calls /\ ctl' \in [Controllers -> Tasks]
    BY <1>2, CallValues, TaskValues DEF Finish
  <1>3. CASE manager.at = w /\ ~ok
    <2>1. Abort
      BY <1>3 DEF Answered
    <2>2. manager.todo \subseteq Workers
      BY DEF Calls
    <2> QED BY <2>1, <2>2, <1>2, JoinValues DEF Abort
  <1>4. CASE manager.at = w /\ ok /\ manager.task = "add"
    <2>1. /\ Finish(TRUE)
          /\ registered' = registered \union {w}
          /\ join' = [join EXCEPT ![w].at = IF w \in Dialling THEN "added" ELSE "in"]
          /\ missed' = missed \ {w}
          /\ leaderModel' = leaderModel
      BY <1>4 DEF Answered
    <2>2. [join[w] EXCEPT !.at = IF w \in Dialling THEN "added" ELSE "in"] \in Joins
      BY JoinValues
    <2> QED BY <2>1, <2>2, <1>2
  <1>5. CASE manager.at = w /\ ok /\ manager.task # "add"
    <2>1. /\ manager' = [manager EXCEPT !.at = NoOne, !.todo = @ \ {w}]
          /\ missed' = missed \ {w}
          /\ UNCHANGED <<leaderModel, registered, ctl, join>>
      BY <1>5 DEF Answered
    <2> QED BY <2>1, CallValues
  <1> QED BY <1>1, <1>3, <1>4, <1>5

\* Every step of a controller, the manager, a worker or the environment keeps
\* the variables within their types, and models where models are carried.
LEMMA TypeStep == TypeOK /\ [Next]_vars => TypeOK'
<1> SUFFICES ASSUME TypeOK, [Next]_vars PROVE TypeOK'
  OBVIOUS
<1> USE ModelSyncAssumption, NoModelAssumption
<1> USE DEF TypeOK, leaderVars, workerVars, memberVars, historyVars, Idle
<1>1. ASSUME NEW c \in Controllers, Request(c) PROVE TypeOK'
  <2>1. ASSUME NEW m \in Models, Propagate(c, m), Issue(c),
               ctl' = [ctl EXCEPT ![c].at = "waiting"],
               UNCHANGED <<workerVars, memberVars, historyVars>>
        PROVE  TypeOK'
    <3>1. issued' \in 0..MaxRequests
      BY <2>1 DEF Issue
    <3>2. manager' \in Calls /\ leaderModel' \in Models /\ registered' = registered
      BY <2>1, CallValues DEF Propagate
    <3>3. ctl' \in [Controllers -> Tasks]
      BY <2>1, TaskValues
    <3> QED BY <2>1, <3>1, <3>2, <3>3
  <2>2. ASSUME NEW s \in Scripts, ReplaceModel(c, s) PROVE TypeOK'
    BY <2>1, <2>2, ModelValues DEF ReplaceModel
  <2>3. ASSUME NEW p \in Parts, MergeModel(c, p) PROVE TypeOK'
    BY <2>1, <2>3, ModelValues DEF MergeModel
  <2>4. CASE InitializeGet(c)
    <3>1. issued' \in 0..MaxRequests
      BY <2>4 DEF InitializeGet, Issue
    <3>2. ctl' \in [Controllers -> Tasks]
      <4>1. leaderModel \in Models
        BY <2>4 DEF InitializeGet
      <4> QED BY <2>4, <4>1, TaskValues DEF InitializeGet
    <3> QED BY <2>4, <3>1, <3>2 DEF InitializeGet
  <2> QED BY <1>1, <2>2, <2>3, <2>4 DEF Request
<1>2. ASSUME NEW c \in Controllers, Controller(c) PROVE TypeOK'
  <2>1. CASE InitializeSet(c)
    <3>1. ctl[c].holds \in Models
      BY <2>1 DEF InitializeSet, Tasks
    <3> QED BY <2>1, <3>1, CallValues, TaskValues DEF InitializeSet, Propagate
  <2>2. CASE InitializeWorkers(c)
    BY <2>2, TaskValues DEF InitializeWorkers
  <2>3. ASSUME NEW w \in Workers, InitializeWorker(c, w) PROVE TypeOK'
    BY <2>3, TaskValues, HandleValues, SettingValues DEF InitializeWorker
  <2>4. ASSUME NEW w \in Workers, InitializeFails(c, w) PROVE TypeOK'
    BY <2>4, TaskValues DEF InitializeFails
  <2>5. CASE InitializeDone(c)
    BY <2>5, TaskValues DEF InitializeDone
  <2> QED BY <1>2, <2>1, <2>2, <2>3, <2>4, <2>5 DEF Controller
<1>3. CASE Manager
  <2>1. CASE FinishModel
    BY <2>1, CallValues, TaskValues DEF FinishModel, Finish
  <2>2. ASSUME NEW w \in Workers, CallWorker(w) PROVE TypeOK'
    <3>1. manager.sends \in Models
      BY <2>2 DEF CallWorker, Calls
    <3> QED BY <2>2, <3>1, CallValues, SettingValues DEF CallWorker
  <2>3. ASSUME NEW w \in Workers, CallFails(w) PROVE TypeOK'
    <3>1. manager.todo \subseteq Workers
      BY DEF Calls
    <3>2. Abort /\ UNCHANGED <<workerVars, stopping, reach, issued, tangled>>
      BY <2>3 DEF CallFails
    <3> QED BY <3>1, <3>2, CallValues, TaskValues, JoinValues DEF Abort, Finish
  <2> QED BY <1>3, <2>1, <2>2, <2>3 DEF Manager
<1>4. ASSUME NEW w \in Workers, Handler(w) PROVE TypeOK'
  <2>1. ASSUME setting[w].at # "idle", Store(w, setting[w].takes),
               UNCHANGED <<behaviors, stopping, reach, issued, tangled>>
        PROVE  TypeOK'
    <3>1. setting[w].takes \in Models
      BY <2>1 DEF Settings
    <3>2. Answered(w, TRUE)
      BY <2>1 DEF Store
    <3> HIDE DEF leaderVars, workerVars, memberVars, historyVars
    <3> QED BY <2>1, <3>1, <3>2, AnsweredType, SettingValues DEF Store
  <2>2. CASE SetModel(w)
    BY <2>1, <2>2 DEF SetModel
  <2>3. CASE SetModelDone(w)
    BY <2>1, <2>3 DEF SetModelDone
  <2>4. CASE SetModelDiff(w)
    <3>1. [i \in DOMAIN behaviors[w] |-> behaviors[w][i].live] \in Seq(BOOLEAN)
      <4>1. setting[w].takes \in Models
        BY <2>4 DEF SetModelDiff, Settings
      <4>2. behaviors[w] \in Seq(Handles)
        OBVIOUS
      <4> QED BY <4>1, <4>2, HandleValues
    <3>2. setting' \in [Workers -> Settings]
      BY <2>4, <3>1, SettingValues DEF SetModelDiff
    <3> QED BY <2>4, <3>2 DEF SetModelDiff
  <2>5. CASE Respawn(w)
    <3>1. setting[w].takes \in Models /\ setting[w].next \in Nat
      BY <2>5 DEF Respawn, Settings
    <3> QED BY <2>5, <3>1, SettingValues, HandleValues DEF Respawn
  <2>6. CASE RespawnFails(w)
    BY <2>6, AnsweredType, SettingValues DEF RespawnFails
  <2> QED BY <1>4, <2>2, <2>3, <2>4, <2>5, <2>6 DEF Handler
<1>5. ASSUME NEW w \in Workers, Joining(w) PROVE TypeOK'
  <2>1. CASE AddWorker(w)
    BY <2>1, JoinValues DEF AddWorker, JoinStep
  <2>2. CASE AddWorkerWithModel(w)
    BY <2>2, CallValues, SettingValues DEF AddWorkerWithModel
  <2>3. CASE AnswerIntroduction(w)
    BY <2>3, JoinValues DEF AnswerIntroduction
  <2>4. CASE TakeAnswer(w)
    <3>1. join[w].told \in Models
      BY <2>4 DEF TakeAnswer, Joins
    <3> QED BY <2>4, <3>1, JoinValues, HandleValues DEF TakeAnswer
  <2> QED BY <1>5, <2>1, <2>2, <2>3, <2>4 DEF Joining
<1>6. ASSUME NEW w \in Workers, Leaving(w) PROVE TypeOK'
  <2>1. CASE Shutdown(w)
    BY <2>1, HandleValues, ModelValues DEF Shutdown
  <2>2. CASE RemoveWorker(w)
    BY <2>2 DEF RemoveWorker
  <2>3. CASE GoSilently(w)
    BY <2>3 DEF GoSilently
  <2> QED BY <1>6, <2>1, <2>2, <2>3 DEF Leaving
<1>7. ASSUME NEW w \in Workers,
             StartJoin(w) \/ LoseWorker(w) \/ Cancel(w) \/ CallDropped(w)
      PROVE  TypeOK'
  <2>1. CASE StartJoin(w)
    BY <2>1, JoinValues DEF StartJoin, JoinStep
  <2>2. CASE LoseWorker(w)
    BY <2>2 DEF LoseWorker
  <2>3. CASE Cancel(w)
    BY <2>3 DEF Cancel
  <2>4. CASE CallDropped(w)
    BY <2>4, AnsweredType, SettingValues DEF CallDropped
  <2> QED BY <1>7, <2>1, <2>2, <2>3, <2>4
<1>8. CASE UNCHANGED vars
  BY <1>8 DEF vars
<1> QED BY <1>1, <1>2, <1>3, <1>4, <1>5, <1>6, <1>7, <1>8 DEF Next

\* The leader's, the controllers' and the workers' state is well typed in every
\* reachable state.
THEOREM TypeCorrect == Spec => []TypeOK
<1>1. Init => TypeOK
  <2> SUFFICES ASSUME Init PROVE TypeOK
    OBVIOUS
  <2>1. PICK up \in SUBSET Workers, m \in Models \union {NoModel} : StartWith(up, m)
    BY ModelSyncAssumption, ModelValues DEF Init
  <2>2. \A n \in Models : NewPartition(n) \in Seq(Handles)
    BY HandleValues
  <2>3. behaviors \in [Workers -> Seq(Handles)]
    BY <2>1, <2>2, NoModelAssumption DEF StartWith
  <2>4. join \in [Workers -> Joins]
    BY <2>1, JoinValues DEF StartWith
  <2>5. /\ leaderModel \in Models \union {NoModel} /\ registered \subseteq Workers
        /\ model \in [Workers -> Models \union {NoModel}]
    BY <2>1 DEF StartWith
  <2>6. issued \in 0..MaxRequests
    BY ModelSyncAssumption DEF Init
  <2>7. manager \in Calls /\ ctl \in [Controllers -> Tasks] /\ setting \in [Workers -> Settings]
    BY CallValues, TaskValues, SettingValues DEF Init
  <2> QED BY <2>3, <2>4, <2>5, <2>6, <2>7 DEF Init, TypeOK
<1> QED BY <1>1, TypeStep, PTL DEF Spec

-----------------------------------------------------------------------------
(* Registered workers have the leader's model                                *)

\* The manager sends the leader's model; a worker to be added has asked; a
\* worker the manager is yet to get to was registered.
ManagerInv ==
  /\ Idle => manager = Free
  /\ ~Idle => manager.sends = leaderModel
  /\ manager.task = "add" =>
       manager.at \in Workers /\ manager.todo = {manager.at} /\ join[manager.at].at = "asked"
  /\ manager.task = "set" => \A w \in manager.todo : join[w].at \notin {"out", "asked"}

\* Before there is a model nobody has one or is being sent one.
BlankInv ==
  leaderModel = NoModel =>
    /\ Idle
    /\ \A w \in Workers :
         model[w] = NoModel /\ setting[w].at = "idle" /\ join[w].at # "told"

\* A worker that is registered and was not missed has the leader's model, or the
\* manager will still get to it.
SyncedInv ==
  \A w \in registered \ missed :
    (manager.task = "set" /\ w \in manager.todo) \/ model[w] = leaderModel

\* A SetModel handler the manager waits for has the leader's model.  One it no
\* longer waits for is on a worker that is cut off and written off.
HandlerInv ==
  \A w \in Workers : setting[w].at # "idle" =>
    IF manager.at = w THEN setting[w].takes = leaderModel
    ELSE /\ w \notin reach
         /\ w \notin registered \ missed
         /\ join[w].at \notin {"out", "asked"}

\* A worker is registered in the course of joining.  If it waits for an answer
\* that tells a model, it does not count as having one.
JoinInv ==
  \A w \in Workers :
    /\ join[w].at \in {"out", "asked"} => w \notin registered
    /\ join[w].at \in {"added", "told"} =>
         /\ w \in Dialling
         /\ \/ w \notin registered \ missed
            \/ manager.task = "set" /\ w \in manager.todo
            \/ join[w].at = "added" /\ leaderModel = NoModel
    /\ w \in Dialling /\ setting[w].at = "respawn" => join[w].at = "in"

SyncInv == ManagerInv /\ BlankInv /\ SyncedInv /\ HandlerInv /\ JoinInv

LEMMA SyncInit == Init => SyncInv
<1> SUFFICES ASSUME Init PROVE SyncInv
  OBVIOUS
<1> USE ModelSyncAssumption, NoModelAssumption DEF Idle, Free, Quiet
<1>1. PICK up \in SUBSET Workers, m \in Models \union {NoModel} : StartWith(up, m)
  BY ModelValues DEF Init
<1>2. \A w \in Workers : join[w].at = IF w \in up THEN "in" ELSE "out"
  BY <1>1 DEF StartWith
<1>3. manager = Free /\ \A w \in Workers : setting[w].at = "idle"
  BY DEF Init
<1>4. leaderModel = m /\ registered = up /\ \A w \in Workers : w \in up => model[w] = m
  BY <1>1 DEF StartWith
<1>5. leaderModel = NoModel => \A w \in Workers : model[w] = NoModel
  BY <1>1 DEF StartWith
<1> QED BY <1>2, <1>3, <1>4, <1>5
        DEF SyncInv, ManagerInv, BlankInv, SyncedInv, HandlerInv, JoinInv

\* A request of the manager ends without success: the workers it did not get to
\* are missed, or the worker that it was to add has failed.
LEMMA AbortSync ==
  ASSUME TypeOK, SyncInv, ~Idle, Abort,
         UNCHANGED <<model, reach>>,
         \A w \in Workers : setting'[w] = setting[w] \/ setting'[w].at = "idle",
         manager.at \in Workers => setting'[manager.at].at = "idle" \/ manager.at \notin reach
  PROVE  SyncInv'
<1> USE ModelSyncAssumption DEF Idle, Abort, Finish
<1>1. manager \in Calls /\ manager' = Free /\ leaderModel' = leaderModel /\ registered' = registered
  BY DEF TypeOK
<1>2. manager.at \in manager.todo \union {NoOne} /\ manager.todo \subseteq Workers
      /\ manager.task \in {"set", "add"}
  BY <1>1 DEF Calls
<1>3. leaderModel # NoModel
  BY DEF SyncInv, BlankInv
<1>4. CASE manager.task = "set"
  <2>1. missed' = missed \union manager.todo /\ join' = join
    BY <1>4
  <2>2. ManagerInv' /\ BlankInv' /\ SyncedInv' /\ JoinInv'
    BY <1>1, <1>2, <1>3, <1>4, <2>1
    DEF SyncInv, ManagerInv, BlankInv, SyncedInv, JoinInv, Free
  <2>3. HandlerInv'
    BY <1>1, <1>2, <1>4, <2>1 DEF SyncInv, ManagerInv, HandlerInv, Free
  <2> QED BY <2>2, <2>3 DEF SyncInv
<1>5. CASE manager.task = "add"
  <2>1. manager.at \in Workers /\ join[manager.at].at = "asked"
    BY <1>5 DEF SyncInv, ManagerInv
  <2>2. missed' = missed /\ join' = [join EXCEPT ![manager.at].at = "failed"]
    BY <1>5
  <2>3. \A w \in Workers : join'[w].at = IF w = manager.at THEN "failed" ELSE join[w].at
    BY <2>1, <2>2 DEF TypeOK, Joins
  <2>4. ManagerInv' /\ BlankInv' /\ SyncedInv'
    BY <1>1, <1>3, <1>5, <2>2 DEF SyncInv, ManagerInv, BlankInv, SyncedInv, Free
  <2>5. HandlerInv'
    BY <1>1, <1>2, <2>1, <2>2, <2>3 DEF SyncInv, HandlerInv, JoinInv, Free
  <2>6. JoinInv'
    BY <1>1, <1>5, <2>1, <2>2, <2>3 DEF SyncInv, JoinInv, Free
  <2> QED BY <2>4, <2>5, <2>6 DEF SyncInv
<1> QED BY <1>2, <1>4, <1>5

\* A handler stores the model it took, on a worker that listens to the leader.
LEMMA StoreSync ==
  ASSUME TypeOK, SyncInv, NEW w \in Workers,
         setting[w].at # "idle", w \in Dialling => join[w].at = "in",
         Store(w, setting[w].takes), reach' = reach
  PROVE  SyncInv'
<1> USE ModelSyncAssumption, NoModelAssumption DEF Idle, leaderVars
<1>1. /\ model' = [model EXCEPT ![w] = setting[w].takes]
      /\ setting' = [setting EXCEPT ![w] = Quiet]
      /\ Answered(w, TRUE)
  BY DEF Store
<1>2. \A v \in Workers : /\ model'[v] = IF v = w THEN setting[w].takes ELSE model[v]
                         /\ setting'[v] = IF v = w THEN Quiet ELSE setting[v]
  BY <1>1 DEF TypeOK
<1>3. leaderModel # NoModel
  BY DEF SyncInv, BlankInv
<1>4. Quiet.at = "idle"
  BY DEF Quiet
<1>5. CASE manager.at # w
  <2>1. UNCHANGED <<leaderModel, registered, manager, join, missed>>
    BY <1>1, <1>5 DEF Answered
  <2>2. w \notin registered \ missed
    BY <1>5 DEF SyncInv, HandlerInv
  <2>3. ManagerInv' /\ BlankInv'
    BY <1>3, <2>1 DEF SyncInv, ManagerInv, BlankInv
  <2>4. SyncedInv'
    BY <1>2, <2>1, <2>2 DEF SyncInv, SyncedInv, TypeOK
  <2>5. HandlerInv'
    BY <1>2, <1>4, <2>1 DEF SyncInv, HandlerInv
  <2>6. JoinInv'
    BY <1>2, <1>4, <2>1 DEF SyncInv, JoinInv
  <2> QED BY <2>3, <2>4, <2>5, <2>6 DEF SyncInv
<1>6. CASE manager.at = w /\ manager.task = "add"
  <2>1. /\ Finish(TRUE)
        /\ registered' = registered \union {w}
        /\ join' = [join EXCEPT ![w].at = IF w \in Dialling THEN "added" ELSE "in"]
        /\ missed' = missed \ {w}
        /\ leaderModel' = leaderModel
    BY <1>1, <1>6 DEF Answered
  <2>2. join[w].at = "asked" /\ w \notin Dialling
    BY <1>6 DEF SyncInv, ManagerInv
  <2>3. \A v \in Workers : join'[v].at = IF v = w THEN "in" ELSE join[v].at
    BY <2>1, <2>2 DEF TypeOK, Joins
  <2>4. manager' = Free
    BY <2>1 DEF Finish
  <2>5. setting[w].takes = leaderModel
    BY <1>6 DEF SyncInv, HandlerInv
  <2>6. ManagerInv' /\ BlankInv'
    BY <1>3, <2>1, <2>4 DEF ManagerInv, BlankInv, Free
  <2>7. SyncedInv'
    BY <1>2, <1>6, <2>1, <2>5 DEF SyncInv, SyncedInv, TypeOK
  <2>8. HandlerInv'
    BY <1>2, <1>4, <1>6, <2>1, <2>3, <2>4 DEF SyncInv, HandlerInv, Free
  <2>9. JoinInv'
    BY <1>2, <1>4, <1>6, <2>1, <2>2, <2>3 DEF SyncInv, JoinInv
  <2> QED BY <2>6, <2>7, <2>8, <2>9 DEF SyncInv
<1>7. CASE manager.at = w /\ manager.task # "add"
  <2>1. /\ manager' = [manager EXCEPT !.at = NoOne, !.todo = @ \ {w}]
        /\ missed' = missed \ {w}
        /\ UNCHANGED <<leaderModel, registered, join>>
    BY <1>1, <1>7 DEF Answered
  <2>2. manager.task = "set"
    BY <1>7 DEF SyncInv, ManagerInv, Free, TypeOK, Calls
  <2>3. /\ manager'.task = "set" /\ manager'.at = NoOne
        /\ manager'.todo = manager.todo \ {w} /\ manager'.sends = manager.sends
    BY <2>1, <2>2 DEF TypeOK, Calls
  <2>4. setting[w].takes = leaderModel
    BY <1>7 DEF SyncInv, HandlerInv
  <2>5. ManagerInv' /\ BlankInv'
    BY <1>3, <2>1, <2>2, <2>3 DEF SyncInv, ManagerInv, BlankInv
  <2>6. SyncedInv'
    BY <1>2, <2>1, <2>2, <2>3, <2>4 DEF SyncInv, SyncedInv, TypeOK
  <2>7. HandlerInv'
    BY <1>2, <1>4, <1>7, <2>1, <2>3 DEF SyncInv, HandlerInv
  <2>8. JoinInv'
    BY <1>2, <1>4, <2>1, <2>2, <2>3 DEF SyncInv, JoinInv
  <2> QED BY <2>5, <2>6, <2>7, <2>8 DEF SyncInv
<1> QED BY <1>5, <1>6, <1>7

\* The requests that change the model.
LEMMA PropagateSync ==
  ASSUME TypeOK, SyncInv, Idle, NEW c \in Controllers, NEW m \in Models,
         Propagate(c, m), UNCHANGED <<workerVars, memberVars, historyVars>>
  PROVE  SyncInv'
<1> USE NoModelAssumption, ModelSyncAssumption
    DEF Idle, workerVars, memberVars, historyVars
<1>1. /\ manager'.task = "set" /\ manager'.sends = leaderModel'
      /\ manager'.todo = registered /\ manager'.at = NoOne
      /\ leaderModel' # NoModel /\ registered' = registered
  BY DEF Propagate, Busy
<1>2. manager.at = NoOne /\ manager.task = "idle"
  BY DEF SyncInv, ManagerInv, Free
<1>3. ManagerInv'
  BY <1>1 DEF SyncInv, ManagerInv, JoinInv, TypeOK
<1>4. BlankInv' /\ SyncedInv'
  BY <1>1 DEF BlankInv, SyncedInv
<1>5. HandlerInv' /\ JoinInv'
  BY <1>1, <1>2 DEF SyncInv, HandlerInv, JoinInv
<1> QED BY <1>3, <1>4, <1>5 DEF SyncInv

\* A step that changes none of the model, the leader's state and the way workers
\* join, and of the handlers only how far they are, at most cuts workers off.
LEMMA OtherSync ==
  ASSUME TypeOK, SyncInv,
         UNCHANGED <<leaderModel, registered, manager, model, missed>>,
         \A w \in Workers : join'[w].at = join[w].at,
         reach' \subseteq reach,
         \A w \in Workers : /\ setting'[w].at = setting[w].at
                            /\ setting'[w].takes = setting[w].takes
  PROVE  SyncInv'
<1>1. ManagerInv'
  <2>1. manager.task = "set" => \A w \in manager.todo : w \in Workers
    BY DEF TypeOK, Calls
  <2> QED BY <2>1 DEF SyncInv, ManagerInv, Idle
<1>2. BlankInv' /\ SyncedInv'
  BY DEF SyncInv, BlankInv, SyncedInv, Idle
<1>3. HandlerInv' /\ JoinInv'
  BY DEF SyncInv, HandlerInv, JoinInv
<1> QED BY <1>1, <1>2, <1>3 DEF SyncInv

\* A worker's answer that it failed, or the loss of its answer.
LEMMA AnswerFails ==
  ASSUME TypeOK, SyncInv, NEW w \in Workers, Answered(w, FALSE), setting[w].at # "idle",
         setting' = [setting EXCEPT ![w] = Quiet], UNCHANGED <<model, reach>>
  PROVE  SyncInv'
<1>1. \A v \in Workers : setting'[v] = IF v = w THEN Quiet ELSE setting[v]
  BY DEF TypeOK
<1>2. Quiet.at = "idle"
  BY DEF Quiet
<1>3. CASE manager.at # w
  <2>1. UNCHANGED <<leaderModel, registered, manager, join, missed>>
    BY <1>3 DEF Answered, leaderVars
  <2>2. ManagerInv' /\ SyncedInv'
    BY <2>1 DEF SyncInv, ManagerInv, SyncedInv, Idle
  <2>3. BlankInv' /\ HandlerInv' /\ JoinInv'
    BY <1>1, <1>2, <2>1 DEF SyncInv, BlankInv, HandlerInv, JoinInv, Idle
  <2> QED BY <2>2, <2>3 DEF SyncInv
<1>4. CASE manager.at = w
  <2>1. Abort
    BY <1>4 DEF Answered
  <2>2. ~Idle
    BY <1>4, ModelSyncAssumption DEF SyncInv, ManagerInv, Free
  <2> QED BY <1>1, <1>2, <1>4, <2>1, <2>2, AbortSync
<1> QED BY <1>3, <1>4

\* The steps of a worker that joins.
LEMMA JoiningSync ==
  ASSUME TypeOK, SyncInv, NEW w \in Workers, Joining(w) \/ StartJoin(w)
  PROVE  SyncInv'
<1> USE ModelSyncAssumption, NoModelAssumption
<1> USE DEF leaderVars, workerVars, memberVars, historyVars
<1>m. /\ manager.at \in manager.todo \union {NoOne} /\ manager.todo \subseteq Workers
      /\ manager.task \in {"idle", "set", "add"}
  BY DEF TypeOK, Calls
<1>j. ASSUME NEW b, join' = [join EXCEPT ![w].at = b]
      PROVE  \A v \in Workers : join'[v].at = IF v = w THEN b ELSE join[v].at
  BY <1>j DEF TypeOK, Joins
<1>1. CASE StartJoin(w)
  <2>1. /\ join[w].at = "out"
        /\ \A v \in Workers : join'[v].at = IF v = w THEN "asked" ELSE join[v].at
        /\ UNCHANGED <<leaderVars, workerVars, reach, historyVars>>
    BY <1>1, <1>j DEF StartJoin, JoinStep
  <2>2. ManagerInv'
    BY <1>m, <2>1 DEF SyncInv, ManagerInv, Idle
  <2>3. BlankInv' /\ SyncedInv' /\ HandlerInv' /\ JoinInv'
    BY <2>1 DEF SyncInv, BlankInv, SyncedInv, HandlerInv, JoinInv, Idle
  <2> QED BY <2>2, <2>3 DEF SyncInv
<1>2. CASE AddWorker(w)
  <2>1. /\ Idle /\ leaderModel = NoModel /\ join[w].at = "asked"
        /\ registered' = registered \union {w}
        /\ \A v \in Workers : join'[v].at =
             IF v = w THEN IF w \in Dialling THEN "added" ELSE "in" ELSE join[v].at
        /\ UNCHANGED <<leaderModel, manager, workerVars, reach, historyVars>>
    BY <1>2, <1>j DEF AddWorker, JoinStep
  <2>2. \A v \in Workers : model[v] = NoModel /\ setting[v].at = "idle" /\ join[v].at # "told"
    BY <2>1 DEF SyncInv, BlankInv
  <2>3. ManagerInv' /\ BlankInv' /\ SyncedInv' /\ HandlerInv'
    BY <2>1, <2>2, <1>m
    DEF SyncInv, ManagerInv, BlankInv, SyncedInv, HandlerInv, Idle, Free, TypeOK
  <2>4. JoinInv'
    BY <2>1, <2>2 DEF SyncInv, JoinInv
  <2> QED BY <2>3, <2>4 DEF SyncInv
<1>3. CASE AddWorkerWithModel(w)
  <2>1. /\ Idle /\ manager = Free /\ leaderModel # NoModel /\ join[w].at = "asked"
        /\ UNCHANGED <<leaderModel, registered, model, memberVars, historyVars>>
    BY <1>3 DEF AddWorkerWithModel, SyncInv, ManagerInv
  <2>2. /\ manager'.task = "add" /\ manager'.at = w /\ manager'.todo = {w}
        /\ manager'.sends = leaderModel
    BY <1>3 DEF AddWorkerWithModel, Busy
  <2>3. setting[w].at = "idle"
    BY <2>1 DEF SyncInv, HandlerInv, Free
  <2>4. \A v \in Workers :
          \/ v # w /\ setting'[v] = setting[v]
          \/ v = w /\ setting'[w].at = "idle"
          \/ v = w /\ setting'[w].at = "asked" /\ setting'[w].takes = leaderModel
    BY <1>3, <2>3 DEF AddWorkerWithModel, TypeOK, Quiet
  <2>5. ManagerInv' /\ BlankInv' /\ SyncedInv'
    BY <2>1, <2>2 DEF SyncInv, ManagerInv, BlankInv, SyncedInv, Idle, Free
  <2>6. HandlerInv' /\ JoinInv'
    BY <2>1, <2>2, <2>3, <2>4 DEF SyncInv, HandlerInv, JoinInv, Free
  <2> QED BY <2>5, <2>6 DEF SyncInv
<1>4. CASE AnswerIntroduction(w)
  <2>1. /\ Idle /\ manager = Free /\ join[w].at = "added"
        /\ UNCHANGED <<leaderVars, workerVars, reach, historyVars>>
    BY <1>4 DEF AnswerIntroduction, SyncInv, ManagerInv
  <2>2. \A v \in Workers : join'[v].at =
          IF v = w THEN IF leaderModel = NoModel THEN "in" ELSE "told" ELSE join[v].at
    BY <1>4 DEF AnswerIntroduction, TypeOK
  <2>3. ManagerInv' /\ BlankInv' /\ SyncedInv'
    BY <2>1, <2>2 DEF SyncInv, ManagerInv, BlankInv, SyncedInv, Idle, Free
  <2>4. HandlerInv' /\ JoinInv'
    BY <2>1, <2>2 DEF SyncInv, HandlerInv, JoinInv, Free
  <2> QED BY <2>3, <2>4 DEF SyncInv
<1>5. CASE TakeAnswer(w)
  <2>1. /\ join[w].at = "told"
        /\ UNCHANGED <<leaderVars, setting, reach, historyVars>>
    BY <1>5 DEF TakeAnswer
  <2>2. \A v \in Workers : /\ join'[v].at = IF v = w THEN "in" ELSE join[v].at
                           /\ v # w => model'[v] = model[v]
    BY <1>5 DEF TakeAnswer, TypeOK
  <2>3. leaderModel # NoModel
    BY <2>1 DEF SyncInv, BlankInv
  <2>4. w \in registered \ missed => manager.task = "set" /\ w \in manager.todo
    BY <2>1 DEF SyncInv, JoinInv
  <2>5. ManagerInv' /\ BlankInv' 
    BY <1>m, <2>1, <2>2, <2>3 DEF SyncInv, ManagerInv, BlankInv, Idle
  <2>6. SyncedInv'
    BY <2>1, <2>2, <2>4 DEF SyncInv, SyncedInv, TypeOK
  <2>7. HandlerInv' /\ JoinInv'
    BY <2>1, <2>2 DEF SyncInv, HandlerInv, JoinInv
  <2> QED BY <2>5, <2>6, <2>7 DEF SyncInv
<1> QED BY <1>1, <1>2, <1>3, <1>4, <1>5 DEF Joining

\* Every step keeps the invariant.
LEMMA SyncStep == TypeOK /\ SyncInv /\ [Next]_vars => SyncInv'
<1> SUFFICES ASSUME TypeOK, SyncInv, [Next]_vars PROVE SyncInv'
  OBVIOUS
<1> USE ModelSyncAssumption, NoModelAssumption
<1> USE DEF leaderVars, workerVars, memberVars, historyVars
<1>m. /\ manager.at \in manager.todo \union {NoOne} /\ manager.todo \subseteq Workers
      /\ manager.task \in {"idle", "set", "add"}
  BY DEF TypeOK, Calls
<1>1. ASSUME NEW c \in Controllers, Request(c) PROVE SyncInv'
  <2>1. ASSUME NEW s \in Scripts, ReplaceModel(c, s) PROVE SyncInv'
    BY <2>1, ModelValues, PropagateSync DEF ReplaceModel
  <2>2. ASSUME NEW p \in Parts, MergeModel(c, p) PROVE SyncInv'
    <3>1. leaderModel \in Models
      BY <2>2 DEF MergeModel, TypeOK
    <3> QED BY <2>2, <3>1, ModelValues, PropagateSync DEF MergeModel
  <2>3. CASE InitializeGet(c)
    BY <2>3, OtherSync DEF InitializeGet
  <2> QED BY <1>1, <2>1, <2>2, <2>3 DEF Request
<1>2. ASSUME NEW c \in Controllers, Controller(c) PROVE SyncInv'
  <2>1. CASE InitializeSet(c)
    <3>1. ctl[c].holds \in Models
      BY <2>1 DEF InitializeSet, TypeOK, Tasks
    <3> QED BY <2>1, <3>1, PropagateSync DEF InitializeSet
  <2>2. CASE InitializeWorkers(c)
    BY <2>2, OtherSync DEF InitializeWorkers
  <2>3. ASSUME NEW w \in Workers, InitializeWorker(c, w) PROVE SyncInv'
    <3>1. \A v \in Workers : /\ setting'[v].at = setting[v].at
                             /\ setting'[v].takes = setting[v].takes
      BY <2>3 DEF InitializeWorker, TypeOK, Settings
    <3> QED BY <2>3, <3>1, OtherSync DEF InitializeWorker
  <2>4. ASSUME NEW w \in Workers, InitializeFails(c, w) PROVE SyncInv'
    BY <2>4, OtherSync DEF InitializeFails
  <2>5. CASE InitializeDone(c)
    BY <2>5, OtherSync DEF InitializeDone
  <2> QED BY <1>2, <2>1, <2>2, <2>3, <2>4, <2>5 DEF Controller
<1>3. CASE Manager
  <2>1. CASE FinishModel
    <3>1. /\ manager' = Free /\ manager.task = "set" /\ manager.todo = {} /\ manager.at = NoOne
          /\ UNCHANGED <<leaderModel, registered, workerVars, memberVars, historyVars>>
      BY <2>1, <1>m DEF FinishModel, Finish
    <3>2. ManagerInv' /\ BlankInv' /\ SyncedInv'
      BY <3>1 DEF SyncInv, ManagerInv, BlankInv, SyncedInv, Free, Idle
    <3>3. HandlerInv' /\ JoinInv'
      BY <3>1 DEF SyncInv, HandlerInv, JoinInv, Free
    <3> QED BY <3>2, <3>3 DEF SyncInv
  <2>2. ASSUME NEW w \in Workers, CallWorker(w) PROVE SyncInv'
    <3>1. /\ manager.task = "set" /\ manager.at = NoOne /\ w \in manager.todo
          /\ UNCHANGED <<leaderModel, registered, model, memberVars, historyVars>>
      BY <2>2 DEF CallWorker
    <3>2. /\ manager'.at = w /\ manager'.task = "set"
          /\ manager'.todo = manager.todo /\ manager'.sends = manager.sends
      BY <2>2, <3>1 DEF CallWorker, TypeOK, Calls
    <3>3. \A v \in Workers :
            /\ setting'[v].at = IF v = w THEN "asked" ELSE setting[v].at
            /\ setting'[v].takes = IF v = w THEN leaderModel ELSE setting[v].takes
      BY <2>2 DEF CallWorker, TypeOK, Quiet, SyncInv, ManagerInv, Idle
    <3>4. ManagerInv' /\ BlankInv' /\ SyncedInv'
      BY <3>1, <3>2 DEF SyncInv, ManagerInv, BlankInv, SyncedInv, Idle
    <3>5. HandlerInv' /\ JoinInv'
      BY <3>1, <3>2, <3>3 DEF SyncInv, HandlerInv, JoinInv
    <3> QED BY <3>4, <3>5 DEF SyncInv
  <2>3. ASSUME NEW w \in Workers, CallFails(w) PROVE SyncInv'
    BY <2>3, AbortSync DEF CallFails
  <2> QED BY <1>3, <2>1, <2>2, <2>3 DEF Manager
<1>4. ASSUME NEW w \in Workers, Handler(w) PROVE SyncInv'
  <2>1. CASE SetModel(w)
    BY <2>1, StoreSync DEF SetModel, Listens
  <2>2. CASE SetModelDone(w)
    BY <2>2, StoreSync DEF SetModelDone, SyncInv, JoinInv
  <2>3. CASE SetModelDiff(w)
    <3>1. /\ UNCHANGED <<leaderVars, model, memberVars, historyVars>>
          /\ setting[w].at = "asked" /\ (w \in Dialling => join[w].at = "in")
      BY <2>3 DEF SetModelDiff, Listens
    <3>2. \A v \in Workers :
            /\ setting'[v].at = IF v = w THEN "respawn" ELSE setting[v].at
            /\ setting'[v].takes = setting[v].takes
      BY <2>3 DEF SetModelDiff, TypeOK, Settings
    <3>3. ManagerInv' /\ SyncedInv'
      BY <3>1 DEF SyncInv, ManagerInv, SyncedInv, Idle
    <3>4. BlankInv' /\ HandlerInv' /\ JoinInv'
      BY <3>1, <3>2 DEF SyncInv, BlankInv, HandlerInv, JoinInv, Idle
    <3> QED BY <3>3, <3>4 DEF SyncInv
  <2>4. CASE Respawn(w)
    <3>1. \A v \in Workers : /\ setting'[v].at = setting[v].at
                             /\ setting'[v].takes = setting[v].takes
      BY <2>4 DEF Respawn, TypeOK, Settings
    <3> QED BY <2>4, <3>1, OtherSync DEF Respawn
  <2>5. CASE RespawnFails(w)
    BY <2>5, AnswerFails DEF RespawnFails
  <2> QED BY <1>4, <2>1, <2>2, <2>3, <2>4, <2>5 DEF Handler
<1>5. ASSUME NEW w \in Workers, Joining(w) PROVE SyncInv'
  BY <1>5, JoiningSync
<1>6. ASSUME NEW w \in Workers, Leaving(w) PROVE SyncInv'
  <2>1. CASE Shutdown(w)
    BY <2>1, OtherSync DEF Shutdown
  <2>2. CASE RemoveWorker(w)
    <3>1. /\ registered' = registered \ {w} /\ reach' \subseteq reach
          /\ UNCHANGED <<leaderModel, manager, workerVars, join, historyVars>>
          /\ Idle
      BY <2>2 DEF RemoveWorker
    <3>2. ManagerInv' /\ BlankInv' /\ SyncedInv'
      BY <3>1 DEF SyncInv, ManagerInv, BlankInv, SyncedInv, Idle, Free
    <3>3. HandlerInv' /\ JoinInv'
      BY <3>1 DEF SyncInv, HandlerInv, JoinInv
    <3> QED BY <3>2, <3>3 DEF SyncInv
  <2>3. CASE GoSilently(w)
    BY <2>3, OtherSync DEF GoSilently
  <2> QED BY <1>6, <2>1, <2>2, <2>3 DEF Leaving
<1>7. ASSUME NEW w \in Workers,
             StartJoin(w) \/ LoseWorker(w) \/ Cancel(w) \/ CallDropped(w)
      PROVE  SyncInv'
  <2>1. CASE StartJoin(w)
    BY <2>1, JoiningSync
  <2>2. CASE LoseWorker(w)
    BY <2>2, OtherSync DEF LoseWorker
  <2>3. CASE Cancel(w)
    BY <2>3, OtherSync DEF Cancel
  <2>4. CASE CallDropped(w)
    BY <2>4, AnswerFails DEF CallDropped
  <2> QED BY <1>7, <2>1, <2>2, <2>3, <2>4
<1>8. CASE UNCHANGED vars
  BY <1>8, OtherSync DEF vars
<1> QED BY <1>1, <1>2, <1>3, <1>4, <1>5, <1>6, <1>7, <1>8 DEF Next

\* At rest, a registered worker that was not missed has the leader's model.
THEOREM Synced == Spec => []InSync
<1>1. SyncInv => InSync
  BY DEF SyncInv, SyncedInv, InSync, Idle
<1> QED BY <1>1, SyncInit, SyncStep, TypeCorrect, PTL DEF Spec

\* What a worker stores is the leader's model, or the worker has lost the leader,
\* or was answered with a model when it was introduced.
THEOREM NeverBack == Spec => StoresCurrent
<1> DEFINE Current == \A w \in Workers : model'[w] # model[w] =>
                        \/ model'[w] = leaderModel
                        \/ w \notin reach
                        \/ join[w].at = "told"
<1>1. TypeOK /\ SyncInv /\ [Next]_vars => [Current]_vars
  <2> SUFFICES ASSUME TypeOK, SyncInv, [Next]_vars, NEW w \in Workers, model'[w] # model[w]
               PROVE  \/ model'[w] = leaderModel
                      \/ w \notin reach
                      \/ join[w].at = "told"
    OBVIOUS
  <2> USE DEF leaderVars, workerVars, memberVars, historyVars
  <2>1. ASSUME NEW v \in Workers, setting[v].at # "idle", Store(v, setting[v].takes)
        PROVE  model'[w] = leaderModel \/ w \notin reach
    <3>1. v = w /\ model'[w] = setting[w].takes
      BY <2>1 DEF Store, TypeOK
    <3> QED BY <2>1, <3>1 DEF SyncInv, HandlerInv
  <2>2. ASSUME NEW v \in Workers, TakeAnswer(v) PROVE join[w].at = "told"
    BY <2>2 DEF TakeAnswer, TypeOK
  <2>3. ASSUME NEW c \in Controllers, Request(c) \/ Controller(c) PROVE FALSE
    BY <2>3 DEF Request, ReplaceModel, MergeModel, InitializeGet, Controller, InitializeSet,
                InitializeWorkers, InitializeWorker, InitializeFails, InitializeDone
  <2>4. CASE Manager
    BY <2>4 DEF Manager, FinishModel, CallWorker, CallFails
  <2>5. ASSUME NEW v \in Workers, Handler(v)
        PROVE  model'[w] = leaderModel \/ w \notin reach
    BY <2>1, <2>5 DEF Handler, SetModel, SetModelDiff, Respawn, RespawnFails, SetModelDone
  <2>6. ASSUME NEW v \in Workers, Joining(v) PROVE join[w].at = "told"
    BY <2>2, <2>6 DEF Joining, AddWorker, AddWorkerWithModel, AnswerIntroduction
  <2>7. ASSUME NEW v \in Workers,
               Leaving(v) \/ StartJoin(v) \/ LoseWorker(v) \/ Cancel(v) \/ CallDropped(v)
        PROVE  FALSE
    BY <2>7 DEF Leaving, Shutdown, RemoveWorker, GoSilently, StartJoin, LoseWorker,
                Cancel, CallDropped
  <2>8. CASE UNCHANGED vars
    BY <2>8 DEF vars
  <2> QED BY <2>3, <2>4, <2>5, <2>6, <2>7, <2>8 DEF Next
<1> QED BY <1>1, SyncInit, SyncStep, TypeCorrect, PTL DEF Spec, StoresCurrent

-----------------------------------------------------------------------------
(* The behaviors of a worker that follows the model                          *)

\* Of the handles of a partition only the last one, of script s, is live: a task
\* that is replaced leaves its handle behind.
OnlyLastLive(q, s) ==
  /\ q # <<>>
  /\ \A i \in DOMAIN q : q[i].live <=> i = Len(q)
  /\ q[Len(q)].script = s
Follows(q, s) == q = <<>> \/ OnlyLastLive(q, s)

\* A SetModel handler h that has fetched the handles of partition q, on a worker
\* whose model has script s, has not begun, or has replaced the only one.  If
\* there is a dead one before the live one, it fails before it replaces any.
Fetched(h, q, s) ==
  \/ /\ h.next = 1 /\ Len(h.old) = Len(q)
     /\ \A i \in DOMAIN h.old : h.old[i] <=> i = Len(h.old)
     /\ Follows(q, s)
  \/ /\ h.next = 2 /\ Len(h.old) = 1
     /\ OnlyLastLive(q, h.takes.script)

Follower(w) ==
  /\ behaviors[w] # <<>> \/ setting[w].at = "respawn" => model[w] # NoModel
  /\ setting[w].at = "respawn" \/ setting[w].next = 1
  /\ w \in Following \ tangled /\ Serving(w) =>
       /\ setting[w].same
       /\ IF setting[w].at = "respawn" THEN Fetched(setting[w], behaviors[w], model[w].script)
                                       ELSE Follows(behaviors[w], model[w].script)
FollowInv == \A w \in Workers : Follower(w)

LEMMA NewPartitionFollows ==
  \A m \in Models : /\ NewPartition(m) # <<>>
                    /\ OnlyLastLive(NewPartition(m), m.script)
  BY DEF NewPartition, OnlyLastLive

LEMMA FollowInit == Init => FollowInv
<1> SUFFICES ASSUME Init, NEW w \in Workers PROVE Follower(w)
  BY DEF FollowInv
<1>1. PICK up \in SUBSET Workers, m \in Models \union {NoModel} : StartWith(up, m)
  BY ModelValues, ModelSyncAssumption DEF Init
<1>2. setting[w].at = "idle" /\ setting[w].same /\ setting[w].next = 1
  BY DEF Init, Quiet
<1>3. CASE w \in up /\ m # NoModel
  <2>1. behaviors[w] = NewPartition(m) /\ model[w] = m /\ m \in Models
    BY <1>1, <1>3 DEF StartWith
  <2> QED BY <1>2, <1>3, <2>1, NewPartitionFollows DEF Follower, Follows
<1>4. CASE ~(w \in up /\ m # NoModel)
  <2>1. behaviors[w] = <<>>
    BY <1>1, <1>4 DEF StartWith
  <2> QED BY <1>2, <2>1 DEF Follower, Follows
<1> QED BY <1>3, <1>4

\* A worker that a step leaves alone, or cuts off, is what it was.
LEMMA FollowerKept ==
  ASSUME NEW w \in Workers, Follower(w), tangled \subseteq tangled', Serving(w)' => Serving(w),
         behaviors'[w] = behaviors[w], setting'[w] = setting[w], model'[w] = model[w]
  PROVE  Follower(w)'
<1> DEFINE Fine(q, h, m) == /\ h.same
                            /\ IF h.at = "respawn" THEN Fetched(h, q, m.script)
                                                   ELSE Follows(q, m.script)
<1>1. /\ behaviors[w] # <<>> \/ setting[w].at = "respawn" => model[w] # NoModel
      /\ setting[w].at = "respawn" \/ setting[w].next = 1
      /\ w \in Following \ tangled /\ Serving(w) => Fine(behaviors[w], setting[w], model[w])
  BY DEF Follower
<1>2. Follower(w)' <=>
        /\ behaviors'[w] # <<>> \/ setting'[w].at = "respawn" => model'[w] # NoModel
        /\ setting'[w].at = "respawn" \/ setting'[w].next = 1
        /\ w \in Following \ tangled' /\ Serving(w)' => Fine(behaviors'[w], setting'[w], model'[w])
  BY DEF Follower, Fetched, Follows, OnlyLastLive
<1> HIDE DEF Fine
<1> QED BY <1>1, <1>2

\* A worker whose handler is not respawning, as it was or with a new partition.
LEMMA FollowerQuiet ==
  ASSUME NEW w \in Workers, setting'[w].at # "respawn", setting'[w].next = 1,
         behaviors'[w] # <<>> => model'[w] # NoModel,
         w \in Following \ tangled' /\ Serving(w)' =>
           setting'[w].same /\ Follows(behaviors'[w], model'[w].script)
  PROVE  Follower(w)'
<1>1. Follower(w)' <=>
        /\ behaviors'[w] # <<>> \/ setting'[w].at = "respawn" => model'[w] # NoModel
        /\ setting'[w].at = "respawn" \/ setting'[w].next = 1
        /\ w \in Following \ tangled' /\ Serving(w)' =>
             /\ setting'[w].same
             /\ IF setting'[w].at = "respawn" THEN Fetched(setting'[w], behaviors'[w], model'[w].script)
                                              ELSE Follows(behaviors'[w], model'[w].script)
  BY DEF Follower, Fetched, Follows, OnlyLastLive
<1> QED BY <1>1

\* The only task of a partition is replaced.
LEMMA ReplaceOnly ==
  ASSUME NEW q \in Seq(Handles), Len(q) = 1, NEW s \in Scripts
  PROVE  OnlyLastLive(Append([q EXCEPT ![1].live = FALSE], [script |-> s, live |-> TRUE]), s)
<1> DEFINE dead == [q EXCEPT ![1].live = FALSE]
           new == [script |-> s, live |-> TRUE]
<1>1. 1 \in 1 .. Len(q)
  OBVIOUS
<1>2. q[1] \in Handles
  BY <1>1, ElementOfSeq
<1> DEFINE ended == [q[1] EXCEPT !.live = FALSE]
<1>3. ended \in Handles /\ ended.live = FALSE
  BY <1>2 DEF Handles
<1>4. dead = [q EXCEPT ![1] = ended]
  OBVIOUS
<1>5. new \in Handles
  BY DEF Handles
<1> HIDE DEF dead, new, ended
<1>6. /\ [q EXCEPT ![1] = ended] \in Seq(Handles) /\ Len([q EXCEPT ![1] = ended]) = Len(q)
      /\ \A j \in 1 .. Len(q) : [q EXCEPT ![1] = ended][j] = IF j = 1 THEN ended ELSE q[j]
  <2>1. [q EXCEPT ![1] = ended] \in Seq(Handles)
    BY <1>1, <1>3, ExceptSeq
  <2>2. Len([q EXCEPT ![1] = ended]) = Len(q)
    BY <1>1, <1>3, ExceptSeq
  <2>3. \A j \in 1 .. Len(q) : [q EXCEPT ![1] = ended][j] = IF j = 1 THEN ended ELSE q[j]
    BY <1>1, <1>3, ExceptSeq
  <2> QED BY <2>1, <2>2, <2>3
<1>7. dead \in Seq(Handles) /\ Len(dead) = 1 /\ dead[1].live = FALSE
  BY <1>1, <1>3, <1>4, <1>6
<1> DEFINE both == Append(dead, new)
<1>8. /\ both # <<>> /\ both \in Seq(Handles) /\ Len(both) = Len(dead) + 1
      /\ both[Len(dead) + 1] = new /\ \A i \in 1 .. Len(dead) : both[i] = dead[i]
  <2>1. both # <<>>
    BY <1>5, <1>7, AppendProperties
  <2>2. both \in Seq(Handles)
    BY <1>5, <1>7, AppendProperties
  <2>3. Len(both) = Len(dead) + 1
    BY <1>5, <1>7, AppendProperties
  <2>4. both[Len(dead) + 1] = new
    BY <1>5, <1>7, AppendProperties
  <2>5. \A i \in 1 .. Len(dead) : both[i] = dead[i]
    BY <1>5, <1>7, AppendProperties
  <2> QED BY <2>1, <2>2, <2>3, <2>4, <2>5
<1> HIDE DEF both
<1>9. /\ Len(both) = 2 /\ both[2] = new /\ both[1] = dead[1]
      /\ \A i \in DOMAIN both : i = 1 \/ i = 2
  <2>1. DOMAIN both = 1 .. Len(both)
    BY <1>8, LenProperties
  <2> QED BY <1>7, <1>8, <2>1
<1>10. new.live = TRUE /\ new.script = s
  BY DEF new
<1> HIDE DEF both
<1>11. OnlyLastLive(both, s)
  BY <1>7, <1>8, <1>9, <1>10 DEF OnlyLastLive
<1> QED BY <1>11 DEF dead, new, both

\* The steps of a worker's SetModel handler.
LEMMA HandlerFollows ==
  ASSUME TypeOK, SyncInv, NEW w \in Workers, Follower(w), Handler(w)
  PROVE  Follower(w)'
<1> DEFINE q == behaviors[w]
           h == setting[w]
<1>0. /\ q \in Seq(Handles) /\ h \in Settings /\ model[w] \in Models \union {NoModel}
      /\ Len(q) \in Nat /\ DOMAIN q = 1 .. Len(q)
      /\ DOMAIN h.old = 1 .. Len(h.old) /\ Len(h.old) \in Nat
  BY DEF TypeOK, Settings
<1>q. /\ Quiet.at # "respawn" /\ Quiet.next = 1 /\ Quiet.same
  BY DEF Quiet
<1>1. CASE SetModel(w)
  <2>1. /\ h.at = "asked" /\ ~Respawns(w, h.takes) /\ h.takes \in Models
        /\ model'[w] = h.takes /\ setting'[w] = Quiet /\ behaviors'[w] = q
        /\ UNCHANGED <<tangled, stopping>>
    BY <1>0, <1>1 DEF SetModel, Store, TypeOK, Settings
  <2>2. h.takes # NoModel
    BY <2>1, NoModelAssumption
  <2>3. ASSUME w \in Following \ tangled, Serving(w) PROVE Follows(q, h.takes.script)
    <3>1. CASE model[w] = NoModel
      BY <3>1 DEF Follower, Follows
    <3>2. CASE model[w] # NoModel
      BY <2>1, <2>3, <3>2 DEF Follower, Respawns
    <3> QED BY <3>1, <3>2
  <2> QED BY <1>q, <2>1, <2>2, <2>3, FollowerQuiet DEF Serving
<1>2. CASE SetModelDiff(w)
  <2>1. /\ h.at = "asked" /\ w \in Following /\ model[w] # NoModel /\ h.next = 1
        /\ model'[w] = model[w] /\ behaviors'[w] = q
        /\ setting'[w] = [h EXCEPT !.at = "respawn", !.old = [i \in DOMAIN q |-> q[i].live]]
        /\ UNCHANGED <<tangled, stopping>>
    BY <1>2 DEF SetModelDiff, Respawns, TypeOK, Follower, historyVars, memberVars
  <2>2. /\ setting'[w].at = "respawn" /\ setting'[w].next = 1 /\ setting'[w].same = h.same
        /\ setting'[w].old = [i \in DOMAIN q |-> q[i].live]
    BY <1>0, <2>1 DEF Settings
  <2>3. Len(setting'[w].old) = Len(q) /\ DOMAIN setting'[w].old = DOMAIN q
    BY <1>0, <2>2
  <2>4. ASSUME w \notin tangled, Serving(w) PROVE h.same /\ Fetched(setting'[w], q, model[w].script)
    <3>1. h.same /\ Follows(q, model[w].script)
      BY <2>1, <2>4 DEF Follower
    <3>2. \A i \in DOMAIN q : setting'[w].old[i] <=> i = Len(q)
      BY <1>0, <2>2, <3>1 DEF Follows, OnlyLastLive
    <3> QED BY <2>2, <2>3, <3>1, <3>2 DEF Fetched
  <2> QED BY <2>1, <2>2, <2>4 DEF Follower, Serving, Fetched, Follows, OnlyLastLive
<1>3. CASE Respawn(w)
  <2> DEFINE new == [script |-> h.takes.script, live |-> TRUE]
  <2>1. /\ h.at = "respawn" /\ h.next <= Len(h.old) /\ h.old[h.next]
        /\ behaviors'[w] = Append(IF h.same THEN [q EXCEPT ![h.next].live = FALSE] ELSE q, new)
        /\ setting'[w] = [h EXCEPT !.next = h.next + 1]
        /\ model'[w] = model[w] /\ model[w] # NoModel
        /\ UNCHANGED <<tangled, stopping>>
    BY <1>3 DEF Respawn, TypeOK, Follower, historyVars, memberVars
  <2>2. /\ setting'[w].at = "respawn" /\ setting'[w].next = h.next + 1 /\ setting'[w].same = h.same
        /\ setting'[w].old = h.old /\ setting'[w].takes = h.takes
    BY <1>0, <2>1 DEF Settings
  <2>3. ASSUME w \in Following \ tangled, Serving(w) PROVE h.same /\ Fetched(setting'[w], behaviors'[w], model[w].script)
    <3>1. h.same /\ Fetched(h, q, model[w].script)
      BY <2>1, <2>3 DEF Follower
    <3>2. h.next = 1 /\ Len(h.old) = 1 /\ Len(q) = 1
      <4>1. CASE h.next = 2 /\ Len(h.old) = 1
        BY <2>1, <4>1
      <4>2. CASE /\ h.next = 1 /\ Len(h.old) = Len(q)
                 /\ \A i \in DOMAIN h.old : h.old[i] <=> i = Len(h.old)
        <5>1. 1 \in DOMAIN h.old /\ h.old[1]
          BY <1>0, <2>1, <4>2
        <5> QED BY <4>2, <5>1
      <4> QED BY <3>1, <4>1, <4>2 DEF Fetched
    <3>3. behaviors'[w] = Append([q EXCEPT ![1].live = FALSE], new)
      BY <2>1, <3>1, <3>2
    <3>4. h.takes.script \in Scripts
      BY <1>0, <2>1 DEF Settings, Models
    <3>6. OnlyLastLive(behaviors'[w], h.takes.script)
      BY <1>0, <3>2, <3>3, <3>4, ReplaceOnly
    <3> QED BY <2>2, <3>1, <3>2, <3>6 DEF Fetched
  <2>4. Follower(w)' <=>
          /\ behaviors'[w] # <<>> \/ setting'[w].at = "respawn" => model'[w] # NoModel
          /\ setting'[w].at = "respawn" \/ setting'[w].next = 1
          /\ w \in Following \ tangled' /\ Serving(w)' =>
               /\ setting'[w].same
               /\ IF setting'[w].at = "respawn" THEN Fetched(setting'[w], behaviors'[w], model'[w].script)
                                                ELSE Follows(behaviors'[w], model'[w].script)
    BY DEF Follower, Fetched, Follows, OnlyLastLive
  <2> QED BY <2>1, <2>2, <2>3, <2>4 DEF Serving
<1>4. CASE RespawnFails(w)
  <2>1. /\ h.at = "respawn" /\ h.next <= Len(h.old) /\ ~h.old[h.next]
        /\ model'[w] = model[w] /\ setting'[w] = Quiet /\ behaviors'[w] = q
        /\ model[w] # NoModel /\ UNCHANGED <<tangled, stopping>>
    BY <1>4 DEF RespawnFails, TypeOK, Follower
  <2>2. ASSUME w \in Following \ tangled, Serving(w) PROVE Follows(q, model[w].script)
    <3>1. Fetched(h, q, model[w].script)
      BY <2>1, <2>2 DEF Follower
    <3> QED BY <1>0, <2>1, <3>1 DEF Fetched
  <2> QED BY <1>q, <2>1, <2>2, FollowerQuiet DEF Serving
<1>5. CASE SetModelDone(w)
  <2>1. /\ h.at = "respawn" /\ h.next > Len(h.old) /\ h.takes \in Models
        /\ model'[w] = h.takes /\ setting'[w] = Quiet /\ behaviors'[w] = q
        /\ UNCHANGED <<tangled, stopping>>
    BY <1>0, <1>5 DEF SetModelDone, Store, TypeOK, Settings
  <2>2. h.takes # NoModel
    BY <2>1, NoModelAssumption
  <2>3. ASSUME w \in Following \ tangled, Serving(w) PROVE Follows(q, h.takes.script)
    <3>1. Fetched(h, q, model[w].script)
      BY <2>1, <2>3 DEF Follower
    <3> QED BY <1>0, <2>1, <3>1 DEF Fetched, Follows, OnlyLastLive
  <2> QED BY <1>q, <2>1, <2>2, <2>3, FollowerQuiet DEF Serving
<1> QED BY <1>1, <1>2, <1>3, <1>4, <1>5 DEF Handler

\* Every step keeps the invariant: besides a worker's own handler, an Initialize
\* and the answer to an introduction replace its partition, a call of the
\* leader's manager begins a handler and a lost one ends it.
LEMMA FollowStep == TypeOK /\ SyncInv /\ FollowInv /\ [Next]_vars => FollowInv'
<1> SUFFICES ASSUME TypeOK, SyncInv, FollowInv, [Next]_vars, NEW w \in Workers
             PROVE  Follower(w)'
  BY DEF FollowInv
<1> USE DEF leaderVars, workerVars, memberVars, historyVars
<1>0. /\ behaviors[w] \in Seq(Handles) /\ setting[w] \in Settings
      /\ model[w] \in Models \union {NoModel} /\ Follower(w)
  BY DEF TypeOK, FollowInv
<1>q. /\ Quiet.at = "idle" /\ Quiet.next = 1 /\ Quiet.same
      /\ \A m : LET h == [Quiet EXCEPT !.at = "asked", !.takes = m]
                IN  h.at = "asked" /\ h.next = 1 /\ h.same
  BY DEF Quiet
<1>k. ASSUME tangled \subseteq tangled', Serving(w)' => Serving(w),
             behaviors'[w] = behaviors[w], setting'[w] = setting[w], model'[w] = model[w]
      PROVE  Follower(w)'
  BY <1>0, <1>k, FollowerKept
\* The handler begins or ends, and leaves the partition as it is.
<1>h. ASSUME setting[w].at # "respawn", setting'[w].at # "respawn", setting'[w].next = 1, setting'[w].same,
             tangled' = tangled, Serving(w)' => Serving(w), behaviors'[w] = behaviors[w], model'[w] = model[w]
      PROVE  Follower(w)'
  BY <1>0, <1>h, FollowerQuiet DEF Follower
\* The partition is replaced by one for the model m.
<1>p. ASSUME NEW m \in Models, setting[w].at # "respawn", setting'[w].at # "respawn",
             setting'[w].next = setting[w].next, setting'[w].same = setting[w].same \/ setting'[w].same,
             tangled' = tangled, Serving(w)' => Serving(w),
             behaviors'[w] = NewPartition(m), model'[w] = m
      PROVE  Follower(w)'
  <2>1. m # NoModel /\ setting'[w].next = 1
    BY <1>0, <1>p, NoModelAssumption DEF Follower
  <2>2. Follows(behaviors'[w], m.script)
    BY <1>p, NewPartitionFollows DEF Follows
  <2>3. w \in Following \ tangled' /\ Serving(w)' => setting'[w].same
    BY <1>0, <1>p DEF Follower
  <2> QED BY <1>p, <2>1, <2>2, <2>3, FollowerQuiet
<1>1. ASSUME NEW c \in Controllers, Request(c) PROVE Follower(w)'
  BY <1>1, <1>k DEF Request, ReplaceModel, MergeModel, InitializeGet, Serving
<1>2. ASSUME NEW c \in Controllers, Controller(c) PROVE Follower(w)'
  <2>1. CASE InitializeSet(c) \/ InitializeWorkers(c) \/ InitializeDone(c)
             \/ \E v \in Workers : InitializeFails(c, v)
    BY <2>1, <1>k DEF InitializeSet, InitializeWorkers, InitializeDone, InitializeFails, Serving
  <2>2. ASSUME NEW v \in Workers, InitializeWorker(c, v) PROVE Follower(w)'
    <3>1. /\ model' = model /\ stopping' = stopping /\ model[v] # NoModel
          /\ behaviors' = [behaviors EXCEPT ![v] = NewPartition(model[v])]
          /\ setting' = [setting EXCEPT ![v].same = setting[v].at # "respawn"]
          /\ tangled' = IF setting[v].at = "respawn" THEN tangled \union {v} ELSE tangled
      BY <2>2 DEF InitializeWorker
    <3>2. CASE v # w
      <4>1. behaviors'[w] = behaviors[w] /\ setting'[w] = setting[w] /\ tangled \subseteq tangled'
        BY <3>1, <3>2 DEF TypeOK
      <4> QED BY <3>1, <4>1, <1>k DEF Serving
    <3>3. CASE v = w
      <4>1. /\ behaviors'[w] = NewPartition(model[w]) /\ model[w] \in Models
            /\ setting'[w] = [setting[w] EXCEPT !.same = setting[w].at # "respawn"]
        BY <1>0, <3>1, <3>3 DEF TypeOK
      <4>2. /\ setting'[w].at = setting[w].at /\ setting'[w].next = setting[w].next
            /\ setting'[w].same = (setting[w].at # "respawn")
        BY <1>0, <4>1 DEF Settings
      <4>3. CASE setting[w].at # "respawn"
        BY <3>1, <3>3, <4>1, <4>2, <4>3, <1>p DEF Serving
      <4>4. CASE setting[w].at = "respawn"
        <5>1. w \in tangled' /\ model'[w] # NoModel /\ setting'[w].at = "respawn"
          BY <3>1, <3>3, <4>2, <4>4
        <5> QED BY <5>1 DEF Follower
      <4> QED BY <4>3, <4>4
    <3> QED BY <3>2, <3>3
  <2> QED BY <1>2, <2>1, <2>2 DEF Controller
<1>3. CASE Manager
  <2>1. CASE FinishModel
    BY <2>1, <1>k DEF FinishModel, Serving
  <2>2. ASSUME NEW v \in Workers, CallFails(v) PROVE Follower(w)'
    BY <2>2, <1>k DEF CallFails, Serving
  <2>3. ASSUME NEW v \in Workers, CallWorker(v) PROVE Follower(w)'
    <3>1. /\ manager.at = NoOne /\ v \in reach
          /\ setting' = [setting EXCEPT ![v] = [Quiet EXCEPT !.at = "asked", !.takes = manager.sends]]
          /\ UNCHANGED <<model, behaviors, memberVars, historyVars>>
      BY <2>3 DEF CallWorker
    <3>2. CASE v # w
      <4>1. setting'[w] = setting[w]
        BY <3>1, <3>2 DEF TypeOK
      <4> QED BY <3>1, <4>1, <1>k DEF Serving
    <3>3. CASE v = w
      <4>1. setting[w].at = "idle"
        BY <3>1, <3>3, ModelSyncAssumption DEF SyncInv, HandlerInv
      <4>2. setting'[w] = [Quiet EXCEPT !.at = "asked", !.takes = manager.sends]
        BY <3>1, <3>3 DEF TypeOK
      <4>3. setting'[w].at = "asked" /\ setting'[w].next = 1 /\ setting'[w].same
        BY <1>q, <4>2
      <4> QED BY <3>1, <4>1, <4>3, <1>h DEF Serving
    <3> QED BY <3>2, <3>3
  <2> QED BY <1>3, <2>1, <2>2, <2>3 DEF Manager
<1>4. ASSUME NEW v \in Workers, Handler(v) PROVE Follower(w)'
  <2>1. CASE v = w
    BY <1>0, <1>4, <2>1, HandlerFollows
  <2>2. CASE v # w
    <3>1. /\ UNCHANGED <<tangled, stopping>>
          /\ behaviors'[w] = behaviors[w] /\ setting'[w] = setting[w] /\ model'[w] = model[w]
      BY <1>4, <2>2 DEF Handler, SetModel, SetModelDiff, Respawn, RespawnFails, SetModelDone, Store, TypeOK
    <3> QED BY <3>1, <1>k DEF Serving
  <2> QED BY <2>1, <2>2
<1>5. ASSUME NEW v \in Workers, Joining(v) PROVE Follower(w)'
  <2>1. CASE AddWorker(v) \/ AnswerIntroduction(v)
    BY <2>1, <1>k DEF AddWorker, AnswerIntroduction, Serving
  <2>2. CASE AddWorkerWithModel(v)
    <3>1. /\ manager.at = NoOne /\ UNCHANGED <<model, behaviors, memberVars, historyVars>>
          /\ \/ setting' = setting
             \/ v \in reach /\ setting' =
                  [setting EXCEPT ![v] = [Quiet EXCEPT !.at = "asked", !.takes = leaderModel]]
      BY <2>2 DEF AddWorkerWithModel, SyncInv, ManagerInv, Free, Idle
    <3>2. CASE setting'[w] = setting[w]
      BY <3>1, <3>2, <1>k DEF Serving
    <3>3. CASE setting'[w] # setting[w]
      <4>1. v = w /\ w \in reach /\ setting'[w] = [Quiet EXCEPT !.at = "asked", !.takes = leaderModel]
        BY <3>1, <3>3 DEF TypeOK
      <4>2. setting[w].at = "idle"
        BY <3>1, <4>1, ModelSyncAssumption DEF SyncInv, HandlerInv
      <4>3. setting'[w].at = "asked" /\ setting'[w].next = 1 /\ setting'[w].same
        BY <1>q, <4>1
      <4> QED BY <3>1, <4>2, <4>3, <1>h DEF Serving
    <3> QED BY <3>2, <3>3
  <2>3. CASE TakeAnswer(v)
    <3>1. /\ join[v].at = "told" /\ setting' = setting /\ stopping' = stopping /\ tangled' = tangled
          /\ model' = [model EXCEPT ![v] = join[v].told]
          /\ behaviors' = [behaviors EXCEPT ![v] = NewPartition(join[v].told)]
      BY <2>3 DEF TakeAnswer
    <3>2. CASE v # w
      <4>1. behaviors'[w] = behaviors[w] /\ model'[w] = model[w]
        BY <3>1, <3>2 DEF TypeOK
      <4> QED BY <3>1, <4>1, <1>k DEF Serving
    <3>3. CASE v = w
      <4>1. join[w].told \in Models
        BY <3>1, <3>3 DEF TypeOK, Joins
      <4>2. setting[w].at # "respawn"
        BY <3>1, <3>3 DEF SyncInv, JoinInv
      <4>3. behaviors'[w] = NewPartition(join[w].told) /\ model'[w] = join[w].told
        BY <3>1, <3>3 DEF TypeOK
      <4> QED BY <3>1, <4>1, <4>2, <4>3, <1>p DEF Serving
    <3> QED BY <3>2, <3>3
  <2> QED BY <1>5, <2>1, <2>2, <2>3 DEF Joining
<1>6. ASSUME NEW v \in Workers, Leaving(v) PROVE Follower(w)'
  <2>1. CASE RemoveWorker(v) \/ GoSilently(v)
    <3>1. Serving(w)' => Serving(w)
      BY <2>1 DEF RemoveWorker, GoSilently, Serving, TypeOK
    <3> QED BY <2>1, <3>1, <1>k DEF RemoveWorker, GoSilently
  <2>2. CASE Shutdown(v)
    <3>1. /\ UNCHANGED <<model, setting, historyVars>>
          /\ stopping[v] = "cancelled" /\ stopping' = [stopping EXCEPT ![v] = "leaving"]
          /\ behaviors' = [behaviors EXCEPT ![v] =
               [i \in DOMAIN behaviors[v] |-> [behaviors[v][i] EXCEPT !.live = FALSE]]]
      BY <2>2 DEF Shutdown
    <3>2. CASE v # w
      <4>1. behaviors'[w] = behaviors[w] /\ stopping'[w] = stopping[w]
        BY <3>1, <3>2 DEF TypeOK
      <4> QED BY <3>1, <4>1, <1>k DEF Serving
    <3>3. CASE v = w
      <4>1. ~Serving(w)'
        BY <3>1, <3>3 DEF TypeOK, Serving
      <4>2. behaviors'[w] # <<>> => behaviors[w] # <<>>
        <5>1. behaviors'[w] = [i \in DOMAIN behaviors[w] |-> [behaviors[w][i] EXCEPT !.live = FALSE]]
          BY <3>1, <3>3 DEF TypeOK
        <5>2. behaviors[w] = <<>> => behaviors'[w] = <<>>
          BY <5>1
        <5> QED BY <5>2
      <4> QED BY <1>0, <3>1, <4>1, <4>2 DEF Follower
    <3> QED BY <3>2, <3>3
  <2> QED BY <1>6, <2>1, <2>2 DEF Leaving
<1>7. ASSUME NEW v \in Workers, StartJoin(v) \/ LoseWorker(v) PROVE Follower(w)'
  BY <1>7, <1>k DEF StartJoin, LoseWorker, Serving
<1>8. ASSUME NEW v \in Workers, Cancel(v) PROVE Follower(w)'
  <2>1. Serving(w)' => Serving(w)
    BY <1>8 DEF Cancel, Serving, TypeOK
  <2> QED BY <1>8, <2>1, <1>k DEF Cancel
<1>9. ASSUME NEW v \in Workers, CallDropped(v) PROVE Follower(w)'
  <2>1. /\ setting[v].at = "asked" /\ setting' = [setting EXCEPT ![v] = Quiet]
        /\ UNCHANGED <<model, behaviors, stopping, tangled>>
    BY <1>9 DEF CallDropped
  <2>2. CASE v # w
    <3>1. setting'[w] = setting[w]
      BY <2>1, <2>2 DEF TypeOK
    <3> QED BY <2>1, <3>1, <1>k DEF Serving
  <2>3. CASE v = w
    <3>1. setting'[w] = Quiet
      BY <2>1, <2>3 DEF TypeOK
    <3> QED BY <2>1, <2>3, <3>1, <1>q, <1>h DEF Serving
  <2> QED BY <2>2, <2>3
<1>10. CASE UNCHANGED vars
  BY <1>10, <1>k DEF vars, Serving
<1> QED BY <1>1, <1>2, <1>3, <1>4, <1>5, <1>6, <1>7, <1>8, <1>9, <1>10 DEF Next

\* A worker that follows the model runs its behavior in one task, with the script
\* of the model it has stored, at rest of its SetModel handler: a respawn never
\* leaves the old task running beside the new one, nor the worker without, even if
\* the leader's calls fail, the worker joins late or an Initialize comes between.
THEOREM BehaviorsFollowModel == Spec => []BehaviorFollows
<1>1. TypeOK /\ FollowInv => BehaviorFollows
  <2> SUFFICES ASSUME TypeOK, FollowInv, NEW w \in Following \ tangled,
                      behaviors[w] # <<>>, setting[w].at # "respawn", Serving(w)
               PROVE  LET live == {i \in DOMAIN behaviors[w] : behaviors[w][i].live}
                      IN /\ Cardinality(live) = 1
                         /\ \A i \in live : behaviors[w][i].script = model[w].script
    BY DEF BehaviorFollows
  <2> DEFINE q == behaviors[w]
             live == {i \in DOMAIN q : q[i].live}
  <2>1. w \in Workers /\ q \in Seq(Handles)
    BY ModelSyncAssumption DEF TypeOK
  <2>2. OnlyLastLive(q, model[w].script)
    BY <2>1 DEF FollowInv, Follower, Follows
  <2>3. Len(q) \in DOMAIN q
    BY <2>1, <2>2 DEF OnlyLastLive
  <2>4. live = {Len(q)}
    BY <2>2, <2>3 DEF OnlyLastLive
  <2>5. Cardinality(live) = 1
    BY <2>4, FS_Singleton
  <2> QED BY <2>2, <2>4, <2>5 DEF OnlyLastLive
<1> QED BY <1>1, SyncInit, SyncStep, FollowInit, FollowStep, TypeCorrect, PTL DEF Spec
==============================================================================
