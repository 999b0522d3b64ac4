---------------------------- MODULE ClusterTurn -----------------------------
(***************************************************************************)
(* The turn of a blocking client, end to end: the leader's step barrier    *)
(* (StepRound), extended by the servers' accounting of blocking clients    *)
(* (ServerTurn).  The two meet in two places:                              *)
(*                                                                         *)
(*   - a worker's Step handler has each of its servers execute             *)
(*     ClockChangedTo, which wakes the advance requests;                   *)
(*   - a server's monitor has its worker execute SetBlocking, on which the *)
(*     leader's IsBlocking questions wait.                                 *)
(*                                                                         *)
(* Everything else interleaves.  Calls between a worker and its servers    *)
(* arrive; the leader's calls to a worker may fail (StepRound).            *)
(***************************************************************************)
EXTENDS StepRound

CONSTANTS
  Clients, Blocking, ServerOf, Calls, CallerOf, MaxStepCount,  \* see ServerTurn
  WorkerOf                                       \* WorkerOf[s]: s's worker

ASSUME WorkerOfAssumption == WorkerOf \in [Servers -> Workers]

VARIABLES
  client, blocked, clock, worker, call, target, fresh, monitor,
  linked, changed, verdict, told, heard, upset   \* see ServerTurn

Turn == INSTANCE ServerTurn

turnVars == <<
  client, blocked, clock, worker, call, target, fresh, monitor,
  linked, changed, verdict, told, heard, upset>>
clusterVars == <<vars, turnVars>>

ClusterInit == Init /\ Turn!Init

-----------------------------------------------------------------------------
\* Mutant of Announce: the servers are sent the clock the handler read.
AnnounceOld(t, w, s) ==
  /\ NotifyServer(t, w, s)
  /\ Turn!ClockChangedTo(s, cur[t][w])

\* A Step handler of worker w reaches server s.
Announce(t, w, s) ==
  /\ NotifyServer(t, w, s)
  /\ Turn!ClockChangedTo(s, cur[t][w] + 1)

\* The monitor of s reaches its worker.
Tell(s) ==
  /\ Turn!MonitorTell(s)
  /\ SetBlocking(WorkerOf[s], verdict[s])

\* The two halves of connecting a server and its worker come in either order:
\* ConnectToWorker starts at the worker's map, ConnectToServer at the server.
Connect(s) ==
  \/ InsertServer(WorkerOf[s], s) /\ UNCHANGED turnVars
  \/ Turn!SetWorker(s) /\ UNCHANGED vars

WorkerHandler(t, w) ==
  \/ /\ \/ ReadClock(t, w)
        \/ SetClock(t, w)
        \/ RunBehaviors(t, w)
        \/ BehaviorsDone(t, w)
     /\ UNCHANGED turnVars
  \/ \E s \in Servers : Announce(t, w, s)

LeaderStepper(t) == Stepper(t) /\ UNCHANGED turnVars

Membership ==
  /\ \E w \in Workers :
       AddWorker(w) \/ RemoveWorker(w) \/ LoseWorker(w)
  /\ UNCHANGED turnVars

\* A controller has the leader initialize a worker or load a snapshot.  Neither
\* says anything to a server.
Reset ==
  /\ \/ \E w \in Workers : Initialize(w)
     \/ \E n \in Snapshots : LoadSnapshot(n)
  /\ UNCHANGED turnVars

Monitor(s) ==
  \/ /\ Turn!MonitorStart(s) \/ Turn!MonitorLook(s) \/ Turn!MonitorRelink(s)
     /\ UNCHANGED vars
  \/ Tell(s)

Request(k) == Turn!Request(k) /\ UNCHANGED vars

Session(c) == Turn!Session(c) /\ UNCHANGED vars

ClusterNext ==
  \/ \E t \in Tasks : LeaderStepper(t)
  \/ \E t \in Tasks, w \in Workers : WorkerHandler(t, w)
  \/ \E s \in Servers : Monitor(s) \/ Connect(s)
  \/ \E k \in Calls : Request(k)
  \/ \E c \in Clients : Session(c)
  \/ Membership
  \/ Reset

ClusterSpec == ClusterInit /\ [][ClusterNext]_clusterVars

\* The auto-step loop calls Step again and again, and all tasks are polled.
\* Clients and controllers owe nothing.
ClusterFairness ==
  /\ \A t \in Tasks : WF_clusterVars(LeaderStepper(t))
  /\ \A t \in Tasks, w \in Workers :
       /\ WF_clusterVars(WorkerHandler(t, w))
       /\ WF_clusterVars(IsBlocking(t, w) /\ UNCHANGED turnVars)
  /\ \A s \in Servers : WF_clusterVars(Monitor(s))
  /\ \A k \in Calls :
       WF_clusterVars((Turn!Unblock(k) \/ Turn!Panic(k) \/ Turn!WakeUp(k) \/ Turn!Block(k))
                 /\ UNCHANGED vars)

ClusterFairSpec == ClusterSpec /\ ClusterFairness

-----------------------------------------------------------------------------
(***************************************************************************)
(* Properties                                                              *)
(***************************************************************************)

\* The worker of s still answers to the leader and knows the server.
Attached(s) ==
  /\ WorkerOf[s] \in workers \intersect reach
  /\ s \in servers[WorkerOf[s]]

\* With one stepping task, a server that has heard of the clock shows its
\* worker's clock, unless the Step handler is on its way to tell it, or the
\* worker's clock was reset and has not moved since: servers are not told of a
\* reset, but none of them falls out of step for longer than to the next Step,
\* and no announcement is lost or overtaken.
ServerClockFollows ==
  \A s \in Servers :
    clock[s] # 0 =>
      \/ clock[s] = clock_watch[WorkerOf[s]]
      \/ \E t \in Tasks : s \in toNotify[t][WorkerOf[s]]
      \/ clock_watch[WorkerOf[s]] = 0

\* An advance request is answered, one way or the other, unless somebody
\* holds its server back or the server is not attached.  Stated for requests
\* whose steps, and one for the round under way, fit under the clock bound; a
\* reset, after which they may not, is an excuse.
AdvanceEnds ==
  \A k \in Calls :
    LET s == ServerOf[CallerOf[k]]
    IN call[k] = "waiting" /\ leaderClock + (target[k] - clock[s]) < MaxClock
         ~> \/ call[k] # "waiting" \/ blocked[s] # 0 \/ ~Attached(s)
            \/ WorkerOf[s] \in disturbed
=============================================================================
