------------------------------ MODULE Election ------------------------------
(***************************************************************************)
(* Losing the leader. Every worker has a monitor that asks its leader for  *)
(* its status once a second. If the connection is gone, a worker that      *)
(* knows others calls an election; one that knows nobody waits, and then   *)
(* spawns a leader for itself or shuts down. Meanwhile the leader may take *)
(* the worker in again, and other workers may turn up. Workers are on      *)
(* machines of their own. The election itself has no outcome in the code.  *)
(***************************************************************************)
EXTENDS Naturals, FiniteSets

CONSTANTS
  Workers, Leader,
  OrphanFork,       \* workers configured to spawn a leader when orphaned
  Views,            \* what workers may know of each other to begin with
  MaxJoins,         \* bound on the times a worker is connected again
  MaxLosses,        \* bound on the connections each worker loses
  MaxMeets          \* bound on the times a worker is told to connect to another

ASSUME ForkAssumption == OrphanFork \subseteq Workers
ASSUME ViewsAssumption == Views \subseteq {v \in [Workers -> SUBSET Workers] : \A w \in Workers : w \notin v[w]}
ASSUME BoundAssumption == MaxJoins \in Nat /\ MaxLosses \in [Workers -> Nat] /\ MaxMeets \in Nat

Slots == UNION {1..MaxLosses[w] : w \in Workers}
ASSUME LeaderAssumption == Leader \notin Workers \X Slots

\* The leader, and those spawned by the orphan tasks of a worker.
Leaders == {Leader} \cup Workers \X Slots

Connections == [leader : Leaders, worker : Workers, n : 0..MaxJoins]
Con(l, w, n) == [leader |-> l, worker |-> w, n |-> n]

\* LeaderSituation: connected, over the connection con, or not.
Connected(c) == [is |-> "connected", con |-> c]
Without(s) == [is |-> s]

VARIABLES
  up,          \* running leaders
  live,        \* connections that are not broken
  registered,  \* connections the leaders have their workers by
  dialling,    \* connections a worker has made and not stored yet
  admitting,   \* connections a leader has made and not registered yet
  situation,   \* of a worker: the connection to its leader, or what it does without
  unserved,    \* connections a leader has made: it answers nothing on them
  peers,       \* other workers a worker knows
  silent,      \* those known from their own calls: on that connection they answer nothing
  meeting,     \* pairs: the first is connecting to the second, which knows it already
  monitor,     \* where a worker's leader check is
  orphan,      \* where the tasks are that a worker spawns when orphaned
  stopped,     \* workers that shut down
  joins, losses, meets,
  called,      \* workers in an election since they lost their leader
  overridden   \* workers whose situation was written over, see Observe

vars == <<up, live, registered, dialling, admitting, unserved, situation, peers, silent, meeting,
          monitor, orphan, stopped, joins, losses, meets, called, overridden>>
connecting == <<up, live, registered, dialling, admitting, unserved, joins, losses>>
knowing == <<peers, silent, meeting, meets>>

Situations == [is : {"connected"}, con : Connections] \cup [is : {"election", "waiting"}]

\* The leader check: at rest, asking a leader, gone through the loss, calling the peers
\* that are left, of which some are mute, with one under way or waiting for nothing.
Checks ==
  [at : {"rest", "lost", "orphaned", "electing", "elected"}]
    \cup [at : {"asking"}, leader : Connections]
    \cup [at : {"calling"}, left : SUBSET Workers, mute : SUBSET Workers]
    \cup [at : {"called", "unheard"}, left : SUBSET Workers, mute : SUBSET Workers, peer : Workers]
Resting == [at |-> "rest"]

\* The task of an orphan: it sleeps, has found its worker alone, connects to a leader it spawned.
Stages == {"none", "asleep", "alone", "forking", "done"}

TypeOK ==
  /\ up \subseteq Leaders
  /\ live \cup registered \cup dialling \cup admitting \cup unserved \subseteq Connections
  /\ \A c \in live \cup registered : c.leader # Leader => c.leader[1] = c.worker
  /\ situation \in [Workers -> Situations]
  /\ \A w \in Workers : situation[w].is = "connected" => situation[w].con.worker = w
  /\ peers \in [Workers -> SUBSET Workers] /\ silent \in [Workers -> SUBSET Workers]
  /\ meeting \subseteq Workers \X Workers
  /\ monitor \in [Workers -> Checks]
  /\ orphan \in [Workers -> [Slots -> Stages]]
  /\ \A w \in Workers, i \in Slots : orphan[w][i] \in {"none", "asleep", "alone"} => <<w, i>> \notin up
  /\ stopped \cup called \cup overridden \subseteq Workers
  /\ joins \in 0..MaxJoins /\ meets \in 0..MaxMeets
  /\ \A w \in Workers : losses[w] <= MaxLosses[w]

Init ==
  /\ up = {Leader}
  /\ live = {Con(Leader, w, 0) : w \in Workers}
  /\ registered = live
  /\ dialling = {} /\ admitting = {}
  /\ situation = [w \in Workers |-> Connected(Con(Leader, w, 0))]
  /\ peers \in Views
  /\ unserved = {Con(Leader, w, 0) : w \in {w \in Workers : \E v \in Workers : w \in peers[v] \/ v \in peers[w]}}
  /\ silent = [w \in Workers |-> {}] /\ meeting = {}
  /\ monitor = [w \in Workers |-> Resting]
  /\ orphan = [w \in Workers |-> [i \in Slots |-> "none"]]
  /\ stopped = {}
  /\ joins = 0 /\ meets = 0 /\ losses = [w \in Workers |-> 0]
  /\ called = {} /\ overridden = {}

\* Tasks of worker w between reading and writing its situation.
Minding(w) ==
  LET checking == monitor[w].at \in {"asking", "lost", "orphaned", "electing"}
  IN  {[task |-> "monitor"] : x \in {y \in {w} : checking}}
      \cup {[task |-> "orphan", slot |-> i] : i \in {i \in Slots : orphan[w][i] \in {"alone", "forking"}}}
      \cup {[task |-> "dial", con |-> c] : c \in {c \in dialling : c.worker = w /\ c.leader = Leader}}

\* The situation of w becomes s.
SetSituation(w, s) ==
  /\ situation' = [situation EXCEPT ![w] = s]
  /\ called' = CASE s.is = "election" -> called \cup {w}
                 [] s.is = "waiting" -> called
                 [] OTHER -> called \ {w}

At(w, stage) == w \notin stopped /\ monitor[w].at = stage
Move(w, m) == monitor' = [monitor EXCEPT ![w] = m]
To(w, stage) == Move(w, [at |-> stage])

----------------------------------------------------------------------------
(* The monitor *)

\* It wakes up, and has nothing to ask for unless the worker is connected.
AskStatus(w) ==
  /\ At(w, "rest")
  /\ situation[w].is = "connected"
  /\ Move(w, [at |-> "asking", leader |-> situation[w].con])
  /\ UNCHANGED <<connecting, situation, knowing, orphan, stopped, called>>

\* The leader answers on connections that the worker made to it. On its own it does not.
StatusAnswered(w) ==
  /\ At(w, "asking")
  /\ monitor[w].leader \in live \ unserved
  /\ Move(w, Resting)
  /\ UNCHANGED <<connecting, situation, knowing, orphan, stopped, called>>

\* Variant: no answer in time counts as a loss.
StatusTimesOut(w) ==
  /\ At(w, "asking")
  /\ To(w, "lost")
  /\ UNCHANGED <<connecting, situation, knowing, orphan, stopped, called>>

StatusFails(w) ==
  /\ At(w, "asking")
  /\ monitor[w].leader \notin live
  /\ To(w, "lost")
  /\ UNCHANGED <<connecting, situation, knowing, orphan, stopped, called>>

ReadPeers(w) ==
  /\ At(w, "lost")
  /\ To(w, IF peers[w] = {} THEN "orphaned" ELSE "electing")
  /\ UNCHANGED <<connecting, situation, knowing, orphan, stopped, called>>

\* Variant: one waiting task is enough.
OrphanUnlessWaiting(w) ==
  /\ At(w, "orphaned")
  /\ SetSituation(w, Without("waiting"))
  /\ IF \E i \in Slots : orphan[w][i] # "none" THEN UNCHANGED orphan
     ELSE orphan' = [orphan EXCEPT ![w][1] = "asleep"]
  /\ Move(w, Resting)
  /\ UNCHANGED <<connecting, knowing, stopped>>

\* Nobody to turn to: wait, in a task of its own.
Orphan(w) ==
  /\ At(w, "orphaned")
  /\ SetSituation(w, Without("waiting"))
  /\ \E i \in Slots : /\ orphan[w][i] = "none"
                      /\ \A j \in 1..(i - 1) : orphan[w][j] # "none"
                      /\ orphan' = [orphan EXCEPT ![w][i] = "asleep"]
  /\ Move(w, Resting)
  /\ UNCHANGED <<connecting, knowing, stopped>>

HoldElection(w) ==
  /\ At(w, "electing")
  /\ SetSituation(w, Without("election"))
  /\ To(w, "elected")
  /\ UNCHANGED <<connecting, knowing, orphan, stopped>>

ListPeers(w) ==
  /\ At(w, "elected")
  /\ Move(w, [at |-> "calling", left |-> peers[w], mute |-> silent[w]])
  /\ UNCHANGED <<connecting, situation, knowing, orphan, stopped, called>>

\* Another worker is stored over the connection it made itself.
Note(w, p) ==
  /\ peers' = [peers EXCEPT ![p] = @ \cup {w}]
  /\ silent' = [silent EXCEPT ![p] = @ \cup {w}]

\* The peers are told one after the other. A peer first takes note of the caller ...
Elect(w, p) ==
  /\ At(w, "calling") /\ p \in monitor[w].left \ (monitor[w].mute \cup stopped)
  /\ Note(w, p)
  /\ Move(w, [at |-> "called", left |-> monitor[w].left \ {p}, mute |-> monitor[w].mute, peer |-> p])
  /\ UNCHANGED <<connecting, situation, meeting, meets, orphan, stopped, called>>

\* ... and then is in an election too, whatever its own leader does.
Elected(w) ==
  /\ At(w, "called")
  /\ IF monitor[w].peer \in stopped THEN UNCHANGED <<situation, called>>
     ELSE SetSituation(monitor[w].peer, Without("election"))
  /\ Move(w, [at |-> "calling", left |-> monitor[w].left, mute |-> monitor[w].mute])
  /\ UNCHANGED <<connecting, knowing, orphan, stopped>>

\* A peer known from its own call does not answer, and is waited for until it is gone.
ElectUnheard(w, p) ==
  /\ At(w, "calling") /\ p \in (monitor[w].left \cap monitor[w].mute) \ stopped
  /\ Move(w, [at |-> "unheard", left |-> monitor[w].left \ {p}, mute |-> monitor[w].mute, peer |-> p])
  /\ UNCHANGED <<connecting, situation, knowing, orphan, stopped, called>>

UnheardEnds(w) ==
  /\ At(w, "unheard")
  /\ Move(w, [at |-> "calling", left |-> monitor[w].left, mute |-> monitor[w].mute])
  /\ UNCHANGED <<connecting, situation, knowing, orphan, stopped, called>>

\* Variant: a peer that is gone is waited for.
ElectFailsSilently(w, p) ==
  /\ At(w, "calling") /\ p \in monitor[w].left \cap stopped
  /\ UNCHANGED <<connecting, situation, knowing, monitor, orphan, stopped, called>>

ElectFails(w, p) ==
  /\ At(w, "calling") /\ p \in monitor[w].left \cap stopped
  /\ Move(w, [at |-> "calling", left |-> monitor[w].left \ {p}, mute |-> monitor[w].mute])
  /\ UNCHANGED <<connecting, situation, knowing, orphan, stopped, called>>

\* Variant: the round is left off at any point.
AllCalledEarly(w) ==
  /\ At(w, "calling")
  /\ Move(w, Resting)
  /\ UNCHANGED <<connecting, situation, knowing, orphan, stopped, called>>

AllCalled(w) ==
  /\ At(w, "calling") /\ monitor[w].left = {}
  /\ Move(w, Resting)
  /\ UNCHANGED <<connecting, situation, knowing, orphan, stopped, called>>

----------------------------------------------------------------------------
(* The tasks of an orphan *)

Asleep(w, i) == w \notin stopped /\ orphan[w][i] = "asleep"

\* Somebody turned up while it slept.
Relieved(w, i) ==
  /\ Asleep(w, i)
  /\ situation[w].is \in {"election", "connected"}
  /\ orphan' = [orphan EXCEPT ![w][i] = "done"]
  /\ UNCHANGED <<connecting, situation, knowing, monitor, stopped, called>>

FindsAlone(w, i) ==
  /\ Asleep(w, i)
  /\ situation[w].is \notin {"election", "connected"}
  /\ orphan' = [orphan EXCEPT ![w][i] = "alone"]
  /\ UNCHANGED <<connecting, situation, knowing, monitor, stopped, called>>

\* Variant: the task spawns its leader without a look at the situation.
ForkAnyway(w, i) ==
  /\ Asleep(w, i) /\ w \in OrphanFork
  /\ up' = up \cup {<<w, i>>}
  /\ orphan' = [orphan EXCEPT ![w][i] = "forking"]
  /\ UNCHANGED <<live, registered, dialling, admitting, unserved, joins, losses,
                 situation, knowing, monitor, stopped, called>>

\* It does not look again, whoever turns up while it reads its configuration.
Fork(w, i) ==
  /\ w \notin stopped /\ orphan[w][i] = "alone" /\ w \in OrphanFork
  /\ up' = up \cup {<<w, i>>}
  /\ orphan' = [orphan EXCEPT ![w][i] = "forking"]
  /\ UNCHANGED <<live, registered, dialling, admitting, unserved, joins, losses,
                 situation, knowing, monitor, stopped, called>>

Stop(w, i) ==
  /\ w \notin stopped /\ orphan[w][i] = "alone" /\ w \notin OrphanFork
  /\ stopped' = stopped \cup {w}
  /\ live' = {c \in live : c.worker # w}
  /\ UNCHANGED <<up, registered, dialling, admitting, unserved, joins, losses,
                 situation, knowing, monitor, orphan, called>>

----------------------------------------------------------------------------
(* Connecting worker and leader *)

Register(c) == registered' = {d \in registered : d.leader # c.leader \/ d.worker # c.worker} \cup {c}

\* ConnectToLeader: the leader registers the worker and answers.
Dial(c) ==
  /\ c.leader \in up /\ c.worker \notin stopped
  /\ live' = live \cup {c}
  /\ Register(c)
  /\ dialling' = dialling \cup {c}

DialFork(w, i) ==
  LET c == Con(<<w, i>>, w, 0)
  IN  /\ orphan[w][i] = "forking" /\ c \notin live
      /\ Dial(c)
      /\ UNCHANGED <<up, admitting, unserved, joins, losses, situation, knowing, monitor, orphan, stopped, called>>

\* The leader and a worker whose connection broke are connected again on request.
Rejoin(w) ==
  /\ joins < MaxJoins
  /\ \A c \in live : c.worker = w => c.leader # Leader
  /\ joins' = joins + 1
  /\ UNCHANGED <<up, losses, monitor, orphan, stopped>>

DialLeader(w) ==
  /\ Rejoin(w)
  /\ Dial(Con(Leader, w, joins'))
  /\ UNCHANGED <<admitting, unserved, situation, knowing, called>>

\* The worker stores the connection, whatever it stored in the meantime.
DialDone(c) ==
  LET w == c.worker
  IN  /\ c \in dialling /\ w \notin stopped
      /\ dialling' = dialling \ {c}
      /\ SetSituation(w, Connected(c))
      /\ orphan' = [orphan EXCEPT ![w] = [i \in Slots |-> IF c.leader = <<w, i>> THEN "done" ELSE orphan[w][i]]]
      /\ UNCHANGED <<up, live, registered, admitting, unserved, joins, losses, knowing, monitor, stopped>>

\* ConnectToWorker: the leader introduces itself, with the workers it has by their
\* addresses, those it connected to. The worker connects to each of them, and to itself
\* if it is one, and stores the leader.
View == {d.worker : d \in {d \in registered \cap unserved : d.leader = Leader}}
Reach(w, S) ==
  /\ peers' = [peers EXCEPT ![w] = @ \cup S]
  /\ silent' = [silent EXCEPT ![w] = @ \ S]

Introduce(w) ==
  LET c == Con(Leader, w, joins')
  IN  /\ Rejoin(w) /\ Leader \in up /\ w \notin stopped /\ View \cap stopped = {}
      /\ live' = live \cup {c}
      /\ admitting' = admitting \cup {c}
      /\ unserved' = unserved \cup {c}
      /\ Reach(w, View)
      /\ SetSituation(w, Connected(c))
      /\ UNCHANGED <<registered, dialling, meeting, meets>>

\* One of them is gone: the call fails there, and the leader lets go of the connection.
IntroduceFails(w) ==
  /\ Rejoin(w) /\ Leader \in up /\ w \notin stopped /\ View \cap stopped # {}
  /\ \E reached \in SUBSET (View \ stopped) : Reach(w, reached)
  /\ UNCHANGED <<live, registered, dialling, admitting, unserved, situation, meeting, meets, called>>

\* The worker's answer reaches the leader, or does not.
Admit(c) ==
  /\ c \in admitting
  /\ admitting' = admitting \ {c}
  /\ IF c \in live THEN Register(c) ELSE UNCHANGED registered
  /\ UNCHANGED <<up, live, dialling, unserved, joins, losses, situation, knowing, monitor, orphan, stopped, called>>

----------------------------------------------------------------------------
(* The environment *)

Lost(S) == [w \in Workers |-> losses[w] + Cardinality({c \in S : c.worker = w})]

\* Connections of the leader break, some or with the leader all of them.
Lose(S) ==
  /\ live' = live \ S
  /\ losses' = Lost(S)
  /\ \A w \in Workers : losses'[w] <= MaxLosses[w]
  /\ UNCHANGED <<registered, dialling, unserved, joins, situation, knowing, monitor, orphan, stopped, called>>

ConnectionLost(c) == c \in live /\ c.leader = Leader /\ Lose({c}) /\ UNCHANGED <<up, admitting>>

LeaderLost ==
  /\ Leader \in up
  /\ Lose({c \in live : c.leader = Leader})
  /\ up' = up \ {Leader} /\ admitting' = {}

\* A worker is told to connect to another one, which takes note of it and answers; then
\* the first one stores it. That does not change their situation.
ConnectToWorker(w, p) ==
  /\ {w, p} \cap stopped = {} /\ w # p
  /\ Note(w, p)
  /\ meeting' = meeting \cup {<<w, p>>}
  /\ meets < MaxMeets /\ meets' = meets + 1
  /\ UNCHANGED <<connecting, situation, monitor, orphan, stopped, called>>

Met(w, p) ==
  /\ <<w, p>> \in meeting /\ w \notin stopped
  /\ Reach(w, {p})
  /\ meeting' = meeting \ {<<w, p>>}
  /\ UNCHANGED <<connecting, situation, meets, monitor, orphan, stopped, called>>

Monitor(w) ==
  \/ AskStatus(w) \/ StatusAnswered(w) \/ StatusFails(w) \/ ReadPeers(w)
  \/ Orphan(w) \/ HoldElection(w) \/ ListPeers(w) \/ Elected(w) \/ AllCalled(w)
  \/ monitor[w].at = "unheard" /\ monitor[w].peer \in stopped /\ UnheardEnds(w)
  \/ \E p \in Workers : Elect(w, p) \/ ElectUnheard(w, p) \/ ElectFails(w, p)

OrphanTask(w, i) == Relieved(w, i) \/ FindsAlone(w, i) \/ Fork(w, i) \/ Stop(w, i) \/ DialFork(w, i)

Environment ==
  \/ \E w \in Workers : DialLeader(w) \/ Introduce(w) \/ IntroduceFails(w) \/ UnheardEnds(w)
  \/ \E c \in live : ConnectionLost(c)
  \/ LeaderLost
  \/ \E w, p \in Workers : ConnectToWorker(w, p) \/ Met(w, p)

Act ==
  \/ \E w \in Workers : Monitor(w) \/ \E i \in Slots : OrphanTask(w, i)
  \/ \E c \in dialling : DialDone(c)
  \/ \E c \in admitting : Admit(c)
  \/ Environment

\* Notes whose situation is written while another task minds what it was, and who
\* is taken over by a leader while the last one is still there.
WrittenOver(w) ==
  /\ situation'[w] # situation[w]
  /\ \/ Minding(w) \cap Minding(w)' # {}
     \/ situation'[w].is = "connected" /\ situation[w].is = "connected" /\ situation[w].con \in live
Observe == overridden' = overridden \cup {w \in Workers : WrittenOver(w)}

Next == Act /\ Observe

\* Monitors and orphan tasks run, and calls under way end; joining is up to others.
Fairness ==
  /\ \A w \in Workers : WF_vars(Monitor(w) /\ Observe)
  /\ \A w \in Workers : \A i \in Slots : WF_vars(OrphanTask(w, i) /\ Observe)
  /\ \A w \in Workers : WF_vars((\E c \in dialling : c.worker = w /\ DialDone(c)) /\ Observe)

Spec == Init /\ [][Next]_vars
FairSpec == Spec /\ Fairness

----------------------------------------------------------------------------
(* Properties *)

\* Connections over which a leader steps w, as far as the worker has stored them.
Served(w) == {c \in (live \cap registered) \ dialling : c.worker = w}

(***************************************************************************)
(* The leader check (worker/mod.rs 369-397): a worker waits as an orphan   *)
(* only if no leader has it, unless it was connected again while its       *)
(* monitor was busy with the loss of an earlier connection.                *)
(***************************************************************************)
NoFalseAlarm ==
  \A w \in Workers \ (overridden \cup stopped) : situation[w].is = "waiting" => Served(w) = {}

(***************************************************************************)
(* LeaderSituation (worker/pov.rs 35-51): after its wait an orphan's task  *)
(* looks (worker/mod.rs 428), and then spawns a leader or shuts down.      *)
(* It goes on only if no leader has the worker and nobody has called it to *)
(* an election, at the look and when it acts: so no two leaders step a     *)
(* worker. The exception is a situation that was written behind a task's   *)
(* back, be it between the look and the act, where nothing looks again.    *)
(***************************************************************************)
GivesUp(w) ==
  \/ w \in stopped' \ stopped
  \/ \E i \in Slots : <<w, i>> \in up' \ up \/ (orphan[w][i] # "alone" /\ orphan'[w][i] = "alone")
OnlyOrphansGiveUp ==
  [][\A w \in Workers : GivesUp(w) => w \in overridden \/ (Served(w) = {} /\ w \notin called)]_vars

CutOff(w) == w \notin stopped /\ situation[w].is = "connected" /\ situation[w].con \notin live

\* The monitor waits for an answer on a connection whose other end serves nothing.
Unanswered(w) ==
  \/ monitor[w].at = "asking" /\ monitor[w].leader \in live \cap unserved
  \/ monitor[w].at = "unheard" /\ monitor[w].peer \notin stopped

(***************************************************************************)
(* The leader check: a worker that has lost its leader notices, whatever   *)
(* keeps its monitor busy, unless that is a call to somebody who made the  *)
(* connection: only ConnectToLeader serves the connection it makes         *)
(* (worker/mod.rs 848), so the call ends with the connection and no sooner.*)
(***************************************************************************)
LossNoticed ==
  \A w \in Workers : CutOff(w) ~> (~CutOff(w) \/ Unanswered(w))

(***************************************************************************)
(* OrphanedWaiting: "This situation will persist for some amount of time", *)
(* then the worker has a leader or has stopped.                            *)
(***************************************************************************)
OrphanEnds ==
  \A w \in Workers : situation[w].is = "waiting" ~> (situation[w].is # "waiting" \/ w \in stopped)

(***************************************************************************)
(* Election (worker/mod.rs 484-492): every worker the caller knows by a    *)
(* connection of its own gets to know the caller, whatever becomes of the  *)
(* others, unless one of the two stops first or the caller is held up by a *)
(* peer that made its connection itself and answers nothing on it.         *)
(***************************************************************************)
ElectionSpreads ==
  \A w \in Workers : \A p \in Workers \ {w} :
    (monitor[w].at = "electing" /\ p \in peers[w] \ silent[w])
      ~> (w \in peers[p] \/ {w, p} \cap stopped # {} \/ Unanswered(w))
============================================================================
