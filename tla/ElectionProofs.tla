---------------------------- MODULE ElectionProofs ----------------------------
(***************************************************************************)
(* Proofs about losing the leader, for any workers, any first views, any   *)
(* bounds on the connections that break and are made again.                *)
(***************************************************************************)
EXTENDS Election, TLAPS

-----------------------------------------------------------------------------
(* Type correctness *)

\* A new situation is recorded, and with it who is in an election.
LEMMA SituationType ==
  ASSUME TypeOK, NEW w \in Workers, NEW s \in Situations, s.is = "connected" => s.con.worker = w,
         SetSituation(w, s)
  PROVE  /\ situation' \in [Workers -> Situations]
         /\ \A v \in Workers : situation'[v].is = "connected" => situation'[v].con.worker = v
         /\ called' \subseteq Workers
  <1>1. situation' = [situation EXCEPT ![w] = s] /\ called' \in {called, called \cup {w}, called \ {w}}
    BY DEF SetSituation
  <1> QED BY <1>1 DEF TypeOK

LEMMA SituationIs ==
  /\ \A c \in Connections : Connected(c) \in Situations /\ Connected(c).is = "connected" /\ Connected(c).con = c
  /\ \A k \in {"election", "waiting"} : Without(k) \in Situations /\ Without(k).is = k
  BY DEF Connected, Without, Situations

LEMMA MonitorType ==
  ASSUME TypeOK, NEW w \in Workers, NEW m \in Checks, Move(w, m)
  PROVE  /\ monitor' \in [Workers -> Checks] /\ monitor'[w] = m
         /\ \A v \in Workers : v # w => monitor'[v] = monitor[v]
  BY DEF TypeOK, Move

\* What a monitor's record holds, and which records it may hold.
LEMMA ChecksAre ==
  ASSUME NEW m \in Checks
  PROVE  /\ m.at \in {"rest", "lost", "orphaned", "electing", "elected", "asking", "calling", "called", "unheard"}
         /\ m.at = "asking" => m.leader \in Connections
         /\ m.at \in {"calling", "called", "unheard"} => m.left \in SUBSET Workers /\ m.mute \in SUBSET Workers
         /\ m.at \in {"called", "unheard"} => m.peer \in Workers
  BY DEF Checks

LEMMA ChecksMade ==
  /\ \A k \in {"rest", "lost", "orphaned", "electing", "elected"} : [at |-> k] \in Checks
  /\ \A c \in Connections : [at |-> "asking", leader |-> c] \in Checks
  /\ \A S, T \in SUBSET Workers : [at |-> "calling", left |-> S, mute |-> T] \in Checks
  /\ \A k \in {"called", "unheard"}, S, T \in SUBSET Workers, p \in Workers :
       [at |-> k, left |-> S, mute |-> T, peer |-> p] \in Checks
  BY DEF Checks

\* The steps of a monitor: each moves on one check, and but for two of them
\* leaves the situations alone.
LEMMA MonitorTypeStep ==
  ASSUME TypeOK, NEW w \in Workers, Monitor(w) \/ UnheardEnds(w), Observe
  PROVE  TypeOK'
  <1>0. monitor[w] \in Checks /\ overridden' \subseteq Workers
    BY DEF TypeOK, Observe
  <1> DEFINE Fine(m) == m \in Checks
  <1>m. ASSUME NEW m, Fine(m), Move(w, m) PROVE monitor' \in [Workers -> Checks]
    BY <1>m, MonitorType DEF TypeOK
  <1>f. \A k \in {"rest", "lost", "orphaned", "electing", "elected"} : Fine([at |-> k])
    BY ChecksMade
  <1> HIDE DEF Fine
  <1>1. ASSUME NEW m, Fine(m), Move(w, m), UNCHANGED <<connecting, situation, knowing, orphan, stopped, called>>
        PROVE  TypeOK'
    BY <1>0, <1>1, <1>m DEF TypeOK, connecting, knowing
  <1>2. ASSUME NEW m, Fine(m), Move(w, m), NEW v \in Workers, NEW k \in {"election", "waiting"},
               SetSituation(v, Without(k)), UNCHANGED <<connecting, knowing, stopped>>,
               orphan' \in [Workers -> [Slots -> Stages]],
               \A u \in Workers, i \in Slots : orphan'[u][i] # orphan[u][i] => orphan[u][i] = "none"
        PROVE  TypeOK'
    <2>2. /\ situation' \in [Workers -> Situations] /\ called' \subseteq Workers
          /\ \A u \in Workers : situation'[u].is = "connected" => situation'[u].con.worker = u
      BY <1>2, SituationType, SituationIs
    <2>3. \A u \in Workers, i \in Slots : orphan'[u][i] \in {"none", "asleep", "alone"} => <<u, i>> \notin up'
      BY <1>2 DEF TypeOK, connecting
    <2> QED BY <1>0, <1>2, <1>m, <2>2, <2>3 DEF TypeOK, connecting, knowing
  <1>a. /\ orphan \in [Workers -> [Slots -> Stages]]
        /\ peers \in [Workers -> SUBSET Workers] /\ silent \in [Workers -> SUBSET Workers]
    BY DEF TypeOK
  <1>3. CASE AskStatus(w)
    <2>1. situation[w] \in Situations /\ situation[w].is = "connected"
      BY <1>3 DEF AskStatus, TypeOK
    <2>2. situation[w].con \in Connections
      BY <2>1 DEF Situations
    <2>3. Fine([at |-> "asking", leader |-> situation[w].con])
      BY <2>2, ChecksMade DEF Fine
    <2> QED BY <1>1, <1>3, <2>3 DEF AskStatus
  <1>4. CASE StatusAnswered(w) \/ AllCalled(w)
    BY <1>1, <1>4, <1>f DEF StatusAnswered, AllCalled, Resting
  <1>5. CASE StatusFails(w) \/ ReadPeers(w)
    <2>1. PICK k \in {"lost", "orphaned", "electing"} : To(w, k)
      BY <1>5 DEF StatusFails, ReadPeers
    <2> QED BY <1>1, <1>5, <1>f, <2>1 DEF StatusFails, ReadPeers, To
  <1>6. CASE Orphan(w)
    <2>1. PICK i \in Slots : orphan[w][i] = "none" /\ orphan' = [orphan EXCEPT ![w][i] = "asleep"]
      BY <1>6 DEF Orphan
    <2>2. orphan' \in [Workers -> [Slots -> Stages]]
      BY <1>a, <2>1 DEF Stages
    <2>3. \A u \in Workers, j \in Slots : orphan'[u][j] # orphan[u][j] => orphan[u][j] = "none"
      BY <1>a, <2>1
    <2>4. Move(w, [at |-> "rest"]) /\ Fine([at |-> "rest"]) /\ SetSituation(w, Without("waiting"))
      BY <1>6, <1>f DEF Orphan, Resting
    <2> QED BY <1>2, <1>6, <2>2, <2>3, <2>4 DEF Orphan
  <1>7. CASE HoldElection(w)
    BY <1>2, <1>7, <1>a, <1>f DEF HoldElection, To
  <1>8. CASE ListPeers(w)
    <2>1. Fine([at |-> "calling", left |-> peers[w], mute |-> silent[w]])
      BY <1>a, ChecksMade DEF Fine
    <2> QED BY <1>1, <1>8, <2>1 DEF ListPeers
  <1>9. CASE Elected(w)
    <2>1. /\ monitor[w].left \in SUBSET Workers /\ monitor[w].mute \in SUBSET Workers /\ monitor[w].peer \in Workers
          /\ Move(w, [at |-> "calling", left |-> monitor[w].left, mute |-> monitor[w].mute])
      BY <1>0, <1>9, ChecksAre DEF Elected, At
    <2>2. Fine([at |-> "calling", left |-> monitor[w].left, mute |-> monitor[w].mute])
      BY <2>1, ChecksMade DEF Fine
    <2>3. CASE monitor[w].peer \in stopped
      BY <1>1, <1>9, <2>1, <2>2, <2>3 DEF Elected
    <2>4. CASE monitor[w].peer \notin stopped
      BY <1>2, <1>9, <1>a, <2>1, <2>2, <2>4 DEF Elected
    <2> QED BY <2>3, <2>4
  <1>10. ASSUME NEW p \in Workers, Elect(w, p) PROVE TypeOK'
    <2> DEFINE m == [at |-> "called", left |-> monitor[w].left \ {p}, mute |-> monitor[w].mute, peer |-> p]
    <2>1. /\ monitor[w].left \in SUBSET Workers /\ monitor[w].mute \in SUBSET Workers
          /\ Move(w, m) /\ Note(w, p) /\ UNCHANGED <<connecting, situation, meeting, meets, orphan, stopped, called>>
      BY <1>0, <1>10, ChecksAre DEF Elect, At
    <2>2. Fine(m)
      BY <2>1, ChecksMade DEF Fine
    <2>3. peers' \in [Workers -> SUBSET Workers] /\ silent' \in [Workers -> SUBSET Workers]
      BY <1>a, <2>1 DEF Note
    <2> QED BY <1>0, <1>m, <2>1, <2>2, <2>3 DEF TypeOK, connecting
  <1>11. ASSUME NEW p \in Workers, ElectFails(w, p) \/ ElectUnheard(w, p) PROVE TypeOK'
    <2>1. monitor[w].left \in SUBSET Workers /\ monitor[w].mute \in SUBSET Workers
      BY <1>0, <1>11, ChecksAre DEF ElectFails, ElectUnheard, At
    <2>2. /\ Fine([at |-> "calling", left |-> monitor[w].left \ {p}, mute |-> monitor[w].mute])
          /\ Fine([at |-> "unheard", left |-> monitor[w].left \ {p}, mute |-> monitor[w].mute, peer |-> p])
      BY <2>1, ChecksMade DEF Fine
    <2> QED BY <1>1, <1>11, <2>2 DEF ElectFails, ElectUnheard
  <1>12. CASE UnheardEnds(w)
    <2>1. monitor[w].left \in SUBSET Workers /\ monitor[w].mute \in SUBSET Workers
      BY <1>0, <1>12, ChecksAre DEF UnheardEnds, At
    <2>2. Fine([at |-> "calling", left |-> monitor[w].left, mute |-> monitor[w].mute])
      BY <2>1, ChecksMade DEF Fine
    <2> QED BY <1>1, <1>12, <2>2 DEF UnheardEnds
  <1> QED BY <1>3, <1>4, <1>5, <1>6, <1>7, <1>8, <1>9, <1>10, <1>11, <1>12 DEF Monitor

\* A connection of a worker to the leader, or to one it has spawned.
LEMMA ConType ==
  /\ Leader \in Leaders
  /\ \A w \in Workers, i \in Slots : <<w, i>> \in Leaders /\ <<w, i>> # Leader /\ <<w, i>>[1] = w
  /\ 0 \in 0..MaxJoins
  /\ \A l \in Leaders, w \in Workers, n \in 0..MaxJoins :
       /\ Con(l, w, n) \in Connections
       /\ Con(l, w, n).leader = l /\ Con(l, w, n).worker = w /\ Con(l, w, n).n = n
  /\ \A c \in Connections : c.leader \in Leaders /\ c.worker \in Workers /\ c.n \in 0..MaxJoins
  BY LeaderAssumption, BoundAssumption DEF Leaders, Connections, Con

LEMMA OrphanTypeStep ==
  ASSUME TypeOK, NEW w \in Workers, NEW i \in Slots, OrphanTask(w, i), Observe
  PROVE  TypeOK'
  <1>0. overridden' \subseteq Workers
    BY DEF TypeOK, Observe
  <1>1. CASE Relieved(w, i) \/ FindsAlone(w, i)
    <2>1. PICK k \in {"done", "alone"} : orphan' = [orphan EXCEPT ![w][i] = k]
      BY <1>1 DEF Relieved, FindsAlone
    <2>2. orphan[w][i] = "asleep" /\ UNCHANGED <<connecting, situation, knowing, monitor, stopped, called>>
      BY <1>1 DEF Relieved, FindsAlone, Asleep
    <2>3. orphan' \in [Workers -> [Slots -> Stages]]
      BY <2>1 DEF TypeOK, Stages
    <2>4. \A u \in Workers, j \in Slots : orphan'[u][j] \in {"none", "asleep", "alone"} => <<u, j>> \notin up
      BY <2>1, <2>2 DEF TypeOK
    <2> QED BY <1>0, <2>2, <2>3, <2>4 DEF TypeOK, connecting, knowing
  <1>2. CASE Fork(w, i)
    BY <1>0, <1>2, ConType DEF Fork, TypeOK, knowing, Stages
  <1>3. CASE Stop(w, i)
    BY <1>0, <1>3 DEF Stop, TypeOK, knowing
  <1>4. CASE DialFork(w, i)
    BY <1>0, <1>4, ConType DEF DialFork, Dial, Register, TypeOK, knowing
  <1> QED BY <1>1, <1>2, <1>3, <1>4 DEF OrphanTask

LEMMA CallTypeStep ==
  ASSUME TypeOK, Observe, NEW c \in Connections, DialDone(c) \/ Admit(c)
  PROVE  TypeOK'
  <1>0. overridden' \subseteq Workers /\ c.worker \in Workers
    BY ConType DEF TypeOK, Observe
  <1>1. CASE DialDone(c)
    <2>1. /\ situation' \in [Workers -> Situations] /\ called' \subseteq Workers
          /\ \A u \in Workers : situation'[u].is = "connected" => situation'[u].con.worker = u
      BY <1>0, <1>1, SituationType, SituationIs DEF DialDone
    <2>2. /\ orphan' \in [Workers -> [Slots -> Stages]]
          /\ \A u \in Workers, j \in Slots : orphan'[u][j] \in {orphan[u][j], "done"}
      BY <1>0, <1>1 DEF DialDone, TypeOK, Stages
    <2> QED BY <1>0, <1>1, <2>1, <2>2 DEF DialDone, TypeOK, knowing
  <1>2. CASE Admit(c)
    BY <1>0, <1>2 DEF Admit, Register, TypeOK, knowing
  <1> QED BY <1>1, <1>2

LEMMA EnvironmentTypeStep ==
  ASSUME TypeOK, Observe, Environment
  PROVE  TypeOK'
  <1>0. overridden' \subseteq Workers
    BY DEF TypeOK, Observe
  <1>r. ASSUME NEW w \in Workers, Rejoin(w)
        PROVE  /\ joins' \in 0..MaxJoins /\ Con(Leader, w, joins') \in Connections
               /\ Con(Leader, w, joins').worker = w /\ Con(Leader, w, joins').leader = Leader
    BY <1>r, BoundAssumption, ConType DEF Rejoin, TypeOK
  <1>1. ASSUME NEW w \in Workers, DialLeader(w) PROVE TypeOK'
    <2>1. Rejoin(w)
      BY <1>1 DEF DialLeader
    <2> DEFINE d == Con(Leader, w, joins')
    <2>2. d \in Connections /\ d.worker = w /\ d.leader = Leader /\ joins' \in 0..MaxJoins
      BY <1>r, <2>1
    <2>3. Dial(d) /\ UNCHANGED <<up, losses, monitor, orphan, stopped, admitting, unserved, situation, knowing, called>>
      BY <1>1 DEF DialLeader, Rejoin
    <2> HIDE DEF d
    <2> QED BY <1>0, <2>2, <2>3 DEF Dial, Register, TypeOK, knowing
  <1>v. View \subseteq Workers
    BY ConType DEF TypeOK, View
  <1>s. ASSUME NEW w \in Workers, NEW S \in SUBSET Workers, Reach(w, S)
        PROVE  peers' \in [Workers -> SUBSET Workers] /\ silent' \in [Workers -> SUBSET Workers]
    BY <1>s DEF Reach, TypeOK
  <1>2. ASSUME NEW w \in Workers, Introduce(w) PROVE TypeOK'
    <2>1. Rejoin(w)
      BY <1>2 DEF Introduce
    <2> DEFINE d == Con(Leader, w, joins')
    <2>2. d \in Connections /\ d.worker = w /\ d.leader = Leader /\ joins' \in 0..MaxJoins
      BY <1>r, <2>1
    <2>3. /\ live' = live \cup {d} /\ admitting' = admitting \cup {d} /\ unserved' = unserved \cup {d}
          /\ SetSituation(w, Connected(d)) /\ Reach(w, View)
          /\ UNCHANGED <<up, losses, monitor, orphan, stopped, registered, dialling, meeting, meets>>
      BY <1>2 DEF Introduce, Rejoin
    <2> HIDE DEF d
    <2>5. peers' \in [Workers -> SUBSET Workers] /\ silent' \in [Workers -> SUBSET Workers]
      BY <1>s, <1>v, <2>3
    <2>6. /\ situation' \in [Workers -> Situations] /\ called' \subseteq Workers
          /\ \A u \in Workers : situation'[u].is = "connected" => situation'[u].con.worker = u
      BY <2>2, <2>3, SituationType, SituationIs
    <2> QED BY <1>0, <2>2, <2>3, <2>5, <2>6 DEF TypeOK
  <1>6. ASSUME NEW w \in Workers, IntroduceFails(w) PROVE TypeOK'
    <2>1. Rejoin(w) /\ joins' \in 0..MaxJoins
      BY <1>6, <1>r DEF IntroduceFails
    <2>2. peers' \in [Workers -> SUBSET Workers] /\ silent' \in [Workers -> SUBSET Workers]
      <3>1. PICK S \in SUBSET (View \ stopped) : Reach(w, S)
        BY <1>6 DEF IntroduceFails
      <3>2. S \in SUBSET Workers
        BY <1>v, <3>1
      <3> QED BY <1>s, <3>1, <3>2
    <2> QED BY <1>0, <1>6, <2>1, <2>2 DEF IntroduceFails, Rejoin, TypeOK
  <1>3. ASSUME NEW c \in live, ConnectionLost(c) PROVE TypeOK'
    BY <1>0, <1>3 DEF ConnectionLost, Lose, TypeOK, knowing
  <1>4. CASE LeaderLost
    BY <1>0, <1>4 DEF LeaderLost, Lose, TypeOK, knowing
  <1>5. ASSUME NEW w \in Workers, NEW p \in Workers, ConnectToWorker(w, p) PROVE TypeOK'
    <2>1. peers' \in [Workers -> SUBSET Workers] /\ silent' \in [Workers -> SUBSET Workers]
      BY <1>5 DEF ConnectToWorker, Note, TypeOK
    <2>2. meeting' \subseteq Workers \X Workers /\ meets' \in 0..MaxMeets
      BY <1>5, BoundAssumption DEF ConnectToWorker, TypeOK
    <2> QED BY <1>0, <1>5, <2>1, <2>2 DEF ConnectToWorker, TypeOK, connecting
  <1>7. ASSUME NEW w \in Workers, NEW p \in Workers, Met(w, p) PROVE TypeOK'
    <2>1. peers' \in [Workers -> SUBSET Workers] /\ silent' \in [Workers -> SUBSET Workers]
      BY <1>7, <1>s DEF Met
    <2> QED BY <1>0, <1>7, <2>1 DEF Met, TypeOK, connecting
  <1> QED BY <1>1, <1>2, <1>3, <1>4, <1>5, <1>6, <1>7, MonitorTypeStep DEF Environment

LEMMA TypeStep == TypeOK /\ [Next]_vars => TypeOK'
  <1> SUFFICES ASSUME TypeOK, [Next]_vars PROVE TypeOK'
    OBVIOUS
  <1>1. CASE UNCHANGED vars
    BY <1>1 DEF vars, TypeOK
  <1>2. dialling \cup admitting \subseteq Connections
    BY DEF TypeOK
  <1>3. CASE Next
    BY <1>2, <1>3, MonitorTypeStep, OrphanTypeStep, CallTypeStep, EnvironmentTypeStep DEF Next, Act
  <1> QED BY <1>1, <1>3

LEMMA TypeInit == Init => TypeOK
  <1> SUFFICES ASSUME Init PROVE TypeOK
    OBVIOUS
  <1>1. up \subseteq Leaders /\ live \subseteq Connections /\ \A c \in live : c.leader = Leader
    BY ConType DEF Init
  <1>2. /\ situation \in [Workers -> Situations]
        /\ \A w \in Workers : situation[w].is = "connected" => situation[w].con.worker = w
    BY ConType, SituationIs DEF Init
  <1>3. peers \in [Workers -> SUBSET Workers] /\ silent \in [Workers -> SUBSET Workers]
    BY ViewsAssumption DEF Init
  <1>6. unserved \subseteq Connections
    BY ConType DEF Init
  <1>7. orphan \in [Workers -> [Slots -> Stages]]
    BY DEF Init, Stages
  <1>4. /\ monitor \in [Workers -> Checks] /\ \A w \in Workers : monitor[w].at = "rest"
    BY ChecksMade DEF Init, Resting
  <1>5. \A w \in Workers, i \in Slots : <<w, i>> \notin up
    BY ConType DEF Init
  <1> QED BY <1>1, <1>2, <1>3, <1>4, <1>5, <1>6, <1>7, BoundAssumption DEF Init, TypeOK

\* What the leaders, the connections and the tasks are is well typed, whatever breaks
\* and whoever joins.
THEOREM TypeCorrect == Spec => []TypeOK
  <1> QED BY TypeInit, TypeStep, PTL DEF Spec

-----------------------------------------------------------------------------
(* The inductive invariant *)

\* Where a monitor is between reading and writing its worker's situation.
Checking == {"asking", "lost", "orphaned", "electing"}

\* Connections over which a leader steps w or is about to: it has the worker, or
\* has introduced itself and awaits the answer.
Taken(w) == {c \in live : c.worker = w /\ c \notin dialling /\ c \in registered \cup admitting}

\* A connection is one of those made so far to the leader, or the one to the leader
\* that a task of the worker's has spawned.
OwnThen(c, made, tasks) ==
  \/ c.leader = Leader /\ c.n <= made
  \/ \E i \in Slots : /\ c.leader = <<c.worker, i>> /\ c.n = 0
                      /\ tasks[c.worker][i] \in {"forking", "done"}
Own(c) == OwnThen(c, joins, orphan)

\* A task that has spawned a leader minds the connection to it until that is stored.
ConInv ==
  /\ \A c \in live \cup registered \cup dialling \cup admitting : Own(c)
  /\ \A c \in admitting : c.leader = Leader
  /\ \A c \in dialling : \A i \in Slots :
       c.leader = <<c.worker, i>> /\ c.worker \notin stopped => orphan[c.worker][i] = "forking"
  /\ \A w \in Workers : situation[w].is = "connected" =>
       /\ Own(situation[w].con)
       /\ \A i \in Slots : situation[w].con.leader = <<w, i>> => orphan[w][i] = "done"

\* Who holds an election knows somebody, and who is called knows the caller.
CallInv ==
  \A w \in Workers : /\ monitor[w].at = "called" => w \in peers[monitor[w].peer]
                     /\ monitor[w].at = "electing" => peers[w] # {}

\* The situation of a worker nothing has overridden says what holds: a check under way
\* minds the connection the worker has stored, one past the answer knows it broken; who
\* waits is nobody's, and who is connected is the leader's it says, unless the worker
\* knows others, with whom it cannot come to wait. A task that has found it alone knows it waits.
Settled(w) ==
  /\ monitor[w].at \in Checking => situation[w].is = "connected"
  /\ monitor[w].at = "asking" => monitor[w].leader = situation[w].con
  /\ monitor[w].at \in Checking \ {"asking"} => situation[w].con \notin live
  /\ situation[w].is = "election" => peers[w] # {}
  /\ situation[w].is # "election" => w \notin called
  /\ situation[w].is = "waiting" => Taken(w) = {}
  /\ \A i \in Slots : orphan[w][i] = "alone" => situation[w].is = "waiting"
  /\ situation[w].is = "connected" /\ (peers[w] = {} \/ monitor[w].at = "orphaned") =>
       Taken(w) \subseteq {situation[w].con}

ElectionInv == ConInv /\ CallInv /\ \A w \in Workers \ (overridden \cup stopped) : Settled(w)

-----------------------------------------------------------------------------
(* What the actions change *)

\* A worker that was not overridden has not been written over in this step.
LEMMA Observed ==
  ASSUME Observe, NEW v \in Workers, v \notin overridden'
  PROVE  /\ v \notin overridden
         /\ situation'[v] # situation[v] =>
              /\ ~(monitor[v].at \in Checking /\ monitor'[v].at \in Checking)
              /\ \A i \in Slots : ~(orphan[v][i] = "alone" /\ orphan'[v][i] = "alone")
              /\ \A c \in dialling \cap dialling' : c.worker = v => c.leader # Leader
              /\ situation[v].is = "connected" /\ situation'[v].is = "connected" =>
                   situation[v].con \notin live
  <1> SUFFICES ASSUME situation'[v] # situation[v]
               PROVE  /\ ~(monitor[v].at \in Checking /\ monitor'[v].at \in Checking)
                      /\ \A i \in Slots : ~(orphan[v][i] = "alone" /\ orphan'[v][i] = "alone")
                      /\ \A c \in dialling \cap dialling' : c.worker = v => c.leader # Leader
                      /\ situation[v].is = "connected" /\ situation'[v].is = "connected" =>
                           situation[v].con \notin live
    BY DEF Observe
  <1>1. /\ Minding(v) \cap Minding(v)' = {}
        /\ situation[v].is = "connected" /\ situation'[v].is = "connected" => situation[v].con \notin live
    BY DEF Observe, WrittenOver
  <1>2. monitor[v].at \in Checking => [task |-> "monitor"] \in Minding(v)
    BY DEF Minding, Checking
  <1>3. monitor'[v].at \in Checking => [task |-> "monitor"] \in Minding(v)'
    BY DEF Minding, Checking
  <1>4. \A i \in Slots : /\ orphan[v][i] = "alone" => [task |-> "orphan", slot |-> i] \in Minding(v)
                         /\ orphan'[v][i] = "alone" => [task |-> "orphan", slot |-> i] \in Minding(v)'
    BY DEF Minding
  <1>5. \A c : c.worker = v /\ c.leader = Leader =>
          /\ c \in dialling => [task |-> "dial", con |-> c] \in Minding(v)
          /\ c \in dialling' => [task |-> "dial", con |-> c] \in Minding(v)'
    BY DEF Minding
  <1> QED BY <1>1, <1>2, <1>3, <1>4, <1>5

\* A monitor makes and breaks no connection and stops nobody. It may start a task.
LEMMA MonitorLeaves ==
  ASSUME TypeOK, NEW w \in Workers, Monitor(w) \/ UnheardEnds(w)
  PROVE  /\ UNCHANGED <<up, live, registered, dialling, admitting, joins, losses, stopped>>
         /\ \A v \in Workers : peers[v] \subseteq peers'[v]
         /\ \A v \in Workers, i \in Slots :
              orphan'[v][i] = orphan[v][i] \/ (orphan[v][i] = "none" /\ orphan'[v][i] = "asleep")
         /\ \A v \in Workers : v # w => monitor'[v] = monitor[v]
         /\ \A v \in Workers : situation'[v].is = "connected" => situation'[v] = situation[v]
  <1>1. UNCHANGED <<up, live, registered, dialling, admitting, joins, losses, stopped>>
    BY DEF Monitor, AskStatus, StatusAnswered, StatusFails, ReadPeers, Orphan, HoldElection, ListPeers,
           Elected, AllCalled, Elect, ElectFails, ElectUnheard, UnheardEnds, connecting
  <1>2. \A v \in Workers : peers[v] \subseteq peers'[v]
    <2>1. ASSUME NEW p \in Workers, Elect(w, p) PROVE \A v \in Workers : peers[v] \subseteq peers'[v]
      BY <2>1 DEF Elect, Note, TypeOK
    <2>2. peers' = peers \/ \E p \in Workers : Elect(w, p)
      BY DEF Monitor, AskStatus, StatusAnswered, StatusFails, ReadPeers, Orphan, HoldElection, ListPeers,
             Elected, AllCalled, ElectFails, ElectUnheard, UnheardEnds, knowing
    <2> QED BY <2>1, <2>2
  <1>3. \A v \in Workers, i \in Slots :
              orphan'[v][i] = orphan[v][i] \/ (orphan[v][i] = "none" /\ orphan'[v][i] = "asleep")
    <2>1. ASSUME Orphan(w) PROVE \A v \in Workers, i \in Slots :
              orphan'[v][i] = orphan[v][i] \/ (orphan[v][i] = "none" /\ orphan'[v][i] = "asleep")
      <3>1. PICK i \in Slots : orphan[w][i] = "none" /\ orphan' = [orphan EXCEPT ![w][i] = "asleep"]
        BY <2>1 DEF Orphan
      <3> QED BY <3>1 DEF TypeOK
    <2>2. orphan' = orphan \/ Orphan(w)
      BY DEF Monitor, AskStatus, StatusAnswered, StatusFails, ReadPeers, HoldElection, ListPeers,
             Elected, AllCalled, Elect, ElectFails, ElectUnheard, UnheardEnds
    <2> QED BY <2>1, <2>2
  <1>4. \A v \in Workers : v # w => monitor'[v] = monitor[v]
    <2>1. \E m : Move(w, m)
      BY DEF Monitor, AskStatus, StatusAnswered, StatusFails, ReadPeers, Orphan, HoldElection, ListPeers,
             Elected, AllCalled, Elect, ElectFails, ElectUnheard, UnheardEnds, To
    <2> QED BY <2>1 DEF Move, TypeOK
  <1>5. \A v \in Workers : situation'[v].is = "connected" => situation'[v] = situation[v]
    <2>1. \/ situation' = situation
          \/ \E u \in Workers, k \in {"election", "waiting"} : SetSituation(u, Without(k))
      <3>1. CASE Elected(w)
        <4>1. monitor[w].peer \in Workers
          BY <3>1, ChecksAre DEF Elected, At, TypeOK
        <4> QED BY <3>1, <4>1 DEF Elected
      <3> QED BY <3>1 DEF Monitor, AskStatus, StatusAnswered, StatusFails, ReadPeers, Orphan, HoldElection,
                          ListPeers, AllCalled, Elect, ElectFails, ElectUnheard, UnheardEnds
    <2>2. ASSUME NEW u \in Workers, NEW k \in {"election", "waiting"}, SetSituation(u, Without(k))
          PROVE  \A v \in Workers : situation'[v].is = "connected" => situation'[v] = situation[v]
      <3>1. situation' = [situation EXCEPT ![u] = Without(k)] /\ Without(k).is # "connected"
        BY <2>2, SituationIs DEF SetSituation
      <3> QED BY <3>1 DEF TypeOK
    <2> QED BY <2>1, <2>2
  <1> QED BY <1>1, <1>2, <1>3, <1>4, <1>5

\* Connections stay their worker's own as long as tasks that have spawned a leader
\* do not forget it and the count of joins goes on.
LEMMA OwnStays ==
  ASSUME TypeOK, TypeOK', joins <= joins', NEW c \in Connections, Own(c),
         \A w \in Workers, i \in Slots :
           orphan[w][i] \in {"forking", "done"} => orphan'[w][i] \in {"forking", "done"}
  PROVE  OwnThen(c, joins', orphan')
  <1>1. c.n \in Nat /\ joins \in Nat /\ joins' \in Nat /\ c.worker \in Workers
    BY ConType, BoundAssumption DEF TypeOK
  <1> QED BY <1>1 DEF Own, OwnThen

\* Connections come and go as the invariant has it, whatever acts.
LEMMA ConStep ==
  ASSUME TypeOK, TypeOK', ConInv, Act
  PROVE  ConInv'
  <1>0. /\ live \cup registered \cup dialling \cup admitting \subseteq Connections
        /\ \A w \in Workers : situation[w].is = "connected" => situation[w].con \in Connections
    BY DEF TypeOK, Situations
  <1> DEFINE Grow == \A w \in Workers, i \in Slots :
                       orphan[w][i] \in {"forking", "done"} => orphan'[w][i] \in {"forking", "done"}
  <1>1. ASSUME NEW w \in Workers, Monitor(w) \/ UnheardEnds(w) PROVE ConInv'
    <2>1. /\ UNCHANGED <<live, registered, dialling, admitting, joins, stopped>>
          /\ \A v \in Workers, i \in Slots : orphan'[v][i] = orphan[v][i] \/ orphan[v][i] = "none"
          /\ \A v \in Workers : situation'[v].is = "connected" => situation'[v] = situation[v]
      BY <1>1, MonitorLeaves
    <2>2. \A c \in Connections : Own(c) => OwnThen(c, joins', orphan')
      BY <2>1, ConType DEF Own, OwnThen
    <2>3. \A c \in Connections : c.worker \in Workers
      BY ConType
    <2> QED BY <1>0, <2>1, <2>2, <2>3 DEF ConInv, Own
  <1>2. ASSUME NEW w \in Workers, NEW i \in Slots,
               Relieved(w, i) \/ FindsAlone(w, i) \/ Fork(w, i) \/ Stop(w, i)
        PROVE  ConInv'
    <2>1. /\ UNCHANGED <<registered, dialling, admitting, joins, situation>> /\ live' \subseteq live
          /\ stopped \subseteq stopped'
          /\ \A v \in Workers, j \in Slots : orphan'[v][j] = orphan[v][j] \/ orphan[v][j] \in {"asleep", "alone"}
      BY <1>2 DEF Relieved, FindsAlone, Fork, Stop, Asleep, connecting, TypeOK
    <2>2. \A c \in Connections : Own(c) => OwnThen(c, joins', orphan')
      BY <2>1, ConType DEF Own, OwnThen
    <2>3. \A c \in Connections : c.worker \in Workers
      BY ConType
    <2> QED BY <1>0, <2>1, <2>2, <2>3 DEF ConInv, Own
  <1>3. ASSUME NEW w \in Workers, NEW i \in Slots, DialFork(w, i) PROVE ConInv'
    <2> DEFINE c == Con(<<w, i>>, w, 0)
    <2>1. /\ c \in Connections /\ c.leader = <<w, i>> /\ c.worker = w /\ c.n = 0 /\ <<w, i>> # Leader
          /\ orphan[w][i] = "forking" /\ Dial(c)
          /\ UNCHANGED <<admitting, joins, situation, orphan, stopped>>
      BY <1>3, ConType DEF DialFork
    <2> HIDE DEF c
    <2>2. \A d : OwnThen(d, joins', orphan') <=> Own(d)
      BY <2>1 DEF Own, OwnThen
    <2>3. Own(c)
      BY <2>1 DEF Own, OwnThen
    <2>4. \A j \in Slots : c.leader = <<c.worker, j>> => orphan[w][j] = "forking"
      BY <2>1
    <2> QED BY <2>1, <2>2, <2>3, <2>4 DEF ConInv, Own, Dial, Register
  <1>4. ASSUME NEW c \in dialling, DialDone(c) PROVE ConInv'
    <2> DEFINE w == c.worker
    <2>1. /\ UNCHANGED <<live, registered, admitting, joins, stopped>> /\ dialling' = dialling \ {c}
          /\ w \in Workers /\ c \in Connections /\ w \notin stopped /\ Own(c) /\ c.worker = w
          /\ \A i \in Slots : <<w, i>> # Leader
          /\ situation' = [situation EXCEPT ![w] = Connected(c)]
          /\ Connected(c).is = "connected" /\ Connected(c).con = c
      BY <1>0, <1>4, ConType, SituationIs DEF DialDone, SetSituation, ConInv, Own
    <2>2. \A v \in Workers, i \in Slots :
            orphan'[v][i] = IF v = w /\ c.leader = <<w, i>> THEN "done" ELSE orphan[v][i]
      BY <1>4, <2>1 DEF DialDone, TypeOK
    <2> HIDE DEF w
    <2>3. \A d \in Connections : Own(d) => OwnThen(d, joins', orphan')
      BY <2>1, <2>2, ConType DEF Own, OwnThen
    <2>4. ASSUME NEW d \in dialling', NEW i \in Slots, d.leader = <<d.worker, i>>, d.worker \notin stopped
          PROVE  orphan'[d.worker][i] = "forking"
      <3>1. d \in Connections /\ d.worker \in Workers /\ Own(d) /\ d # c /\ orphan[d.worker][i] = "forking"
        BY <1>0, <2>1, <2>4, ConType DEF ConInv, Own
      <3>2. d.n = 0
        BY <2>4, <3>1, ConType DEF Own, OwnThen
      <3>3. ASSUME d.worker = w, c.leader = <<w, i>> PROVE FALSE
        <4>1. c.n = 0
          BY <2>1, <3>3, ConType DEF Own, OwnThen
        <4>2. d = c
          BY <2>1, <2>4, <3>1, <3>2, <3>3, <4>1 DEF Connections
        <4> QED BY <3>1, <4>2
      <3> QED BY <2>2, <3>1, <3>3
    <2>5. ASSUME NEW v \in Workers, situation'[v].is = "connected"
          PROVE  /\ OwnThen(situation'[v].con, joins', orphan')
                 /\ \A i \in Slots : situation'[v].con.leader = <<v, i>> => orphan'[v][i] = "done"
      <3>1. CASE v = w
        <4>1. situation'[v].con = c
          BY <2>1, <3>1 DEF TypeOK
        <4> QED BY <2>1, <2>2, <2>3, <3>1, <4>1
      <3>2. CASE v # w
        <4>1. situation'[v] = situation[v]
          BY <2>1, <3>2 DEF TypeOK
        <4> QED BY <1>0, <2>2, <2>3, <2>5, <3>2, <4>1 DEF ConInv, Own
      <3> QED BY <3>1, <3>2
    <2>6. /\ \A d \in live' \cup registered' \cup dialling' \cup admitting' : OwnThen(d, joins', orphan')
          /\ \A d \in admitting' : d.leader = Leader
      BY <1>0, <2>1, <2>3 DEF ConInv, Own
    <2> QED BY <2>1, <2>4, <2>5, <2>6 DEF ConInv, Own
  <1>5. ASSUME NEW c \in admitting, Admit(c) PROVE ConInv'
    <2>1. \A d : OwnThen(d, joins', orphan') <=> Own(d)
      BY <1>5 DEF Admit, Own
    <2> QED BY <1>5, <2>1 DEF Admit, Register, ConInv, Own
  <1>6. ASSUME NEW w \in Workers, DialLeader(w) \/ Introduce(w) PROVE ConInv'
    <2> DEFINE c == Con(Leader, w, joins')
    <2>1. joins' = joins + 1 /\ joins \in Nat /\ joins' \in 0..MaxJoins
      BY <1>6, BoundAssumption DEF DialLeader, Introduce, Rejoin, TypeOK
    <2>2. c \in Connections /\ c.leader = Leader /\ c.worker = w /\ c.n = joins'
      BY <2>1, ConType
    <2>3. UNCHANGED <<orphan, stopped>>
      BY <1>6 DEF DialLeader, Introduce, Rejoin
    <2>4. /\ live' = live \cup {c} /\ registered' \subseteq registered \cup {c}
          /\ dialling' \subseteq dialling \cup {c} /\ admitting' \subseteq admitting \cup {c}
          /\ situation' = situation \/ situation' = [situation EXCEPT ![w] = Connected(c)]
      BY <1>6 DEF DialLeader, Introduce, Dial, Register, SetSituation
    <2> HIDE DEF c
    <2>5. \A d \in Connections : Own(d) => OwnThen(d, joins', orphan')
      BY <2>1, <2>3, OwnStays
    <2>6. OwnThen(c, joins', orphan')
      BY <2>1, <2>2 DEF Own, OwnThen
    <2>7. /\ \A d \in live' \cup registered' \cup dialling' \cup admitting' : OwnThen(d, joins', orphan')
          /\ \A d \in admitting' : d.leader = Leader
      BY <1>0, <2>2, <2>4, <2>5, <2>6 DEF ConInv, Own
    <2>8. \A i \in Slots : c.leader # <<w, i>>
      BY <2>2, ConType
    <2>9. \A d \in dialling' : \A i \in Slots :
            d.leader = <<d.worker, i>> /\ d.worker \notin stopped => orphan[d.worker][i] = "forking"
      BY <2>2, <2>4, <2>8 DEF ConInv, Own
    <2>10. ASSUME NEW v \in Workers, situation'[v].is = "connected"
          PROVE  /\ OwnThen(situation'[v].con, joins', orphan')
                 /\ \A i \in Slots : situation'[v].con.leader = <<v, i>> => orphan[v][i] = "done"
      <3>1. \/ situation'[v] = situation[v]
            \/ v = w /\ situation'[v].con = c
        BY <2>2, <2>4, SituationIs DEF TypeOK
      <3> QED BY <1>0, <2>5, <2>6, <2>8, <2>10, <3>1 DEF ConInv, Own
    <2> QED BY <2>3, <2>7, <2>9, <2>10 DEF ConInv, Own
  <1>7. ASSUME NEW c \in live, ConnectionLost(c) PROVE ConInv'
    <2>1. \A d : OwnThen(d, joins', orphan') <=> Own(d)
      BY <1>7 DEF ConnectionLost, Lose, Own
    <2> QED BY <1>7, <2>1 DEF ConnectionLost, Lose, ConInv, Own
  <1>8. CASE LeaderLost
    <2>1. \A d : OwnThen(d, joins', orphan') <=> Own(d)
      BY <1>8 DEF LeaderLost, Lose, Own
    <2> QED BY <1>8, <2>1 DEF LeaderLost, Lose, ConInv, Own
  <1>9. ASSUME NEW w \in Workers, NEW p \in Workers, ConnectToWorker(w, p) PROVE ConInv'
    <2>1. \A d : OwnThen(d, joins', orphan') <=> Own(d)
      BY <1>9 DEF ConnectToWorker, connecting, Own
    <2> QED BY <1>9, <2>1 DEF ConnectToWorker, connecting, ConInv, Own
  <1>10. ASSUME NEW w \in Workers, IntroduceFails(w) PROVE ConInv'
    <2>1. /\ joins \in Nat /\ joins' = joins + 1
          /\ UNCHANGED <<live, registered, dialling, admitting, situation, orphan, stopped>>
      BY <1>10, BoundAssumption DEF IntroduceFails, Rejoin, TypeOK
    <2>2. \A d \in Connections : Own(d) => OwnThen(d, joins', orphan')
      BY <2>1, OwnStays
    <2> QED BY <1>0, <2>1, <2>2 DEF ConInv, Own
  <1>11. ASSUME NEW w \in Workers, NEW p \in Workers, Met(w, p) PROVE ConInv'
    <2>1. \A d : OwnThen(d, joins', orphan') <=> Own(d)
      BY <1>11 DEF Met, connecting, Own
    <2> QED BY <1>11, <2>1 DEF Met, connecting, ConInv, Own
  <1> QED
    BY <1>1, <1>2, <1>3, <1>4, <1>5, <1>6, <1>7, <1>8, <1>9, <1>10, <1>11 DEF Act, OrphanTask, Environment

\* The callers stay known to whom they call: workers forget nobody.
LEMMA CallStep ==
  ASSUME TypeOK, CallInv, Act
  PROVE  CallInv'
  <1>0. \A w \in Workers : monitor[w] \in Checks /\ peers[w] \in SUBSET Workers
    BY DEF TypeOK
  <1>1. ASSUME monitor' = monitor, \A v \in Workers : peers[v] \subseteq peers'[v] PROVE CallInv'
    BY <1>0, <1>1, ChecksAre DEF CallInv
  <1>2. ASSUME NEW w \in Workers, Monitor(w) \/ UnheardEnds(w) PROVE CallInv'
    <2>1. /\ \A v \in Workers : peers[v] \subseteq peers'[v]
          /\ \A v \in Workers : v # w => monitor'[v] = monitor[v]
      BY <1>2, MonitorLeaves
    <2>2. /\ monitor'[w].at = "called" => w \in peers'[monitor'[w].peer]
          /\ monitor'[w].at = "electing" => peers'[w] # {}
      <3>1. CASE ReadPeers(w)
        <4>1. /\ monitor'[w] = [at |-> IF peers[w] = {} THEN "orphaned" ELSE "electing"]
              /\ peers' = peers
          BY <3>1 DEF ReadPeers, To, Move, TypeOK, knowing
        <4> QED BY <4>1
      <3>2. ASSUME NEW p \in Workers, Elect(w, p)
            PROVE  /\ monitor'[w].at = "called" => w \in peers'[monitor'[w].peer]
                   /\ monitor'[w].at = "electing" => peers'[w] # {}
        <4>1. /\ monitor'[w] = [at |-> "called", left |-> monitor[w].left \ {p}, mute |-> monitor[w].mute, peer |-> p]
              /\ w \in peers'[p]
          BY <3>2 DEF Elect, Note, Move, TypeOK
        <4> QED BY <4>1
      <3>3. ASSUME NEW p \in Workers, ElectFails(w, p) \/ ElectUnheard(w, p)
            PROVE  monitor'[w].at \in {"calling", "unheard"}
        BY <3>3 DEF ElectFails, ElectUnheard, Move, TypeOK
      <3>4. CASE AskStatus(w) \/ StatusAnswered(w) \/ StatusFails(w) \/ Orphan(w) \/ HoldElection(w) \/ ListPeers(w)
                   \/ Elected(w) \/ AllCalled(w) \/ UnheardEnds(w)
        <4>1. monitor'[w].at \in {"asking", "rest", "lost", "elected", "calling"}
          BY <3>4 DEF AskStatus, StatusAnswered, StatusFails, Orphan, HoldElection, ListPeers, Elected, AllCalled,
                      UnheardEnds, To, Move, Resting, TypeOK
        <4> QED BY <4>1
      <3> QED BY <1>2, <3>1, <3>2, <3>3, <3>4 DEF Monitor
    <2> QED BY <1>0, <2>1, <2>2, ChecksAre DEF CallInv
  <1>3. ASSUME NEW w \in Workers, NEW i \in Slots, OrphanTask(w, i) PROVE CallInv'
    BY <1>1, <1>3 DEF OrphanTask, Relieved, FindsAlone, Fork, Stop, DialFork, knowing
  <1>4. ASSUME NEW c, DialDone(c) \/ Admit(c) PROVE CallInv'
    BY <1>1, <1>4 DEF DialDone, Admit, knowing
  <1>5. CASE Environment
    <2>1. ASSUME NEW w \in Workers, DialLeader(w) PROVE CallInv'
      BY <1>1, <2>1 DEF DialLeader, Rejoin, knowing
    <2>2. ASSUME NEW w \in Workers, Introduce(w) \/ IntroduceFails(w) PROVE CallInv'
      <3>1. monitor' = monitor /\ \E S : peers' = [peers EXCEPT ![w] = peers[w] \cup S]
        BY <2>2 DEF Introduce, IntroduceFails, Reach, Rejoin
      <3> QED BY <1>1, <3>1 DEF TypeOK
    <2>3. ASSUME NEW c \in live, ConnectionLost(c) PROVE CallInv'
      BY <1>1, <2>3 DEF ConnectionLost, Lose, knowing
    <2>4. CASE LeaderLost
      BY <1>1, <2>4 DEF LeaderLost, Lose, knowing
    <2>5. ASSUME NEW w \in Workers, NEW p \in Workers, ConnectToWorker(w, p) PROVE CallInv'
      <3>1. monitor' = monitor /\ peers' = [peers EXCEPT ![p] = peers[p] \cup {w}]
        BY <2>5 DEF ConnectToWorker, Note
      <3> QED BY <1>1, <3>1 DEF TypeOK
    <2>6. ASSUME NEW w \in Workers, NEW p \in Workers, Met(w, p) PROVE CallInv'
      <3>1. monitor' = monitor /\ peers' = [peers EXCEPT ![w] = peers[w] \cup {p}]
        BY <2>6 DEF Met, Reach
      <3> QED BY <1>1, <3>1 DEF TypeOK
    <2> QED BY <1>2, <1>5, <2>1, <2>2, <2>3, <2>4, <2>5, <2>6 DEF Environment
  <1> QED BY <1>2, <1>3, <1>4, <1>5 DEF Act

-----------------------------------------------------------------------------
(* The situation of a worker that is not overridden *)

LEMMA SituationSet ==
  ASSUME TypeOK, NEW u \in Workers, NEW s, SetSituation(u, s)
  PROVE  /\ situation'[u] = s
         /\ \A v \in Workers : v # u => situation'[v] = situation[v] /\ (v \in called' <=> v \in called)
         /\ s.is = "waiting" => called' = called
         /\ s.is = "connected" => u \notin called'
  BY DEF SetSituation, TypeOK

\* Nothing that concerns the worker happens, or somebody it had is lost.
LEMMA Undisturbed ==
  ASSUME NEW v \in Workers, Settled(v), situation'[v] = situation[v], monitor'[v] = monitor[v],
         peers[v] \subseteq peers'[v], v \in called' => v \in called, Taken(v)' \subseteq Taken(v),
         \A i \in Slots : orphan'[v][i] = "alone" => orphan[v][i] = "alone",
         situation[v].is = "connected" /\ situation[v].con \notin live => situation[v].con \notin live'
  PROVE  Settled(v)'
  BY DEF Settled, Checking

\* A leader takes the worker over: if it had not been called, nobody else has it.
LEMMA TakenOver ==
  ASSUME Observe, NEW v \in Workers, v \notin overridden', Settled(v),
         NEW c \in Connections, situation'[v] = Connected(c), situation'[v] # situation[v],
         situation[v] \in Situations,
         monitor'[v] = monitor[v], peers[v] \subseteq peers'[v], v \notin called',
         \A i \in Slots : orphan'[v][i] = "alone" => orphan[v][i] = "alone",
         Taken(v)' \subseteq Taken(v) \cup {c}
  PROVE  Settled(v)'
  <1>1. /\ monitor[v].at \notin Checking
        /\ situation[v].is = "connected" => situation[v].con \notin live
    BY Observed, SituationIs
  <1>2. situation[v].is \in {"connected", "election", "waiting"}
    BY DEF Situations
  <1>3. peers[v] = {} => Taken(v) = {}
    BY <1>1, <1>2 DEF Settled, Taken
  <1>4. situation'[v].is = "connected" /\ situation'[v].con = c
    BY SituationIs
  <1>5. \A i \in Slots : orphan'[v][i] # "alone"
    BY Observed
  <1> QED BY <1>1, <1>3, <1>4, <1>5 DEF Settled, Checking

LEMMA MonitorSettled ==
  ASSUME TypeOK, CallInv, Observe, NEW v \in Workers, v \notin overridden', Settled(v),
         NEW w \in Workers, Monitor(w) \/ UnheardEnds(w)
  PROVE  Settled(v)'
  <1>0. /\ UNCHANGED <<live, registered, dialling, admitting>> /\ peers[v] \subseteq peers'[v]
        /\ v # w => monitor'[v] = monitor[v]
        /\ \A i \in Slots : orphan'[v][i] = "alone" <=> orphan[v][i] = "alone"
        /\ monitor[w] \in Checks /\ peers[w] \in SUBSET Workers /\ situation[v] \in Situations
    <2>1. \A i \in Slots : orphan'[v][i] = orphan[v][i] \/ (orphan[v][i] = "none" /\ orphan'[v][i] = "asleep")
      BY MonitorLeaves
    <2>2. \A i \in Slots : orphan'[v][i] = "alone" <=> orphan[v][i] = "alone"
      BY <2>1
    <2> QED BY <2>2, MonitorLeaves DEF TypeOK
  <1>1. Taken(v)' = Taken(v)
    BY <1>0 DEF Taken
  <1>2. ASSUME situation'[v] = situation[v], v \in called' => v \in called, v # w PROVE Settled(v)'
    BY <1>0, <1>1, <1>2, Undisturbed
  <1>3. ASSUME NEW m, Move(w, m), UNCHANGED <<situation, called>>, m.at \notin Checking PROVE Settled(v)'
    <2>1. CASE v = w
      <3>1. monitor'[v] = m
        BY <1>3, <2>1 DEF Move, TypeOK
      <3> QED BY <1>0, <1>1, <1>3, <3>1 DEF Settled, Checking
    <2> QED BY <1>2, <1>3, <2>1
  <1>4. CASE AskStatus(w)
    <2>1. CASE v = w
      <3>1. /\ monitor'[v].at = "asking" /\ monitor'[v].leader = situation[v].con
            /\ situation' = situation /\ called' = called /\ situation[v].is = "connected"
        BY <1>4, <2>1 DEF AskStatus, Move, TypeOK
      <3> QED BY <1>0, <1>1, <3>1 DEF Settled, Checking
    <2> QED BY <1>2, <1>4, <2>1 DEF AskStatus
  <1>5. CASE StatusFails(w)
    <2>1. CASE v = w
      <3>1. /\ monitor[v].at = "asking" /\ monitor[v].leader \notin live /\ monitor'[v].at = "lost"
            /\ situation' = situation /\ called' = called
        BY <1>5, <2>1 DEF StatusFails, At, To, Move, TypeOK
      <3> QED BY <1>0, <1>1, <3>1 DEF Settled, Checking
    <2> QED BY <1>2, <1>5, <2>1 DEF StatusFails
  <1>6. CASE ReadPeers(w)
    <2>1. CASE v = w
      <3>1. /\ monitor[v].at = "lost" /\ monitor'[v].at = IF peers[v] = {} THEN "orphaned" ELSE "electing"
            /\ situation' = situation /\ called' = called
        BY <1>6, <2>1 DEF ReadPeers, At, To, Move, TypeOK
      <3> QED BY <1>0, <1>1, <3>1 DEF Settled, Checking
    <2> QED BY <1>2, <1>6, <2>1 DEF ReadPeers
  <1>7. CASE Orphan(w)
    <2>1. CASE v = w
      <3>1. /\ monitor[v].at = "orphaned" /\ monitor'[v].at = "rest"
            /\ situation'[v].is = "waiting" /\ called' = called
        BY <1>7, <2>1, SituationSet, SituationIs DEF Orphan, At, Move, Resting, TypeOK
      <3>2. situation[v].is = "connected" /\ situation[v].con \notin live /\ Taken(v) \subseteq {situation[v].con}
        BY <3>1 DEF Settled, Checking
      <3>3. Taken(v) = {}
        BY <3>2 DEF Taken
      <3>4. v \notin called
        BY <3>2 DEF Settled
      <3> QED BY <1>1, <3>1, <3>3, <3>4 DEF Settled, Checking
    <2>2. CASE v # w
      <3>1. SetSituation(w, Without("waiting"))
        BY <1>7 DEF Orphan
      <3> QED BY <1>2, <2>2, <3>1, SituationSet
    <2> QED BY <2>1, <2>2
  <1>8. CASE HoldElection(w)
    <2>0. SetSituation(w, Without("election"))
      BY <1>8 DEF HoldElection
    <2>1. CASE v = w
      <3>1. /\ monitor[v].at = "electing" /\ monitor'[v].at = "elected" /\ situation'[v].is = "election"
        BY <1>8, <2>0, <2>1, SituationSet, SituationIs DEF HoldElection, At, To, Move, TypeOK
      <3>2. peers[v] # {}
        BY <3>1 DEF CallInv
      <3>3. \A i \in Slots : orphan'[v][i] # "alone"
        BY <1>0, <3>1, <2>1 DEF Settled, Checking
      <3> QED BY <1>0, <3>1, <3>2, <3>3 DEF Settled, Checking
    <2> QED BY <1>2, <2>0, <2>1, SituationSet
  <1>9. CASE StatusAnswered(w) \/ ListPeers(w) \/ AllCalled(w) \/ UnheardEnds(w)
    <2>1. PICK m : Move(w, m) /\ m.at \in {"rest", "calling"} /\ UNCHANGED <<situation, called>>
      BY <1>9 DEF StatusAnswered, ListPeers, AllCalled, UnheardEnds, Resting
    <2> QED BY <1>3, <2>1 DEF Checking
  <1>10. CASE Elected(w)
    <2> DEFINE u == monitor[w].peer
               m == [at |-> "calling", left |-> monitor[w].left, mute |-> monitor[w].mute]
    <2>1. u \in Workers /\ w \in peers[u] /\ Move(w, m) /\ m.at \notin Checking
      BY <1>0, <1>10, ChecksAre DEF Elected, At, CallInv, Checking
    <2>2. CASE u \in stopped
      BY <1>3, <1>10, <2>1, <2>2 DEF Elected
    <2>3. CASE u \notin stopped
      <3>1. SetSituation(u, Without("election"))
        BY <1>10, <2>3 DEF Elected
      <3>2. CASE v = u
        <4>1. situation'[v].is = "election" /\ peers[v] # {}
          BY <2>1, <3>1, <3>2, SituationSet, SituationIs
        <4>2. monitor'[v].at \notin Checking
          <5>1. CASE v = w
            BY <2>1, <5>1 DEF Move, TypeOK
          <5>2. CASE v # w
            <6>1. situation'[v] = situation[v] \/ monitor[v].at \notin Checking
              BY <1>0, <5>2, Observed
            <6>2. situation[v].is = "election" => monitor[v].at \notin Checking
              BY DEF Settled
            <6> QED BY <1>0, <4>1, <5>2, <6>1, <6>2
          <5> QED BY <5>1, <5>2
        <4>3. \A i \in Slots : orphan'[v][i] # "alone"
          BY <1>0, <4>1, Observed DEF Settled
        <4> QED BY <1>0, <4>1, <4>2, <4>3 DEF Settled, Checking
      <3>3. CASE v # u
        <4>1. situation'[v] = situation[v] /\ (v \in called' <=> v \in called)
          BY <2>1, <3>1, <3>3, SituationSet
        <4>2. CASE v = w
          <5>1. monitor'[v] = m
            BY <2>1, <4>2 DEF Move, TypeOK
          <5> QED BY <1>0, <1>1, <2>1, <4>1, <5>1 DEF Settled, Checking
        <4> QED BY <1>2, <4>1, <4>2
      <3> QED BY <3>2, <3>3
    <2> QED BY <2>2, <2>3
  <1>11. ASSUME NEW p \in Workers, Elect(w, p) PROVE Settled(v)'
    BY <1>3, <1>11 DEF Elect, Checking
  <1>12. ASSUME NEW p \in Workers, ElectFails(w, p) \/ ElectUnheard(w, p) PROVE Settled(v)'
    BY <1>3, <1>12 DEF ElectFails, ElectUnheard, Checking
  <1> QED BY <1>4, <1>5, <1>6, <1>7, <1>8, <1>9, <1>10, <1>11, <1>12 DEF Monitor

\* The rest of the workers' own steps, and the calls that end.
LEMMA TaskSettled ==
  ASSUME TypeOK, ConInv, Observe, NEW v \in Workers, v \notin overridden', v \notin stopped', Settled(v),
         \/ \E w \in Workers, i \in Slots : OrphanTask(w, i)
         \/ \E c \in dialling : DialDone(c)
         \/ \E c \in admitting : Admit(c)
  PROVE  Settled(v)'
  <1>0. /\ live \cup registered \cup dialling \cup admitting \subseteq Connections
        /\ situation[v] \in Situations
        /\ situation[v].is = "connected" => situation[v].con.worker = v
    BY DEF TypeOK
  <1>1. ASSUME NEW w \in Workers, NEW i \in Slots, Relieved(w, i) \/ Fork(w, i) PROVE Settled(v)'
    <2>1. UNCHANGED <<live, registered, dialling, admitting, situation, peers, monitor, called>>
      BY <1>1 DEF Relieved, Fork, connecting, knowing
    <2>2. Taken(v)' = Taken(v)
      BY <2>1 DEF Taken
    <2>3. \A j \in Slots : orphan'[v][j] = "alone" => orphan[v][j] = "alone"
      <3>1. PICK k \in {"done", "forking"} : orphan' = [orphan EXCEPT ![w][i] = k]
        BY <1>1 DEF Relieved, Fork
      <3>2. \A j \in Slots : orphan'[v][j] = orphan[v][j] \/ orphan'[v][j] = k
        BY <3>1 DEF TypeOK
      <3> QED BY <3>2
    <2> QED BY <2>1, <2>2, <2>3, Undisturbed
  <1>6. ASSUME NEW w \in Workers, NEW i \in Slots, FindsAlone(w, i) PROVE Settled(v)'
    <2>1. UNCHANGED <<live, registered, dialling, admitting, situation, peers, monitor, called>>
      BY <1>6 DEF FindsAlone, connecting, knowing
    <2>2. Taken(v)' = Taken(v)
      BY <2>1 DEF Taken
    <2>3. CASE v = w
      <3>1. situation[v].is = "waiting"
        BY <1>0, <1>6, <2>3 DEF FindsAlone, Situations
      <3> QED BY <2>1, <2>2, <3>1 DEF Settled, Checking
    <2>4. CASE v # w
      <3>1. \A j \in Slots : orphan'[v][j] = "alone" => orphan[v][j] = "alone"
        BY <1>6, <2>4 DEF FindsAlone, TypeOK
      <3> QED BY <2>1, <2>2, <3>1, Undisturbed
    <2> QED BY <2>3, <2>4
  <1>2. ASSUME NEW w \in Workers, NEW i \in Slots, Stop(w, i) PROVE Settled(v)'
    <2>1. /\ UNCHANGED <<registered, dialling, admitting, situation, peers, monitor, called, orphan>>
          /\ live' \subseteq live
      BY <1>2 DEF Stop, knowing
    <2>2. Taken(v)' \subseteq Taken(v)
      BY <2>1 DEF Taken
    <2> QED BY <2>1, <2>2, Undisturbed
  <1>3. ASSUME NEW w \in Workers, NEW i \in Slots, DialFork(w, i) PROVE Settled(v)'
    <2> DEFINE c == Con(<<w, i>>, w, 0)
    <2>1. /\ c.leader = <<w, i>> /\ c.worker = w /\ orphan[w][i] = "forking" /\ Dial(c)
          /\ UNCHANGED <<admitting, situation, peers, monitor, called, orphan>>
      BY <1>3, ConType DEF DialFork, knowing
    <2> HIDE DEF c
    <2>2. Taken(v)' \subseteq Taken(v)
      BY <2>1 DEF Taken, Dial, Register
    <2>3. situation[v].is = "connected" => situation[v].con # c
      BY <1>0, <2>1 DEF ConInv
    <2> QED BY <2>1, <2>2, <2>3, Undisturbed DEF Dial
  <1>4. ASSUME NEW c \in dialling, DialDone(c) PROVE Settled(v)'
    <2>1. /\ UNCHANGED <<live, registered, admitting, peers, monitor>> /\ dialling' = dialling \ {c}
          /\ SetSituation(c.worker, Connected(c)) /\ c \in Connections /\ c.worker \in Workers
          /\ Connected(c).is = "connected" /\ Connected(c).con = c
      BY <1>0, <1>4, ConType, SituationIs DEF DialDone, knowing
    <2>4. \A j \in Slots : orphan'[v][j] = "alone" => orphan[v][j] = "alone"
      BY <1>4, <2>1 DEF DialDone, TypeOK
    <2>2. CASE c.worker # v
      <3>1. situation'[v] = situation[v] /\ (v \in called' <=> v \in called)
        BY <2>1, <2>2, SituationSet
      <3>2. Taken(v)' \subseteq Taken(v)
        BY <2>1, <2>2 DEF Taken
      <3> QED BY <2>1, <2>4, <3>1, <3>2, Undisturbed
    <2>3. CASE c.worker = v
      <3>1. situation'[v] = Connected(c) /\ v \notin called'
        BY <2>1, <2>3, SituationSet
      <3>2. Taken(v)' \subseteq Taken(v) \cup {c}
        BY <2>1 DEF Taken
      <3>3. CASE situation[v] = Connected(c)
        BY <2>1, <2>4, <3>1, <3>2, <3>3 DEF Settled
      <3> QED BY <1>0, <2>1, <2>4, <3>1, <3>2, <3>3, TakenOver
    <2> QED BY <2>2, <2>3
  <1>5. ASSUME NEW c \in admitting, Admit(c) PROVE Settled(v)'
    <2>1. UNCHANGED <<live, dialling, situation, peers, monitor, called, orphan>>
      BY <1>5 DEF Admit, knowing
    <2>2. Taken(v)' \subseteq Taken(v)
      BY <1>5 DEF Taken, Admit, Register
    <2> QED BY <2>1, <2>2, Undisturbed
  <1> QED BY <1>1, <1>2, <1>3, <1>4, <1>5, <1>6 DEF OrphanTask

LEMMA EnvironmentSettled ==
  ASSUME TypeOK, ConInv, CallInv, Observe, NEW v \in Workers, v \notin overridden', Settled(v), Environment
  PROVE  Settled(v)'
  <1>0. /\ situation[v] \in Situations
        /\ situation[v].is = "connected" => situation[v].con.worker = v /\ Own(situation[v].con)
    BY DEF TypeOK, ConInv
  <1>1. ASSUME NEW w \in Workers, DialLeader(w) \/ Introduce(w) PROVE Settled(v)'
    <2> DEFINE c == Con(Leader, w, joins')
    <2>1. joins' = joins + 1 /\ joins \in Nat /\ joins' \in 0..MaxJoins
      BY <1>1, BoundAssumption DEF DialLeader, Introduce, Rejoin, TypeOK
    <2>2. c \in Connections /\ c.leader = Leader /\ c.worker = w /\ c.n = joins'
      BY <2>1, ConType
    <2>3. monitor' = monitor /\ orphan' = orphan /\ live' = live \cup {c}
      BY <1>1 DEF DialLeader, Introduce, Rejoin, Dial
    <2>4. DialLeader(w) => /\ UNCHANGED <<admitting, situation, peers, called>>
                           /\ dialling' = dialling \cup {c} /\ registered' \subseteq registered \cup {c}
      BY DEF DialLeader, Dial, Register, knowing
    <2>5. Introduce(w) => /\ UNCHANGED <<registered, dialling>> /\ admitting' = admitting \cup {c}
                          /\ SetSituation(w, Connected(c)) /\ peers[v] \subseteq peers'[v]
      <3>1. Introduce(w) => \E S : peers' = [peers EXCEPT ![w] = peers[w] \cup S]
        BY DEF Introduce, Reach
      <3> QED BY <3>1 DEF Introduce, TypeOK
    <2> HIDE DEF c
    <2>6. situation[v].is = "connected" => situation[v].con # c
      <3>1. \A i \in Slots : c.leader # <<c.worker, i>>
        BY <2>2, ConType
      <3> QED BY <1>0, <2>1, <2>2, <3>1 DEF Own, OwnThen
    <2>7. CASE DialLeader(w)
      <3>1. Taken(v)' \subseteq Taken(v)
        BY <2>3, <2>4, <2>7 DEF Taken
      <3> QED BY <2>3, <2>4, <2>6, <2>7, <3>1, Undisturbed
    <2>8. CASE Introduce(w) /\ w # v
      <3>1. situation'[v] = situation[v] /\ (v \in called' <=> v \in called)
        BY <2>5, <2>8, SituationSet
      <3>2. Taken(v)' \subseteq Taken(v)
        BY <2>2, <2>3, <2>5, <2>8 DEF Taken
      <3> QED BY <2>3, <2>5, <2>6, <2>8, <3>1, <3>2, Undisturbed
    <2>9. CASE Introduce(w) /\ w = v
      <3>1. situation'[v] = Connected(c) /\ v \notin called'
        BY <2>2, <2>5, <2>9, SituationSet, SituationIs
      <3>2. situation[v] # Connected(c)
        BY <2>2, <2>6, SituationIs
      <3>3. Taken(v)' \subseteq Taken(v) \cup {c}
        BY <2>3, <2>5, <2>9 DEF Taken
      <3> QED BY <1>0, <2>2, <2>3, <2>5, <2>9, <3>1, <3>2, <3>3, TakenOver
    <2> QED BY <1>1, <2>7, <2>8, <2>9
  <1>2. ASSUME NEW c \in live, ConnectionLost(c) PROVE Settled(v)'
    <2>1. /\ UNCHANGED <<registered, dialling, admitting, situation, peers, monitor, called, orphan>>
          /\ live' \subseteq live
      BY <1>2 DEF ConnectionLost, Lose, knowing
    <2>2. Taken(v)' \subseteq Taken(v)
      BY <2>1 DEF Taken
    <2> QED BY <2>1, <2>2, Undisturbed
  <1>3. CASE LeaderLost
    <2>1. /\ UNCHANGED <<registered, dialling, situation, peers, monitor, called, orphan>>
          /\ live' \subseteq live /\ admitting' = {}
      BY <1>3 DEF LeaderLost, Lose, knowing
    <2>2. Taken(v)' \subseteq Taken(v)
      BY <2>1 DEF Taken
    <2> QED BY <2>1, <2>2, Undisturbed
  <1>4. ASSUME NEW w \in Workers,
               \/ IntroduceFails(w)
               \/ \E p \in Workers : ConnectToWorker(w, p) \/ Met(w, p)
        PROVE  Settled(v)'
    <2>1. /\ UNCHANGED <<live, registered, dialling, admitting, situation, monitor, called, orphan>>
          /\ \E u \in Workers, S \in {{w}} \cup {{p} : p \in Workers} \cup SUBSET (View \ stopped) :
               peers' = [peers EXCEPT ![u] = peers[u] \cup S]
      <3>1. CASE IntroduceFails(w)
        BY <3>1 DEF IntroduceFails, Reach, Rejoin
      <3>2. ASSUME NEW p \in Workers, ConnectToWorker(w, p) \/ Met(w, p)
            PROVE  /\ UNCHANGED <<live, registered, dialling, admitting, situation, monitor, called, orphan>>
                   /\ peers' = [peers EXCEPT ![p] = peers[p] \cup {w}] \/ peers' = [peers EXCEPT ![w] = peers[w] \cup {p}]
        BY <3>2 DEF ConnectToWorker, Met, Note, Reach, connecting
      <3> QED BY <1>4, <3>1, <3>2
    <2>2. Taken(v)' = Taken(v)
      BY <2>1 DEF Taken
    <2>3. peers[v] \subseteq peers'[v]
      BY <2>1 DEF TypeOK
    <2> QED BY <2>1, <2>2, <2>3, Undisturbed
  <1>5. ASSUME NEW w \in Workers, UnheardEnds(w) PROVE Settled(v)'
    BY <1>5, MonitorSettled
  <1> QED BY <1>1, <1>2, <1>3, <1>4, <1>5 DEF Environment

\* Nobody comes back from having been overridden or stopped.
LEMMA ElectionStep == TypeOK /\ TypeOK' /\ ElectionInv /\ [Next]_vars => ElectionInv'
  <1> SUFFICES ASSUME TypeOK, TypeOK', ElectionInv, [Next]_vars PROVE ElectionInv'
    OBVIOUS
  <1>1. CASE UNCHANGED vars
    BY <1>1 DEF vars, ElectionInv, ConInv, Own, CallInv, Settled, Taken
  <1>2. CASE Next
    <2>1. Act /\ Observe
      BY <1>2 DEF Next
    <2>2. stopped \subseteq stopped'
      BY <2>1 DEF Act, Monitor, AskStatus, StatusAnswered, StatusFails, ReadPeers, Orphan, HoldElection, ListPeers,
                  Elected, AllCalled, Elect, ElectFails, ElectUnheard, UnheardEnds, OrphanTask, Relieved, FindsAlone, Fork,
                  Stop, DialFork, DialDone, Admit, Environment, DialLeader, Introduce, IntroduceFails, Rejoin,
                  ConnectionLost, LeaderLost, Lose, ConnectToWorker, Met
    <2>3. ASSUME NEW v \in Workers, v \notin overridden', v \notin stopped' PROVE Settled(v)'
      <3>1. Settled(v)
        BY <2>1, <2>2, <2>3, Observed DEF ElectionInv
      <3>2. CASE \E w \in Workers : Monitor(w)
        BY <2>1, <2>3, <3>1, <3>2, MonitorSettled DEF ElectionInv
      <3>3. CASE Environment
        BY <2>1, <2>3, <3>1, <3>3, EnvironmentSettled DEF ElectionInv
      <3>4. CASE \/ \E w \in Workers, i \in Slots : OrphanTask(w, i)
                 \/ \E c \in dialling : DialDone(c)
                 \/ \E c \in admitting : Admit(c)
        BY <2>1, <2>3, <3>1, <3>4, TaskSettled DEF ElectionInv
      <3> QED BY <2>1, <3>2, <3>3, <3>4 DEF Act
    <2> QED BY <2>1, <2>3, ConStep, CallStep DEF ElectionInv
  <1> QED BY <1>1, <1>2

LEMMA ElectionInit == Init => ElectionInv
  <1> SUFFICES ASSUME Init PROVE ElectionInv
    OBVIOUS
  <1>1. /\ dialling = {} /\ admitting = {} /\ called = {} /\ joins = 0
        /\ \A w \in Workers : /\ situation[w].is = "connected" /\ situation[w].con = Con(Leader, w, 0)
                              /\ monitor[w].at = "rest"
    BY ConType, SituationIs DEF Init, Resting
  <1>2. registered = live /\ \A c \in live : c.leader = Leader /\ c.n = 0 /\ c = Con(Leader, c.worker, 0)
    BY ConType DEF Init
  <1>3. \A w \in Workers : Con(Leader, w, 0).leader = Leader /\ Con(Leader, w, 0).n = 0
                           /\ \A i \in Slots : Leader # <<w, i>>
    BY ConType
  <1>4. ConInv
    <2>1. \A c \in live : Own(c)
      BY <1>1, <1>2 DEF Own, OwnThen
    <2>2. \A w \in Workers : Own(Con(Leader, w, 0))
      BY <1>1, <1>3 DEF Own, OwnThen
    <2> QED BY <1>1, <1>2, <1>3, <2>1, <2>2 DEF ConInv
  <1>5. \A w \in Workers : Taken(w) \subseteq {Con(Leader, w, 0)}
    BY <1>1, <1>2 DEF Taken
  <1>6. \A w \in Workers, i \in Slots : orphan[w][i] # "alone"
    BY DEF Init
  <1>7. \A w \in Workers : Settled(w)
    BY <1>1, <1>5, <1>6 DEF Settled, Checking
  <1> QED BY <1>1, <1>4, <1>7 DEF ElectionInv, CallInv

LEMMA Invariance == Spec => [](TypeOK /\ ElectionInv)
  <1> QED BY TypeInit, TypeStep, ElectionInit, ElectionStep, PTL DEF Spec

-----------------------------------------------------------------------------
(* The theorems *)

\* A worker waits as an orphan only if no leader has it (worker/mod.rs:369): what it lost
\* was all it had, and whoever takes it in again ends its wait, unless the situation of the
\* worker is written while another of its tasks still minds what it was.
THEOREM WaitingIsAlone == Spec => []NoFalseAlarm
  <1>1. ElectionInv => NoFalseAlarm
    <2>1. \A w \in Workers : Served(w) \subseteq Taken(w)
      BY DEF Served, Taken
    <2> QED BY <2>1 DEF ElectionInv, Settled, NoFalseAlarm
  <1> QED BY <1>1, Invariance, PTL

\* The task of an orphan goes on after its look, and spawns a leader or shuts down, only
\* while no leader has the worker and nobody has called it to an election (worker/mod.rs:428,
\* 442, 457): two leaders never step a worker, but by the same override. To be turned up for
\* between the look and the act is one.
THEOREM GivingUpIsSafe == Spec => OnlyOrphansGiveUp
  <1> DEFINE Alright(w) == GivesUp(w) => w \in overridden \/ (Served(w) = {} /\ w \notin called)
  <1>1. TypeOK /\ ElectionInv /\ [Next]_vars => [\A w \in Workers : Alright(w)]_vars
    <2> SUFFICES ASSUME TypeOK, ElectionInv, Next, NEW w \in Workers, GivesUp(w), w \notin overridden
                 PROVE  Served(w) = {} /\ w \notin called
      OBVIOUS
    <2> DEFINE Looked(v, i) == FindsAlone(v, i) \/ orphan[v][i] = "alone"
    <2>1. w \notin stopped /\ \E i \in Slots : Looked(w, i)
      <3>1. Act
        BY DEF Next
      <3>2. ASSUME NEW v \in Workers, NEW i \in Slots, Fork(v, i) \/ Stop(v, i) \/ FindsAlone(v, i)
            PROVE  w \notin stopped /\ \E j \in Slots : Looked(w, j)
        <4>1. w = v
          <5>1. CASE Fork(v, i)
            <6>1. stopped' = stopped /\ up' = up \cup {<<v, i>>} /\ orphan' = [orphan EXCEPT ![v][i] = "forking"]
              BY <5>1 DEF Fork
            <6>2. PICK j \in Slots : <<w, j>> \in up' \ up \/ (orphan[w][j] # "alone" /\ orphan'[w][j] = "alone")
              BY <6>1 DEF GivesUp
            <6>3. <<w, j>> = <<v, i>>
              BY <6>1, <6>2 DEF TypeOK
            <6> QED BY <6>3
          <5>2. CASE Stop(v, i)
            BY <5>2 DEF Stop, GivesUp
          <5>3. CASE FindsAlone(v, i)
            <6>1. stopped' = stopped /\ up' = up /\ orphan' = [orphan EXCEPT ![v][i] = "alone"]
              BY <5>3 DEF FindsAlone, connecting
            <6> QED BY <6>1 DEF GivesUp, TypeOK
          <5> QED BY <3>2, <5>1, <5>2, <5>3
        <4> QED BY <3>2, <4>1 DEF Fork, Stop, FindsAlone, Asleep
      <3>3. ASSUME up' \subseteq up, stopped' = stopped,
                   \A j \in Slots : orphan'[w][j] = "alone" => orphan[w][j] = "alone"
            PROVE  FALSE
        BY <3>3 DEF GivesUp
      <3>4. CASE \E v \in Workers : Monitor(v) \/ UnheardEnds(v)
        BY <3>3, <3>4, MonitorLeaves
      <3>5. ASSUME NEW v \in Workers, NEW i \in Slots, Relieved(v, i) PROVE FALSE
        BY <3>3, <3>5 DEF Relieved, connecting, TypeOK
      <3>6. ASSUME NEW c \in dialling, DialDone(c) PROVE FALSE
        <4>1. c.worker \in Workers
          BY ConType DEF TypeOK
        <4> QED BY <3>3, <3>6, <4>1 DEF DialDone, TypeOK
      <3> QED BY <3>1, <3>2, <3>3, <3>4, <3>5, <3>6 DEF Act, OrphanTask, DialFork, Admit, connecting, Environment,
                DialLeader, Introduce, IntroduceFails, Rejoin, ConnectionLost, LeaderLost, Lose, ConnectToWorker, Met
    <2>2. situation[w] \in Situations
      BY DEF TypeOK
    <2>3. Settled(w)
      BY <2>1 DEF ElectionInv
    <2>4. situation[w].is = "waiting"
      BY <2>1, <2>2, <2>3 DEF FindsAlone, Situations, Settled
    <2>5. Taken(w) = {} /\ w \notin called
      BY <2>3, <2>4 DEF Settled
    <2> QED BY <2>5 DEF Served, Taken
  <1> QED BY <1>1, Invariance, PTL DEF Spec, OnlyOrphansGiveUp
==============================================================================
