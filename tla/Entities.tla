------------------------------ MODULE Entities ------------------------------
(***************************************************************************)
(* Entities on the workers' partitions, and their migration.               *)
(*                                                                         *)
(* A worker keeps an entity in memory or in an archive on disk, and runs a *)
(* behavior for each entity it was given.  ReorganizeEntities makes the    *)
(* leader ask one worker after the other to migrate its entities.  To      *)
(* migrate one, a worker copies it, sends the copy to another worker,      *)
(* directly or through the leader, waits for the answer and removes its    *)
(* own.  Each of these accesses is one request to the worker's manager,    *)
(* which serves one request at a time: anything may happen between them.   *)
(*                                                                         *)
(* A prefab with one component, and one synced behavior bound to it, stand *)
(* for the model.  Time is not modelled: an entity that was moved or       *)
(* accessed once may have been so recently or long ago.                    *)
(***************************************************************************)
EXTENDS Integers, FiniteSets

CONSTANTS
  Workers,      \* workers registered with the leader
  NetWorkers,   \* those the leader and their peers reach over the network
  Peers,        \* Peers[w]: the keys of w's other_workers
  Setups,       \* the configurations the workers may be started with
  Pulls,        \* configurations that may be pulled: <<worker, switches>>
  Names,        \* entity names
  Values,       \* values of the entity's variable
  Default,      \* the value in the prefab
  Reorgs,       \* concurrent ReorganizeEntities requests
  None          \* no entity, no worker, no name

\* EntityMeta keeps whether the entity was ever moved and ever accessed.
Entity == [val : Values, moved : BOOLEAN, accessed : BOOLEAN]

ASSUME EntitiesAssumption ==
  /\ NetWorkers \subseteq Workers
  /\ Peers \in [Workers -> SUBSET Workers]
  /\ \A w \in Workers : w \notin Peers[w]
  /\ Setups \subseteq [archiving : SUBSET Workers,
                       config : [Workers -> SUBSET {"create", "auto"}]]
  /\ Pulls \subseteq Workers \X SUBSET {"create", "auto"}
  /\ Default \in Values
  /\ None \notin Workers \cup Names \cup Values \cup Entity

VARIABLES
  archiving,    \* workers whose partition has an archive
  config,       \* config[w]: "create" for entity_create_to_archive, "auto"
                \* for auto_archive_entities
  connected,    \* workers whose leader situation is Connected
  memory,       \* memory[w][n]: Partition.entities
  archive,      \* archive[w][n]: Partition.archive
  handles,      \* handles[w][n]: handles of behaviors bound to n, see Another
  reorg,        \* reorg[r]: where the reorganize request r is
  despawn,      \* the leader's RemoveEntity request: name, workers left
  latest,       \* history: latest[n], last value n was given, None if removed
  upset         \* history: names something happened to that the code does
                \* not provide for, see Upset

settings == <<archiving, config, connected>>
stores == <<memory, archive, handles>>
vars == <<settings, stores, reorg, despawn, latest, upset>>

Idle == [pc |-> "idle", left |-> {}, at |-> None, listed |-> {},
         stored |-> {}, name |-> None, copy |-> None, dest |-> None,
         seen |-> {}]
NoDespawn == [name |-> None, left |-> {}]

Init ==
  /\ \E setup \in Setups :
       archiving = setup.archiving /\ config = setup.config
  /\ connected = Workers
  /\ memory = [w \in Workers |-> [n \in Names |-> None]]
  /\ archive = [w \in Workers |-> [n \in Names |-> None]]
  /\ handles = [w \in Workers |-> [n \in Names |-> 0]]
  /\ reorg = [r \in Reorgs |-> Idle]
  /\ despawn = NoDespawn
  /\ latest = [n \in Names |-> None]
  /\ upset = {}

Held(w, n) == memory[w][n] # None \/ archive[w][n] # None
InFlight(n) == \E r \in Reorgs : reorg[r].name = n

\* What the properties do not speak about: a name that is spawned a second
\* time; an entity that is written, removed or migrated by another request
\* between its copying and its removal; one whose destination did not answer;
\* one on a worker that has nobody to send it to; one the leader hands back to
\* the worker it came from; one on a worker that is to archive without an
\* archive.
Upset(n) == upset' = upset \cup {n} /\ UNCHANGED latest
Calm == UNCHANGED <<latest, upset>>
Set(n, v) == latest' = [latest EXCEPT ![n] = v] /\ UNCHANGED upset

-----------------------------------------------------------------------------
(* The partition's operations. *)

\* Handles are counted up to two, standing for two or more.
Another(k) == IF k = 0 THEN 1 ELSE 2

\* Without an archive to create the entity in, the handle stays behind.
AddEntity(w, n, e) ==
  /\ handles' = [handles EXCEPT ![w][n] = Another(@)]
  /\ \/ /\ "create" \notin config[w]
        /\ memory' = [memory EXCEPT ![w][n] = e]
        /\ UNCHANGED archive
     \/ /\ "create" \in config[w]
        /\ archive' = IF w \in archiving
                       THEN [archive EXCEPT ![w][n] = e] ELSE archive
        /\ UNCHANGED memory

AddFails(w) == "create" \in config[w] /\ w \notin archiving

\* Mutants of RemoveEntity: the archive is not looked at, the behaviors are
\* kept, or only the last of them is dropped.
RemoveFromMemory(w, n) ==
  /\ handles' = [handles EXCEPT ![w][n] = 0]
  /\ memory' = [memory EXCEPT ![w][n] = None]
  /\ UNCHANGED archive

RemoveButHandles(w, n) ==
  /\ memory' = [memory EXCEPT ![w][n] = None]
  /\ archive' = IF memory[w][n] # None THEN archive
                ELSE [archive EXCEPT ![w][n] = None]
  /\ UNCHANGED handles

\* Removing from the archive succeeds whether or not it has the entity, unlike
\* what the function's comment says.
RemoveEntity(w, n) ==
  /\ handles' = [handles EXCEPT ![w][n] = 0]
  /\ IF memory[w][n] # None
     THEN memory' = [memory EXCEPT ![w][n] = None] /\ UNCHANGED archive
     ELSE archive' = [archive EXCEPT ![w][n] = None] /\ UNCHANGED memory

\* With the archive disabled, removing an absent entity is an error.
RemoveFails(w, n) == memory[w][n] = None /\ w \notin archiving

\* The leader asks a random worker; a worker accepts any name.
SpawnEntity(w, n) ==
  /\ AddEntity(w, n, [val |-> Default, moved |-> FALSE, accessed |-> FALSE])
  /\ IF AddFails(w) \/ InFlight(n) \/ \E v \in Workers : Held(v, n)
     THEN Upset(n) ELSE Set(n, Default)
  /\ UNCHANGED <<settings, reorg, despawn>>

\* A write to an entity that is absent or archived is acknowledged and
\* ignored: it changes nothing.
SetVar(w, n, v) ==
  /\ memory[w][n] # None
  /\ memory' = [memory EXCEPT ![w][n].val = v]
  /\ IF InFlight(n) THEN Upset(n) ELSE Set(n, v)
  /\ UNCHANGED <<settings, archive, handles, reorg, despawn>>

GetEntity(w, n) ==
  /\ memory[w][n] # None
  /\ memory' = [memory EXCEPT ![w][n].accessed = TRUE]
  /\ Calm
  /\ UNCHANGED <<settings, archive, handles, reorg, despawn>>

\* Mutant of ArchiveEntities: the archived entities stay in memory.
ArchiveCopies(w, S) ==
  /\ "auto" \in config[w] /\ w \in archiving
  /\ \A n \in S : memory[w][n] # None /\ memory[w][n].accessed
  /\ archive' = [archive EXCEPT ![w] =
       [n \in Names |-> IF n \in S THEN memory[w][n] ELSE @[n]]]
  /\ Calm
  /\ UNCHANGED <<settings, memory, handles, reorg, despawn>>

\* The chore moves the entities whose last access is long ago.  Without an
\* archive it gives up at the first, which it has already taken from memory.
ArchiveEntities(w, S) ==
  /\ "auto" \in config[w]
  /\ \A n \in S : memory[w][n] # None /\ memory[w][n].accessed
  /\ memory' = [memory EXCEPT ![w] =
       [n \in Names |-> IF n \in S THEN None ELSE @[n]]]
  /\ \/ /\ w \in archiving
        /\ archive' = [archive EXCEPT ![w] =
             [n \in Names |-> IF n \in S THEN memory[w][n] ELSE @[n]]]
        /\ Calm
     \/ /\ w \notin archiving
        /\ \E n \in Names : S = {n} /\ Upset(n)
        /\ UNCHANGED archive
  /\ UNCHANGED <<settings, handles, reorg, despawn>>

\* A pulled configuration does not open or close the archive.
PullConfig(w, switches) ==
  /\ <<w, switches>> \in Pulls
  /\ config' = [config EXCEPT ![w] = switches]
  /\ Calm
  /\ UNCHANGED <<archiving, connected, stores, reorg, despawn>>

\* A worker that knows no other is orphaned when a status request to the
\* leader fails, though the leader may still reach it.
Orphaned(w) ==
  /\ w \in connected
  /\ Peers[w] = {}
  /\ connected' = connected \ {w}
  /\ Calm
  /\ UNCHANGED <<archiving, config, stores, reorg, despawn>>

\* It keeps trying to get back to the leader.
Reconnected(w) ==
  /\ w \notin connected
  /\ connected' = connected \cup {w}
  /\ Calm
  /\ UNCHANGED <<archiving, config, stores, reorg, despawn>>

-----------------------------------------------------------------------------
(* RemoveEntity on the leader: it asks one worker after the other until one *)
(* reports success.                                                        *)

RemoveStart(n) ==
  /\ despawn = NoDespawn
  /\ despawn' = [name |-> n, left |-> Workers]
  /\ Calm
  /\ UNCHANGED <<settings, stores, reorg>>

RemoveAt(w) ==
  LET n == despawn.name IN
  /\ w \in despawn.left
  /\ IF RemoveFails(w, n)
     THEN /\ despawn' = [despawn EXCEPT !.left = @ \ {w}]
          /\ handles' = [handles EXCEPT ![w][n] = 0]
          /\ Calm
          /\ UNCHANGED <<memory, archive>>
     ELSE /\ despawn' = NoDespawn
          /\ RemoveEntity(w, n)
          /\ IF InFlight(n) THEN Upset(n)
             ELSE IF Held(w, n) THEN Set(n, None) ELSE Calm
  /\ UNCHANGED <<settings, reorg>>

RemoveNotFound ==
  /\ despawn # NoDespawn
  /\ despawn.left = {}
  /\ despawn' = NoDespawn
  /\ Calm
  /\ UNCHANGED <<settings, stores, reorg>>

-----------------------------------------------------------------------------
(* ReorganizeEntities on the leader, MigrateEntities on the workers.  All   *)
(* the signals of one request carry its id: a worker that got one of them   *)
(* over a local channel refuses those that come over the network.           *)

NetLink(v, w) == v \in NetWorkers \/ w \in NetWorkers

Reorganize(r) ==
  /\ reorg[r].pc = "idle"
  /\ reorg' = [reorg EXCEPT ![r].pc = "next", ![r].left = Workers]
  /\ Calm
  /\ UNCHANGED <<settings, stores, despawn>>

MigrateEntities(r, w) ==
  /\ reorg[r].pc = "next"
  /\ w \in reorg[r].left
  /\ reorg' = [reorg EXCEPT ![r] =
       [reorg[r] EXCEPT !.pc = "fetch", !.left = @ \ {w}, !.at = w,
         !.listed = {n \in Names : memory[w][n] # None},
         !.stored = {n \in Names : archive[w][n] # None},
         !.seen = IF w \in NetWorkers THEN @ ELSE @ \cup {w}]]
  /\ Calm
  /\ UNCHANGED <<settings, stores, despawn>>

\* Any error on a worker ends the whole request.
Abort(r) == reorg' = [reorg EXCEPT ![r] = Idle]

ReorganizeDone(r) ==
  /\ reorg[r].pc = "next"
  /\ reorg[r].left = {}
  /\ Abort(r)
  /\ Calm
  /\ UNCHANGED <<settings, stores, despawn>>

\* An entity that is gone or archived by now is an error; one moved within
\* the cooldown is passed over.
Fetch(r, n) ==
  LET w == reorg[r].at
      e == memory[w][n] IN
  /\ reorg[r].pc = "fetch"
  /\ n \in IF reorg[r].listed # {} THEN reorg[r].listed ELSE reorg[r].stored
  /\ IF e = None
     THEN Abort(r) /\ Calm /\ UNCHANGED memory
     ELSE LET left == [reorg[r] EXCEPT !.listed = @ \ {n},
                  !.stored = IF reorg[r].listed # {} THEN @ ELSE @ \ {n}] IN
          /\ memory' = [memory EXCEPT ![w][n].accessed = TRUE]
          /\ \/ e.moved /\ reorg' = [reorg EXCEPT ![r] = left] /\ Calm
             \/ /\ reorg' = [reorg EXCEPT ![r] =
                    [left EXCEPT !.pc = "send", !.name = n,
                                 !.copy = [e EXCEPT !.accessed = TRUE]]]
                /\ IF InFlight(n) THEN Upset(n) ELSE Calm
  /\ UNCHANGED <<settings, archive, handles, despawn>>

MigrateDone(r) ==
  /\ reorg[r].pc = "fetch"
  /\ reorg[r].listed = {} /\ reorg[r].stored = {}
  /\ reorg' = [reorg EXCEPT ![r].pc = "next", ![r].at = None]
  /\ Calm
  /\ UNCHANGED <<settings, stores, despawn>>

\* A worker that the leader reaches over the network does not add itself to
\* the signal's hops, which is what the leader excludes.
Hops(w) == IF w \in NetWorkers THEN {} ELSE {w}

Targets(w) ==
  IF Peers[w] # {} THEN Peers[w]
  ELSE IF w \in connected THEN Workers \ Hops(w) ELSE {}

\* The link a TakeEntity arrives at d by: from the peer or from the leader.
OverNet(w, d) == IF Peers[w] # {} THEN NetLink(w, d) ELSE d \in NetWorkers

Refused(r, d) == OverNet(reorg[r].at, d) /\ d \in reorg[r].seen

TakeEntity(r, d) ==
  LET n == reorg[r].name IN
  /\ reorg[r].pc = "send"
  /\ d \in Targets(reorg[r].at)
  /\ ~Refused(r, d)
  /\ AddEntity(d, n, [reorg[r].copy EXCEPT !.moved = TRUE])
  /\ \/ /\ ~AddFails(d)
        /\ reorg' = [reorg EXCEPT ![r] =
             [reorg[r] EXCEPT !.pc = "remove", !.dest = d,
                !.seen = IF OverNet(reorg[r].at, d) THEN @ ELSE @ \cup {d}]]
        /\ IF d = reorg[r].at THEN Upset(n) ELSE Calm
     \/ AddFails(d) /\ Abort(r) /\ Upset(n)
     \/ \* the answer is lost with the connection
        /\ NetLink(reorg[r].at, d)
        /\ Abort(r)
        /\ Upset(n)
  /\ UNCHANGED <<settings, despawn>>

\* Mutant of SendFails: an error is not noticed, the worker goes on.
SendFailsUnseen(r) ==
  LET w == reorg[r].at IN
  /\ reorg[r].pc = "send"
  /\ \E d \in Targets(w) : Refused(r, d) \/ NetLink(w, d)
  /\ reorg' = [reorg EXCEPT ![r].pc = "remove"]
  /\ Calm
  /\ UNCHANGED <<settings, stores, despawn>>

\* No worker to send to, a refusal or a lost request is an error; the leader's
\* task panics when it finds no worker.  A worker without peers and leader
\* sends nothing and goes on.
SendFails(r) ==
  LET w == reorg[r].at IN
  /\ reorg[r].pc = "send"
  /\ \/ \E d \in Targets(w) : Refused(r, d) \/ NetLink(w, d)
     \/ Peers[w] = {} /\ w \in connected /\ Targets(w) = {}
  /\ Abort(r)
  /\ Calm
  /\ UNCHANGED <<settings, stores, despawn>>

SendNowhere(r) ==
  /\ reorg[r].pc = "send"
  /\ Peers[reorg[r].at] = {}
  /\ reorg[r].at \notin connected
  /\ reorg' = [reorg EXCEPT ![r].pc = "remove"]
  /\ Upset(reorg[r].name)
  /\ UNCHANGED <<settings, stores, despawn>>

RemoveMigrated(r) ==
  LET w == reorg[r].at
      n == reorg[r].name IN
  /\ reorg[r].pc = "remove"
  /\ RemoveEntity(w, n)
  /\ IF RemoveFails(w, n)
     THEN Abort(r)
     ELSE reorg' = [reorg EXCEPT ![r] = [reorg[r] EXCEPT !.pc = "fetch",
            !.name = None, !.copy = None, !.dest = None]]
  /\ Calm
  /\ UNCHANGED <<settings, despawn>>

-----------------------------------------------------------------------------
Worker(w) ==
  \/ \E n \in Names : SpawnEntity(w, n) \/ GetEntity(w, n) \/ RemoveAt(w)
  \/ \E n \in Names, v \in Values : SetVar(w, n, v)
  \/ Orphaned(w) \/ Reconnected(w)
  \/ \E switches \in SUBSET {"create", "auto"} : PullConfig(w, switches)
  \/ \E S \in (SUBSET Names) \ {{}} : ArchiveEntities(w, S)

Migration(r) ==
  \/ Reorganize(r) \/ ReorganizeDone(r) \/ MigrateDone(r)
  \/ SendFails(r) \/ SendNowhere(r) \/ RemoveMigrated(r)
  \/ \E w \in Workers : MigrateEntities(r, w) \/ TakeEntity(r, w)
  \/ \E n \in Names : Fetch(r, n)

Next ==
  \/ \E w \in Workers : Worker(w)
  \/ \E r \in Reorgs : Migration(r)
  \/ \E n \in Names : RemoveStart(n)
  \/ RemoveNotFound

Spec == Init /\ [][Next]_vars

-----------------------------------------------------------------------------
Stores == [Workers -> [Names -> Entity \cup {None}]]

Requests ==
  [pc : {"idle", "next", "fetch", "send", "remove"},
   left : SUBSET Workers, at : Workers \cup {None},
   listed : SUBSET Names, stored : SUBSET Names,
   name : Names \cup {None}, copy : Entity \cup {None},
   dest : Workers \cup {None}, seen : SUBSET Workers]

TypeOK ==
  /\ archiving \subseteq Workers /\ connected \subseteq Workers
  /\ config \in [Workers -> SUBSET {"create", "auto"}]
  /\ memory \in Stores /\ archive \in Stores
  /\ handles \in [Workers -> [Names -> 0..2]]
  /\ reorg \in [Reorgs -> Requests]
  /\ despawn \in [name : Names \cup {None}, left : SUBSET Workers]
  /\ latest \in [Names -> Values \cup {None}]
  /\ upset \subseteq Names

\* Migration never loses an entity: one that was spawned and not removed is
\* held by some worker, in memory or in its archive.
NothingLost ==
  \A n \in Names \ upset :
    latest[n] # None => \E w \in Workers : Held(w, n)

\* An entity is in one store of one worker.  Only between its arrival at the
\* destination and its removal from the source is it at both.
OneHome ==
  \A n \in Names \ upset :
    /\ \A w \in Workers : memory[w][n] = None \/ archive[w][n] = None
    /\ \A v, w \in Workers : v # w /\ Held(v, n) /\ Held(w, n) =>
         \E r \in Reorgs : /\ reorg[r].pc = "remove" /\ reorg[r].name = n
                           /\ {reorg[r].at, reorg[r].dest} = {v, w}

\* Wherever an entity is, its value is the one last written to it, whether
\* it was archived or migrated since, and once a worker that had it removed it
\* there is no copy left.  A removal reported by a worker that did not have it
\* is not one: remove_entity is documented to fail there (part.rs:290), but does
\* so without an archive only, and the leader looks no further.
CopiesAgree ==
  \A n \in Names \ upset, w \in Workers :
    /\ memory[w][n] # None => memory[w][n].val = latest[n]
    /\ archive[w][n] # None => archive[w][n].val = latest[n]

\* A behavior bound to an entity runs once on the worker that holds it, and
\* nowhere else.
BehaviorsFollow ==
  \A n \in Names \ upset, w \in Workers :
    handles[w][n] = IF Held(w, n) THEN 1 ELSE 0
=============================================================================
