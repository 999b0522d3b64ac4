--------------------------- MODULE EntitiesProofs ---------------------------
(* Proofs about Entities, for any workers, links, names, settings and any    *)
(* number of concurrent ReorganizeEntities requests.                         *)
EXTENDS Entities, TLAPS

USE EntitiesAssumption DEF settings, stores

-----------------------------------------------------------------------------
(* The inductive invariant.  A name is spoken for by the request that has     *)
(* its copy; whatever happens to it otherwise while the copy is under way     *)
(* makes it upset.                                                            *)

\* A request names an entity, and has its copy, while it sends the copy or is
\* about to remove the original.  An archive holds entities only where it is
\* open.  The leader's search for an entity to remove has its name.
Fits(q) ==
  /\ IF q.pc \in {"send", "remove"} THEN q.name \in Names /\ q.copy \in Entity
                                    ELSE q.name = None
  /\ q.pc \in {"fetch", "send", "remove"} => q.at \in Workers

RequestInv ==
  /\ \A r \in Reorgs : Fits(reorg[r])
  /\ \A w \in Workers, n \in Names : archive[w][n] # None => w \in archiving
  /\ despawn.left # {} => despawn.name \in Names

\* The original of a copy is where it was taken from, with the copy's value;
\* the copy that arrived is somewhere else.
Spoken(n, r) ==
  /\ \A q \in Reorgs : reorg[q].name = n => q = r
  /\ Held(reorg[r].at, n)
  /\ reorg[r].pc = "send" => reorg[r].copy.val = latest[n]
  /\ reorg[r].pc = "remove" =>
       /\ reorg[r].dest \in Workers \ {reorg[r].at}
       /\ Held(reorg[r].dest, n)

OneStore(n) == \A w \in Workers : memory[w][n] = None \/ archive[w][n] = None

Agree(n) ==
  \A w \in Workers : /\ memory[w][n] # None => memory[w][n].val = latest[n]
                     /\ archive[w][n] # None => archive[w][n].val = latest[n]

\* A worker other than the only holder of n holds it as the destination.
TwoHomes(n) ==
  \A v, w \in Workers : v # w /\ Held(v, n) /\ Held(w, n) =>
    \E r \in Reorgs : /\ reorg[r].pc = "remove" /\ reorg[r].name = n
                      /\ {reorg[r].at, reorg[r].dest} = {v, w}

Follow(n) == \A w \in Workers : handles[w][n] = IF Held(w, n) THEN 1 ELSE 0

Kept(n) == latest[n] # None => \E w \in Workers : Held(w, n)

Safe(n) ==
  /\ OneStore(n) /\ Agree(n) /\ TwoHomes(n) /\ Follow(n) /\ Kept(n)
  /\ \A r \in Reorgs : reorg[r].name = n => Spoken(n, r)

EntitiesInv == RequestInv /\ \A n \in Names \ upset : Safe(n)

-----------------------------------------------------------------------------
(* Type correctness                                                           *)

\* An entity put at one place of a store.
LEMMA Put ==
  ASSUME NEW f \in Stores, NEW w \in Workers, NEW n \in Names,
         NEW e \in Entity \cup {None}
  PROVE  /\ [f EXCEPT ![w][n] = e] \in Stores
         /\ \A v \in Workers, m \in Names :
              [f EXCEPT ![w][n] = e][v][m] = IF v = w /\ m = n THEN e ELSE f[v][m]
  BY DEF Stores

\* What AddEntity and RemoveEntity leave at each place.
LEMMA AddEntityAt ==
  ASSUME TypeOK, NEW w \in Workers, NEW n \in Names, NEW e \in Entity,
         AddEntity(w, n, e)
  PROVE  /\ memory' \in Stores /\ archive' \in Stores
         /\ handles' \in [Workers -> [Names -> 0..2]]
         /\ \A v \in Workers, m \in Names :
              /\ memory'[v][m] = IF v = w /\ m = n /\ "create" \notin config[w]
                                THEN e ELSE memory[v][m]
              /\ archive'[v][m] = IF /\ v = w /\ m = n
                                    /\ "create" \in config[w] /\ w \in archiving
                                 THEN e ELSE archive[v][m]
              /\ handles'[v][m] = IF v = w /\ m = n THEN Another(handles[w][n])
                                 ELSE handles[v][m]
  <1> DEFINE M == [memory EXCEPT ![w][n] = e]
             A == [archive EXCEPT ![w][n] = e]
             H == [handles EXCEPT ![w][n] = Another(handles[w][n])]
  <1>1. /\ M \in Stores
        /\ \A v \in Workers, m \in Names :
             M[v][m] = IF v = w /\ m = n THEN e ELSE memory[v][m]
    <2> memory \in Stores
      BY DEF TypeOK
    <2> QED BY Put
  <1>a. /\ A \in Stores
        /\ \A v \in Workers, m \in Names :
             A[v][m] = IF v = w /\ m = n THEN e ELSE archive[v][m]
    <2> archive \in Stores
      BY DEF TypeOK
    <2> QED BY Put
  <1>2. Another(handles[w][n]) \in 0..2
    BY DEF Another
  <1>3. /\ H \in [Workers -> [Names -> 0..2]]
        /\ \A v \in Workers, m \in Names :
             H[v][m] = IF v = w /\ m = n THEN Another(handles[w][n]) ELSE handles[v][m]
    BY <1>2 DEF TypeOK
  <1>4. handles' = H
    BY DEF AddEntity
  <1>5. CASE "create" \in config[w]
    <2>1. memory' = memory /\ archive' = IF w \in archiving THEN A ELSE archive
      BY <1>5 DEF AddEntity
    <2> HIDE DEF M, A, H
    <2> QED BY <1>1, <1>a, <1>3, <1>4, <1>5, <2>1 DEF TypeOK
  <1>6. CASE "create" \notin config[w]
    <2>1. memory' = M /\ archive' = archive
      BY <1>6 DEF AddEntity
    <2> HIDE DEF M, A, H
    <2> QED BY <1>1, <1>a, <1>3, <1>4, <1>6, <2>1 DEF TypeOK
  <1> QED BY <1>5, <1>6

LEMMA RemoveEntityAt ==
  ASSUME TypeOK, NEW w \in Workers, NEW n \in Names, RemoveEntity(w, n)
  PROVE  /\ memory' \in Stores /\ archive' \in Stores
         /\ handles' \in [Workers -> [Names -> 0..2]]
         /\ \A v \in Workers, m \in Names :
              /\ memory'[v][m] = IF v = w /\ m = n THEN None ELSE memory[v][m]
              /\ archive'[v][m] = IF v = w /\ m = n /\ memory[w][n] = None
                                 THEN None ELSE archive[v][m]
              /\ handles'[v][m] = IF v = w /\ m = n THEN 0 ELSE handles[v][m]
  <1> DEFINE M == [memory EXCEPT ![w][n] = None]
             A == [archive EXCEPT ![w][n] = None]
             H == [handles EXCEPT ![w][n] = 0]
  <1>1. /\ M \in Stores
        /\ \A v \in Workers, m \in Names :
             M[v][m] = IF v = w /\ m = n THEN None ELSE memory[v][m]
    <2> memory \in Stores
      BY DEF TypeOK
    <2> QED BY Put
  <1>a. /\ A \in Stores
        /\ \A v \in Workers, m \in Names :
             A[v][m] = IF v = w /\ m = n THEN None ELSE archive[v][m]
    <2> archive \in Stores
      BY DEF TypeOK
    <2> QED BY Put
  <1>2. H \in [Workers -> [Names -> 0..2]]
    BY DEF TypeOK
  <1>b. \A v \in Workers, m \in Names :
          H[v][m] = IF v = w /\ m = n THEN 0 ELSE handles[v][m]
    BY DEF TypeOK
  <1>3. /\ handles' = H
        /\ IF memory[w][n] # None THEN memory' = M /\ archive' = archive
                                  ELSE memory' = memory /\ archive' = A
    BY DEF RemoveEntity
  <1> HIDE DEF M, A, H
  <1> QED BY <1>1, <1>a, <1>2, <1>b, <1>3 DEF TypeOK

LEMMA ArchiveEntitiesAt ==
  ASSUME TypeOK, NEW w \in Workers, NEW S \in SUBSET Names, ArchiveEntities(w, S)
  PROVE  /\ memory' \in Stores /\ archive' \in Stores
         /\ \A v \in Workers, m \in Names :
              /\ memory'[v][m] = IF v = w /\ m \in S THEN None ELSE memory[v][m]
              /\ archive'[v][m] = IF v = w /\ m \in S /\ w \in archiving
                                 THEN memory[w][m] ELSE archive[v][m]
  <1> DEFINE M == [n \in Names |-> IF n \in S THEN None ELSE memory[w][n]]
             A == [n \in Names |-> IF n \in S THEN memory[w][n] ELSE archive[w][n]]
  <1>1. M \in [Names -> Entity \cup {None}] /\ A \in [Names -> Entity \cup {None}]
    BY DEF TypeOK, Stores
  <1>2. memory' = [memory EXCEPT ![w] = M]
    BY DEF ArchiveEntities
  <1>3. archive' = IF w \in archiving THEN [archive EXCEPT ![w] = A] ELSE archive
    BY DEF ArchiveEntities
  <1>4. memory' \in Stores /\ archive' \in Stores
    BY <1>1, <1>2, <1>3 DEF TypeOK, Stores
  <1>5. \A v \in Workers, m \in Names :
          memory'[v][m] = IF v = w /\ m \in S THEN None ELSE memory[v][m]
    BY <1>2 DEF TypeOK, Stores
  <1>6. \A v \in Workers, m \in Names :
          archive'[v][m] = IF v = w /\ m \in S /\ w \in archiving
                           THEN memory[w][m] ELSE archive[v][m]
    BY <1>3 DEF TypeOK, Stores
  <1> QED BY <1>4, <1>5, <1>6

LEMMA EntityType ==
  \A e \in Entity : /\ [e EXCEPT !.accessed = TRUE] \in Entity
                    /\ [e EXCEPT !.moved = TRUE] \in Entity
                    /\ \A v \in Values : [e EXCEPT !.val = v] \in Entity
  BY DEF Entity

LEMMA IdleType == Idle \in Requests
  BY DEF Idle, Requests

\* A worker that takes no part in requests: it stores, archives, forgets.
LEMMA WorkerType ==
  ASSUME TypeOK, RequestInv, NEW w \in Workers, Worker(w)
  PROVE  TypeOK' /\ RequestInv'
<1> USE DEF Upset, Calm, Set
<1>1. ASSUME NEW n \in Names, SpawnEntity(w, n) PROVE TypeOK' /\ RequestInv'
  <2>1. [val |-> Default, moved |-> FALSE, accessed |-> FALSE] \in Entity
    BY DEF Entity
  <2>2. AddEntity(w, n, [val |-> Default, moved |-> FALSE, accessed |-> FALSE])
    BY <1>1 DEF SpawnEntity
  <2>3. /\ UNCHANGED <<settings, reorg, despawn>>
        /\ latest' \in [Names -> Values \cup {None}]
        /\ upset' \subseteq Names
    BY <1>1 DEF SpawnEntity, TypeOK
  <2>4. TypeOK'
    BY <2>1, <2>2, <2>3, AddEntityAt DEF TypeOK
  <2>5. \A v \in Workers, m \in Names : archive'[v][m] # None => v \in archiving
    BY <2>1, <2>2, AddEntityAt DEF RequestInv
  <2> QED BY <2>3, <2>4, <2>5 DEF RequestInv
<1>2. ASSUME NEW n \in Names, GetEntity(w, n) PROVE TypeOK' /\ RequestInv'
  <2>0. memory[w][n] \in Entity
    BY <1>2 DEF GetEntity, TypeOK, Stores
  <2>1. [memory[w][n] EXCEPT !.accessed = TRUE] \in Entity
    BY <2>0, EntityType
  <2>2. memory' = [memory EXCEPT ![w][n] = [memory[w][n] EXCEPT !.accessed = TRUE]]
    BY <1>2 DEF GetEntity
  <2>3. memory \in Stores
    BY DEF TypeOK
  <2>4. memory' \in Stores
    BY <2>1, <2>2, <2>3, Put
  <2> QED BY <1>2, <2>4 DEF GetEntity, TypeOK, RequestInv
<1>3. ASSUME RemoveAt(w) PROVE TypeOK' /\ RequestInv'
  <2> DEFINE n == despawn.name
  <2>0. n \in Names /\ despawn.left \subseteq Workers
    BY <1>3 DEF RemoveAt, TypeOK, RequestInv
  <2>1. CASE RemoveFails(w, n)
    <3>1. /\ UNCHANGED <<settings, memory, archive, reorg, latest, upset>>
          /\ despawn' = [despawn EXCEPT !.left = @ \ {w}]
          /\ handles' = [handles EXCEPT ![w][n] = 0]
      BY <1>3, <2>1 DEF RemoveAt
    <3>2. handles' \in [Workers -> [Names -> 0..2]]
      BY <3>1, <2>0 DEF TypeOK
    <3> QED BY <3>1, <3>2, <2>0 DEF TypeOK, RequestInv
  <2>2. CASE ~RemoveFails(w, n)
    <3>1. RemoveEntity(w, n) /\ despawn' = NoDespawn /\ UNCHANGED <<settings, reorg>>
      BY <1>3, <2>2 DEF RemoveAt
    <3>2. latest' \in [Names -> Values \cup {None}] /\ upset' \subseteq Names
      BY <1>3, <2>2, <2>0 DEF RemoveAt, TypeOK
    <3>3. /\ memory' \in Stores /\ archive' \in Stores
          /\ handles' \in [Workers -> [Names -> 0..2]]
          /\ \A v \in Workers, m \in Names :
               archive'[v][m] # None => archive[v][m] # None
      BY <2>0, <3>1, RemoveEntityAt
    <3> QED BY <3>1, <3>2, <3>3 DEF TypeOK, RequestInv, NoDespawn
  <2> QED BY <2>1, <2>2
<1>4. ASSUME NEW n \in Names, NEW v \in Values, SetVar(w, n, v) PROVE TypeOK' /\ RequestInv'
  <2>0. memory[w][n] \in Entity
    BY <1>4 DEF SetVar, TypeOK, Stores
  <2>1. [memory[w][n] EXCEPT !.val = v] \in Entity
    BY <2>0, EntityType
  <2>2. memory' = [memory EXCEPT ![w][n] = [memory[w][n] EXCEPT !.val = v]]
    BY <1>4 DEF SetVar
  <2>3. memory \in Stores
    BY DEF TypeOK
  <2>4. memory' \in Stores
    BY <2>1, <2>2, <2>3, Put
  <2> QED BY <1>4, <2>4 DEF SetVar, TypeOK, RequestInv
<1>5. CASE Orphaned(w) \/ Reconnected(w)
  BY <1>5 DEF Orphaned, Reconnected, TypeOK, RequestInv
<1>6. ASSUME NEW switches \in SUBSET {"create", "auto"}, PullConfig(w, switches)
      PROVE  TypeOK' /\ RequestInv'
  BY <1>6 DEF PullConfig, TypeOK, RequestInv
<1>7. ASSUME NEW S \in (SUBSET Names) \ {{}}, ArchiveEntities(w, S)
      PROVE  TypeOK' /\ RequestInv'
  <2>1. /\ memory' \in Stores /\ archive' \in Stores
        /\ \A v \in Workers, m \in Names :
             archive'[v][m] # None => archive[v][m] # None \/ v \in archiving
    BY <1>7, ArchiveEntitiesAt
  <2>4. UNCHANGED <<settings, handles, reorg, despawn>> /\ latest' = latest /\ upset' \subseteq Names
    BY <1>7 DEF ArchiveEntities, TypeOK
  <2> QED BY <2>1, <2>4 DEF TypeOK, RequestInv
<1> QED BY <1>1, <1>2, <1>3, <1>4, <1>5, <1>6, <1>7 DEF Worker

\* Enough to show of a step of the request r.
LEMMA RequestStep ==
  ASSUME TypeOK, RequestInv, NEW r \in Reorgs, NEW q \in Requests, Fits(q),
         reorg' = [reorg EXCEPT ![r] = q],
         UNCHANGED <<settings, despawn, latest>>,
         memory' \in Stores, archive' \in Stores,
         handles' \in [Workers -> [Names -> 0..2]], upset' \subseteq Names,
         \A w \in Workers, n \in Names : archive'[w][n] # None => w \in archiving
  PROVE  TypeOK' /\ RequestInv'
  <1>1. reorg' \in [Reorgs -> Requests]
    BY DEF TypeOK
  <1>2. \A p \in Reorgs : reorg'[p] = IF p = r THEN q ELSE reorg[p]
    BY DEF TypeOK
  <1>3. TypeOK'
    BY <1>1 DEF TypeOK
  <1>4. \A p \in Reorgs : Fits(reorg'[p])
    BY <1>2 DEF RequestInv
  <1> QED BY <1>3, <1>4 DEF RequestInv, Fits

\* The requests to reorganize keep their type, and name an entity while they
\* have its copy.
LEMMA MigrationType ==
  ASSUME TypeOK, RequestInv, NEW r \in Reorgs, Migration(r)
  PROVE  TypeOK' /\ RequestInv'
<1> USE DEF Upset, Calm, Abort
<1>0. reorg[r] \in Requests /\ Idle \in Requests /\ DOMAIN reorg = Reorgs
  BY IdleType DEF TypeOK
<1>a. /\ memory \in Stores /\ archive \in Stores
      /\ handles \in [Workers -> [Names -> 0..2]] /\ upset \subseteq Names
      /\ \A w \in Workers, n \in Names : archive[w][n] # None => w \in archiving
  BY DEF TypeOK, RequestInv
<1>b. Fits(Idle) /\ Fits(reorg[r])
  BY DEF Fits, Idle, RequestInv
<1>1. CASE Reorganize(r) \/ ReorganizeDone(r) \/ MigrateDone(r)
  <2>0. UNCHANGED <<settings, stores, despawn, latest, upset>>
    BY <1>1 DEF Reorganize, ReorganizeDone, MigrateDone
  <2> DEFINE q == [reorg[r] EXCEPT !.pc = "next", !.left = Workers]
             p == [reorg[r] EXCEPT !.pc = "next", !.at = None]
  <2>1. q \in Requests /\ p \in Requests
    BY <1>0 DEF Requests
  <2>2. reorg[r].pc \in {"idle", "fetch"} => Fits(q) /\ Fits(p)
    BY <1>0, <1>b DEF Fits, Requests
  <2>3. /\ Reorganize(r) => reorg' = [reorg EXCEPT ![r] = q] /\ reorg[r].pc = "idle"
        /\ ReorganizeDone(r) => reorg' = [reorg EXCEPT ![r] = Idle]
        /\ MigrateDone(r) => reorg' = [reorg EXCEPT ![r] = p] /\ reorg[r].pc = "fetch"
    BY DEF Reorganize, ReorganizeDone, MigrateDone
  <2> HIDE DEF q, p
  <2>4. \E x \in Requests : Fits(x) /\ reorg' = [reorg EXCEPT ![r] = x]
    BY <1>0, <1>1, <1>b, <2>1, <2>2, <2>3
  <2> QED BY <1>a, <2>0, <2>4, RequestStep
<1>2. CASE SendFails(r) \/ SendNowhere(r)
  <2>0. UNCHANGED <<settings, stores, despawn, latest>> /\ upset' \subseteq Names
    BY <1>2, <1>b DEF SendFails, SendNowhere, Fits, TypeOK
  <2> DEFINE q == [reorg[r] EXCEPT !.pc = "remove"]
  <2>1. q \in Requests
    BY <1>0 DEF Requests
  <2>2. reorg[r].pc = "send" => Fits(q)
    BY <1>0, <1>b DEF Fits, Requests
  <2>3. /\ SendFails(r) => reorg' = [reorg EXCEPT ![r] = Idle]
        /\ SendNowhere(r) => reorg' = [reorg EXCEPT ![r] = q] /\ reorg[r].pc = "send"
    BY DEF SendFails, SendNowhere
  <2> HIDE DEF q
  <2>4. \E x \in Requests : Fits(x) /\ reorg' = [reorg EXCEPT ![r] = x]
    BY <1>0, <1>2, <1>b, <2>1, <2>2, <2>3
  <2> QED BY <1>a, <2>0, <2>4, RequestStep
<1>3. CASE RemoveMigrated(r)
  <2> DEFINE w == reorg[r].at
             n == reorg[r].name
             q == [reorg[r] EXCEPT !.pc = "fetch", !.name = None, !.copy = None, !.dest = None]
  <2>0. /\ UNCHANGED <<settings, despawn, latest, upset>>
        /\ w \in Workers /\ n \in Names
        /\ RemoveEntity(w, n)
    BY <1>3, <1>b DEF RemoveMigrated, Fits
  <2>1. q \in Requests
    BY <1>0 DEF Requests
  <2>2. Fits(q)
    BY <1>0, <2>0 DEF Fits, Requests
  <2>3. reorg' = [reorg EXCEPT ![r] = Idle] \/ reorg' = [reorg EXCEPT ![r] = q]
    BY <1>3 DEF RemoveMigrated
  <2>4. /\ memory' \in Stores /\ archive' \in Stores
        /\ handles' \in [Workers -> [Names -> 0..2]]
        /\ \A v \in Workers, m \in Names : archive'[v][m] # None => archive[v][m] # None
    BY <2>0, RemoveEntityAt
  <2> HIDE DEF q
  <2> QED BY <1>0, <1>a, <1>b, <2>0, <2>1, <2>2, <2>3, <2>4, RequestStep
<1>4. ASSUME NEW w \in Workers, MigrateEntities(r, w) PROVE TypeOK' /\ RequestInv'
  <2>0. UNCHANGED <<settings, stores, despawn, latest, upset>> /\ reorg[r].pc = "next"
    BY <1>4 DEF MigrateEntities
  <2> DEFINE q == [reorg[r] EXCEPT !.pc = "fetch", !.left = @ \ {w}, !.at = w,
                     !.listed = {n \in Names : memory[w][n] # None},
                     !.stored = {n \in Names : archive[w][n] # None},
                     !.seen = IF w \in NetWorkers THEN @ ELSE @ \cup {w}]
  <2>1. q \in Requests
    BY <1>0 DEF Requests
  <2>2. q.pc = "fetch" /\ q.at = w /\ q.name = reorg[r].name
    BY <1>0 DEF Requests
  <2>x. Fits(q)
    <3> HIDE DEF q
    <3> QED BY <1>b, <2>0, <2>2 DEF Fits
  <2>3. reorg' = [reorg EXCEPT ![r] = q]
    BY <1>4 DEF MigrateEntities
  <2> HIDE DEF q
  <2> QED BY <1>a, <2>0, <2>1, <2>x, <2>3, RequestStep
<1>5. ASSUME NEW d \in Workers, TakeEntity(r, d) PROVE TypeOK' /\ RequestInv'
  <2> DEFINE n == reorg[r].name
             e == [reorg[r].copy EXCEPT !.moved = TRUE]
             q == [reorg[r] EXCEPT !.pc = "remove", !.dest = d,
                     !.seen = IF OverNet(reorg[r].at, d) THEN @ ELSE @ \cup {d}]
  <2>0. /\ UNCHANGED <<settings, despawn, latest>>
        /\ reorg[r].pc = "send"
        /\ n \in Names /\ reorg[r].copy \in Entity /\ reorg[r].at \in Workers
        /\ AddEntity(d, n, e)
        /\ upset' \subseteq Names
    BY <1>5, <1>b DEF TakeEntity, Fits, TypeOK
  <2>1. q \in Requests
    BY <1>0 DEF Requests
  <2>2. /\ q.pc = "remove" /\ q.at = reorg[r].at /\ q.name = n
        /\ q.copy = reorg[r].copy
    BY <1>0 DEF Requests
  <2>x. Fits(q)
    <3> HIDE DEF q
    <3> QED BY <2>0, <2>2 DEF Fits
  <2>3. reorg' = [reorg EXCEPT ![r] = Idle] \/ reorg' = [reorg EXCEPT ![r] = q]
    BY <1>5 DEF TakeEntity
  <2>4. e \in Entity
    BY <2>0, EntityType
  <2> HIDE DEF q, e
  <2>5. /\ memory' \in Stores /\ archive' \in Stores
        /\ handles' \in [Workers -> [Names -> 0..2]]
        /\ \A v \in Workers, m \in Names :
             archive'[v][m] # None => archive[v][m] # None \/ v \in archiving
    BY <2>0, <2>4, AddEntityAt
  <2> QED BY <1>0, <1>a, <1>b, <2>0, <2>1, <2>x, <2>3, <2>5, RequestStep
<1>6. ASSUME NEW n \in Names, Fetch(r, n) PROVE TypeOK' /\ RequestInv'
  <2> DEFINE w == reorg[r].at
             e == memory[w][n]
             f == [e EXCEPT !.accessed = TRUE]
             left == [reorg[r] EXCEPT !.listed = @ \ {n},
                        !.stored = IF reorg[r].listed # {} THEN @ ELSE @ \ {n}]
             q == [left EXCEPT !.pc = "send", !.name = n, !.copy = f]
  <2>0. /\ UNCHANGED <<settings, archive, handles, despawn, latest>>
        /\ reorg[r].pc = "fetch" /\ w \in Workers /\ upset' \subseteq Names
    BY <1>6, <1>b DEF Fetch, Fits, TypeOK
  <2>1. CASE e = None
    <3>1. memory' = memory /\ reorg' = [reorg EXCEPT ![r] = Idle]
      BY <1>6, <2>1 DEF Fetch
    <3> QED BY <1>0, <1>a, <1>b, <2>0, <3>1, RequestStep
  <2>2. CASE e # None
    <3>1. f \in Entity
      <4>1. e \in Entity
        BY <2>0, <2>2, <1>a DEF Stores
      <4> QED BY <4>1, EntityType
    <3>2. left \in Requests /\ q \in Requests
      BY <1>0, <3>1 DEF Requests
    <3>3. Fits(left) /\ Fits(q)
      BY <1>0, <1>b, <2>0, <3>1 DEF Fits, Requests
    <3>4. reorg' = [reorg EXCEPT ![r] = left] \/ reorg' = [reorg EXCEPT ![r] = q]
      BY <1>6, <2>2 DEF Fetch
    <3>5. memory' = [memory EXCEPT ![w][n] = f]
      BY <1>6, <2>2 DEF Fetch
    <3> HIDE DEF left, q, f
    <3>6. memory' \in Stores
      BY <1>a, <2>0, <3>1, <3>5, Put
    <3> QED BY <1>a, <2>0, <3>2, <3>3, <3>4, <3>6, RequestStep
  <2> QED BY <2>1, <2>2
<1> QED BY <1>1, <1>2, <1>3, <1>4, <1>5, <1>6 DEF Migration

LEMMA InitType == Init => TypeOK /\ RequestInv
  <1> SUFFICES ASSUME Init PROVE TypeOK /\ RequestInv
    OBVIOUS
  <1>1. archiving \subseteq Workers /\ config \in [Workers -> SUBSET {"create", "auto"}]
    BY DEF Init
  <1>2. memory \in Stores /\ archive \in Stores /\ handles \in [Workers -> [Names -> 0..2]]
    BY DEF Init, Stores
  <1>3. reorg \in [Reorgs -> Requests] /\ \A r \in Reorgs : Fits(reorg[r])
    BY IdleType DEF Init, Idle, Fits
  <1>4. /\ connected \subseteq Workers /\ upset \subseteq Names
        /\ despawn \in [name : Names \cup {None}, left : SUBSET Workers]
        /\ latest \in [Names -> Values \cup {None}]
        /\ despawn.left = {}
        /\ \A w \in Workers, n \in Names : archive[w][n] = None
    BY DEF Init, NoDespawn
  <1> QED BY <1>1, <1>2, <1>3, <1>4 DEF TypeOK, RequestInv

\* Every store, setting, request and history variable keeps its type, whatever
\* the clients, the leader and the workers do.
THEOREM TypeCorrect == Spec => [](TypeOK /\ RequestInv)
<1>2. TypeOK /\ RequestInv /\ [Next]_vars => TypeOK' /\ RequestInv'
  <2> SUFFICES ASSUME TypeOK, RequestInv, [Next]_vars PROVE TypeOK' /\ RequestInv'
    OBVIOUS
  <2>1. ASSUME NEW n \in Names, RemoveStart(n) PROVE TypeOK' /\ RequestInv'
    BY <2>1 DEF RemoveStart, Calm, TypeOK, RequestInv
  <2>2. CASE RemoveNotFound
    BY <2>2 DEF RemoveNotFound, NoDespawn, Calm, TypeOK, RequestInv
  <2>3. CASE UNCHANGED vars
    BY <2>3 DEF vars, TypeOK, RequestInv, Fits
  <2> QED BY <2>1, <2>2, <2>3, WorkerType, MigrationType DEF Next
<1> QED BY InitType, <1>2, PTL DEF Spec

-----------------------------------------------------------------------------
(* Safety of the names that are not upset                                     *)

\* Nothing happens to the name, but that its entity moves from one store of a
\* worker to the other or is marked as accessed.
LEMMA KeepsSafe ==
  ASSUME NEW n \in Names, Safe(n),
         \A w \in Workers : /\ Held(w, n)' <=> Held(w, n)
                            /\ handles'[w][n] = handles[w][n],
         OneStore(n)', Agree(n)', latest'[n] = latest[n],
         \A q \in Reorgs : IF reorg[q].name = n THEN reorg'[q] = reorg[q]
                                                ELSE reorg'[q].name # n,
         TypeOK, RequestInv
  PROVE  Safe(n)'
  <1>1. ASSUME NEW v \in Workers, NEW w \in Workers, v # w, Held(v, n)', Held(w, n)'
        PROVE  \E r \in Reorgs : /\ reorg'[r].pc = "remove" /\ reorg'[r].name = n
                                 /\ {reorg'[r].at, reorg'[r].dest} = {v, w}
    <2>1. Held(v, n) /\ Held(w, n)
      BY <1>1
    <2>2. PICK r \in Reorgs : /\ reorg[r].pc = "remove" /\ reorg[r].name = n
                             /\ {reorg[r].at, reorg[r].dest} = {v, w}
      BY <2>1, <1>1 DEF Safe, TwoHomes
    <2>3. reorg'[r] = reorg[r]
      BY <2>2
    <2> QED BY <2>2, <2>3
  <1>t. TwoHomes(n)'
    BY <1>1 DEF TwoHomes
  <1>2. Follow(n)' /\ Kept(n)'
    BY DEF Safe, Follow, Kept, Held
  <1>3. ASSUME NEW r \in Reorgs, reorg'[r].name = n PROVE Spoken(n, r)'
    <2>1. reorg[r].name = n /\ reorg'[r] = reorg[r]
      BY <1>3
    <2>2. Spoken(n, r)
      BY <2>1 DEF Safe
    <2>3. reorg[r].pc \in {"send", "remove"} => reorg[r].at \in Workers
      BY DEF RequestInv, Fits
    <2> QED BY <2>1, <2>2, <2>3 DEF Spoken, Held, RequestInv, Fits
  <1> QED BY <1>t, <1>2, <1>3 DEF Safe

\* Nothing at all happens to the name.
LEMMA Untouched ==
  ASSUME NEW n \in Names, Safe(n), TypeOK, RequestInv,
         \A w \in Workers : /\ memory'[w][n] = memory[w][n]
                            /\ archive'[w][n] = archive[w][n]
                            /\ handles'[w][n] = handles[w][n],
         latest'[n] = latest[n],
         \A q \in Reorgs : IF reorg[q].name = n THEN reorg'[q] = reorg[q]
                                                ELSE reorg'[q].name # n
  PROVE  Safe(n)'
  <1>1. OneStore(n)' /\ Agree(n)'
    BY DEF Safe, OneStore, Agree
  <1>2. \A w \in Workers : Held(w, n)' <=> Held(w, n)
    BY DEF Held
  <1> QED BY <1>1, <1>2, KeepsSafe

\* A name no request has the copy of is held by one worker at most.
LEMMA AloneAtRest ==
  ASSUME NEW n \in Names, Safe(n), ~InFlight(n)
  PROVE  \A v, w \in Workers : Held(v, n) /\ Held(w, n) => v = w
  BY DEF Safe, TwoHomes, InFlight

\* So is one whose copy has not arrived: by the worker it was taken from.
LEMMA AloneWhileSent ==
  ASSUME NEW n \in Names, Safe(n), NEW r \in Reorgs,
         reorg[r].name = n, reorg[r].pc = "send", reorg[r].at \in Workers
  PROVE  /\ Held(reorg[r].at, n)
         /\ \A w \in Workers : Held(w, n) => w = reorg[r].at
  BY DEF Safe, TwoHomes, Spoken

\* A step of the request r changes no other.
LEMMA RequestAt ==
  ASSUME TypeOK, NEW r \in Reorgs, NEW q, reorg' = [reorg EXCEPT ![r] = q]
  PROVE  reorg'[r] = q /\ \A p \in Reorgs \ {r} : reorg'[p] = reorg[p]
  BY DEF TypeOK

-----------------------------------------------------------------------------
(* The actions of a worker                                                    *)

LEMMA SpawnSafe ==
  ASSUME TypeOK, RequestInv, NEW n \in Names \ upset', Safe(n),
         NEW w \in Workers, NEW m \in Names, SpawnEntity(w, m)
  PROVE  Safe(n)'
  <1> DEFINE e == [val |-> Default, moved |-> FALSE, accessed |-> FALSE]
  <1>0. e \in Entity /\ e.val = Default /\ e # None
    <2>1. e \in Entity /\ e.val = Default
      BY DEF Entity
    <2> QED BY <2>1
  <1> HIDE DEF e
  <1>1. AddEntity(w, m, e) /\ reorg' = reorg
    BY DEF SpawnEntity, e
  <1>2. \A v \in Workers, k \in Names :
          /\ memory'[v][k] = IF v = w /\ k = m /\ "create" \notin config[w]
                            THEN e ELSE memory[v][k]
          /\ archive'[v][k] = IF /\ v = w /\ k = m
                                /\ "create" \in config[w] /\ w \in archiving
                             THEN e ELSE archive[v][k]
          /\ handles'[v][k] = IF v = w /\ k = m THEN Another(handles[w][m])
                             ELSE handles[v][k]
    BY <1>0, <1>1, AddEntityAt
  <1>3. CASE m # n
    <2>1. latest'[n] = latest[n]
      BY <1>3 DEF SpawnEntity, Upset, Set, TypeOK
    <2> QED BY <1>1, <1>2, <1>3, <2>1, Untouched
  <1>4. CASE m = n
    <2>1. /\ ~AddFails(w) /\ ~InFlight(n) /\ \A v \in Workers : ~Held(v, n)
          /\ latest' = [latest EXCEPT ![n] = Default]
      BY <1>4 DEF SpawnEntity, Upset, Set
    <2>2. /\ latest'[n] = Default
          /\ handles[w][n] = 0
          /\ \A v \in Workers : memory[v][n] = None /\ archive[v][n] = None
      BY <2>1 DEF TypeOK, Safe, Follow, Held
    <2>3. \A v \in Workers : Held(v, n)' <=> v = w
      <3>1. "create" \in config[w] => w \in archiving
        BY <2>1 DEF AddFails
      <3>2. memory'[w][n] # None \/ archive'[w][n] # None
        BY <1>0, <1>2, <1>4, <3>1
      <3>3. \A v \in Workers : v # w => memory'[v][n] = None /\ archive'[v][n] = None
        BY <1>2, <2>2
      <3> QED BY <3>2, <3>3 DEF Held
    <2>4. OneStore(n)' /\ Agree(n)'
      BY <1>0, <1>2, <1>4, <2>2 DEF OneStore, Agree
    <2>5. TwoHomes(n)' /\ Kept(n)'
      BY <2>3 DEF TwoHomes, Kept, Held
    <2>6. Follow(n)'
      <3>1. \A v \in Workers : v # w => handles[v][n] = 0
        BY <2>1 DEF Safe, Follow
      <3> QED BY <1>2, <1>4, <2>2, <2>3, <3>1 DEF Follow, Another, Held
    <2>7. \A q \in Reorgs : reorg'[q].name # n
      BY <1>1, <2>1 DEF InFlight
    <2> QED BY <2>4, <2>5, <2>6, <2>7 DEF Safe
  <1> QED BY <1>3, <1>4

LEMMA GetSafe ==
  ASSUME TypeOK, RequestInv, NEW n \in Names \ upset', Safe(n),
         NEW w \in Workers, NEW m \in Names, GetEntity(w, m)
  PROVE  Safe(n)'
  <1>1. UNCHANGED <<archive, handles, reorg, latest>>
    BY DEF GetEntity, Calm
  <1>2. \A v \in Workers : /\ memory'[v][n] = None <=> memory[v][n] = None
                           /\ memory'[v][n] # None => memory'[v][n].val = memory[v][n].val
    <2>1. /\ memory[w][m] \in Entity
          /\ memory' = [memory EXCEPT ![w][m] = [memory[w][m] EXCEPT !.accessed = TRUE]]
      BY DEF GetEntity, TypeOK, Stores
    <2>2. /\ [memory[w][m] EXCEPT !.accessed = TRUE] \in Entity
          /\ [memory[w][m] EXCEPT !.accessed = TRUE].val = memory[w][m].val
      BY <2>1, EntityType DEF Entity
    <2> DEFINE e == [memory[w][m] EXCEPT !.accessed = TRUE]
    <2> HIDE DEF e
    <2>3. \A v \in Workers, k \in Names :
            memory'[v][k] = IF v = w /\ k = m THEN e ELSE memory[v][k]
      <3>1. memory \in Stores
        BY DEF TypeOK
      <3>2. e \in Entity \cup {None} /\ memory' = [memory EXCEPT ![w][m] = e]
        BY <2>1, <2>2 DEF e
      <3> QED BY <3>1, <3>2, Put
    <2>4. e.val = memory[w][m].val /\ e # None /\ memory[w][m] # None
      BY <2>1, <2>2 DEF e
    <2> QED BY <2>3, <2>4
  <1>3. \A v \in Workers : Held(v, n)' <=> Held(v, n)
    BY <1>1, <1>2 DEF Held
  <1>4. OneStore(n)' /\ Agree(n)'
    BY <1>1, <1>2 DEF Safe, OneStore, Agree
  <1> QED BY <1>1, <1>3, <1>4, KeepsSafe

LEMMA SetVarSafe ==
  ASSUME TypeOK, RequestInv, NEW n \in Names \ upset', Safe(n),
         NEW w \in Workers, NEW m \in Names, NEW x \in Values, SetVar(w, m, x)
  PROVE  Safe(n)'
  <1> DEFINE e == [memory[w][m] EXCEPT !.val = x]
  <1>0. /\ memory[w][m] \in Entity /\ memory[w][m] # None
        /\ memory' = [memory EXCEPT ![w][m] = e]
        /\ UNCHANGED <<archive, handles, reorg>>
    BY DEF SetVar, TypeOK, Stores
  <1>1. e \in Entity /\ e # None /\ e.val = x
    BY <1>0, EntityType DEF Entity
  <1> HIDE DEF e
  <1>2. \A v \in Workers, k \in Names :
          memory'[v][k] = IF v = w /\ k = m THEN e ELSE memory[v][k]
    <2>1. memory \in Stores
      BY DEF TypeOK
    <2> QED BY <1>0, <1>1, <2>1, Put
  <1>3. CASE m # n
    <2>1. latest'[n] = latest[n]
      BY <1>3 DEF SetVar, Upset, Set, TypeOK
    <2> QED BY <1>0, <1>2, <1>3, <2>1, Untouched
  <1>4. CASE m = n
    <2>1. ~InFlight(n) /\ latest'[n] = x
      BY <1>4 DEF SetVar, Upset, Set, TypeOK
    <2>2. \A v \in Workers : Held(v, n) => v = w
      BY <1>0, <1>4, <2>1, AloneAtRest DEF Held
    <2>3. \A v \in Workers : Held(v, n)' <=> Held(v, n)
      BY <1>0, <1>1, <1>2, <1>4 DEF Held
    <2>4. OneStore(n)' /\ Agree(n)'
      BY <1>0, <1>1, <1>2, <1>4, <2>1, <2>2 DEF Safe, OneStore, Agree, Held
    <2>5. TwoHomes(n)' /\ Follow(n)'
      BY <1>0, <2>2, <2>3 DEF Safe, TwoHomes, Follow, Held
    <2>6. Kept(n)'
      <3>1. Held(w, n)'
        BY <1>0, <1>4, <2>3 DEF Held
      <3> QED BY <3>1 DEF Kept, Held
    <2>7. \A q \in Reorgs : reorg'[q].name # n
      BY <1>0, <2>1 DEF InFlight
    <2> QED BY <2>4, <2>5, <2>6, <2>7 DEF Safe
  <1> QED BY <1>3, <1>4

LEMMA RemoveSafe ==
  ASSUME TypeOK, RequestInv, NEW n \in Names \ upset', Safe(n),
         NEW w \in Workers, RemoveAt(w)
  PROVE  Safe(n)'
  <1> DEFINE m == despawn.name
  <1>0. m \in Names /\ reorg' = reorg
    BY DEF RemoveAt, RequestInv
  <1>1. CASE RemoveFails(w, m)
    <2>1. /\ UNCHANGED <<memory, archive, latest>>
          /\ handles' = [handles EXCEPT ![w][m] = 0]
      BY <1>1 DEF RemoveAt, Calm
    <2>2. m = n => handles[w][n] = 0
      BY <1>1 DEF RemoveFails, Safe, Follow, Held, RequestInv
    <2>3. \A v \in Workers : handles'[v][n] = handles[v][n]
      BY <1>0, <2>1, <2>2 DEF TypeOK
    <2> QED BY <1>0, <2>1, <2>3, Untouched
  <1>2. CASE ~RemoveFails(w, m)
    <2>1. /\ RemoveEntity(w, m)
          /\ IF InFlight(m) THEN upset' = upset \cup {m} /\ latest' = latest
             ELSE latest' = IF Held(w, m) THEN [latest EXCEPT ![m] = None] ELSE latest
      BY <1>2 DEF RemoveAt, Upset, Set, Calm
    <2>2. \A v \in Workers, k \in Names :
            /\ memory'[v][k] = IF v = w /\ k = m THEN None ELSE memory[v][k]
            /\ archive'[v][k] = IF v = w /\ k = m /\ memory[w][m] = None
                               THEN None ELSE archive[v][k]
            /\ handles'[v][k] = IF v = w /\ k = m THEN 0 ELSE handles[v][k]
      BY <1>0, <2>1, RemoveEntityAt
    <2> HIDE DEF m
    <2>3. CASE m # n
      <3>1. latest'[n] = latest[n]
        BY <2>1, <2>3 DEF TypeOK
      <3> QED BY <1>0, <2>2, <2>3, <3>1, Untouched
    <2>4. CASE m = n /\ ~Held(w, n)
      <3>1. latest' = latest /\ handles[w][n] = 0
        BY <2>1, <2>4 DEF Safe, Follow
      <3>2. memory[w][n] = None /\ archive[w][n] = None
        BY <2>4 DEF Held
      <3> QED BY <1>0, <2>2, <2>4, <3>1, <3>2, Untouched
    <2>5. CASE m = n /\ Held(w, n)
      <3>1. ~InFlight(n) /\ latest'[n] = None
        BY <1>0, <2>1, <2>5 DEF TypeOK
      <3>2. \A v \in Workers : Held(v, n) => v = w
        BY <2>5, <3>1, AloneAtRest
      <3>3. \A v \in Workers : memory'[v][n] = None /\ archive'[v][n] = None
        BY <1>0, <2>2, <2>5, <3>2 DEF Held, Safe, OneStore
      <3>4. \A v \in Workers : handles'[v][n] = 0
        BY <1>0, <2>2, <2>5, <3>2 DEF Safe, Follow
      <3>5. \A q \in Reorgs : reorg'[q].name # n
        BY <1>0, <3>1 DEF InFlight
      <3> QED BY <3>1, <3>3, <3>4, <3>5
              DEF Safe, OneStore, Agree, TwoHomes, Follow, Kept, Held
    <2> QED BY <2>3, <2>4, <2>5
  <1> QED BY <1>1, <1>2

LEMMA ArchiveSafe ==
  ASSUME TypeOK, RequestInv, NEW n \in Names \ upset', Safe(n),
         NEW w \in Workers, NEW S \in SUBSET Names, ArchiveEntities(w, S)
  PROVE  Safe(n)'
  <1>1. UNCHANGED <<handles, reorg, latest>>
    BY DEF ArchiveEntities, Upset, Calm
  <1>2. \A v \in Workers, k \in Names :
          /\ memory'[v][k] = IF v = w /\ k \in S THEN None ELSE memory[v][k]
          /\ archive'[v][k] = IF v = w /\ k \in S /\ w \in archiving
                             THEN memory[w][k] ELSE archive[v][k]
    BY ArchiveEntitiesAt
  <1>3. CASE n \notin S
    BY <1>1, <1>2, <1>3, Untouched
  <1>4. CASE n \in S
    <2>1. memory[w][n] # None
      BY <1>4 DEF ArchiveEntities
    <2>2. w \in archiving
      BY <1>4 DEF ArchiveEntities, Upset
    <2>3. \A v \in Workers : Held(v, n)' <=> Held(v, n)
      BY <1>2, <1>4, <2>1, <2>2 DEF Held
    <2>4. OneStore(n)' /\ Agree(n)'
      BY <1>1, <1>2, <1>4, <2>1, <2>2 DEF Safe, OneStore, Agree
    <2> QED BY <1>1, <2>3, <2>4, KeepsSafe
  <1> QED BY <1>3, <1>4

-----------------------------------------------------------------------------
(* The actions of a migration                                                 *)

\* The request has no copy, before and after.
LEMMA BetweenSafe ==
  ASSUME TypeOK, RequestInv, NEW n \in Names \ upset', Safe(n), NEW r \in Reorgs,
         \/ Reorganize(r) \/ ReorganizeDone(r) \/ MigrateDone(r)
         \/ \E w \in Workers : MigrateEntities(r, w)
  PROVE  Safe(n)'
  <1>1. UNCHANGED <<memory, archive, handles, latest>>
    BY DEF Reorganize, ReorganizeDone, MigrateDone, MigrateEntities, Calm
  <1>2. reorg[r].name = None
    BY DEF Reorganize, ReorganizeDone, MigrateDone, MigrateEntities, RequestInv, Fits
  <1>3. /\ reorg'[r].name = None
        /\ \A q \in Reorgs \ {r} : reorg'[q] = reorg[q]
    <2>0. reorg[r] \in Requests /\ Idle.name = None
      BY DEF TypeOK, Idle
    <2> DEFINE Q == {q \in Requests : q.name = None}
    <2>1. /\ Idle \in Q
          /\ [reorg[r] EXCEPT !.pc = "next", !.left = Workers] \in Q
          /\ [reorg[r] EXCEPT !.pc = "next", !.at = None] \in Q
      BY <1>2, <2>0, IdleType DEF Requests
    <2>2. CASE Reorganize(r) \/ ReorganizeDone(r) \/ MigrateDone(r)
      <3>1. /\ Reorganize(r) => reorg' = [reorg EXCEPT ![r] =
                  [reorg[r] EXCEPT !.pc = "next", !.left = Workers]]
            /\ ReorganizeDone(r) => reorg' = [reorg EXCEPT ![r] = Idle]
            /\ MigrateDone(r) => reorg' = [reorg EXCEPT ![r] =
                  [reorg[r] EXCEPT !.pc = "next", !.at = None]]
        BY DEF Reorganize, ReorganizeDone, MigrateDone, Abort
      <3>2. PICK q \in Q : reorg' = [reorg EXCEPT ![r] = q]
        BY <2>1, <2>2, <3>1
      <3> QED BY <3>2, RequestAt
    <2>3. ASSUME NEW w \in Workers, MigrateEntities(r, w)
          PROVE  /\ reorg'[r].name = None
                 /\ \A q \in Reorgs \ {r} : reorg'[q] = reorg[q]
      <3> DEFINE q == [reorg[r] EXCEPT !.pc = "fetch", !.left = @ \ {w}, !.at = w,
                    !.listed = {k \in Names : memory[w][k] # None},
                    !.stored = {k \in Names : archive[w][k] # None},
                    !.seen = IF w \in NetWorkers THEN @ ELSE @ \cup {w}]
      <3>1. q.name = None
        BY <1>2, <2>0 DEF Requests
      <3>2. reorg' = [reorg EXCEPT ![r] = q]
        BY <2>3 DEF MigrateEntities
      <3> HIDE DEF q
      <3> QED BY <3>1, <3>2, RequestAt
    <2> QED BY <2>2, <2>3
  <1> QED BY <1>1, <1>2, <1>3, Untouched

\* The copy is not sent: the original stays.
LEMMA SendFailsSafe ==
  ASSUME TypeOK, RequestInv, NEW n \in Names \ upset', Safe(n), NEW r \in Reorgs,
         SendFails(r)
  PROVE  Safe(n)'
  <1>1. /\ UNCHANGED <<memory, archive, handles, latest>> /\ reorg[r].pc = "send"
        /\ reorg' = [reorg EXCEPT ![r] = Idle]
    BY DEF SendFails, Abort, Calm
  <1>2. /\ reorg'[r].name = None
        /\ \A q \in Reorgs \ {r} : reorg'[q] = reorg[q]
    BY <1>1 DEF Idle, TypeOK
  <1>3. CASE reorg[r].name # n
    BY <1>1, <1>2, <1>3, Untouched
  <1>4. CASE reorg[r].name = n
    <2>1. \A q \in Reorgs : reorg'[q].name # n
      BY <1>2, <1>4 DEF Safe, Spoken
    <2>2. reorg[r].at \in Workers
      BY <1>1 DEF RequestInv, Fits
    <2>3. \A v \in Workers : Held(v, n) => v = reorg[r].at
      BY <1>1, <1>4, <2>2, AloneWhileSent
    <2> QED BY <1>1, <2>1, <2>3
            DEF Safe, OneStore, Agree, TwoHomes, Follow, Kept, Held
  <1> QED BY <1>3, <1>4

LEMMA SendNowhereSafe ==
  ASSUME TypeOK, RequestInv, NEW n \in Names \ upset', Safe(n), NEW r \in Reorgs,
         SendNowhere(r)
  PROVE  Safe(n)'
  <1>1. /\ UNCHANGED <<memory, archive, handles, latest>> /\ reorg[r].name # n
        /\ reorg'[r].name = reorg[r].name
        /\ \A q \in Reorgs \ {r} : reorg'[q] = reorg[q]
    BY DEF SendNowhere, Upset, TypeOK, Requests
  <1> QED BY <1>1, Untouched

\* The original goes when the copy has arrived.
LEMMA RemoveMigratedSafe ==
  ASSUME TypeOK, RequestInv, NEW n \in Names \ upset', Safe(n), NEW r \in Reorgs,
         RemoveMigrated(r)
  PROVE  Safe(n)'
  <1> DEFINE w == reorg[r].at
             m == reorg[r].name
             d == reorg[r].dest
  <1>1. /\ w \in Workers /\ m \in Names /\ reorg[r].pc = "remove"
        /\ RemoveEntity(w, m) /\ latest' = latest
    BY DEF RemoveMigrated, RequestInv, Fits, Calm
  <1>2. \A v \in Workers, k \in Names :
          /\ memory'[v][k] = IF v = w /\ k = m THEN None ELSE memory[v][k]
          /\ archive'[v][k] = IF v = w /\ k = m /\ memory[w][m] = None
                             THEN None ELSE archive[v][k]
          /\ handles'[v][k] = IF v = w /\ k = m THEN 0 ELSE handles[v][k]
    BY <1>1, RemoveEntityAt
  <1>3. /\ reorg'[r].name = None
        /\ \A q \in Reorgs \ {r} : reorg'[q] = reorg[q]
    <2> DEFINE q == [reorg[r] EXCEPT !.pc = "fetch", !.name = None,
                       !.copy = None, !.dest = None]
    <2>0. Idle.name = None /\ q.name = None
      BY DEF TypeOK, Idle, Requests
    <2>1. reorg' = [reorg EXCEPT ![r] = Idle] \/ reorg' = [reorg EXCEPT ![r] = q]
      BY DEF RemoveMigrated, Abort
    <2> HIDE DEF q
    <2> QED BY <2>0, <2>1, RequestAt
  <1> HIDE DEF m, w, d
  <1>4. CASE m # n
    BY <1>1, <1>2, <1>3, <1>4, Untouched DEF m
  <1>5. CASE m = n
    <2>1. /\ \A q \in Reorgs : reorg[q].name = n => q = r
          /\ d \in Workers /\ d # w /\ Held(d, n) /\ Held(w, n)
      BY <1>1, <1>5 DEF Safe, Spoken, m, w, d
    <2>2. \A v \in Workers : Held(v, n) => v \in {w, d}
      <3> SUFFICES ASSUME NEW v \in Workers, Held(v, n), v # w PROVE v = d
        OBVIOUS
      <3>1. \E q \in Reorgs : /\ reorg[q].name = n
                             /\ {reorg[q].at, reorg[q].dest} = {v, w}
        BY <1>1, <2>1 DEF Safe, TwoHomes
      <3>2. {w, d} = {v, w}
        BY <2>1, <3>1 DEF w, d
      <3> QED BY <3>2
    <2>3. \A v \in Workers : Held(v, n)' <=> v = d
      <3>1. memory'[w][n] = None /\ archive'[w][n] = None
        BY <1>1, <1>2, <1>5 DEF Safe, OneStore
      <3>2. \A v \in Workers \ {w} : /\ memory'[v][n] = memory[v][n]
                                    /\ archive'[v][n] = archive[v][n]
        BY <1>2
      <3> QED BY <2>1, <2>2, <3>1, <3>2 DEF Held
    <2>4. OneStore(n)' /\ Agree(n)'
      BY <1>1, <1>2, <1>5 DEF Safe, OneStore, Agree
    <2>5. TwoHomes(n)' /\ Kept(n)'
      BY <2>1, <2>3 DEF TwoHomes, Kept, Held
    <2>6. Follow(n)'
      BY <1>1, <1>2, <1>5, <2>1, <2>2, <2>3 DEF Safe, Follow, Held
    <2>7. \A q \in Reorgs : reorg'[q].name # n
      BY <1>3, <2>1
    <2> QED BY <2>4, <2>5, <2>6, <2>7 DEF Safe
  <1> QED BY <1>4, <1>5

\* The copy arrives at a worker that did not hold the entity.
LEMMA TakeEntitySafe ==
  ASSUME TypeOK, RequestInv, NEW n \in Names \ upset', Safe(n), NEW r \in Reorgs,
         NEW d \in Workers, TakeEntity(r, d)
  PROVE  Safe(n)'
  <1> DEFINE w == reorg[r].at
             m == reorg[r].name
             e == [reorg[r].copy EXCEPT !.moved = TRUE]
  <1>1. /\ w \in Workers /\ m \in Names /\ reorg[r].copy \in Entity
        /\ reorg[r].pc = "send" /\ AddEntity(d, m, e) /\ latest' = latest
    BY DEF TakeEntity, RequestInv, Fits, Upset, Calm
  <1>2. e \in Entity /\ e # None /\ e.val = reorg[r].copy.val
    <2>1. e \in Entity /\ e.val = reorg[r].copy.val
      BY <1>1, EntityType DEF Entity
    <2> QED BY <2>1
  <1> HIDE DEF e
  <1>3. \A v \in Workers, k \in Names :
          /\ memory'[v][k] = IF v = d /\ k = m /\ "create" \notin config[d]
                            THEN e ELSE memory[v][k]
          /\ archive'[v][k] = IF /\ v = d /\ k = m
                                /\ "create" \in config[d] /\ d \in archiving
                             THEN e ELSE archive[v][k]
          /\ handles'[v][k] = IF v = d /\ k = m THEN Another(handles[d][m])
                             ELSE handles[v][k]
    BY <1>1, <1>2, AddEntityAt
  <1>4. /\ reorg[r] \in Requests /\ DOMAIN reorg = Reorgs /\ Idle.name = None
    BY DEF TypeOK, Idle
  <1>5. CASE m # n
    <2>1. /\ reorg'[r].name \in {m, None}
          /\ \A q \in Reorgs \ {r} : reorg'[q] = reorg[q]
      <3> DEFINE q == [reorg[r] EXCEPT !.pc = "remove", !.dest = d,
                         !.seen = IF OverNet(reorg[r].at, d) THEN @ ELSE @ \cup {d}]
      <3>1. q.name = m
        BY <1>4 DEF Requests
      <3>2. reorg' = [reorg EXCEPT ![r] = Idle] \/ reorg' = [reorg EXCEPT ![r] = q]
        BY DEF TakeEntity, Abort
      <3> HIDE DEF q
      <3> QED BY <1>4, <3>1, <3>2, RequestAt
    <2> QED BY <1>1, <1>3, <1>5, <2>1, Untouched
  <1>6. CASE m = n
    <2>1. /\ d # w /\ ~AddFails(d)
          /\ reorg' = [reorg EXCEPT ![r] =
               [reorg[r] EXCEPT !.pc = "remove", !.dest = d,
                  !.seen = IF OverNet(reorg[r].at, d) THEN @ ELSE @ \cup {d}]]
      BY <1>6 DEF TakeEntity, Upset
    <2>2. /\ reorg'[r].pc = "remove" /\ reorg'[r].dest = d
          /\ reorg'[r].at = w /\ reorg'[r].name = n
          /\ \A q \in Reorgs \ {r} : reorg'[q] = reorg[q]
      BY <1>4, <1>6, <2>1 DEF Requests
    <2> HIDE DEF m, w
    <2>3. /\ Held(w, n) /\ \A v \in Workers : Held(v, n) => v = w
      BY <1>1, <1>6, AloneWhileSent DEF w, m
    <2>4. /\ \A q \in Reorgs : reorg[q].name = n => q = r
          /\ e.val = latest[n]
      BY <1>1, <1>2, <1>6 DEF Safe, Spoken, m
    <2>5. /\ memory[d][n] = None /\ archive[d][n] = None /\ handles[d][n] = 0
      BY <2>1, <2>3 DEF Held, Safe, Follow
    <2>6. \A v \in Workers : Held(v, n)' <=> v \in {w, d}
      <3>1. "create" \in config[d] => d \in archiving
        BY <2>1 DEF AddFails
      <3>2. memory'[d][n] # None \/ archive'[d][n] # None
        BY <1>2, <1>3, <1>6, <3>1
      <3>3. \A v \in Workers \ {d} : /\ memory'[v][n] = memory[v][n]
                                    /\ archive'[v][n] = archive[v][n]
        BY <1>3
      <3> QED BY <1>1, <2>1, <2>3, <3>2, <3>3 DEF Held
    <2>7. OneStore(n)' /\ Agree(n)'
      BY <1>1, <1>2, <1>3, <1>6, <2>4, <2>5 DEF Safe, OneStore, Agree
    <2>8. TwoHomes(n)'
      BY <2>2, <2>6 DEF TwoHomes, Held
    <2>9. Follow(n)' /\ Kept(n)'
      <3>1. \A v \in Workers : handles'[v][n] = IF v \in {w, d} THEN 1 ELSE 0
        BY <1>3, <1>6, <2>3, <2>5 DEF Safe, Follow, Another
      <3> QED BY <1>1, <2>6, <3>1 DEF Follow, Kept, Held
    <2>10. \A q \in Reorgs : reorg'[q].name = n => Spoken(n, q)'
      BY <1>1, <2>1, <2>2, <2>4, <2>6 DEF Spoken, Held
    <2> QED BY <2>7, <2>8, <2>9, <2>10 DEF Safe
  <1> QED BY <1>5, <1>6

\* The copy is taken of an entity that no request has a copy of.
LEMMA FetchSafe ==
  ASSUME TypeOK, RequestInv, NEW n \in Names \ upset', Safe(n), NEW r \in Reorgs,
         NEW m \in Names, Fetch(r, m)
  PROVE  Safe(n)'
  <1> DEFINE w == reorg[r].at
             e == memory[w][m]
             f == [e EXCEPT !.accessed = TRUE]
             left == [reorg[r] EXCEPT !.listed = @ \ {m},
                        !.stored = IF reorg[r].listed # {} THEN @ ELSE @ \ {m}]
             q == [left EXCEPT !.pc = "send", !.name = m, !.copy = f]
  <1>0. /\ w \in Workers /\ UNCHANGED <<archive, handles, latest>>
        /\ reorg[r].name = None /\ reorg[r] \in Requests
        /\ Idle.name = None
    BY DEF Fetch, RequestInv, Fits, Upset, Calm, TypeOK, Idle
  <1>1. CASE e = None
    <2>1. memory' = memory /\ reorg' = [reorg EXCEPT ![r] = Idle]
      BY <1>1 DEF Fetch, Abort
    <2> QED BY <1>0, <2>1, RequestAt, Untouched
  <1>2. CASE e # None
    <2>1. e \in Entity
      BY <1>0, <1>2 DEF TypeOK, Stores
    <2>2. f \in Entity /\ f # None /\ f.val = e.val
      <3>1. f \in Entity /\ f.val = e.val
        BY <2>1, EntityType DEF Entity
      <3> QED BY <3>1
    <2>3. /\ left.name = None /\ q.name = m /\ q.at = w
          /\ q.pc = "send" /\ q.copy = f
      BY <1>0 DEF Requests
    <2>4. memory' = [memory EXCEPT ![w][m] = f]
      BY <1>2 DEF Fetch
    <2>5. \/ reorg' = [reorg EXCEPT ![r] = left]
          \/ /\ reorg' = [reorg EXCEPT ![r] = q]
             /\ m = n => ~InFlight(n)
      BY <1>2 DEF Fetch, Upset
    <2> HIDE DEF left, q, f
    <2>6. \A v \in Workers, k \in Names :
            memory'[v][k] = IF v = w /\ k = m THEN f ELSE memory[v][k]
      <3>1. memory \in Stores
        BY DEF TypeOK
      <3> QED BY <1>0, <2>2, <2>4, <3>1, Put
    <2>7. \A v \in Workers : Held(v, n)' <=> Held(v, n)
      BY <1>0, <1>2, <2>2, <2>6 DEF Held
    <2>8. OneStore(n)' /\ Agree(n)'
      BY <1>0, <1>2, <2>2, <2>6 DEF Safe, OneStore, Agree
    <2>9. CASE reorg' = [reorg EXCEPT ![r] = left] \/ m # n
      <3>1. /\ reorg'[r].name # n
            /\ \A p \in Reorgs \ {r} : reorg'[p] = reorg[p]
        BY <1>0, <2>3, <2>5, <2>9, RequestAt
      <3> QED BY <1>0, <2>7, <2>8, <3>1, KeepsSafe
    <2>10. CASE reorg' = [reorg EXCEPT ![r] = q] /\ m = n /\ ~InFlight(n)
      <3>1. /\ reorg'[r] = q
            /\ \A p \in Reorgs \ {r} : reorg'[p] = reorg[p]
        BY <2>10, RequestAt
      <3>2. \A p \in Reorgs : reorg'[p].name = n => p = r
        BY <2>10, <3>1 DEF InFlight
      <3>3. (memory'[w][n] # None \/ archive'[w][n] # None) /\ f.val = latest'[n]
        <4>1. e.val = latest[n]
          BY <1>0, <1>2, <2>10 DEF Safe, Agree
        <4> QED BY <1>0, <2>2, <2>6, <2>10, <4>1
      <3>4. Spoken(n, r)'
        BY <2>3, <3>1, <3>2, <3>3 DEF Spoken, Held
      <3>5. TwoHomes(n)'
        BY <2>7, <2>10, AloneAtRest DEF TwoHomes, Held
      <3>6. Follow(n)' /\ Kept(n)'
        BY <1>0, <2>7 DEF Safe, Follow, Kept, Held
      <3> QED BY <2>8, <3>2, <3>4, <3>5, <3>6 DEF Safe
    <2> QED BY <2>5, <2>9, <2>10
  <1> QED BY <1>1, <1>2

-----------------------------------------------------------------------------
(* The theorems                                                               *)

LEMMA SafeStep ==
  TypeOK /\ EntitiesInv /\ [Next]_vars => \A n \in Names \ upset' : Safe(n)'
<1> SUFFICES ASSUME TypeOK, EntitiesInv, [Next]_vars, NEW n \in Names \ upset'
             PROVE  Safe(n)'
  OBVIOUS
<1>0. RequestInv
  BY DEF EntitiesInv
<1>1. ASSUME UNCHANGED <<memory, archive, handles, reorg, latest, upset>>
      PROVE  Safe(n)'
  <2>1. Safe(n)
    BY <1>1 DEF EntitiesInv
  <2> QED BY <1>0, <1>1, <2>1, Untouched
<1>2. CASE UNCHANGED vars
  BY <1>1, <1>2 DEF vars
<1>3. ASSUME NEW m \in Names, RemoveStart(m) PROVE Safe(n)'
  BY <1>1, <1>3 DEF RemoveStart, Calm
<1>4. CASE RemoveNotFound
  BY <1>1, <1>4 DEF RemoveNotFound, Calm
<1>5. ASSUME NEW w \in Workers, Worker(w) PROVE Safe(n)'
  <2>1. CASE Orphaned(w) \/ Reconnected(w) \/ \E x \in SUBSET {"create", "auto"} : PullConfig(w, x)
    BY <1>1, <2>1 DEF Orphaned, Reconnected, PullConfig, Calm
  <2>2. CASE \/ \E m \in Names : SpawnEntity(w, m) \/ GetEntity(w, m) \/ RemoveAt(w)
             \/ \E m \in Names, v \in Values : SetVar(w, m, v)
             \/ \E S \in (SUBSET Names) \ {{}} : ArchiveEntities(w, S)
    <3>1. upset \subseteq upset'
      BY <2>2 DEF SpawnEntity, GetEntity, RemoveAt, SetVar, ArchiveEntities, Upset, Set, Calm
    <3>2. Safe(n)
      BY <3>1 DEF EntitiesInv
    <3> QED BY <1>0, <2>2, <3>2, SpawnSafe, GetSafe, RemoveSafe, SetVarSafe, ArchiveSafe
  <2> QED BY <1>5, <2>1, <2>2 DEF Worker
<1>6. ASSUME NEW r \in Reorgs, Migration(r) PROVE Safe(n)'
  <2>1. upset \subseteq upset'
    BY <1>6 DEF Migration, Reorganize, ReorganizeDone, MigrateDone, SendFails, SendNowhere,
                RemoveMigrated, MigrateEntities, TakeEntity, Fetch, Upset, Calm
  <2>2. Safe(n)
    BY <2>1 DEF EntitiesInv
  <2> QED BY <1>0, <1>6, <2>2, BetweenSafe, SendFailsSafe, SendNowhereSafe,
             RemoveMigratedSafe, TakeEntitySafe, FetchSafe DEF Migration
<1> QED BY <1>2, <1>3, <1>4, <1>5, <1>6 DEF Next

LEMMA Invariance == Spec => []EntitiesInv
<1>1. Init => EntitiesInv
  <2> SUFFICES ASSUME Init, NEW n \in Names PROVE Safe(n)
    BY InitType DEF EntitiesInv
  <2>1. /\ \A w \in Workers : memory[w][n] = None /\ archive[w][n] = None /\ handles[w][n] = 0
        /\ latest[n] = None
        /\ \A r \in Reorgs : reorg[r].name # n
    BY DEF Init, Idle
  <2> QED BY <2>1 DEF Safe, OneStore, Agree, TwoHomes, Follow, Kept, Held
<1>2. TypeOK /\ RequestInv /\ EntitiesInv /\ (RequestInv)' /\ [Next]_vars => EntitiesInv'
  BY SafeStep DEF EntitiesInv
<1> QED BY <1>1, <1>2, TypeCorrect, PTL DEF Spec

\* Migration never loses an entity: whatever is spawned and not removed is held
\* by some worker, through any number of reorganizations at once.
THEOREM EntitiesKept == Spec => []NothingLost
<1>1. EntitiesInv => NothingLost
  BY DEF EntitiesInv, Safe, Kept, NothingLost
<1> QED BY <1>1, Invariance, PTL

\* An entity is in one store of one worker, but while a migration has brought
\* it to its destination and not yet removed it from its source.
THEOREM EntitiesHaveOneHome == Spec => []OneHome
<1>1. EntitiesInv => OneHome
  BY DEF EntitiesInv, Safe, OneStore, TwoHomes, OneHome
<1> QED BY <1>1, Invariance, PTL

\* Every copy of an entity has the value last written to it, and none is left
\* behind where a worker that had it removed it.
THEOREM EntitiesAgree == Spec => []CopiesAgree
<1>1. EntitiesInv => CopiesAgree
  BY DEF EntitiesInv, Safe, Agree, CopiesAgree
<1> QED BY <1>1, Invariance, PTL

\* The behavior bound to an entity runs once where the entity is, and nowhere
\* else.
THEOREM BehaviorsFollowEntities == Spec => []BehaviorsFollow
<1>1. EntitiesInv => BehaviorsFollow
  BY DEF EntitiesInv, Safe, Follow, BehaviorsFollow
<1> QED BY <1>1, Invariance, PTL

=============================================================================
