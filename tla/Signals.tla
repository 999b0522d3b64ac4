------------------------------ MODULE Signals ------------------------------
(***************************************************************************)
(* Signals: requests that travel through the cluster with a context. A     *)
(* call is answered when the calls it made were; the context collects the  *)
(* participants it went through, which is how workers avoid sending a      *)
(* signal in circles. Three requests are modelled: a global Invoke (a      *)
(* broadcast over peers and leader), a global query (answers merged), and  *)
(* a request to the leader passed on by workers that are not connected to  *)
(* it.                                                                     *)
(***************************************************************************)
EXTENDS Naturals, Sequences, FiniteSets, SequencesExt, Functions

CONSTANTS
  Workers, Leader,
  Clusters,     \* set of topologies with the request that is sent, see ClusterType
  MaxPath,      \* bound on the length of a chain of calls
  MaxLost       \* bound on the calls that fail on the network

ASSUME LeaderAssumption == Leader \notin Workers
ASSUME BoundsAssumption == MaxPath \in Nat /\ MaxLost \in Nat

Participants == Workers \cup {Leader}
Unlimited == 0
Nobody == "nobody"
ASSUME NobodyAssumption == Nobody \notin Participants

(***************************************************************************)
(* A cluster: the peers of each worker, the workers with a connection to   *)
(* the leader, the workers that run on machines of their own, the worker   *)
(* the signal enters at, the request and its delivery: Unlimited or a      *)
(* number of times. networked: the request is one that the leader takes    *)
(* from the network too (MergeModel is, ReplaceModel, Initialize, Step and *)
(* Ping are still to be written there).                                    *)
(***************************************************************************)
ClusterType ==
  [peers : [Workers -> SUBSET Workers], led : SUBSET Workers,
   remote : SUBSET Workers, entry : Workers,
   request : {"invoke", "query", "update"}, delivery : Nat, networked : BOOLEAN]
ASSUME ClustersAssumption == Clusters \subseteq ClusterType

VARIABLES
  cluster,
  calls,      \* calls not yet answered, by the chain of participants they went along
  seen,       \* ids of signals in a worker's seen_calls
  handled,    \* times a worker triggered the event, or the leader took the request
  answer,     \* what the caller of the whole thing got
  lost        \* calls that failed on the network, for the participant that made them

vars == <<cluster, calls, seen, handled, answer, lost>>

Requests == {"invoke", "broadcast", "query", "proxied_query", "update", "leader_update"}

(***************************************************************************)
(* A call. id: of the signal it carries, the chain of the call that        *)
(* created it. waits: calls it awaits. left: workers the leader has still  *)
(* to ask. error: a call it cannot do without has failed.                  *)
(***************************************************************************)
Root == <<cluster.entry>>

Context(id, origin, delivery, hops) ==
  [id |-> id, origin |-> origin, delivery |-> delivery, hops |-> hops]

Call(request, ctx) ==
  [request |-> request, ctx |-> ctx, open |-> FALSE, waits |-> {}, left |-> {},
   error |-> FALSE, product |-> [w \in Workers |-> 0]]

ContextsOk(p) ==
  /\ calls[p].ctx.hops \in Seq(Participants)
  /\ calls[p].ctx.origin \in Participants \cup {Nobody}
  /\ calls[p].request \in Requests

TypeOK ==
  /\ cluster \in Clusters
  /\ \A p \in DOMAIN calls :
       /\ p \in Seq(Participants) /\ Len(p) \in 1..MaxPath
       /\ ContextsOk(p)
       /\ calls[p].waits \subseteq DOMAIN calls
       /\ calls[p].left \subseteq Workers
       /\ ~calls[p].open => calls[p].waits = {} /\ calls[p].left = {}
       /\ (calls[p].left # {}) => Last(p) = Leader
  /\ \A w \in Workers : seen[w] \subseteq Seq(Participants)
  /\ handled \in [Participants -> Nat]
  /\ lost \subseteq Seq(Participants) /\ Cardinality(lost) <= MaxLost

Init ==
  /\ cluster \in Clusters
  /\ calls = [p \in {Root} |-> Call(cluster.request, Context(Root, Nobody, cluster.delivery, <<>>))]
  /\ seen = [w \in Workers |-> {}]
  /\ handled = [x \in Participants |-> 0]
  /\ answer = [done |-> FALSE]
  /\ lost = {}

----------------------------------------------------------------------------
(* Contexts *)

WentThroughWorker(ctx, w) == ctx.origin = w \/ w \in Range(ctx.hops)

\* Variant: only where the signal comes from counts.
CameFromLeader(ctx) == ctx.origin = Leader

WentThroughLeader(ctx) == ctx.origin = Leader \/ Leader \in Range(ctx.hops)

RegisterHop(ctx, observer) == [ctx EXCEPT !.hops = Append(@, observer)]

\* Variant: the plain merge_hops.
MergeHops(hops, other) == hops \o other

\* merge_hops_unique: observers that are new, in the order they come in.
AddHop(hops, o) == IF o \in Range(hops) THEN hops ELSE Append(hops, o)
MergeHopsUnique(hops, other) ==
  LET merged[i \in 0..Len(other)] == IF i = 0 THEN hops ELSE AddHop(merged[i - 1], other[i])
  IN  merged[Len(other)]

\* The leader's way: the answer's hops are taken to begin with its own.
MergeHopsAfter(hops, other) == hops \o SubSeq(other, Len(hops) + 1, Len(other))

----------------------------------------------------------------------------
(* Delivery *)

OverNetwork(p) ==
  /\ Len(p) > 1
  /\ p[Len(p)] \in cluster.remote \/ p[Len(p) - 1] \in cluster.remote

\* Variant: one delivery more than the limit.
RefusedPast(p) ==
  LET ctx == calls[p].ctx
  IN  Last(p) \in Workers /\ ctx.id \in seen[Last(p)] /\ ctx.delivery # Unlimited /\ 1 > ctx.delivery

\* The worker's streams. A local one compares the times a signal was seen with
\* what its delivery allows, and sets it to one only when it is new; the one
\* from the network refuses whatever was seen, and records nothing.
Refused(p) ==
  LET w == Last(p)  ctx == calls[p].ctx
      known == w \in Workers /\ ctx.id \in seen[w]
  IN  IF OverNetwork(p) THEN known ELSE known /\ ctx.delivery # Unlimited /\ 1 >= ctx.delivery

\* Variant: whatever was answered is taken for a good answer.
ToldAnyway(c, p, ok, ctx, product) ==
  [c EXCEPT !.waits = @ \ {p}, !.product = [w \in Workers |-> @[w] + product[w]]]

\* What call c does with the answer to call p, which it made, depends on its request.
\* A broadcast passes over an answer that is an error.
Told(c, p, ok, ctx, product) ==
  LET merged ==
        CASE c.request = "invoke" -> [c.ctx EXCEPT !.hops = MergeHopsUnique(@, ctx.hops)]
          [] c.request = "broadcast" -> [c.ctx EXCEPT !.hops = MergeHopsAfter(@, ctx.hops)]
          [] c.request = "update" -> [c.ctx EXCEPT !.hops = ctx.hops]
          [] OTHER -> c.ctx
  IN  IF ok THEN [c EXCEPT !.waits = @ \ {p}, !.ctx = merged,
                           !.product = [w \in Workers |-> @[w] + product[w]]]
            ELSE [c EXCEPT !.waits = @ \ {p},
                           !.error = @ \/ c.request \notin {"invoke", "broadcast"}]

\* The answer of call p reaches the call that made it. The answer to a caller that has
\* given up, or has lost the connection, reaches nobody.
Return(cs, p, ok, ctx, product) ==
  LET up == Front(p)
      rest == [q \in DOMAIN cs \ {p} |-> cs[q]]
  IN  IF up \in DOMAIN rest /\ p \in rest[up].waits
      THEN [rest EXCEPT ![up] = Told(@, p, ok, ctx, product)] ELSE rest

Respond(p, ok, ctx, product) ==
  /\ calls' = Return(calls, p, ok, ctx, product)
  /\ answer' = IF p = Root
               THEN [done |-> TRUE, ok |-> ok, hops |-> ctx.hops, product |-> product]
               ELSE answer

(***************************************************************************)
(* A call fails on the network, for the participant that made it. The      *)
(* request does not arrive; or the connection is lost, and the callee goes *)
(* on with a call whose answer reaches nobody.                             *)
(***************************************************************************)
Fail(p) ==
  LET c == calls[p]
  IN  /\ OverNetwork(p)
      /\ Front(p) \in DOMAIN calls /\ p \in calls[Front(p)].waits
      /\ Cardinality(lost) < MaxLost
      /\ lost' = lost \cup {p}
      /\ \/ ~c.open /\ calls' = Return(calls, p, FALSE, c.ctx, c.product)
         \/ calls' = [calls EXCEPT ![Front(p)] = Told(@, p, FALSE, c.ctx, c.product)]
      /\ UNCHANGED <<cluster, seen, handled, answer>>

\* The stream answers AlreadyProcessedSignal.
Refuse(p) ==
  /\ ~calls[p].open
  /\ Refused(p)
  /\ Respond(p, FALSE, calls[p].ctx, calls[p].product)
  /\ UNCHANGED <<cluster, seen, handled>>

\* What a participant registers of a signal it takes.
Observed(p) ==
  LET x == Last(p)  ctx == calls[p].ctx
  IN  CASE x = Leader -> IF calls[p].request = "proxied_query" THEN ctx ELSE RegisterHop(ctx, Leader)
        [] OverNetwork(p) -> ctx
        [] OTHER -> RegisterHop(ctx, x)

Record(p) ==
  seen' = IF Last(p) = Leader \/ OverNetwork(p) THEN seen
          ELSE [seen EXCEPT ![Last(p)] = @ \cup {calls[p].ctx.id}]

\* Call p is opened with context ctx and makes the calls of the function made, from
\* participants to requests.
Open(p, ctx, made, left, error) ==
  LET new == {Append(p, x) : x \in DOMAIN made}
      opened == [calls[p] EXCEPT !.open = TRUE, !.ctx = ctx, !.waits = new, !.left = left, !.error = error]
  IN  /\ ~calls[p].open
      /\ ~Refused(p)
      /\ new # {} => Len(p) < MaxPath
      /\ calls' = [q \in DOMAIN calls \cup new |->
                     IF q = p THEN opened
                     ELSE IF q \in new THEN Call(made[Last(q)], ctx) ELSE calls[q]]
      /\ Record(p)
      /\ UNCHANGED <<cluster, handled, answer>>

Peers(p) == cluster.peers[Last(p)]
Led(p) == Last(p) \in cluster.led

----------------------------------------------------------------------------
(* Invoke: a broadcast *)

\* To all peers the signal did not go through and, unless it came from there, to
\* the leader, all at once.
Invoke(p) ==
  LET ctx == Observed(p)
      peers == {w \in Peers(p) : ~WentThroughWorker(ctx, w)}
      leader == IF Led(p) /\ ~WentThroughLeader(ctx) THEN {Leader} ELSE {}
  IN  /\ calls[p].request = "invoke"
      /\ Open(p, ctx, [x \in peers \cup leader |-> IF x = Leader THEN "broadcast" ELSE "invoke"], {}, FALSE)

\* The leader's WorkerBroadcast takes the workers one after the other.
WorkerBroadcast(p) ==
  /\ calls[p].request = "broadcast"
  /\ Open(p, Observed(p), << >>, cluster.led, FALSE)

\* Call p becomes c, and makes call q.
Adding(p, c, q, new) ==
  [r \in DOMAIN calls \cup {q} |-> IF r = p THEN c ELSE IF r \in DOMAIN calls THEN calls[r] ELSE new]

BroadcastNext(p, w) ==
  LET c == calls[p]
      q == Append(p, w)
      skip == WentThroughWorker(c.ctx, w)
      asked == [c EXCEPT !.left = @ \ {w}, !.waits = IF skip THEN {} ELSE {q}]
  IN  /\ c.open /\ c.request = "broadcast"
      /\ c.waits = {} /\ w \in c.left
      /\ ~skip => Len(p) < MaxPath
      /\ calls' = IF skip THEN [calls EXCEPT ![p] = asked]
                  ELSE Adding(p, asked, q, Call("invoke", c.ctx))
      /\ UNCHANGED <<cluster, seen, handled, answer>>

----------------------------------------------------------------------------
(* Queries over all workers *)

\* A worker with peers asks them all. One without asks the leader, once the
\* context names it, so that the leader leaves it out.
ProcessQuery(p) ==
  LET ctx == Observed(p)
      alone == Peers(p) = {} /\ Led(p) /\ ~WentThroughLeader(ctx)
      own == IF Peers(p) = {} /\ ~WentThroughLeader(ctx) THEN RegisterHop(ctx, Last(p)) ELSE ctx
      asked == IF alone THEN {Leader} ELSE Peers(p)
  IN  /\ calls[p].request = "query"
      /\ Open(p, own, [x \in asked |-> IF x = Leader THEN "proxied_query" ELSE "query"], {}, FALSE)

\* Variant: the leader also asks the worker that asked it.
WorkerProxyAll(p) ==
  /\ calls[p].request = "proxied_query"
  /\ Open(p, Observed(p), << >>, cluster.led, FALSE)

\* The leader's WorkerProxy: every worker it knows that did not observe the signal.
WorkerProxy(p) ==
  LET ctx == Observed(p)
  IN  /\ calls[p].request = "proxied_query"
      /\ Open(p, ctx, << >>, cluster.led \ Range(ctx.hops), FALSE)

\* Each gets a signal of its own, without the hops so far.
ProxyNext(p, w) ==
  LET q == Append(p, w)
  IN  /\ calls[p].open /\ calls[p].request = "proxied_query"
      /\ calls[p].waits = {} /\ w \in calls[p].left /\ ~calls[p].error
      /\ Len(p) < MaxPath
      /\ calls' = Adding(p, [calls[p] EXCEPT !.left = @ \ {w}, !.waits = {q}],
                         q, Call("query", Context(q, Leader, Unlimited, <<>>)))
      /\ UNCHANGED <<cluster, seen, handled, answer>>

----------------------------------------------------------------------------
(* Requests to the leader *)

\* Variant: the request goes to all peers at once.
SendToLeaderAll(p) ==
  LET ctx == Observed(p)
      ways == {w \in Peers(p) : ~WentThroughWorker(ctx, w)}
  IN  /\ calls[p].request = "update"
      /\ IF Led(p) THEN Open(p, ctx, [x \in {Leader} |-> "leader_update"], {}, FALSE)
         ELSE Open(p, ctx, [w \in ways |-> "update"], {}, ways = {})

\* send_to_leader: directly if connected, or through some peer the signal did not
\* go through. Without one the handler's task panics.
SendToLeader(p) ==
  LET ctx == Observed(p)
      ways == {w \in Peers(p) : ~WentThroughWorker(ctx, w)}
  IN  /\ calls[p].request = "update"
      /\ \/ /\ Led(p)
            /\ Open(p, ctx, [x \in {Leader} |-> "leader_update"], {}, FALSE)
         \/ /\ ~Led(p)
            /\ \E w \in ways : Open(p, ctx, [x \in {w} |-> "update"], {}, FALSE)
         \/ /\ ~Led(p) /\ ways = {}
            /\ Open(p, ctx, << >>, {}, TRUE)

\* The handler panics if the request is not to be had over the network.
LeaderTakes(p) ==
  /\ calls[p].request = "leader_update"
  /\ Open(p, Observed(p), << >>, {}, OverNetwork(p) /\ ~cluster.networked)

----------------------------------------------------------------------------
(* Answers *)

Complete(p) == calls[p].open /\ calls[p].waits = {} /\ calls[p].left = {} /\ ~calls[p].error

\* Variant: events that come over the network are passed on only.
TriggerEventLocally(p) ==
  /\ calls[p].request = "invoke" /\ Complete(p)
  /\ handled' = IF OverNetwork(p) THEN handled ELSE [handled EXCEPT ![Last(p)] = @ + 1]
  /\ Respond(p, TRUE, calls[p].ctx, calls[p].product)
  /\ UNCHANGED <<cluster, seen>>

\* A worker triggers the event when the broadcast is through, and answers.
TriggerEvent(p) ==
  /\ calls[p].request = "invoke" /\ Complete(p)
  /\ handled' = [handled EXCEPT ![Last(p)] = @ + 1]
  /\ Respond(p, TRUE, calls[p].ctx, calls[p].product)
  /\ UNCHANGED <<cluster, seen>>

\* A worker's answer to a query merges in what its own partition holds.
AnswerQuery(p) ==
  /\ calls[p].request = "query" /\ Complete(p)
  /\ Respond(p, TRUE, calls[p].ctx, [calls[p].product EXCEPT ![Last(p)] = @ + 1])
  /\ UNCHANGED <<cluster, seen, handled>>

\* The leader takes the request into effect, before it answers.
TakeEffect(p) ==
  /\ calls[p].request = "leader_update" /\ Complete(p)
  /\ handled' = [handled EXCEPT ![Leader] = @ + 1]
  /\ Respond(p, TRUE, calls[p].ctx, calls[p].product)
  /\ UNCHANGED <<cluster, seen>>

PassOn(p) ==
  /\ calls[p].request \in {"broadcast", "proxied_query", "update"} /\ Complete(p)
  /\ Respond(p, TRUE, calls[p].ctx, calls[p].product)
  /\ UNCHANGED <<cluster, seen, handled>>

\* A failure of a call that counts ends its caller at once; what else the
\* caller started runs on without it.
FailOn(p) ==
  /\ calls[p].open /\ calls[p].error
  /\ Respond(p, FALSE, calls[p].ctx, calls[p].product)
  /\ UNCHANGED <<cluster, seen, handled>>

Handler(p) ==
  \/ Refuse(p) \/ Invoke(p) \/ WorkerBroadcast(p) \/ ProcessQuery(p) \/ WorkerProxy(p)
  \/ SendToLeader(p) \/ LeaderTakes(p)
  \/ TriggerEvent(p) \/ AnswerQuery(p) \/ TakeEffect(p) \/ PassOn(p) \/ FailOn(p)
  \/ \E w \in Workers : BroadcastNext(p, w) \/ ProxyNext(p, w)

Handling == \E p \in DOMAIN calls : Handler(p) /\ UNCHANGED lost

Next == Handling \/ \E p \in DOMAIN calls : Fail(p)

Fairness == WF_vars(Handling)

Spec == Init /\ [][Next]_vars
FairSpec == Spec /\ Fairness

----------------------------------------------------------------------------
(* Properties *)

\* The workers a signal from the entry can get to, along peers and through the leader.
\* A query goes through the leader only from a worker that has no peers.
ByLeader(w) == w \in cluster.led /\ (cluster.request = "query" => cluster.peers[w] = {})
Closed(S) == \A w \in S : /\ cluster.peers[w] \subseteq S
                          /\ ByLeader(w) => cluster.led \subseteq S
Reachable == {w \in Workers : \A S \in SUBSET Workers : cluster.entry \in S /\ Closed(S) => w \in S}

Local == cluster.remote = {}

(***************************************************************************)
(* recent_signals and the delivery limit (worker/mod.rs 117-125, 243-272): *)
(* a worker that is reached along several chains triggers the event once,  *)
(* if the signal is limited to one delivery and no network lies between.   *)
(***************************************************************************)
HandledOnce ==
  Local /\ cluster.delivery = 1 => \A w \in Workers : handled[w] <= 1

(***************************************************************************)
(* What tests/broadcast.rs and tests/topologies.rs read from the context   *)
(* of an answer: a broadcast's names every worker it got to and the        *)
(* leader, each once, whatever the order in which the answers came in; the *)
(* chain of a request to the leader visits no worker twice.                *)
(***************************************************************************)
Once(hops, S) == /\ IsInjective(hops)
                 /\ Range(hops) \cap Workers = S
AnswerNamesAll ==
  Local /\ answer.done /\ answer.ok =>
    /\ cluster.request = "invoke" =>
         /\ Once(answer.hops, Reachable)
         /\ Leader \in Range(answer.hops) <=> Reachable \cap cluster.led # {}
    /\ cluster.request = "update" => Once(answer.hops, Range(answer.hops) \ {Leader})

(***************************************************************************)
(* process_query and WorkerProxy: an answer that is not an error has the   *)
(* part of every worker that can be reached, and has it once if no worker  *)
(* has peers. Among peers a part may arrive along several chains.          *)
(***************************************************************************)
QueryCovers ==
  (cluster.request = "query" /\ answer.done) =>
     (answer.ok =>
        \A w \in Workers :
          /\ w \in Reachable <=> answer.product[w] > 0
          /\ (\A x \in Workers : cluster.peers[x] = {}) => answer.product[w] <= 1)

(***************************************************************************)
(* send_to_leader: a request to the leader takes effect at most once, and  *)
(* it has if the caller is told so. If he is told of a failure it has not, *)
(* unless a call failed on the network: the leader may then take it yet.   *)
(***************************************************************************)
TakesEffectOnce ==
  cluster.request = "update" =>
    /\ handled[Leader] <= 1
    /\ answer.done /\ answer.ok => handled[Leader] = 1
    /\ answer.done /\ ~answer.ok /\ lost = {} => handled[Leader] = 0

(***************************************************************************)
(* What the caller is told, by the context of the answer, its product or   *)
(* its being no error, is what the cluster has done (rpc/mod.rs 195-300).  *)
(***************************************************************************)
AnswerTrue == AnswerNamesAll /\ QueryCovers /\ TakesEffectOnce

(***************************************************************************)
(* A broadcast is a Flood of the workers that can be reached. A call that  *)
(* fails is passed over in silence (worker/mod.rs 1617-1622 and 1651,      *)
(* leader/mod.rs 595-601), with an answer that is no error: of a broadcast *)
(* of which one failed on the network it says that nobody else handles it. *)
(***************************************************************************)
F == INSTANCE Flood WITH
       group <- IF cluster.request = "invoke" THEN Reachable ELSE {},
       handled <- IF cluster.request = "invoke" THEN {w \in Workers : handled[w] > 0} ELSE {},
       closed <- cluster.request = "invoke" /\ answer.done /\ lost = {}
IsFlood == F!Spec

(***************************************************************************)
(* A signal does not go round for ever, whatever calls fail. It does if    *)
(* workers ask each other the same query; and a broadcast or a request to  *)
(* the leader may among workers other than the one it enters at, who pass  *)
(* it to each other over the network: its streams leave no trace of them   *)
(* in the context or among the signals seen.                               *)
(***************************************************************************)
Untraced(S) ==
  \A w \in S : \E x \in cluster.peers[w] \cap S : {w, x} \cap cluster.remote # {}
GoesRound ==
  \/ cluster.request = "query" /\ \E w \in Workers : cluster.peers[w] # {}
  \/ \E S \in SUBSET (Workers \ {cluster.entry}) : S # {} /\ Untraced(S)
CallEnds == GoesRound \/ <>(answer.done /\ DOMAIN calls = {})
============================================================================
