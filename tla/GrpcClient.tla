----------------------------- MODULE GrpcClient -----------------------------
(* The gRPC client library (clients/grpc-client/src/lib.rs) and what its      *)
(* queries return from a cluster: connecting runs as a promise that update()  *)
(* polls, each query runs on a thread of its own with the channel it was      *)
(* given, and the user may disconnect or connect elsewhere at any time.       *)
EXTENDS Grpc

CONSTANTS
  Urls,          \* the addresses the user connects to
  Clusters,      \* [Urls -> [workers, peers, led]]: a sequence of workers, the
                 \* server's first, each [part, order] as in Query; the peers
                 \* of each; and those with a connection to the leader
  Threads,       \* the queries the user may run at once
  ProtoQueries,  \* the queries the user asks
  Nowhere

\* Among peers that ask each other a query does not end (see Signals).
ASSUME ClustersAssumption ==
  \A u \in Urls : \A w \in DOMAIN Clusters[u].peers : \A x \in Clusters[u].peers[w] : w < x

VARIABLES
  status,    \* "Disconnected", "Connecting", "Connected" or "Error"
  url,       \* where the user wants to be, or Nowhere
  promise,   \* the attempt under way: where to and how far, or Nowhere
  channel,   \* the cluster at the other end of the stored client, or Nowhere
  queries,   \* [Threads -> the query: how far, where, what, the workers that
             \* cannot be reached, and the answer]
  asked      \* (history) where the user asked for last, and whether in vain

clientVars == <<status, url, promise, channel, queries, asked>>

Running(pc, at, q) == [pc |-> pc, at |-> at, query |-> q, gone |-> {}, answer |-> Err]
Idle == Running("idle", Nowhere, StatusQuery)
Asked(u, ignored) == [url |-> u, ignored |-> ignored]
Attempt(u, pc) == [to |-> u, pc |-> pc]
NoAttempt == Attempt(Nowhere, "none")

ClientInit ==
  /\ status = "Disconnected"
  /\ url = Nowhere
  /\ promise = NoAttempt
  /\ channel = Nowhere
  /\ queries = [t \in Threads |-> Idle]
  /\ asked = Asked(Nowhere, FALSE)

-----------------------------------------------------------------------------
(* What a cluster answers                                                     *)

\* Variant: answers that fail are passed over, as in a broadcast.
GatheredSome(answers) == MergeAll(LET good == SelectSeq(answers, IsOk)
                                  IN  [k \in DOMAIN good |-> The(good[k])])
\* The first answer that fails, by an error or with a response that is no product,
\* fails the whole.
Gathered(answers) == Then(Collect(answers), MergeAll)

\* Variant: the leader asks whoever it knows.
AskedByAll(c, w, seen, byLeader) ==
  IF c.peers[w] # {} THEN c.peers[w] ELSE IF byLeader \/ w \notin c.led THEN {} ELSE c.led
\* Whom worker w has asked: its peers; without any the leader, unless the query came
\* from there, asks the workers it knows and the query did not go through.
AskedBy(c, w, seen, byLeader) ==
  IF c.peers[w] # {} THEN c.peers[w] ELSE IF byLeader \/ w \notin c.led THEN {} ELSE c.led \ seen

\* Worker::process_query at worker w: the others' products, and then the worker's own.
RECURSIVE WorkerQuery(_, _, _, _, _, _)
WorkerQuery(c, gone, q, w, hops, byLeader) ==
  LET seen == hops \cup {w}
      others == SetToSeq(AskedBy(c, w, seen, byLeader))
      part(x) == IF x \in gone THEN Err
                 ELSE IF c.peers[w] # {} THEN WorkerQuery(c, gone, q, x, seen, byLeader)
                 ELSE WorkerQuery(c, gone, q, x, {}, TRUE)
  IN  Gathered(Append([k \in DOMAIN others |-> part(others[k])],
                      ProcessQuery(c.workers[w].part, c.workers[w].order, q)))

\* What the server's worker answers, when calls to the workers in gone fail.
ClusterQuery(c, gone, q) ==
  CASE q.scope = "Global" -> WorkerQuery(c, gone, q, 1, {}, FALSE)
    [] q.scope = "LocalWorker" -> ProcessQuery(c.workers[1].part, c.workers[1].order, q)
    [] OTHER -> Panic

\* The Query call of the service, from the request to the parsed response.
Ask(u, gone, protoQuery) ==
  LET answer == Then(QueryFromProto(protoQuery), LAMBDA q : ClusterQuery(Clusters[u], gone, q))
  IN  Then(ServeQuery(answer), ParseProduct)

-----------------------------------------------------------------------------
(* Actions                                                                    *)

\* connect(): a call while connecting does nothing, and does not say so.
Connect(u) ==
  /\ IF status = "Connecting"
     THEN UNCHANGED <<status, url, promise>>
     ELSE status' = "Connecting" /\ url' = u /\ promise' = Attempt(u, "running")
  /\ asked' = Asked(u, status = "Connecting")
  /\ UNCHANGED <<channel, queries>>

\* The task of the promise: create_native_client and register_client.
Finish(outcome) ==
  /\ promise.pc = "running"
  /\ promise' = [promise EXCEPT !.pc = outcome]
  /\ UNCHANGED <<status, url, channel, queries, asked>>

\* Variant: the attempt goes on.
AfterDisconnectAnyway == [status |-> "Disconnected", url |-> Nowhere,
                          promise |-> promise, channel |-> Nowhere]
\* disconnect() drops the promise with everything else.
AfterDisconnect == [status |-> "Disconnected", url |-> Nowhere,
                    promise |-> NoAttempt, channel |-> Nowhere]
Disconnect ==
  /\ status # "Disconnected"
  /\ status' = AfterDisconnect.status
  /\ url' = AfterDisconnect.url
  /\ promise' = AfterDisconnect.promise
  /\ channel' = AfterDisconnect.channel
  /\ asked' = Asked(Nowhere, FALSE)
  /\ UNCHANGED queries

\* update(), called by the user's frame loop.
Update ==
  /\ promise.pc \in {"ok", "err"}
  /\ status' = IF promise.pc = "ok" THEN "Connected" ELSE "Error"
  /\ channel' = IF promise.pc = "ok" /\ url # Nowhere THEN promise.to ELSE channel
  /\ promise' = NoAttempt
  /\ UNCHANGED <<url, queries, asked>>

Run(t, at, q) == queries' = [queries EXCEPT ![t] = Running("running", at, q)]

\* execute_query(): a thread with the stored channel.
ExecuteQuery(t, q) ==
  /\ queries[t].pc = "idle"
  /\ status = "Connected" /\ url # Nowhere /\ channel # Nowhere
  /\ Run(t, channel, q)
  /\ UNCHANGED <<status, url, promise, channel, asked>>

\* query_status(): with the stored channel, or over a connection of its own.
\* (Without a url it pretends that the backend answered.)
QueryStatus(t) ==
  /\ queries[t].pc = "idle"
  /\ status = "Connected"
  /\ Run(t, IF channel # Nowhere THEN channel ELSE url, StatusQuery)
  /\ UNCHANGED <<status, url, promise, channel, asked>>

\* The answer, from however many workers can be reached, or a failed call.
Answer(t) ==
  /\ queries[t].pc = "running"
  /\ queries[t].at # Nowhere
  /\ \E gone \in SUBSET (DOMAIN Clusters[queries[t].at].workers \ {1}) :
       \E answer \in {Ask(queries[t].at, gone, queries[t].query), Err} :
         queries' = [queries EXCEPT ![t].pc = "done", ![t].gone = gone, ![t].answer = answer]
  /\ UNCHANGED <<status, url, promise, channel, asked>>

\* The user drops the promise of a query that is done.
Drop(t) ==
  /\ queries[t].pc = "done"
  /\ queries' = [queries EXCEPT ![t] = Idle]
  /\ UNCHANGED <<status, url, promise, channel, asked>>

ClientNext ==
  \/ \E u \in Urls : Connect(u)
  \/ \E outcome \in {"ok", "err"} : Finish(outcome)
  \/ Disconnect
  \/ Update
  \/ \E t \in Threads :
       \/ \E q \in ProtoQueries : ExecuteQuery(t, q)
       \/ QueryStatus(t)
       \/ Answer(t)
       \/ Drop(t)

-----------------------------------------------------------------------------
(* Properties                                                                 *)

\* What a filter asks of an entity.
Meets(entity, f) ==
  CASE f.kind \in {"AllComponents", "Component"} -> ToSet(f.names) \subseteq entity.comps
    [] f.kind = "Node" -> TRUE
    [] f.kind = "VarRange" ->
         LET idx == <<f.addr[1].comp, f.addr[1].name>>
         IN  /\ idx \in DOMAIN entity.store
             /\ Between([type |-> f.addr[1].type[1], var |-> entity.store[idx]], f.low, f.high)
\* The entity e meets every filter (query.rs:256-262, process.rs:34).
MeetsAll(e, entity, filters) ==
  \A k \in DOMAIN filters :
    IF filters[k].kind = "Name" THEN e \in ToSet(filters[k].names) ELSE Meets(entity, filters[k])
\* Behind another filter, Filter::Component selects from all entities again (process.rs:225).
Forgets(filters) == \E k \in DOMAIN filters : k > 1 /\ filters[k].kind = "Component"

\* The workers a query from the server's gets to, along peers, or through the leader
\* from a worker that has none.
Reach(c) ==
  LET closed(S) == \A w \in S : /\ c.peers[w] \subseteq S
                                /\ w \in c.led /\ c.peers[w] = {} => c.led \subseteq S
  IN  {w \in DOMAIN c.workers : \A S \in SUBSET DOMAIN c.workers : 1 \in S /\ closed(S) => w \in S}
InScope(c, q) == IF q.scope = "LocalWorker" THEN {1} ELSE Reach(c)
Wanted(c, q) ==
  LET mapped(idx) == \E k \in DOMAIN q.mappings : Maps(q.mappings[k], idx)
      values(e, store) == {<<<<e, idx[1], idx[2]>>, store[idx]>> : idx \in {i \in DOMAIN store : mapped(i)}}
      of(ents) == UNION {values(e, ents[e].store) : e \in {e \in DOMAIN ents : MeetsAll(e, ents[e], q.filters)}}
  IN  UNION {of(c.workers[w].part.entities) : w \in InScope(c, q)}

\* A client that is connected has a channel, to the cluster the user asked for last
\* of those calls that were not made, and ignored, while a connection was under way;
\* and no attempt is left over that update() could take up later.
ConnectedToTheLast ==
  status = "Connected" => /\ url # Nowhere /\ channel = url /\ promise = NoAttempt
                          /\ ~asked.ignored => asked.url = url

\* What the wire and the workers can do: the values by themselves or by
\* address, no name with a separator in it and no grid of strings.
Supported(c, q) ==
  /\ <<q.description, q.layout>> \in {<<"None", "Var">>, <<"Addressed", "Var">>}
  /\ q.scope \in {"Global", "LocalWorker"}
  /\ \A k \in DOMAIN q.filters :
       /\ q.filters[k].kind \in {"Name", "AllComponents", "Component", "VarRange"}
       /\ q.filters[k].kind = "VarRange" => q.filters[k].addr[1].type = <<"string", "">>
  /\ \A k \in DOMAIN q.mappings : q.mappings[k].kind # "VarType"
  /\ \A w \in Wanted(c, q) :
       /\ \A k \in 1..3 : w[1][k] \notin DOMAIN Dotted
       /\ GetType(w[2]) # <<"grid", "string">>

\* However the entities are spread over the workers: what a client decodes from an
\* answer are the values of the entities that meet every filter, of all workers that
\* can be reached and of no other, each at its own address, and each once if no worker
\* has peers; also when workers cannot be reached (worker/mod.rs:1744-1758): there is
\* no answer then with some parts missing. A query that the code supports gets an
\* answer if all can be reached. (With a component filter behind another one there
\* may be values of more entities than meet the filters.)
AnswerRight ==
  \A t \in Threads : queries[t].pc = "done" /\ IsOk(queries[t].answer) =>
    LET c == Clusters[queries[t].at]
        q == The(QueryFromProto(queries[t].query))
        wanted == Wanted(c, q)
        decoded == ProductFromProto(The(queries[t].answer))
        product == The(decoded)
        got == {<<<<a.entity, a.comp, a.name>>, product.data[a]>> : a \in DOMAIN product.data}
        times(v) == Cardinality({w \in wanted : w[2] = v})
        counted(v) == IF v \in DOMAIN product.data THEN product.data[v] ELSE 0
    IN  /\ IsOk(decoded) =>
             /\ product.kind = "AddressedVar" =>
                  /\ wanted \subseteq got
                  /\ ~Forgets(q.filters) => got \subseteq wanted
                  /\ \A a \in DOMAIN product.data : a.type = GetType(product.data[a])
             /\ product.kind = "Var" =>
                  /\ \A w \in wanted : counted(w[2]) >= times(w[2])
                  /\ ~Forgets(q.filters) =>
                       \A v \in DOMAIN product.data :
                         /\ times(v) > 0
                         /\ (\A w \in DOMAIN c.peers : c.peers[w] = {}) => counted(v) = times(v)
        /\ Supported(c, q) /\ queries[t].gone = {} => IsOk(decoded) /\ product.kind # "Empty"

\* What a user sees of the client (clients/grpc-client/src/lib.rs): a connection
\* to the cluster asked for last, unless it was asked for in vain, and the answers of
\* the cluster asked.
ClientRight == ConnectedToTheLast /\ AnswerRight
=============================================================================
