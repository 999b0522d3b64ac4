---------------------------- MODULE Subscriptions ----------------------------
(***************************************************************************)
(* Subscriptions of queries. A client subscribes through a server; its     *)
(* worker keeps the subscription and every step and every event sends it   *)
(* the product of its query. Two channels of one message each and a task   *)
(* of the server, the relay, lie between the handler that sends a product  *)
(* and the client that reads it, and the handler waits for room; if the    *)
(* client is on the network, a task that writes to its connection as well. *)
(***************************************************************************)
EXTENDS Naturals, Sequences, FiniteSets, SequencesExt

CONSTANTS
  Streams,      \* subscriptions, each with a client that reads its stream
  Window,       \* messages a connection takes before it is read
  Setups        \* set of setups: each subscription with what its client may do,
                \* and bounds on the handlers begun and on the events of an Invoke

ASSUME WindowAssumption == Window \in Nat \ {0}
ASSUME SetupsAssumption == \A u \in Setups : {u.steps, u.invokes, u.events} \subseteq Nat

Handlers == {"step", "invoke"}
Id == [kind |-> "id"]
Product(h, n) == [kind |-> "product", by |-> h, n |-> n]

VARIABLES
  setup,
  subs,     \* the worker's subscriptions, in order of registration
  request,  \* the worker's handler of each Subscribe request
  chan,     \* the channel from the worker to the relay
  relay,    \* the server's loop: what it holds, and if it runs
  stream,   \* the channel from the relay to the client, or to the pump
  pump,     \* the task that writes to a client's connection, as relay
  wire,     \* what the connection holds
  reader,   \* the client's end of the stream
  got,      \* what the client read
  leaving,  \* the client's call of unsubscribe
  handler,  \* the handlers of Step and Invoke under way on the worker
  begun,    \* handlers begun, per kind
  lock,     \* who holds the server's state
  span      \* handlers begun when a subscription came and when it went (a history)

vars == <<setup, subs, request, chan, relay, stream, pump, wire, reader, got, leaving,
          handler, begun, lock, span>>

Free == "free"
Off == [pc |-> "off", rest |-> <<>>, events |-> 0, locks |-> FALSE, result |-> "none"]

Message == {Id} \cup [kind : {"product"}, by : Handlers, n : Nat]
AtMost(k) == {q \in Seq(Message) : Len(q) <= k}
Task == [pc : {"none", "runs", "ended"}, holds : AtMost(1)]
Work == [pc : {"off", "server", "event", "subs"}, rest : Seq(Streams), events : Nat,
         locks : BOOLEAN, result : {"none", "ok", "failed"}]

TypeOK ==
  /\ setup \in Setups
  /\ subs \in Seq(Streams) /\ IsInjective(subs)
  /\ request \in [Streams -> {"none", "asked", "registered", "answered"}]
  /\ chan \in [Streams -> AtMost(1)] /\ stream \in [Streams -> AtMost(1)]
  /\ wire \in [Streams -> AtMost(Window)] /\ got \in [Streams -> Seq(Message)]
  /\ relay \in [Streams -> Task] /\ pump \in [Streams -> Task]
  /\ reader \in [Streams -> {"open", "ended", "gone"}]
  /\ leaving \in [Streams -> {"no", "waits", "asks", "done"}]
  /\ handler \in [Handlers -> Work]
  /\ \A h \in Handlers : handler[h].pc # "subs" => handler[h].rest = <<>>
  /\ begun \in [Handlers -> Nat]
  /\ lock \in {Free, "invoke"} \cup Streams
  /\ span \in [Streams -> Seq([Handlers -> Nat])]

Init ==
  /\ setup \in Setups
  /\ subs = <<>>
  /\ request = [s \in Streams |-> "none"]
  /\ chan = [s \in Streams |-> <<>>]
  /\ relay = [s \in Streams |-> [pc |-> "none", holds |-> <<>>]]
  /\ stream = [s \in Streams |-> <<>>]
  /\ pump = [s \in Streams |-> [pc |-> "none", holds |-> <<>>]]
  /\ wire = [s \in Streams |-> <<>>]
  /\ reader = [s \in Streams |-> "open"]
  /\ got = [s \in Streams |-> <<>>]
  /\ leaving = [s \in Streams |-> "no"]
  /\ handler = [h \in Handlers |-> Off]
  /\ begun = [h \in Handlers |-> 0]
  /\ lock = Free
  /\ span = [s \in Streams |-> <<>>]

Room(s) == chan[s] = <<>>
Closed(s) == relay[s].pc = "ended"
Remote(s) == setup.sub[s].remote

-----------------------------------------------------------------------------
(* Subscribing and unsubscribing                                           *)

\* The server hands the request over to its worker, with its state locked, and
\* goes on to relay what comes back.
Subscribe(s) ==
  /\ "subscribe" \in setup.sub[s].does
  /\ request[s] = "none" /\ lock = Free
  /\ request' = [request EXCEPT ![s] = "asked"]
  /\ relay' = [relay EXCEPT ![s].pc = "runs"]
  /\ pump' = IF Remote(s) THEN [pump EXCEPT ![s].pc = "runs"] ELSE pump
  /\ UNCHANGED <<setup, subs, chan, stream, wire, reader, got, leaving, handler, begun, lock, span>>

\* The worker's manager has it from here on: products may come before the id.
Register(s) ==
  /\ request[s] = "asked"
  /\ request' = [request EXCEPT ![s] = "registered"]
  /\ subs' = Append(subs, s)
  /\ span' = [span EXCEPT ![s] = <<begun>>]
  /\ UNCHANGED <<setup, chan, relay, stream, pump, wire, reader, got, leaving, handler, begun, lock>>

\* Mutant of SendId: the response is not sent to the stream.
SendNoId(s) ==
  /\ request[s] = "registered"
  /\ request' = [request EXCEPT ![s] = "answered"]
  /\ UNCHANGED <<setup, subs, chan, relay, stream, pump, wire, reader, got, leaving, handler, begun, lock, span>>

\* The response goes the way of the products; nobody looks at the outcome.
SendId(s) ==
  /\ request[s] = "registered"
  /\ Room(s) \/ Closed(s)
  /\ request' = [request EXCEPT ![s] = "answered"]
  /\ chan' = IF Closed(s) THEN chan ELSE [chan EXCEPT ![s] = <<Id>>]
  /\ UNCHANGED <<setup, subs, relay, stream, pump, wire, reader, got, leaving, handler, begun, lock, span>>

\* A client can only unsubscribe with the id it was sent.
Leave(s) ==
  /\ "leave" \in setup.sub[s].does
  /\ leaving[s] = "no" /\ Contains(got[s], Id)
  /\ leaving' = [leaving EXCEPT ![s] = "waits"]
  /\ UNCHANGED <<setup, subs, request, chan, relay, stream, pump, wire, reader, got, handler, begun, lock, span>>

\* The server keeps its state locked until the worker has answered.
LeaveLocks(s) ==
  /\ leaving[s] = "waits" /\ lock = Free
  /\ leaving' = [leaving EXCEPT ![s] = "asks"]
  /\ lock' = s
  /\ UNCHANGED <<setup, subs, request, chan, relay, stream, pump, wire, reader, got, handler, begun, span>>

\* Mutant of Unsubscribe: nothing is removed.
UnsubscribeKeeps(s) ==
  /\ leaving[s] = "asks"
  /\ leaving' = [leaving EXCEPT ![s] = "done"]
  /\ lock' = Free
  /\ span' = [span EXCEPT ![s] = Append(@, begun)]
  /\ UNCHANGED <<setup, subs, request, chan, relay, stream, pump, wire, reader, got, handler, begun>>

Unsubscribe(s) ==
  /\ leaving[s] = "asks"
  /\ leaving' = [leaving EXCEPT ![s] = "done"]
  /\ subs' = IF s \in ToSet(subs) THEN RemoveAt(subs, CHOOSE i \in DOMAIN subs : subs[i] = s) ELSE subs
  /\ lock' = Free
  /\ span' = [span EXCEPT ![s] = Append(@, begun)]
  /\ UNCHANGED <<setup, request, chan, relay, stream, pump, wire, reader, got, handler, begun>>

-----------------------------------------------------------------------------
(* The relay and the client                                                *)

Take(s) ==
  /\ relay[s].pc = "runs" /\ relay[s].holds = <<>> /\ chan[s] # <<>>
  /\ relay' = [relay EXCEPT ![s].holds = chan[s]]
  /\ chan' = [chan EXCEPT ![s] = <<>>]
  /\ UNCHANGED <<setup, subs, request, stream, pump, wire, reader, got, leaving, handler, begun, lock, span>>

\* Nobody receives any more: a client dropped its stream, the pump ended.
Gone(s) == IF Remote(s) THEN pump[s].pc = "ended" ELSE reader[s] = "gone"

\* Mutant of Forward: what a client that is gone does not take stays where it is.
ForwardToReader(s) ==
  /\ relay[s].holds # <<>>
  /\ stream[s] = <<>> /\ ~Gone(s)
  /\ stream' = [stream EXCEPT ![s] = relay[s].holds]
  /\ relay' = [relay EXCEPT ![s].holds = <<>>]
  /\ UNCHANGED <<setup, subs, request, chan, pump, wire, reader, got, leaving, handler, begun, lock, span>>

\* With nobody to receive it a product is thrown away, and the id ends the task.
Forward(s) ==
  LET ends == Gone(s) /\ relay[s].holds = <<Id>>
  IN  /\ relay[s].holds # <<>>
      /\ stream[s] = <<>>
      /\ stream' = IF Gone(s) THEN stream ELSE [stream EXCEPT ![s] = relay[s].holds]
      /\ relay' = [relay EXCEPT ![s] = [pc |-> IF ends THEN "ended" ELSE "runs", holds |-> <<>>]]
      /\ chan' = IF ends THEN [chan EXCEPT ![s] = <<>>] ELSE chan
      /\ UNCHANGED <<setup, subs, request, pump, wire, reader, got, leaving, handler, begun, lock, span>>

\* Mutant of CloseRelay: the subscriptions share a sender.
CloseRelayShared(s) ==
  /\ relay[s].pc = "runs" /\ relay[s].holds = <<>> /\ chan[s] = <<>>
  /\ request[s] = "answered" /\ subs = <<>>
  /\ \A h \in Handlers : handler[h].rest = <<>>
  /\ relay' = [relay EXCEPT ![s].pc = "ended"]
  /\ UNCHANGED <<setup, subs, request, chan, stream, pump, wire, reader, got, leaving, handler, begun, lock, span>>

\* Nobody is left to send anything: the loop ends, and the stream with it.
Held(h, s) == s \in ToSet(handler[h].rest)
CloseRelay(s) ==
  /\ relay[s].pc = "runs" /\ relay[s].holds = <<>> /\ chan[s] = <<>>
  /\ request[s] = "answered" /\ s \notin ToSet(subs)
  /\ \A h \in Handlers : ~Held(h, s)
  /\ relay' = [relay EXCEPT ![s].pc = "ended"]
  /\ UNCHANGED <<setup, subs, request, chan, stream, pump, wire, reader, got, leaving, handler, begun, lock, span>>

\* The task of a request over the network writes each message it receives to
\* the connection, as far as that takes it.
PumpTake(s) ==
  /\ pump[s].pc = "runs" /\ pump[s].holds = <<>> /\ stream[s] # <<>>
  /\ pump' = [pump EXCEPT ![s].holds = stream[s]]
  /\ stream' = [stream EXCEPT ![s] = <<>>]
  /\ UNCHANGED <<setup, subs, request, chan, relay, wire, reader, got, leaving, handler, begun, lock, span>>

PumpWrite(s) ==
  /\ pump[s].holds # <<>> /\ reader[s] # "gone" /\ Len(wire[s]) < Window
  /\ wire' = [wire EXCEPT ![s] = @ \o pump[s].holds]
  /\ pump' = [pump EXCEPT ![s].holds = <<>>]
  /\ UNCHANGED <<setup, subs, request, chan, relay, stream, reader, got, leaving, handler, begun, lock, span>>

\* It ends with its channel, or when it finds its client gone as it writes.
PumpEnds(s) ==
  /\ pump[s].pc = "runs"
  /\ IF pump[s].holds = <<>> THEN Closed(s) /\ stream[s] = <<>> ELSE reader[s] = "gone"
  /\ pump' = [pump EXCEPT ![s] = [pc |-> "ended", holds |-> <<>>]]
  /\ stream' = [stream EXCEPT ![s] = <<>>]
  /\ UNCHANGED <<setup, subs, request, chan, relay, wire, reader, got, leaving, handler, begun, lock, span>>

Inbox(s) == IF Remote(s) THEN wire[s] ELSE stream[s]

Read(s) ==
  /\ reader[s] = "open" /\ Inbox(s) # <<>>
  /\ got' = [got EXCEPT ![s] = Append(@, Head(Inbox(s)))]
  /\ wire' = IF Remote(s) THEN [wire EXCEPT ![s] = Tail(@)] ELSE wire
  /\ stream' = IF Remote(s) THEN stream ELSE [stream EXCEPT ![s] = <<>>]
  /\ UNCHANGED <<setup, subs, request, chan, relay, pump, reader, leaving, handler, begun, lock, span>>

ReadEnd(s) ==
  /\ reader[s] = "open" /\ Inbox(s) = <<>>
  /\ IF Remote(s) THEN pump[s].pc = "ended" ELSE Closed(s)
  /\ reader' = [reader EXCEPT ![s] = "ended"]
  /\ UNCHANGED <<setup, subs, request, chan, relay, stream, pump, wire, got, leaving, handler, begun, lock, span>>

\* The client drops its end of the stream, or loses its connection.
Drop(s) ==
  /\ "drop" \in setup.sub[s].does
  /\ reader[s] = "open" /\ request[s] # "none"
  /\ reader' = [reader EXCEPT ![s] = "gone"]
  /\ wire' = [wire EXCEPT ![s] = <<>>]
  /\ stream' = IF Remote(s) THEN stream ELSE [stream EXCEPT ![s] = <<>>]
  /\ UNCHANGED <<setup, subs, request, chan, relay, pump, got, leaving, handler, begun, lock, span>>

-----------------------------------------------------------------------------
(* Steps and events                                                        *)

\* The leader makes one step at a time.
BeginStep ==
  /\ handler["step"].pc = "off" /\ begun["step"] < setup.steps
  /\ handler' = [handler EXCEPT !["step"] = [Off EXCEPT !.pc = "server"]]
  /\ begun' = [begun EXCEPT !["step"] = @ + 1]
  /\ UNCHANGED <<setup, subs, request, chan, relay, stream, pump, wire, reader, got, leaving, lock, span>>

\* The server takes the new clock with its state locked.
ClockChanged ==
  /\ handler["step"].pc = "server" /\ lock = Free
  /\ handler' = [handler EXCEPT !["step"].pc = "event", !["step"].events = 1]
  /\ UNCHANGED <<setup, subs, request, chan, relay, stream, pump, wire, reader, got, leaving, begun, lock, span>>

\* A client invokes an event through the server, which keeps its state locked
\* until the worker is through with it; a behavior invokes events directly.
BeginInvoke(locks, events) ==
  /\ handler["invoke"].pc = "off" /\ begun["invoke"] < setup.invokes
  /\ locks => events = 1 /\ lock = Free
  /\ handler' = [handler EXCEPT !["invoke"] = [Off EXCEPT !.pc = "event", !.events = events, !.locks = locks]]
  /\ begun' = [begun EXCEPT !["invoke"] = @ + 1]
  /\ lock' = IF locks THEN "invoke" ELSE lock
  /\ UNCHANGED <<setup, subs, request, chan, relay, stream, pump, wire, reader, got, leaving, span>>

\* A step passes over the subscriptions without its trigger.  An event passes over
\* none: the loop that compares their triggers with it goes on in either case.
Wanted(h, s) == h = "step" => "step" \in setup.sub[s].triggers

\* Mutant of Pending: a step does not look at the triggers.
PendingAny(h, q) == q

\* The copies of subscriptions q from the first the handler wants: it drops each
\* as it comes to the next.
Pending(h, q) ==
  LET wanted == {i \in DOMAIN q : Wanted(h, q[i])}
  IN  IF wanted = {} THEN <<>>
      ELSE SubSeq(q, CHOOSE i \in wanted : \A j \in wanted : i <= j, Len(q))

\* The subscriptions as they are now, once per event.
GetSubscriptions(h) ==
  /\ handler[h].pc = "event" /\ handler[h].events > 0
  /\ handler' = [handler EXCEPT ![h].pc = "subs", ![h].events = @ - 1,
                                ![h].rest = Pending(h, subs)]
  /\ UNCHANGED <<setup, subs, request, chan, relay, stream, pump, wire, reader, got, leaving, begun, lock, span>>

\* The query is processed, and its product sent: the handler waits for room,
\* a channel that is closed takes nothing.
Send(h) ==
  /\ handler[h].pc = "subs" /\ handler[h].rest # <<>>
  /\ LET s == Head(handler[h].rest)
     IN  /\ ~setup.sub[s].fails
         /\ Room(s) \/ Closed(s)
         /\ chan' = IF Closed(s) THEN chan ELSE [chan EXCEPT ![s] = <<Product(h, begun[h])>>]
  /\ handler' = [handler EXCEPT ![h].rest = Pending(h, Tail(@))]
  /\ UNCHANGED <<setup, subs, request, relay, stream, pump, wire, reader, got, leaving, begun, lock, span>>

NextEvent(h) ==
  /\ handler[h].pc = "subs" /\ handler[h].rest = <<>> /\ handler[h].events > 0
  /\ handler' = [handler EXCEPT ![h].pc = "event"]
  /\ UNCHANGED <<setup, subs, request, chan, relay, stream, pump, wire, reader, got, leaving, begun, lock, span>>

Ends(h, result) ==
  /\ handler' = [handler EXCEPT ![h] = [Off EXCEPT !.result = result]]
  /\ lock' = IF handler[h].locks THEN Free ELSE lock
  /\ UNCHANGED <<setup, subs, request, chan, relay, stream, pump, wire, reader, got, leaving, begun, span>>

Answer(h) ==
  /\ handler[h].pc = "subs" /\ handler[h].rest = <<>> /\ handler[h].events = 0
  /\ Ends(h, "ok")

\* Mutant of QueryFails: the error is swallowed.
QueryFailsQuietly(h) ==
  /\ handler[h].pc = "subs" /\ handler[h].rest # <<>> /\ setup.sub[Head(handler[h].rest)].fails
  /\ Ends(h, "ok")

\* A query that fails ends the handler: who comes later in the list, or with
\* a later event, gets nothing.
QueryFails(h) ==
  /\ handler[h].pc = "subs" /\ handler[h].rest # <<>> /\ setup.sub[Head(handler[h].rest)].fails
  /\ Ends(h, "failed")

-----------------------------------------------------------------------------
Works(h) ==
  GetSubscriptions(h) \/ Send(h) \/ NextEvent(h) \/ Answer(h) \/ QueryFails(h)
Serves(s) ==
  Register(s) \/ SendId(s) \/ LeaveLocks(s) \/ Unsubscribe(s) \/ Take(s) \/ Forward(s) \/ CloseRelay(s)
  \/ PumpTake(s) \/ PumpWrite(s) \/ PumpEnds(s)
Client(s) == Subscribe(s) \/ Leave(s) \/ Read(s) \/ ReadEnd(s) \/ Drop(s)

Next ==
  \/ \E s \in Streams : Client(s) \/ Serves(s)
  \/ BeginStep \/ ClockChanged
  \/ \E locks \in BOOLEAN, events \in 1..setup.events : BeginInvoke(locks, events)
  \/ \E h \in Handlers : Works(h)

Spec == Init /\ [][Next]_vars

\* The tasks of worker and server go on when they can; clients need not read.
Fairness ==
  /\ \A s \in Streams : WF_vars(Serves(s) \/ ReadEnd(s))
  /\ WF_vars(ClockChanged)
  /\ \A h \in Handlers : WF_vars(Works(h))
FairSpec == Spec /\ Fairness

-----------------------------------------------------------------------------
(* Properties                                                              *)

\* All that was sent to a client and not thrown away, in the order it goes.
Flow(s) == got[s] \o wire[s] \o pump[s].holds \o stream[s] \o relay[s].holds \o chan[s]
IsProduct(m) == m.kind = "product"

\* Message a may come before b: of a handler's products the older.
Before(a, b) ==
  IsProduct(a) /\ IsProduct(b) /\ a.by = b.by => a.n < b.n \/ (a.by = "invoke" /\ a.n = b.n)
Sorted(q) == \A j, k \in DOMAIN q : j < k => Before(q[j], q[k])

\* A client gets the products of steps (worker/mod.rs:957) each once and in the
\* order of the steps, whenever it reads; and those of events in theirs, of which
\* one Invoke may bring several.
InOrder == \A s \in Streams : Sorted(Flow(s))

\* It gets products of steps only if it subscribed to steps.  Nothing like it is
\* claimed of events: their products go to every subscription, whatever its triggers
\* (worker/mod.rs:1268-1293), though a trigger is to be of one event or of those it
\* names (query.rs:226-232).
StepsIfSubscribed ==
  \A s \in Streams : \A m \in ToSet(Flow(s)) :
    IsProduct(m) /\ m.by = "step" => "step" \in setup.sub[s].triggers

\* A step that is answered without an error has sent its product to every
\* client that had subscribed to steps before it began and is still there
\* (worker/mod.rs:957): a failing query leaves others out, but never silently.
NoneLeftOut ==
  [][ handler["step"].pc # "off" /\ handler'["step"].result = "ok" =>
        \A s \in ToSet(subs) :
          /\ "step" \in setup.sub[s].triggers /\ span[s][1]["step"] < begun["step"]
          /\ reader[s] = "open"
          => Product("step", begun["step"]) \in ToSet(Flow(s)) ]_vars

\* What begins after an unsubscription was answered sends nothing to it any
\* more (worker/manager.rs:519); what was under way still may, once per handler.
NothingAfter ==
  \A s \in Streams : leaving[s] = "done" =>
    \A m \in ToSet(Flow(s)) : IsProduct(m) => m.n <= span[s][2][m.by]

\* What is in a client's stream (worker/mod.rs:957, worker/manager.rs:519): of steps
\* the products if it subscribed to them, of events those of all, either in order, and
\* none of what began after it left.
StreamRight == InOrder /\ StepsIfSubscribed /\ NothingAfter

\* A client that keeps its stream open and does not read it, with all there is
\* between the worker and it full.
Full(s) ==
  /\ reader[s] = "open" /\ stream[s] # <<>> /\ relay[s].holds # <<>> /\ chan[s] # <<>>
  /\ Remote(s) => Len(wire[s]) = Window /\ pump[s].holds # <<>>
Unread(s) == reader[s] = "open" /\ Inbox(s) # <<>>

\* Steps and events come to an end (worker/mod.rs:965), and with them the
\* rounds of the cluster, unless there is a client that does not read: one
\* that is gone, a failing query or the server's lock stop nothing for ever.
HandlersEnd ==
  (\A h \in Handlers : []<>(handler[h].pc = "off")) \/ (\E s \in Streams : <>[]Full(s))

\* Only its own client keeps a subscription from its id (worker/mod.rs:1123),
\* even if others hold up the worker.
IdArrives ==
  \A s \in Streams :
    \/ <>[]Unread(s)
    \/ request[s] = "asked" ~> (Contains(got[s], Id) \/ reader[s] = "gone")

\* A stream ends after its unsubscription was answered, unless there is a
\* client that does not read (server/mod.rs:757, and the comment of
\* tests/subscription.rs:100).
StreamEnds ==
  \/ \E s \in Streams : <>[]Unread(s)
  \/ \A s \in Streams : leaving[s] = "done" ~> reader[s] # "open"

\* A subscription's life (server/mod.rs:744): its client learns its id, and its
\* stream ends with the unsubscription.
StreamLives == IdArrives /\ StreamEnds
==============================================================================
