----------------------------- MODULE ServerTurn -----------------------------
(***************************************************************************)
(* Turns of blocking clients, as a server keeps them.                      *)
(*                                                                         *)
(* The server counts in `blocked` how many clients hold the cluster back.  *)
(* Registration of a blocking client adds one; an advance request takes    *)
(* one away, waits until the server's clock reaches the requested value    *)
(* and adds one again; disconnecting takes one away.  A monitor task       *)
(* watches the counter and tells the worker SetBlocking(counter # 0).      *)
(*                                                                         *)
(* Each request runs on a task of its own and takes the server's mutex     *)
(* once per access, so requests interleave between accesses.  The counter  *)
(* is a u8 changed by unchecked += and -=: at its limits it wraps around   *)
(* in a release build, while a debug build panics and drops the request.   *)
(* The model allows either outcome.                                        *)
(***************************************************************************)
EXTENDS Integers, FiniteSets

CONSTANTS
  Servers,      \* server ids
  Clients,      \* client ids; every registration gets a fresh one
  Blocking,     \* the clients that register as blocking
  ServerOf,     \* ServerOf[c]: the server client c talks to
  Calls,        \* slots for advance requests in flight
  CallerOf,     \* CallerOf[k]: the client whose requests use slot k
  MaxClock,     \* bound on the clock values announced to a server
  MaxStepCount  \* bound on the step_count of a request

ASSUME TurnAssumption ==
  /\ Blocking \subseteq Clients
  /\ ServerOf \in [Clients -> Servers]
  /\ CallerOf \in [Calls -> Clients]
  /\ MaxClock \in Nat
  /\ MaxStepCount \in Nat

VARIABLES
  client,       \* client[c]: registration of c, see ClientStates
  blocked,      \* blocked[s]: State.blocked, a u8
  clock,        \* clock[s]: State.clock, the last value announced
  worker,       \* worker[s]: State.worker is Some
  call,         \* call[k]: where the advance request in slot k is
  target,       \* target[k]: its target_clock
  fresh,        \* fresh[k]: its clock watch has a value it has not seen
  monitor,      \* monitor[s]: where the monitor task is
  linked,       \* linked[s]: the worker the monitor itself cloned is Some
  changed,      \* changed[s]: the counter changed since the monitor looked
  verdict,      \* verdict[s]: the argument of the SetBlocking being sent
  told,         \* told[s]: last value the worker received from this server
  heard,        \* history: heard[s], the worker received a value at all
  upset         \* history: upset[s], a client of s overlapped its requests
                \* or left in the middle of one, or the clock went too far
                \* for a request

clientVars == <<client, blocked, changed>>
callVars == <<call, target, fresh>>
monitorVars == <<monitor, linked, verdict>>
toldVars == <<told, heard>>
vars == <<clientVars, clock, worker, callVars, monitorVars, toldVars, upset>>

U8 == 256

ClientStates == {"new", "counted", "in", "gone"}
CallStates == {"none", "checked", "targeted", "waiting", "reached"}
MonitorStates == {"starting", "watching", "sleeping", "sending"}

TypeOK ==
  /\ client \in [Clients -> ClientStates]
  /\ blocked \in [Servers -> 0 .. U8 - 1]
  /\ clock \in [Servers -> Nat]
  /\ worker \in [Servers -> BOOLEAN]
  /\ call \in [Calls -> CallStates]
  /\ target \in [Calls -> Nat]
  /\ fresh \in [Calls -> BOOLEAN]
  /\ monitor \in [Servers -> MonitorStates]
  /\ linked \in [Servers -> BOOLEAN]
  /\ changed \in [Servers -> BOOLEAN]
  /\ verdict \in [Servers -> BOOLEAN]
  /\ told \in [Servers -> BOOLEAN]
  /\ heard \in [Servers -> BOOLEAN]
  /\ upset \in [Servers -> BOOLEAN]

Init ==
  /\ client = [c \in Clients |-> "new"]
  /\ blocked = [s \in Servers |-> 0]
  /\ clock = [s \in Servers |-> 0]
  /\ worker = [s \in Servers |-> FALSE]
  /\ call = [k \in Calls |-> "none"]
  /\ target = [k \in Calls |-> 0]
  /\ fresh = [k \in Calls |-> FALSE]
  /\ monitor = [s \in Servers |-> "starting"]
  /\ linked = [s \in Servers |-> FALSE]
  /\ changed = [s \in Servers |-> FALSE]
  /\ verdict = [s \in Servers |-> FALSE]
  /\ told = [s \in Servers |-> FALSE]
  /\ heard = [s \in Servers |-> FALSE]
  /\ upset = [s \in Servers |-> FALSE]

-----------------------------------------------------------------------------
\* The u8 cannot hold the sum.
Overflows(s, d) == blocked[s] + d \notin 0 .. U8 - 1

\* blocked.0.send_modify(|c| *c += d) for d in {1, -1}: the counter and the
\* version the monitor watches change together.
SendModify(s, d) ==
  /\ blocked' = [blocked EXCEPT ![s] = (@ + d) % U8]
  /\ changed' = [changed EXCEPT ![s] = TRUE]

Server(k) == ServerOf[CallerOf[k]]

\* The request is between its first look at the client and its answer.
InFlight(k) == call[k] # "none"

\* The request has given up the client's block and not put it back.
Released(k) == call[k] \in {"waiting", "reached"}

-----------------------------------------------------------------------------
(***************************************************************************)
(* Registration and disconnection                                          *)
(***************************************************************************)

\* RegisterClientRequest, first access: a blocking client is counted.
CountClient(c) ==
  /\ client[c] = "new"
  /\ client' = [client EXCEPT ![c] = "counted"]
  /\ IF c \in Blocking THEN SendModify(ServerOf[c], 1)
                       ELSE UNCHANGED <<blocked, changed>>
  /\ UNCHANGED <<clock, worker, callVars, monitorVars, toldVars, upset>>

\* Second access: the client enters the client map.
InsertClient(c) ==
  /\ client[c] = "counted"
  /\ client' = [client EXCEPT ![c] = "in"]
  /\ UNCHANGED <<blocked, changed, clock, worker, callVars, monitorVars, toldVars, upset>>

\* Mutant of Disconnect: passive clients give back a block they never held.
DisconnectAny(c) ==
  /\ client[c] = "in"
  /\ upset' = [upset EXCEPT ![ServerOf[c]] =
                 @ \/ \E k \in Calls : CallerOf[k] = c /\ InFlight(k)]
  /\ client' = [client EXCEPT ![c] = "gone"]
  /\ IF blocked[ServerOf[c]] # 0 THEN SendModify(ServerOf[c], -1)
                                 ELSE UNCHANGED <<blocked, changed>>
  /\ UNCHANGED <<clock, worker, callVars, monitorVars, toldVars>>

\* Disconnect, under one lock.  A request of the client that is in flight is
\* a task of its own and goes on.
Disconnect(c) ==
  /\ client[c] = "in"
  /\ upset' = [upset EXCEPT ![ServerOf[c]] =
                 @ \/ \E k \in Calls : CallerOf[k] = c /\ InFlight(k)]
  /\ client' = [client EXCEPT ![c] = "gone"]
  /\ IF c \in Blocking /\ blocked[ServerOf[c]] # 0
       THEN SendModify(ServerOf[c], -1)
       ELSE UNCHANGED <<blocked, changed>>
  /\ UNCHANGED <<clock, worker, callVars, monitorVars, toldVars>>

-----------------------------------------------------------------------------
(***************************************************************************)
(* handle_advance_request                                                  *)
(***************************************************************************)

\* The client is found and is a blocking one.  For a client that is gone the
\* handler panics, for a non-blocking one it returns an error; neither
\* changes anything.
CheckClient(k) ==
  /\ call[k] = "none"
  /\ client[CallerOf[k]] = "in"
  /\ CallerOf[k] \in Blocking
  /\ upset' = [upset EXCEPT ![Server(k)] =
                 @ \/ \E j \in Calls : CallerOf[j] = CallerOf[k] /\ InFlight(j)]
  /\ call' = [call EXCEPT ![k] = "checked"]
  /\ UNCHANGED <<target, fresh, clientVars, clock, worker, monitorVars, toldVars>>

\* The clock watch is cloned and the target computed; a step_count below one
\* was answered before.  The clone of a receiver that never looked has an
\* unseen value as soon as one was sent.
SetTarget(k, n) ==
  /\ call[k] = "checked"
  /\ target' = [target EXCEPT ![k] = clock[Server(k)] + n]
  /\ fresh' = [fresh EXCEPT ![k] = clock[Server(k)] # 0]
  /\ call' = [call EXCEPT ![k] = "targeted"]
  /\ UNCHANGED <<clientVars, clock, worker, monitorVars, toldVars, upset>>

\* The calling client stops blocking.
Unblock(k) ==
  /\ call[k] = "targeted"
  /\ SendModify(Server(k), -1)
  /\ call' = [call EXCEPT ![k] = "waiting"]
  /\ UNCHANGED <<client, target, fresh, clock, worker, monitorVars, toldVars, upset>>

\* On a build with overflow checks the request dies where the counter would
\* leave its type.
Panic(k) ==
  /\ \/ call[k] = "targeted" /\ Overflows(Server(k), -1)
     \/ call[k] = "reached" /\ Overflows(Server(k), 1)
  /\ call' = [call EXCEPT ![k] = "none"]
  /\ UNCHANGED <<target, fresh, clientVars, clock, worker, monitorVars, toldVars, upset>>

\* clock_watch.changed() returns, and the handler compares the clock it now
\* reads with its target.  Past the target it gives up and leaves the counter
\* as it is.
WakeUp(k) ==
  /\ call[k] = "waiting"
  /\ fresh[k]
  /\ fresh' = [fresh EXCEPT ![k] = FALSE]
  /\ call' = [call EXCEPT ![k] =
                CASE clock[Server(k)] = target[k] -> "reached"
                  [] clock[Server(k)] > target[k] -> "none"
                  [] clock[Server(k)] < target[k] -> "waiting"]
  /\ upset' = [upset EXCEPT ![Server(k)] = @ \/ clock[Server(k)] > target[k]]
  /\ UNCHANGED <<target, clientVars, clock, worker, monitorVars, toldVars>>

\* The client blocks again and the request is answered.
Block(k) ==
  /\ call[k] = "reached"
  /\ SendModify(Server(k), 1)
  /\ call' = [call EXCEPT ![k] = "none"]
  /\ UNCHANGED <<client, target, fresh, clock, worker, monitorVars, toldVars, upset>>

-----------------------------------------------------------------------------
(***************************************************************************)
(* Requests of the worker, and the monitor task                            *)
(***************************************************************************)

\* ClockChangedTo(n): the watch coalesces values its receivers did not see.
ClockChangedTo(s, n) ==
  /\ clock' = [clock EXCEPT ![s] = n]
  /\ fresh' = [k \in Calls |->
                 fresh[k] \/ (Server(k) = s /\ call[k] \in {"targeted", "waiting"})]
  /\ UNCHANGED <<clientVars, worker, call, target, monitorVars, toldVars, upset>>

\* ConnectToWorker or IntroduceWorker: the server learns of its worker.
SetWorker(s) ==
  /\ ~worker[s]
  /\ worker' = [worker EXCEPT ![s] = TRUE]
  /\ UNCHANGED <<clientVars, clock, callVars, monitorVars, toldVars, upset>>

\* The monitor task clones the watch and whatever worker is known when it first
\* runs.  The clone of the watch has yet to see all earlier changes.
MonitorStart(s) ==
  /\ monitor[s] = "starting"
  /\ monitor' = [monitor EXCEPT ![s] = "watching"]
  /\ linked' = [linked EXCEPT ![s] = worker[s]]
  /\ UNCHANGED <<verdict, clientVars, clock, worker, callVars, toldVars, upset>>

\* Mutant of MonitorLook: only blocking is passed on.
MonitorLookBlocked(s) ==
  /\ monitor[s] = "watching"
  /\ changed[s]
  /\ changed' = [changed EXCEPT ![s] = FALSE]
  /\ IF linked[s]
       THEN IF blocked[s] # 0
              THEN /\ monitor' = [monitor EXCEPT ![s] = "sending"]
                   /\ verdict' = [verdict EXCEPT ![s] = TRUE]
              ELSE UNCHANGED <<monitor, verdict>>
       ELSE /\ monitor' = [monitor EXCEPT ![s] = "sleeping"]
            /\ UNCHANGED verdict
  /\ UNCHANGED <<client, blocked, clock, worker, callVars, linked, toldVars, upset>>

\* blocked_rcv.changed() returns and the counter is read.  The worker used is
\* the monitor's own clone.
MonitorLook(s) ==
  /\ monitor[s] = "watching"
  /\ changed[s]
  /\ changed' = [changed EXCEPT ![s] = FALSE]
  /\ IF linked[s]
       THEN /\ monitor' = [monitor EXCEPT ![s] = "sending"]
            /\ verdict' = [verdict EXCEPT ![s] = blocked[s] # 0]
       ELSE /\ monitor' = [monitor EXCEPT ![s] = "sleeping"]
            /\ UNCHANGED verdict
  /\ UNCHANGED <<client, blocked, clock, worker, callVars, linked, toldVars, upset>>

\* After the sleep the monitor clones the worker again, unless try_lock finds
\* the server locked.  The change it had seen is not sent.
MonitorRelink(s) ==
  /\ monitor[s] = "sleeping"
  /\ monitor' = [monitor EXCEPT ![s] = "watching"]
  /\ linked' \in {linked, [linked EXCEPT ![s] = worker[s]]}
  /\ UNCHANGED <<verdict, clientVars, clock, worker, callVars, toldVars, upset>>

\* Mutant of MonitorTell: the changes made during the call are marked seen.
MonitorTellClears(s) ==
  /\ monitor[s] = "sending"
  /\ monitor' = [monitor EXCEPT ![s] = "watching"]
  /\ told' = [told EXCEPT ![s] = verdict[s]]
  /\ heard' = [heard EXCEPT ![s] = TRUE]
  /\ changed' = [changed EXCEPT ![s] = FALSE]
  /\ UNCHANGED <<client, blocked, linked, verdict, clock, worker, callVars, upset>>

\* The worker executes SetBlocking(verdict).
MonitorTell(s) ==
  /\ monitor[s] = "sending"
  /\ monitor' = [monitor EXCEPT ![s] = "watching"]
  /\ told' = [told EXCEPT ![s] = verdict[s]]
  /\ heard' = [heard EXCEPT ![s] = TRUE]
  /\ UNCHANGED <<linked, verdict, clientVars, clock, worker, callVars, upset>>

-----------------------------------------------------------------------------
Request(k) ==
  \/ CheckClient(k)
  \/ \E n \in 1..MaxStepCount : SetTarget(k, n)
  \/ Unblock(k)
  \/ Panic(k)
  \/ WakeUp(k)
  \/ Block(k)

Monitor(s) ==
  MonitorStart(s) \/ MonitorLook(s) \/ MonitorRelink(s) \/ MonitorTell(s)

Session(c) == CountClient(c) \/ InsertClient(c) \/ Disconnect(c)

Next ==
  \/ \E c \in Clients : Session(c)
  \/ \E k \in Calls : Request(k)
  \/ \E s \in Servers : Monitor(s) \/ SetWorker(s)
  \/ \E s \in Servers : \E n \in 1..MaxClock : ClockChangedTo(s, n)

Spec == Init /\ [][Next]_vars

-----------------------------------------------------------------------------
(***************************************************************************)
(* Properties                                                              *)
(***************************************************************************)

\* The blocking clients of s that have registered and not left, and whose
\* block is not given up to a request.
Holders(s) ==
  {c \in Blocking :
     /\ ServerOf[c] = s
     /\ client[c] \in {"counted", "in"}
     /\ \A k \in Calls : CallerOf[k] = c => ~Released(k)}

\* As long as no client of the server overlaps its advance requests or leaves
\* in the middle of one, and no request finds the clock too far, the counter
\* is the number of clients that hold the cluster back: the increments and
\* decrements of registrations, advance requests and disconnections balance
\* in every interleaving, and the u8 never wraps.
BlockAccounting ==
  \A s \in Servers : ~upset[s] => blocked[s] = Cardinality(Holders(s))

\* Whatever the clients do: once the monitor got through to the worker, then
\* whenever it has nothing left to look at or to send, the worker's flag
\* agrees with the counter.  Coalesced changes of the watch lose no verdict.
MonitorAgrees ==
  \A s \in Servers :
    monitor[s] = "watching" /\ ~changed[s] /\ heard[s]
      => told[s] = (blocked[s] # 0)
=============================================================================
