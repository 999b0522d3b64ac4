-------------------------- MODULE ServerTurnProofs --------------------------
(* Proofs about ServerTurn, for any number of servers, clients and requests. *)
EXTENDS ServerTurn, FiniteSetTheorems, TLAPS

-----------------------------------------------------------------------------
(* Type correctness                                                          *)

\* The counter stays a u8 whatever is added to it.
LEMMA SendModifyType ==
  ASSUME NEW s \in Servers, NEW d \in {1, -1}, TypeOK, SendModify(s, d)
  PROVE  /\ blocked' \in [Servers -> 0 .. U8 - 1]
         /\ changed' \in [Servers -> BOOLEAN]
<1>1. \A n \in 0 .. U8 - 1 : (n + d) % U8 \in 0 .. U8 - 1
  BY DEF U8
<1> QED BY <1>1 DEF TypeOK, SendModify

\* Every step of a request, a session, the monitor and the worker keeps the
\* variables within their types.
LEMMA TypeStep == TypeOK /\ [Next]_vars => TypeOK'
<1> SUFFICES ASSUME TypeOK, [Next]_vars PROVE TypeOK'
  OBVIOUS
<1>0. \A k \in Calls : CallerOf[k] \in Clients /\ Server(k) \in Servers
  BY TurnAssumption DEF Server
<1> USE DEF TypeOK, clientVars, callVars, monitorVars, toldVars, ClientStates,
            CallStates, MonitorStates
<1>1. ASSUME NEW c \in Clients, Session(c) PROVE TypeOK'
  <2>1. ServerOf[c] \in Servers
    BY TurnAssumption
  <2>2. CASE CountClient(c)  BY <2>1, <2>2, SendModifyType DEF CountClient
  <2>3. CASE InsertClient(c) BY <2>3 DEF InsertClient
  <2>4. CASE Disconnect(c)   BY <2>1, <2>4, SendModifyType DEF Disconnect
  <2> QED BY <1>1, <2>2, <2>3, <2>4 DEF Session
<1>2. ASSUME NEW k \in Calls, Request(k) PROVE TypeOK'
  <2>1. CASE CheckClient(k)  BY <2>1 DEF CheckClient
  <2>2. ASSUME NEW n \in 1..MaxStepCount, SetTarget(k, n) PROVE TypeOK'
    BY <1>0, <2>2, TurnAssumption DEF SetTarget
  <2>3. CASE Unblock(k)      BY <1>0, <2>3, SendModifyType DEF Unblock
  <2>4. CASE Panic(k)        BY <2>4 DEF Panic
  <2>5. CASE WakeUp(k)
    <3>1. CASE clock[Server(k)] = target[k] BY <1>0, <2>5, <3>1 DEF WakeUp
    <3>2. CASE clock[Server(k)] > target[k] BY <1>0, <2>5, <3>2 DEF WakeUp
    <3>3. CASE clock[Server(k)] < target[k] BY <1>0, <2>5, <3>3 DEF WakeUp
    <3> QED BY <1>0, <3>1, <3>2, <3>3
  <2>6. CASE Block(k)        BY <1>0, <2>6, SendModifyType DEF Block
  <2> QED BY <1>2, <2>1, <2>2, <2>3, <2>4, <2>5, <2>6 DEF Request
<1>3. ASSUME NEW s \in Servers, Monitor(s) PROVE TypeOK'
  <2>1. CASE MonitorStart(s)  BY <2>1 DEF MonitorStart
  <2>2. CASE MonitorLook(s)   BY <2>2 DEF MonitorLook
  <2>3. CASE MonitorRelink(s) BY <2>3 DEF MonitorRelink
  <2>4. CASE MonitorTell(s)   BY <2>4 DEF MonitorTell
  <2> QED BY <1>3, <2>1, <2>2, <2>3, <2>4 DEF Monitor
<1>4. ASSUME NEW s \in Servers, SetWorker(s) PROVE TypeOK'
  BY <1>4 DEF SetWorker
<1>5. ASSUME NEW s \in Servers, NEW n \in 1..MaxClock, ClockChangedTo(s, n)
      PROVE  TypeOK'
  BY <1>5, TurnAssumption DEF ClockChangedTo
<1>6. CASE UNCHANGED vars
  BY <1>6 DEF vars
<1> QED BY <1>1, <1>2, <1>3, <1>4, <1>5, <1>6 DEF Next

\* The server's state is well typed in every reachable state; in particular
\* the blocking counter stays a u8 whatever its clients do.
THEOREM TypeCorrect == Spec => []TypeOK
<1>1. Init => TypeOK
  BY DEF Init, TypeOK, ClientStates, CallStates, MonitorStates, U8
<1> QED BY <1>1, TypeStep, PTL DEF Spec

-----------------------------------------------------------------------------
(* The monitor                                                               *)

\* The inductive strengthening of MonitorAgrees: a monitor that reached its
\* worker keeps it, and what is being sent is the counter's last seen value.
MonitorInv ==
  \A s \in Servers :
    /\ linked[s] => monitor[s] \in {"watching", "sending"}
    /\ heard[s] \/ monitor[s] = "sending" => linked[s]
    /\ monitor[s] = "sending" /\ ~changed[s] => verdict[s] = (blocked[s] # 0)
    /\ monitor[s] = "watching" /\ ~changed[s] /\ heard[s]
         => told[s] = (blocked[s] # 0)

\* Every step preserves it: a change of the counter marks the watch, and only
\* MonitorLook, which reads the counter, takes the mark away.
LEMMA MonitorStep == TypeOK /\ MonitorInv /\ [Next]_vars => MonitorInv'
<1> SUFFICES ASSUME TypeOK, MonitorInv, [Next]_vars PROVE MonitorInv'
  OBVIOUS
<1> USE DEF TypeOK, MonitorInv, clientVars, callVars, monitorVars, toldVars
<1>1. ASSUME NEW s, NEW d, SendModify(s, d),
             UNCHANGED <<monitorVars, toldVars>>
      PROVE  MonitorInv'
  BY <1>1 DEF SendModify
<1>2. ASSUME UNCHANGED <<blocked, changed, monitorVars, toldVars>>
      PROVE  MonitorInv'
  BY <1>2
<1>3. ASSUME NEW c \in Clients, Session(c) PROVE MonitorInv'
  BY <1>1, <1>2, <1>3 DEF Session, CountClient, InsertClient, Disconnect
<1>4. ASSUME NEW k \in Calls, Request(k) PROVE MonitorInv'
  BY <1>1, <1>2, <1>4
  DEF Request, CheckClient, SetTarget, Unblock, Panic, WakeUp, Block
<1>5. ASSUME NEW s \in Servers, Monitor(s) PROVE MonitorInv'
  <2>1. CASE MonitorStart(s)  BY <2>1 DEF MonitorStart
  <2>2. CASE MonitorLook(s)   BY <2>2 DEF MonitorLook
  <2>3. CASE MonitorRelink(s) BY <2>3 DEF MonitorRelink
  <2>4. CASE MonitorTell(s)   BY <2>4 DEF MonitorTell
  <2> QED BY <1>5, <2>1, <2>2, <2>3, <2>4 DEF Monitor
<1>6. ASSUME NEW s \in Servers,
             SetWorker(s) \/ \E n \in 1..MaxClock : ClockChangedTo(s, n)
      PROVE  MonitorInv'
  BY <1>2, <1>6 DEF SetWorker, ClockChangedTo
<1>7. CASE UNCHANGED vars
  BY <1>2, <1>7 DEF vars
<1> QED BY <1>3, <1>4, <1>5, <1>6, <1>7 DEF Next

\* However many changes of the counter the watch coalesces, a monitor at rest
\* that once reached its worker has told it the counter's present verdict.
THEOREM MonitorNeverStale == Spec => []MonitorAgrees
<1>1. Init => MonitorInv
  BY DEF Init, MonitorInv
<1>2. MonitorInv => MonitorAgrees
  BY DEF MonitorInv, MonitorAgrees
<1> QED BY <1>1, <1>2, MonitorStep, TypeCorrect, PTL DEF Spec

-----------------------------------------------------------------------------
(* The blocking counter                                                      *)

\* What the accounting rests on: until the server is upset, a request in
\* flight belongs to a registered blocking client and is that client's only
\* one.
CallInv ==
  \A k \in Calls : InFlight(k) /\ ~upset[Server(k)] =>
    /\ client[CallerOf[k]] = "in"
    /\ CallerOf[k] \in Blocking
    /\ \A j \in Calls : InFlight(j) /\ CallerOf[j] = CallerOf[k] => j = k

\* Every step preserves it, or upsets the server.
LEMMA CallStep == TypeOK /\ CallInv /\ [Next]_vars => CallInv'
<1> SUFFICES ASSUME TypeOK, CallInv, [Next]_vars PROVE CallInv'
  OBVIOUS
<1>0. \A k \in Calls : CallerOf[k] \in Clients /\ Server(k) \in Servers
  BY TurnAssumption DEF Server
<1> USE DEF TypeOK, CallInv, InFlight, Server, clientVars, callVars,
            monitorVars, toldVars
<1>1. ASSUME NEW c \in Clients, Session(c) PROVE CallInv'
  <2>1. CASE CountClient(c)  BY <1>0, <2>1 DEF CountClient
  <2>2. CASE InsertClient(c) BY <1>0, <2>2 DEF InsertClient
  <2>3. CASE Disconnect(c)   BY <1>0, <2>3 DEF Disconnect
  <2> QED BY <1>1, <2>1, <2>2, <2>3 DEF Session
<1>2. ASSUME NEW k \in Calls, Request(k) PROVE CallInv'
  <2>1. CASE CheckClient(k)
    <3>1. \A s \in Servers : upset[s] => upset'[s]
      BY <1>0, <2>1 DEF CheckClient
    <3>2. \A j \in Calls \ {k} : call'[j] = call[j]
      BY <2>1 DEF CheckClient
    <3>3. ~upset'[Server(k)] =>
            \A j \in Calls : CallerOf[j] = CallerOf[k] => call[j] = "none"
      BY <1>0, <2>1 DEF CheckClient
    <3>4. /\ client' = client
          /\ client[CallerOf[k]] = "in" /\ CallerOf[k] \in Blocking
      BY <2>1 DEF CheckClient
    <3> QED BY <1>0, <3>1, <3>2, <3>3, <3>4
  <2>2. ASSUME NEW n \in 1..MaxStepCount, SetTarget(k, n) PROVE CallInv'
    BY <1>0, <2>2 DEF SetTarget
  <2>3. CASE Unblock(k)      BY <1>0, <2>3 DEF Unblock
  <2>4. CASE Panic(k)        BY <1>0, <2>4 DEF Panic
  <2>5. CASE WakeUp(k)       BY <1>0, <2>5 DEF WakeUp
  <2>6. CASE Block(k)        BY <1>0, <2>6 DEF Block
  <2> QED BY <1>2, <2>1, <2>2, <2>3, <2>4, <2>5, <2>6 DEF Request
<1>3. ASSUME NEW s \in Servers, Monitor(s) \/ SetWorker(s) PROVE CallInv'
  BY <1>3 DEF Monitor, MonitorStart, MonitorLook, MonitorRelink, MonitorTell,
              SetWorker
<1>4. ASSUME NEW s \in Servers, NEW n \in 1..MaxClock, ClockChangedTo(s, n)
      PROVE  CallInv'
  BY <1>4 DEF ClockChangedTo
<1>5. CASE UNCHANGED vars
  BY <1>5 DEF vars
<1> QED BY <1>1, <1>2, <1>3, <1>4, <1>5 DEF Next

\* The clients fit into a u8.
FewClients == IsFiniteSet(Clients) /\ Cardinality(Clients) < U8

\* So does every set of clients.
LEMMA FewOfThem ==
  ASSUME FewClients, NEW S, S \subseteq Clients
  PROVE  IsFiniteSet(S) /\ Cardinality(S) \in 0 .. U8 - 1
<1>1. IsFiniteSet(S) /\ Cardinality(S) <= Cardinality(Clients)
  BY FS_Subset DEF FewClients
<1>2. Cardinality(S) \in Nat /\ Cardinality(Clients) \in Nat
  BY <1>1, FS_CardinalityType DEF FewClients
<1> QED BY <1>1, <1>2 DEF FewClients, U8

\* In particular the clients that hold a server back.
LEMMA FewHolders ==
  ASSUME FewClients, NEW s \in Servers
  PROVE  /\ IsFiniteSet(Holders(s))
         /\ Cardinality(Holders(s)) \in 0 .. U8 - 1
<1>1. Holders(s) \subseteq Clients
  BY TurnAssumption DEF Holders
<1> QED BY <1>1, FewOfThem

\* The accounts of one server.
Balanced(s) == blocked[s] = Cardinality(Holders(s))

\* Counting one more client that joins the holders keeps the accounts.
LEMMA HolderJoins ==
  ASSUME FewClients, TypeOK, NEW s \in Servers, Balanced(s),
         NEW c, c \notin Holders(s), SendModify(s, 1),
         Holders(s)' = Holders(s) \union {c}
  PROVE  Balanced(s)'
<1>1. Cardinality(Holders(s)') = Cardinality(Holders(s)) + 1
  BY FewHolders, FS_AddElement
<1>2. Cardinality(Holders(s)') \in 0 .. U8 - 1
  <2>1. Holders(s)' \subseteq Clients
    BY TurnAssumption DEF Holders
  <2> QED BY <2>1, FewOfThem
<1>3. blocked[s] = Cardinality(Holders(s)) /\ blocked[s] \in 0 .. U8 - 1
  BY DEF Balanced, TypeOK
<1>4. blocked'[s] = (blocked[s] + 1) % U8
  BY DEF SendModify, TypeOK
<1> QED BY <1>1, <1>2, <1>3, <1>4 DEF Balanced, U8

\* And so does giving up the block of a client that leaves the holders; the
\* counter cannot be zero then.
LEMMA HolderLeaves ==
  ASSUME FewClients, TypeOK, NEW s \in Servers, Balanced(s),
         NEW c \in Holders(s), SendModify(s, -1),
         Holders(s)' = Holders(s) \ {c}
  PROVE  Balanced(s)'
<1>1. Cardinality(Holders(s)') = Cardinality(Holders(s)) - 1
  BY FewHolders, FS_RemoveElement
<1>2. Cardinality(Holders(s)') \in 0 .. U8 - 1
  <2>1. Holders(s)' \subseteq Clients
    BY TurnAssumption DEF Holders
  <2> QED BY <2>1, FewOfThem
<1>3. blocked[s] = Cardinality(Holders(s)) /\ blocked[s] \in 0 .. U8 - 1
  BY DEF Balanced, TypeOK
<1>4. blocked'[s] = (blocked[s] + -1) % U8
  BY DEF SendModify, TypeOK
<1> QED BY <1>1, <1>2, <1>3, <1>4 DEF Balanced, U8

\* Every step keeps the accounts of a server, or upsets it.
LEMMA AccountStep ==
  ASSUME FewClients, TypeOK, CallInv, BlockAccounting, [Next]_vars
  PROVE  BlockAccounting'
<1> SUFFICES ASSUME NEW r \in Servers, ~upset'[r] PROVE Balanced(r)'
  BY DEF BlockAccounting, Balanced
<1>0. \A k \in Calls : CallerOf[k] \in Clients /\ Server(k) \in Servers
  BY TurnAssumption DEF Server
<1> USE DEF clientVars, callVars, monitorVars, toldVars
<1>1. ~upset[r]
  BY DEF Next, Session, Request, Monitor, CountClient, InsertClient, Disconnect,
         CheckClient, SetTarget, Unblock, Panic, WakeUp, Block, ClockChangedTo,
         SetWorker, MonitorStart, MonitorLook, MonitorRelink, MonitorTell, vars,
         TypeOK
<1>2. Balanced(r)
  BY <1>1 DEF BlockAccounting, Balanced
<1>3. ASSUME blocked'[r] = blocked[r], Holders(r)' = Holders(r)
      PROVE  Balanced(r)'
  BY <1>2, <1>3 DEF Balanced
<1>4. ASSUME UNCHANGED <<client, blocked, call>> PROVE Balanced(r)'
  <2>1. Holders(r)' = Holders(r)
    BY <1>4 DEF Holders, Released
  <2> QED BY <1>3, <1>4, <2>1
<1>5. ASSUME NEW c \in Clients, Session(c) PROVE Balanced(r)'
  <2>1. CASE CountClient(c)
    <3>1. CASE c \in Blocking /\ r = ServerOf[c]
      <4>1. c \notin Holders(r) /\ Holders(r)' = Holders(r) \union {c}
        BY <1>0, <1>1, <2>1, <3>1
        DEF CountClient, Holders, Released, CallInv, InFlight, Server, TypeOK
      <4> QED BY <1>2, <2>1, <3>1, <4>1, HolderJoins DEF CountClient
    <3>2. CASE ~(c \in Blocking /\ r = ServerOf[c])
      <4>1. Holders(r)' = Holders(r)
        BY <2>1, <3>2 DEF CountClient, Holders, Released, TypeOK
      <4>2. blocked'[r] = blocked[r]
        BY <2>1, <3>2, TurnAssumption DEF CountClient, SendModify, TypeOK
      <4> QED BY <1>3, <4>1, <4>2
    <3> QED BY <3>1, <3>2
  <2>2. CASE InsertClient(c)
    <3>1. Holders(r)' = Holders(r)
      BY <2>2 DEF InsertClient, Holders, Released, TypeOK
    <3> QED BY <1>3, <2>2, <3>1 DEF InsertClient
  <2>3. CASE Disconnect(c)
    <3>1. CASE c \in Blocking /\ r = ServerOf[c]
      <4>1. \A k \in Calls : CallerOf[k] = c => ~InFlight(k)
        BY <2>3, <3>1 DEF Disconnect, TypeOK
      <4>2. c \in Holders(r) /\ Holders(r)' = Holders(r) \ {c}
        BY <2>3, <3>1, <4>1 DEF Disconnect, Holders, Released, InFlight, TypeOK
      <4>3. blocked[r] # 0
        BY <1>2, <4>2, FewHolders, FS_EmptySet DEF Balanced
      <4> QED BY <1>2, <2>3, <3>1, <4>2, <4>3, HolderLeaves DEF Disconnect
    <3>2. CASE ~(c \in Blocking /\ r = ServerOf[c])
      <4>1. Holders(r)' = Holders(r)
        BY <2>3, <3>2 DEF Disconnect, Holders, Released, TypeOK
      <4>2. blocked'[r] = blocked[r]
        BY <2>3, <3>2, TurnAssumption DEF Disconnect, SendModify, TypeOK
      <4> QED BY <1>3, <4>1, <4>2
    <3> QED BY <3>1, <3>2
  <2> QED BY <1>5, <2>1, <2>2, <2>3 DEF Session
<1>6. ASSUME NEW k \in Calls, Request(k) PROVE Balanced(r)'
  <2> DEFINE c == CallerOf[k]
  <2>0. c \in Clients /\ Server(k) = ServerOf[c]
    BY <1>0 DEF Server
  <2>1. CASE CheckClient(k)
    <3>1. Holders(r)' = Holders(r)
      BY <2>1 DEF CheckClient, Holders, Released, TypeOK
    <3> QED BY <1>3, <2>1, <3>1 DEF CheckClient
  <2>2. ASSUME NEW n \in 1..MaxStepCount, SetTarget(k, n) PROVE Balanced(r)'
    <3>1. Holders(r)' = Holders(r)
      BY <2>2 DEF SetTarget, Holders, Released, TypeOK
    <3> QED BY <1>3, <2>2, <3>1 DEF SetTarget
  <2>3. ASSUME call[k] = "targeted", r = Server(k) PROVE c \in Holders(r)
    BY <1>1, <2>0, <2>3 DEF Holders, Released, CallInv, InFlight
  <2>4. ASSUME call[k] = "reached", r = Server(k)
        PROVE  /\ c \notin Holders(r)
               /\ c \in Blocking /\ client[c] = "in"
               /\ \A j \in Calls : CallerOf[j] = c /\ j # k => ~Released(j)
    BY <1>1, <2>0, <2>4 DEF Holders, Released, CallInv, InFlight
  <2>5. ASSUME r # Server(k), UNCHANGED client,
               \A j \in Calls : j # k => call'[j] = call[j],
               blocked'[r] = blocked[r]
        PROVE  Balanced(r)'
    <3>1. Holders(r)' = Holders(r)
      BY <2>0, <2>5 DEF Holders, Released
    <3> QED BY <1>3, <2>5, <3>1
  <2>6. CASE Unblock(k)
    <3>1. CASE r = Server(k)
      <4>1. Holders(r)' = Holders(r) \ {c}
        BY <2>0, <2>6, <3>1 DEF Unblock, Holders, Released, TypeOK
      <4> QED BY <1>2, <2>3, <2>6, <3>1, <4>1, HolderLeaves DEF Unblock
    <3>2. CASE r # Server(k)
      BY <1>0, <2>5, <2>6, <3>2 DEF Unblock, SendModify, TypeOK
    <3> QED BY <3>1, <3>2
  <2>7. CASE WakeUp(k)
    <3>1. CASE r = Server(k)
      <4>1. clock[r] \in Nat /\ target[k] \in Nat /\ ~(clock[r] > target[k])
        BY <2>7, <3>1 DEF WakeUp, TypeOK
      <4>2. call'[k] \in {"waiting", "reached"}
        BY <2>7, <3>1, <4>1 DEF WakeUp, TypeOK
      <4>3. Holders(r)' = Holders(r)
        BY <2>7, <4>2 DEF WakeUp, Holders, Released, TypeOK
      <4> QED BY <1>3, <2>7, <4>3 DEF WakeUp
    <3>2. CASE r # Server(k)
      BY <2>5, <2>7, <3>2 DEF WakeUp, TypeOK
    <3> QED BY <3>1, <3>2
  <2>8. CASE Block(k)
    <3>1. CASE r = Server(k)
      <4>1. Holders(r)' = Holders(r) \union {c}
        BY <2>0, <2>4, <2>8, <3>1 DEF Block, Holders, Released, TypeOK
      <4> QED BY <1>2, <2>4, <2>8, <3>1, <4>1, HolderJoins DEF Block
    <3>2. CASE r # Server(k)
      BY <1>0, <2>5, <2>8, <3>2 DEF Block, SendModify, TypeOK
    <3> QED BY <3>1, <3>2
  <2>9. CASE Panic(k)
    <3>1. CASE r # Server(k)
      BY <2>5, <2>9, <3>1 DEF Panic, TypeOK
    <3>2. CASE r = Server(k) /\ call[k] = "targeted" /\ Overflows(r, -1)
      <4>1. Cardinality(Holders(r)) # 0
        BY <2>3, <3>2, FewHolders, FS_EmptySet
      <4> QED BY <1>2, <3>2, <4>1, FewHolders DEF Balanced, Overflows, U8
    <3>3. CASE r = Server(k) /\ call[k] = "reached" /\ Overflows(r, 1)
      <4>1. Holders(r) \union {c} \subseteq Clients
        BY <2>0, TurnAssumption DEF Holders
      <4>2. Cardinality(Holders(r) \union {c}) = Cardinality(Holders(r)) + 1
        BY <2>4, <3>3, FewHolders, FS_AddElement
      <4> QED
        BY <1>2, <3>3, <4>1, <4>2, FewOfThem, FewHolders
        DEF Balanced, Overflows, U8
    <3> QED BY <2>9, <3>1, <3>2, <3>3 DEF Panic
  <2> QED BY <1>6, <2>1, <2>2, <2>6, <2>7, <2>8, <2>9 DEF Request
<1>7. ASSUME NEW s \in Servers, Monitor(s) \/ SetWorker(s) PROVE Balanced(r)'
  BY <1>4, <1>7
  DEF Monitor, MonitorStart, MonitorLook, MonitorRelink, MonitorTell, SetWorker
<1>8. ASSUME NEW s \in Servers, NEW n \in 1..MaxClock, ClockChangedTo(s, n)
      PROVE  Balanced(r)'
  BY <1>4, <1>8 DEF ClockChangedTo
<1>9. CASE UNCHANGED vars
  BY <1>4, <1>9 DEF vars
<1> QED BY <1>5, <1>6, <1>7, <1>8, <1>9 DEF Next

\* With fewer than 256 clients the accounts of a server balance until it is
\* upset: the counter is the number of clients that hold the server back, and
\* it neither wraps around nor kills a request.
THEOREM AccountsBalance ==
  ASSUME FewClients
  PROVE  Spec => []BlockAccounting
<1>1. Init => CallInv
  BY DEF Init, CallInv, InFlight
<1>2. Init => BlockAccounting
  <2> SUFFICES ASSUME Init, NEW s \in Servers
               PROVE  blocked[s] = Cardinality(Holders(s))
    BY DEF BlockAccounting
  <2>1. Holders(s) = {}
    BY TurnAssumption DEF Init, Holders
  <2> QED BY <2>1, FS_EmptySet DEF Init
<1>3. TypeOK /\ CallInv /\ BlockAccounting /\ [Next]_vars
        => CallInv' /\ BlockAccounting'
  BY CallStep, AccountStep
<1> QED BY <1>1, <1>2, <1>3, TypeCorrect, PTL DEF Spec
=============================================================================
