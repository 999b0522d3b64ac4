--------------------------- MODULE MCClusterTurn ----------------------------
(* ClusterTurn for TLC: one worker, one server for all clients, and one slot *)
(* for advance requests per blocking client.                                 *)
EXTENDS ClusterTurn, TLC

MCCalls == Blocking
MCCallerOf == [k \in MCCalls |-> k]
MCServers == {"server"}
MCServerOf == [c \in Clients |-> "server"]
MCWorkerOf == [s \in MCServers |-> CHOOSE w \in Workers : TRUE]
=============================================================================
