---------------------------- MODULE MCServerTurn ----------------------------
(* ServerTurn for TLC.  All clients talk to one server.  Some of the blocking *)
(* clients send advance requests, with a number of slots each.                *)
EXTENDS ServerTurn, TLC

CONSTANTS
  Advancing,   \* the blocking clients that send advance requests
  Slots        \* advance requests each may have in flight at once

MCCalls == Advancing \X (1..Slots)
MCCallerOf == [k \in MCCalls |-> k[1]]
MCServerOf == [c \in Clients |-> CHOOSE s \in Servers : TRUE]

\* Advancing clients are interchangeable.
Symmetry == Permutations(Advancing)
=============================================================================
