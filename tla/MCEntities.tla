----------------------------- MODULE MCEntities -----------------------------
(* Entities for TLC.  a and b are peers, b on another machine; c knows the    *)
(* leader only.  Either c has an archive, or none has one and two of them     *)
(* are configured to use it all the same.                                    *)
EXTENDS Entities, TLC

CONSTANTS a, b, c

MCPeers == [w \in Workers |-> CASE w = a -> {b} [] w = b -> {a} [] OTHER -> {}]
MCSetups ==
  {[archiving |-> {c}, config |-> [w \in Workers |-> {}]],
   [archiving |-> {}, config |-> (a :> {"auto"} @@ b :> {"create"} @@ c :> {"create"})]}
MCPulls == {<<c, {"create", "auto"}>>}

Symmetry == Permutations(Names)

\* After a name is upset nothing more is promised about it; the search stops
\* there.
Quiet == upset = {}
=============================================================================
