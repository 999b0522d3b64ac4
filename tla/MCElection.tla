----------------------------- MODULE MCElection -----------------------------
EXTENDS Election
CONSTANTS w1, w2

\* Nobody knows anybody; a worker that was introduced later knows the earlier one.
MCViews ==
  {[w \in Workers |-> {}], [w \in Workers |-> IF w = w1 THEN {w2} ELSE {}]}

\* One worker loses its leader twice, the other one once.
MCLosses == [w \in Workers |-> IF w = w1 THEN 2 ELSE 1]
============================================================================
