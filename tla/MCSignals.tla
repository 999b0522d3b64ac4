----------------------------- MODULE MCSignals -----------------------------
EXTENDS Signals
CONSTANTS w1, w2, w3

C(entry, peers, led, remote, request, delivery) ==
  [peers |-> peers, led |-> led, remote |-> remote, entry |-> entry,
   request |-> request, delivery |-> delivery, networked |-> TRUE]

\* Peers that know each other, and peers of which one does not know the other.
Graph(edges) == [w \in Workers |-> {x \in Workers : {w, x} \in edges}]
OneWay(edges) == [w \in Workers |-> {x \in Workers : <<w, x>> \in edges}]
Alone == Graph({})
Path == Graph({{w1, w2}, {w2, w3}})
Ring == Graph({{w1, w2}, {w2, w3}, {w1, w3}})
Pair == Graph({{w1, w2}})

Edges == {{w1, w2}, {w2, w3}, {w1, w3}}
Broadcasts ==
  {C(w2, Graph(E), led, {}, "invoke", 1) : E \in SUBSET Edges, led \in SUBSET Workers}
  \cup {C(w1, Graph(E), led, {}, "invoke", 0) : E \in SUBSET Edges, led \in {{w1}, {w3}}}
  \cup {C(w1, Alone, Workers, R, "invoke", d) : R \in {{}, {w2}}, d \in {0, 1}}
  \cup {C(w1, Path, {w1}, {w2}, "invoke", 1), C(w1, OneWay({<<w1, w2>>, <<w1, w3>>, <<w2, w3>>}), {}, {w2, w3}, "invoke", 1),
        C(w2, Path, {}, {w1, w3}, "invoke", 1), C(w1, Graph({{w1, w2}, {w1, w3}}), {w2}, {w1}, "invoke", 1)}

Queries ==
  {C(w1, Alone, Workers, {}, "query", 1), C(w1, Alone, Workers, {w1, w2}, "query", 0),
   C(w2, Alone, {w1}, {}, "query", 1), C(w1, OneWay({<<w1, w2>>, <<w2, w3>>}), {w3}, {}, "query", 1),
   C(w1, OneWay({<<w1, w2>>, <<w1, w3>>, <<w2, w3>>}), {w1}, {}, "query", 0),
   C(w1, Pair, {w1, w2, w3}, {}, "query", 1), C(w1, Pair, {w1, w2}, {w1, w2}, "query", 0),
   C(w1, Pair, {w1}, {}, "query", 0), C(w1, OneWay({<<w1, w2>>}), {w1, w3}, {}, "query", 1),
   C(w3, OneWay({<<w1, w2>>}), {w1, w3}, {}, "query", 0)}

ToLeader ==
  {C(w, G, led, {}, "update", d) : w \in {w1, w2}, G \in {Path, Ring, Pair}, led \in {{w1}, {w3}, {w2, w3}}, d \in {0, 1}}
  \cup {[C(w1, G, led, R, "update", 1) EXCEPT !.networked = n] :
           G \in {Path, Pair}, led \in {{w1}, {w2}, {w3}}, R \in {{w1}, {w2}, {w3}}, n \in BOOLEAN}

MCClusters == Broadcasts \cup Queries \cup ToLeader
============================================================================
