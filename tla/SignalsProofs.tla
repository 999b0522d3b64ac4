--------------------------- MODULE SignalsProofs ---------------------------
(***************************************************************************)
(* Proofs about signals, for any cluster: any workers, whoever knows whom, *)
(* wherever a request enters and however long its chains of calls get.     *)
(***************************************************************************)
EXTENDS Signals, SequenceTheorems, WellFoundedInduction, TLAPS

-----------------------------------------------------------------------------
(* Numbers, and the hops of a context *)

\* A set of numbers that is not empty has a least one.
LEMMA Least ==
  ASSUME NEW T, T \subseteq Nat, T # {}
  PROVE  \E i \in T : \A j \in T : i <= j
  <1>1. PICK i \in T : \A j \in T : <<j, i>> \notin OpToRel(<, Nat)
    BY WFMin, NatLessThanWellFounded, Zenon
  <1>2. \A j \in T : ~(j < i)
    BY <1>1, Zenon DEF OpToRel
  <1> QED BY <1>2

\* What holds at the beginning and goes on from each number to the next holds to the end.
LEMMA Counted ==
  ASSUME NEW n \in Nat, NEW T, 0 \in T, \A i \in 1..n : i - 1 \in T => i \in T
  PROVE  0..n \subseteq T
  <1> DEFINE bad == 0..n \ T
  <1>1. ASSUME bad # {} PROVE FALSE
    <2>1. bad \subseteq Nat
      OBVIOUS
    <2>2. PICK i \in bad : \A j \in bad : i <= j
      BY <1>1, <2>1, Least
    <2>3. i \in 1..n /\ i - 1 \in 0..n /\ ~(i <= i - 1)
      BY <2>2
    <2>4. i - 1 \in T
      BY <2>2, <2>3
    <2> QED BY <2>2, <2>3, <2>4
  <1> QED BY <1>1

\* The hops o begin with the hops h.
Begins(h, o) == Len(h) <= Len(o) /\ \A i \in 1..Len(h) : o[i] = h[i]

\* A hop that is pushed is the last of the hops, and none is there twice if it is new.
LEMMA PushIs ==
  ASSUME NEW S, NEW hops \in Seq(S), NEW o \in S
  PROVE  /\ Append(hops, o) \in Seq(S)
         /\ Range(Append(hops, o)) = Range(hops) \cup {o}
         /\ Begins(hops, Append(hops, o))
         /\ IsInjective(hops) /\ o \notin Range(hops) => IsInjective(Append(hops, o))
  <1> DEFINE a == Append(hops, o)
  <1>1. /\ a \in Seq(S) /\ Len(a) = Len(hops) + 1
        /\ \A i \in 1..Len(hops) : a[i] = hops[i]
        /\ a[Len(hops) + 1] = o
    BY AppendProperties
  <1>2. Len(hops) \in Nat /\ DOMAIN hops = 1..Len(hops) /\ DOMAIN a = 1..Len(hops) + 1
    BY <1>1, LenProperties
  <1> HIDE DEF a
  <1>3. \A i \in DOMAIN a : i \in DOMAIN hops \/ i = Len(hops) + 1
    BY <1>2
  <1>4. DOMAIN hops \subseteq DOMAIN a /\ Len(hops) + 1 \in DOMAIN a
    BY <1>2
  <1>5. Range(a) = Range(hops) \cup {o}
    BY <1>1, <1>2, <1>3, <1>4 DEF Range
  <1>6. ASSUME o \notin Range(hops), IsInjective(hops) PROVE IsInjective(a)
    <2>1. \A i \in DOMAIN hops : hops[i] # o
      BY <1>6 DEF Range
    <2> QED BY <1>1, <1>2, <1>3, <1>6, <2>1 DEF IsInjective
  <1>7. Begins(hops, a)
    BY <1>1, <1>2 DEF Begins
  <1> QED BY <1>1, <1>5, <1>6, <1>7 DEF a

\* What begins with hops that begin with others begins with these.
LEMMA BeginsOn ==
  ASSUME NEW S, NEW g \in Seq(S), NEW h \in Seq(S), NEW o \in Seq(S), Begins(g, h), Begins(h, o)
  PROVE  Begins(g, o)
  <1>1. Len(g) \in Nat /\ Len(h) \in Nat /\ Len(o) \in Nat
    BY LenProperties
  <1>2. \A i \in 1..Len(g) : i \in 1..Len(h)
    BY <1>1 DEF Begins
  <1> QED BY <1>1, <1>2 DEF Begins

\* A hop that is pushed if it is new is one of the hops then, and of these none is there twice.
LEMMA AddHopIs ==
  ASSUME NEW S, NEW hops \in Seq(S), NEW o \in S
  PROVE  /\ AddHop(hops, o) \in Seq(S)
         /\ Range(AddHop(hops, o)) = Range(hops) \cup {o}
         /\ Begins(hops, AddHop(hops, o))
         /\ IsInjective(hops) => IsInjective(AddHop(hops, o))
  <1>1. CASE o \in Range(hops)
    <2>1. Begins(hops, hops)
      <3>1. Len(hops) \in Nat
        BY LenProperties
      <3> QED BY <3>1 DEF Begins
    <2> QED BY <1>1, <2>1 DEF AddHop
  <1>2. CASE o \notin Range(hops)
    BY <1>2, PushIs DEF AddHop
  <1> QED BY <1>1, <1>2

\* The loop of merge_hops_unique: the function it is written as exists.
LEMMA MergeLoop ==
  ASSUME NEW S, NEW hops \in Seq(S), NEW other \in Seq(S)
  PROVE  \E f : /\ f = [i \in 0..Len(other) |-> IF i = 0 THEN hops ELSE AddHop(f[i - 1], other[i])]
                /\ MergeHopsUnique(hops, other) = f[Len(other)]
  <1> DEFINE n == Len(other)
             Loop(f, k) == f = [i \in 0..k |-> IF i = 0 THEN hops ELSE AddHop(f[i - 1], other[i])]
             T == {k \in 0..n : \E f : Loop(f, k)}
  <1>1. n \in Nat
    BY LenProperties
  <1>2. 0 \in T
    <2> DEFINE f == [i \in 0..0 |-> hops]
    <2>1. \A i \in 0..0 : i = 0
      OBVIOUS
    <2>2. Loop(f, 0)
      BY <2>1, Zenon
    <2> HIDE DEF f, Loop
    <2>3. 0 \in 0..n
      BY <1>1
    <2> QED BY <2>2, <2>3
  <1>3. ASSUME NEW k \in 1..n, k - 1 \in T PROVE k \in T
    <2>1. PICK g : Loop(g, k - 1)
      BY <1>3
    <2> DEFINE f == [i \in 0..k |-> IF i = k THEN AddHop(g[k - 1], other[k]) ELSE g[i]]
    <2>2. \A i \in 0..k - 1 : f[i] = g[i] /\ g[i] = IF i = 0 THEN hops ELSE AddHop(g[i - 1], other[i])
      BY <2>1
    <2>3. \A i \in 1..k : f[i - 1] = g[i - 1]
      BY <2>2
    <2>4. \A i \in 0..k : f[i] = IF i = 0 THEN hops ELSE AddHop(f[i - 1], other[i])
      <3> SUFFICES ASSUME NEW i \in 0..k PROVE f[i] = IF i = 0 THEN hops ELSE AddHop(f[i - 1], other[i])
        OBVIOUS
      <3>1. CASE i = k
        <4>1. i # 0 /\ f[i] = AddHop(g[k - 1], other[k]) /\ f[i - 1] = g[k - 1]
          BY <2>3, <3>1
        <4> QED BY <3>1, <4>1
      <3>2. CASE i # k
        <4>1. i \in 0..k - 1
          BY <3>2
        <4>2. i # 0 => f[i - 1] = g[i - 1]
          BY <2>3
        <4> QED BY <2>2, <4>1, <4>2
      <3> QED BY <3>1, <3>2
    <2>5. f = [i \in 0..k |-> f[i]]
      OBVIOUS
    <2> HIDE DEF f
    <2>6. Loop(f, k)
      BY <2>4, <2>5
    <2> HIDE DEF Loop
    <2>7. k \in 0..n
      BY <1>1
    <2> QED BY <2>6, <2>7
  <1>4. n \in T
    <2> HIDE DEF T
    <2>1. 0..n \subseteq T
      BY <1>1, <1>2, <1>3, Counted
    <2> QED BY <1>1, <2>1
  <1>5. \E f : Loop(f, n)
    BY <1>4
  <1> DEFINE m == CHOOSE f : Loop(f, n)
  <1>6. Loop(m, n)
    BY <1>5
  <1>7. MergeHopsUnique(hops, other) = m[n]
    BY DEF MergeHopsUnique
  <1> HIDE DEF m
  <1> QED BY <1>6, <1>7

\* merge_hops_unique: the hops of both, and if no observer was there twice, none is now.
LEMMA MergeUniqueIs ==
  ASSUME NEW S, NEW hops \in Seq(S), NEW other \in Seq(S)
  PROVE  /\ MergeHopsUnique(hops, other) \in Seq(S)
         /\ Range(MergeHopsUnique(hops, other)) = Range(hops) \cup Range(other)
         /\ Begins(hops, MergeHopsUnique(hops, other))
         /\ IsInjective(hops) => IsInjective(MergeHopsUnique(hops, other))
  <1> DEFINE n == Len(other)
  <1>1. PICK f : /\ f = [i \in 0..n |-> IF i = 0 THEN hops ELSE AddHop(f[i - 1], other[i])]
                 /\ MergeHopsUnique(hops, other) = f[n]
    BY MergeLoop
  <1>2. n \in Nat /\ DOMAIN other = 1..n /\ \A i \in 1..n : other[i] \in S
    BY LenProperties, ElementOfSeq
  <1> DEFINE Right(i) == /\ f[i] \in Seq(S)
                         /\ Range(f[i]) = Range(hops) \cup {other[j] : j \in 1..i}
                         /\ Begins(hops, f[i])
                         /\ IsInjective(hops) => IsInjective(f[i])
             T == {i \in 0..n : Right(i)}
  <1> HIDE DEF n
  <1>3. 0 \in T
    <2>1. f[0] = hops
      BY <1>1, <1>2
    <2>2. Len(hops) \in Nat
      BY LenProperties
    <2>3. Begins(hops, hops)
      BY <2>2 DEF Begins
    <2> QED BY <1>2, <2>1, <2>3
  <1>4. ASSUME NEW i \in 1..n, i - 1 \in T PROVE i \in T
    <2>1. f[i] = AddHop(f[i - 1], other[i])
      BY <1>1, <1>2
    <2>2. Right(i - 1)
      BY <1>4
    <2> DEFINE g == f[i - 1]  o == other[i]
    <2>3. /\ f[i] \in Seq(S) /\ Range(f[i]) = Range(f[i - 1]) \cup {other[i]}
          /\ Begins(f[i - 1], f[i])
          /\ IsInjective(f[i - 1]) => IsInjective(f[i])
      <3>1. g \in Seq(S) /\ o \in S /\ f[i] = AddHop(g, o)
        BY <1>2, <2>1, <2>2
      <3> HIDE DEF g, o
      <3>2. /\ AddHop(g, o) \in Seq(S)
            /\ Range(AddHop(g, o)) = Range(g) \cup {o}
            /\ Begins(g, AddHop(g, o))
            /\ IsInjective(g) => IsInjective(AddHop(g, o))
        BY <3>1, AddHopIs, Zenon
      <3> QED BY <3>1, <3>2 DEF g, o
    <2>4. {other[j] : j \in 1..i} = {other[j] : j \in 1..i - 1} \cup {other[i]}
      <3>1. 1..i = 1..(i - 1) \cup {i}
        OBVIOUS
      <3> QED BY <3>1
    <2>5. Begins(hops, f[i])
      <3>1. f[i - 1] \in Seq(S) /\ f[i] \in Seq(S) /\ Begins(hops, f[i - 1]) /\ Begins(f[i - 1], f[i])
        BY <2>2, <2>3
      <3> DEFINE g2 == f[i - 1]  h2 == f[i]
      <3> HIDE DEF g2, h2
      <3>2. g2 \in Seq(S) /\ h2 \in Seq(S) /\ Begins(hops, g2) /\ Begins(g2, h2)
        BY <3>1 DEF g2, h2
      <3>3. Begins(hops, h2)
        BY <3>2, BeginsOn
      <3> QED BY <3>3 DEF h2
    <2> QED BY <2>2, <2>3, <2>4, <2>5
  <1>5. Right(n)
    <2> HIDE DEF T
    <2>1. 0..n \subseteq T
      BY <1>2, <1>3, <1>4, Counted
    <2>2. n \in T
      BY <1>2, <2>1
    <2> QED BY <2>2 DEF T
  <1>6. Range(other) = {other[j] : j \in 1..n}
    BY <1>2 DEF Range
  <1> QED BY <1>1, <1>5, <1>6

\* The leader's way with an answer's hops: they come after its own, and are the answer's if
\* these begin with the leader's.
LEMMA MergeAfterIs ==
  ASSUME NEW S, NEW hops \in Seq(S), NEW other \in Seq(S)
  PROVE  /\ MergeHopsAfter(hops, other) \in Seq(S)
         /\ Range(MergeHopsAfter(hops, other)) \subseteq Range(hops) \cup Range(other)
         /\ Begins(hops, other) => MergeHopsAfter(hops, other) = other
  <1> DEFINE m == Len(hops)  n == Len(other)
             tail == SubSeq(other, m + 1, n)
             all == hops \o tail
  <1>1. m \in Nat /\ n \in Nat /\ DOMAIN hops = 1..m /\ DOMAIN other = 1..n
    BY LenProperties
  <1>2. /\ tail \in Seq(S)
        /\ Len(tail) = IF m + 1 <= n THEN n - m ELSE 0
        /\ \A i \in 1..Len(tail) : tail[i] = other[m + i]
    <2>1. CASE m + 1 <= n
      <3>1. /\ m + 1 \in 1..(n + 1) /\ n \in 0..n
        BY <1>1, <2>1
      <3>2. tail \in Seq(S) /\ Len(tail) = n - (m + 1) + 1
        BY <1>1, <2>1, <3>1, SubSeqProperties
      <3>3. \A i \in 1..n - (m + 1) + 1 : tail[i] = other[m + 1 + i - 1]
        BY <1>1, <2>1, <3>1, SubSeqProperties
      <3>4. \A i \in 1..n - (m + 1) + 1 : m + 1 + i - 1 = m + i
        BY <1>1
      <3>5. n - (m + 1) + 1 = n - m
        BY <1>1
      <3> HIDE DEF tail
      <3> QED BY <2>1, <3>2, <3>3, <3>4, <3>5
    <2>2. CASE ~(m + 1 <= n)
      <3>1. tail = <<>>
        BY <1>1, <2>2, SubSeqProperties
      <3> HIDE DEF tail
      <3>2. <<>> \in Seq(S) /\ Len(<<>>) = 0
        BY EmptySeq
      <3> QED BY <2>2, <3>1, <3>2
    <2> QED BY <2>1, <2>2
  <1> HIDE DEF tail
  <1>3. /\ all \in Seq(S) /\ Len(all) = m + Len(tail)
        /\ \A i \in 1..m + Len(tail) : all[i] = IF i <= m THEN hops[i] ELSE tail[i - m]
    BY <1>2, ConcatProperties
  <1>4. MergeHopsAfter(hops, other) = all
    BY DEF MergeHopsAfter, tail
  <1>5. DOMAIN all = 1..m + Len(tail) /\ Len(tail) \in Nat
    BY <1>2, <1>3, LenProperties
  <1> HIDE DEF all, m, n
  <1>6. ASSUME NEW i \in DOMAIN all, ~(i <= m) PROVE all[i] = other[i] /\ i \in DOMAIN other
    <2>1. i - m \in 1..Len(tail) /\ m + (i - m) = i /\ m + 1 <= n /\ i <= n
      BY <1>1, <1>2, <1>5, <1>6
    <2>2. all[i] = tail[i - m]
      BY <1>3, <1>5, <1>6
    <2>3. tail[i - m] = other[m + (i - m)]
      BY <1>2, <2>1
    <2> QED BY <1>1, <1>5, <2>1, <2>2, <2>3
  <1>7. ASSUME NEW i \in DOMAIN all, i <= m PROVE all[i] = hops[i] /\ i \in DOMAIN hops
    BY <1>1, <1>3, <1>5, <1>7
  <1>8. Range(all) \subseteq Range(hops) \cup Range(other)
    BY <1>6, <1>7 DEF Range
  <1>9. ASSUME Begins(hops, other) PROVE all = other
    <2>1. m <= n /\ \A i \in 1..m : other[i] = hops[i]
      BY <1>9 DEF Begins, m, n
    <2>2. Len(all) = n
      BY <1>1, <1>2, <1>3, <2>1
    <2>3. \A i \in DOMAIN all : all[i] = other[i]
      BY <1>1, <1>6, <1>7, <2>1
    <2> QED BY <1>3, <1>5, <2>2, <2>3, SeqEqual DEF n
  <1> QED BY <1>3, <1>4, <1>8, <1>9

-----------------------------------------------------------------------------
(* Calls and the chains they went along *)

LEMMA ChainGrows ==
  ASSUME NEW S, NEW p \in Seq(S), NEW x \in S
  PROVE  /\ Append(p, x) \in Seq(S) /\ Append(p, x) # <<>> /\ Append(p, x) # p
         /\ Len(Append(p, x)) = Len(p) + 1
         /\ Last(Append(p, x)) = x
         /\ Front(Append(p, x)) = p
  <1>0. Len(p) \in Nat
    BY LenProperties
  <1>1. Append(p, x) \in Seq(S)
    BY AppendProperties
  <1>2. Append(p, x) # <<>>
    BY AppendProperties
  <1>3. Len(Append(p, x)) = Len(p) + 1
    BY AppendProperties
  <1>4. Append(p, x)[Len(p) + 1] = x
    BY AppendProperties
  <1>5. Append(p, x) # p
    BY <1>0, <1>3
  <1>6. Front(Append(p, x)) = p
    <2> DEFINE f == SubSeq(Append(p, x), 1, Len(p))
    <2>1. \A i \in 1..Len(p) : Append(p, x)[i] = p[i] /\ p[i] \in S
      BY AppendProperties, ElementOfSeq
    <2>2. f \in Seq(S)
      BY <1>0, <1>1, <1>3, SubSeqProperties
    <2>3. Len(f) = Len(p)
      BY <1>0, <1>1, <1>3, SubSeqProperties
    <2>4. \A i \in 1..Len(p) : f[i] = Append(p, x)[i]
      BY <1>0, <1>1, <1>3, SubSeqProperties
    <2> HIDE DEF f
    <2>5. f = p
      BY <2>1, <2>2, <2>3, <2>4, SeqEqual
    <2> QED BY <1>0, <1>3, <2>5 DEF Front, f
  <1> QED BY <1>1, <1>2, <1>3, <1>4, <1>5, <1>6 DEF Last

LEMMA LastOne ==
  ASSUME NEW S, NEW p \in Seq(S), p # <<>>
  PROVE  /\ Len(p) \in Nat \ {0} /\ Last(p) \in S
         /\ Len(p) = 1 => p = <<Last(p)>>
  <1>1. Len(p) \in Nat \ {0}
    BY EmptySeq
  <1>2. Len(p) \in 1..Len(p)
    BY <1>1
  <1>3. Last(p) \in S
    BY <1>2, ElementOfSeq DEF Last
  <1>4. ASSUME Len(p) = 1 PROVE p = <<Last(p)>>
    <2>1. DOMAIN p = 1..1
      BY <1>4, LenProperties
    <2>2. p = [i \in 1..1 |-> p[i]]
      BY <1>4, LenProperties
    <2> QED BY <1>4, <2>1, <2>2 DEF Last
  <1> QED BY <1>1, <1>3, <1>4

LEMMA FrontIs ==
  ASSUME NEW S, NEW p \in Seq(S), Len(p) > 1
  PROVE  Len(Front(p)) = Len(p) - 1
  <1>1. Len(p) \in Nat
    BY LenProperties
  <1>2. 1..(Len(p) - 1) \subseteq 1..Len(p) /\ 1 <= Len(p) - 1 + 1 /\ Len(p) - 1 \in Int
    BY <1>1
  <1>3. \A m, n \in Int : m <= n + 1 /\ m \in 1..(Len(p) + 1) /\ n \in 0..Len(p) => Len(SubSeq(p, m, n)) = n - m + 1
    BY <1>1, SubSeqProperties
  <1>4. Len(SubSeq(p, 1, Len(p) - 1)) = Len(p) - 1
    BY <1>1, <1>2, <1>3
  <1> QED BY <1>4 DEF Front

\* No call is its own caller.
LEMMA FrontDiffers ==
  ASSUME NEW S, NEW p \in Seq(S), p # <<>>
  PROVE  Front(p) # p
  <1> DEFINE n == Len(p)  m == Len(Front(p))
  <1>1. n \in Nat /\ n >= 1
    <2>1. n \in Nat \ {0}
      BY LastOne
    <2> QED BY <2>1
  <1>2. CASE n > 1
    <2>1. m = n - 1
      BY <1>2, FrontIs
    <2> HIDE DEF n, m
    <2>2. m # n
      BY <1>1, <2>1
    <2> QED BY <2>2 DEF n, m
  <1>3. CASE ~(n > 1)
    <2> HIDE DEF n
    <2>1. n - 1 = 0
      BY <1>1, <1>3
    <2>2. Front(p) = SubSeq(p, 1, 0)
      BY <2>1 DEF Front, n
    <2>3. SubSeq(p, 1, 0) = <<>>
      BY SubSeqProperties
    <2> QED BY <2>2, <2>3
  <1> QED BY <1>2, <1>3

\* Records with the fields of a context and of a call. How long a context's hops get
\* does not matter here.
IsContext(x) == DOMAIN x = {"id", "origin", "delivery", "hops"}
IsCall(c) ==
  /\ DOMAIN c = {"request", "ctx", "open", "waits", "left", "error", "product"}
  /\ IsContext(c.ctx)

\* The requests that a request to the cluster makes, and those that go to the leader.
Family ==
  CASE cluster.request = "invoke" -> {"invoke", "broadcast"}
    [] cluster.request = "query" -> {"query", "proxied_query"}
    [] OTHER -> {"update", "leader_update"}
ToLeader(request) == request \in {"broadcast", "proxied_query", "leader_update"}

Proper(p, c) ==
  /\ p \in Seq(Participants) /\ p # <<>>
  /\ IsCall(c)
  /\ c.request \in Family
  /\ Last(p) = Leader <=> ToLeader(c.request)

ShapeInv ==
  /\ cluster \in ClusterType
  /\ calls = [p \in DOMAIN calls |-> calls[p]]
  /\ \A p \in DOMAIN calls : Proper(p, calls[p])
  /\ seen = [w \in Workers |-> seen[w]]
  /\ handled \in [Participants -> Nat]

LEMMA ContextIs ==
  ASSUME NEW x, IsContext(x), NEW hops
  PROVE  /\ IsContext([x EXCEPT !.hops = hops])
         /\ [x EXCEPT !.hops = hops].id = x.id
         /\ [x EXCEPT !.hops = hops].delivery = x.delivery
         /\ [x EXCEPT !.hops = hops].origin = x.origin
         /\ [x EXCEPT !.hops = hops].hops = hops
  BY DEF IsContext

LEMMA CallIs ==
  ASSUME NEW request, NEW ctx
  PROVE  LET c == Call(request, ctx)
         IN  /\ c.request = request /\ c.ctx = ctx /\ ~c.open /\ c.waits = {} /\ c.left = {} /\ ~c.error
             /\ c.product = [w \in Workers |-> 0]
             /\ IsContext(ctx) => IsCall(c)
  BY DEF Call, IsCall

Opened(c, ctx, waits, left, error) ==
  [c EXCEPT !.open = TRUE, !.ctx = ctx, !.waits = waits, !.left = left, !.error = error]

LEMMA OpenedIs ==
  ASSUME NEW c, IsCall(c), NEW ctx, IsContext(ctx), NEW waits, NEW left, NEW error \in BOOLEAN
  PROVE  LET d == Opened(c, ctx, waits, left, error)
         IN  /\ IsCall(d) /\ d.open /\ d.request = c.request /\ d.ctx = ctx
             /\ d.waits = waits /\ d.left = left /\ d.error = error /\ d.product = c.product
  BY DEF IsCall, Opened

-----------------------------------------------------------------------------
(* What the steps of a call do *)

\* What a participant registers of a context leaves what the signal is.
LEMMA ObservedIs ==
  ASSUME ShapeInv, NEW p \in DOMAIN calls
  PROVE  /\ IsContext(Observed(p))
         /\ Observed(p).id = calls[p].ctx.id /\ Observed(p).delivery = calls[p].ctx.delivery
         /\ Observed(p).origin = calls[p].ctx.origin
         /\ Observed(p).hops \in {calls[p].ctx.hops, Append(calls[p].ctx.hops, Last(p))}
  <1>1. IsContext(calls[p].ctx)
    BY DEF ShapeInv, Proper, IsCall
  <1> DEFINE ctx == calls[p].ctx
             more == [ctx EXCEPT !.hops = Append(ctx.hops, Last(p))]
  <1>2. Observed(p) \in {ctx, more}
    BY DEF Observed, RegisterHop
  <1>3. /\ IsContext(more) /\ more.id = ctx.id /\ more.delivery = ctx.delivery
        /\ more.origin = ctx.origin /\ more.hops = Append(ctx.hops, Last(p))
    BY <1>1, ContextIs
  <1> HIDE DEF more
  <1> QED BY <1>1, <1>2, <1>3

\* The calls of the function made are of the request's family, and go to the leader, or to
\* a worker, as their requests say.
Suits(made) ==
  \A x \in DOMAIN made : /\ x \in Participants /\ made[x] \in Family
                         /\ x = Leader <=> ToLeader(made[x])
Made(p, made) == {Append(p, x) : x \in DOMAIN made}

\* Call p has been opened, and has made the calls of the function made.
IsOpened(p, ctx, made, left, error) ==
  /\ p \notin Made(p, made) /\ DOMAIN calls' = DOMAIN calls \cup Made(p, made)
  /\ calls'[p].open /\ calls'[p].request = calls[p].request /\ calls'[p].ctx = ctx
  /\ calls'[p].waits = Made(p, made) /\ calls'[p].left = left /\ calls'[p].error = error
  /\ calls'[p].product = calls[p].product
  /\ \A x \in DOMAIN made : calls'[Append(p, x)] = Call(made[x], ctx)
  /\ \A q \in DOMAIN calls \ (Made(p, made) \cup {p}) : calls'[q] = calls[q]

LEMMA OpenIs ==
  ASSUME ShapeInv, NEW p \in DOMAIN calls, NEW ctx, IsContext(ctx), NEW made, NEW left,
         NEW error \in BOOLEAN, Open(p, ctx, made, left, error), Suits(made)
  PROVE  /\ ShapeInv'
         /\ ~calls[p].open /\ ~Refused(p) /\ Record(p) /\ UNCHANGED <<cluster, handled, answer>>
         /\ IsOpened(p, ctx, made, left, error)
  <1> USE DEF Suits
  <1> DEFINE new == {Append(p, x) : x \in DOMAIN made}
             opened == Opened(calls[p], ctx, new, left, error)
             value(q) == IF q = p THEN opened ELSE IF q \in new THEN Call(made[Last(q)], ctx) ELSE calls[q]
  <1>1. /\ ~calls[p].open /\ ~Refused(p) /\ Record(p) /\ UNCHANGED <<cluster, handled, answer>>
        /\ calls' = [q \in DOMAIN calls \cup new |-> value(q)]
    <2>1. calls' = [q \in DOMAIN calls \cup new |-> value(q)]
      BY Zenon DEF Open, Opened
    <2>2. ~calls[p].open /\ ~Refused(p) /\ Record(p) /\ UNCHANGED <<cluster, handled, answer>>
      BY Zenon DEF Open
    <2> QED BY <2>1, <2>2, Zenon
  <1>2. Proper(p, calls[p]) /\ p \in Seq(Participants)
    BY DEF ShapeInv, Proper
  <1>3. /\ IsCall(opened) /\ opened.open /\ opened.request = calls[p].request /\ opened.ctx = ctx
        /\ opened.waits = new /\ opened.left = left /\ opened.error = error
        /\ opened.product = calls[p].product
    <2>1. IsCall(calls[p])
      BY <1>2 DEF Proper
    <2> QED BY <2>1, OpenedIs
  <1>4. \A x \in DOMAIN made : /\ Append(p, x) \in Seq(Participants) /\ Append(p, x) # <<>>
                               /\ Append(p, x) # p /\ Last(Append(p, x)) = x
    BY <1>2, ChainGrows
  <1>5. p \notin new
    BY <1>4
  <1> HIDE DEF opened
  <1>6. DOMAIN calls' = DOMAIN calls \cup new /\ calls'[p] = opened
    BY <1>1
  <1>7. ASSUME NEW q \in new
        PROVE  /\ \E x \in DOMAIN made : q = Append(p, x) /\ calls'[q] = Call(made[x], ctx)
               /\ Proper(q, calls'[q])
    <2>1. PICK x \in DOMAIN made : q = Append(p, x)
      OBVIOUS
    <2>2. calls'[q] = Call(made[x], ctx)
      BY <1>1, <1>4, <1>5, <2>1
    <2>3. /\ IsCall(calls'[q]) /\ calls'[q].request = made[x]
      BY <2>2, CallIs
    <2>4. Proper(q, calls'[q])
      BY <1>4, <2>1, <2>3 DEF Proper
    <2> QED BY <2>1, <2>2, <2>4
  <1>8. \A q \in DOMAIN calls \ (new \cup {p}) : calls'[q] = calls[q]
    BY <1>1
  <1>9. Proper(p, calls'[p])
    BY <1>2, <1>3, <1>6 DEF Proper
  <1>10. \A q \in DOMAIN calls' : Proper(q, calls'[q])
    <2>1. \A q \in DOMAIN calls \ (new \cup {p}) : Proper(q, calls'[q])
      BY <1>8 DEF ShapeInv
    <2> HIDE DEF new
    <2> QED BY <1>6, <1>7, <1>9, <2>1
  <1>11. seen' = [w \in Workers |-> seen'[w]]
    <2>1. seen = [w \in Workers |-> seen[w]]
      BY DEF ShapeInv
    <2> QED BY <1>1, <2>1 DEF Record
  <1>12. calls' = [q \in DOMAIN calls' |-> calls'[q]]
    BY <1>1
  <1>13. ShapeInv'
    BY <1>1, <1>10, <1>11, <1>12 DEF ShapeInv, Proper, Family
  <1>14. new = Made(p, made)
    BY DEF Made
  <1>15. \A x \in DOMAIN made : calls'[Append(p, x)] = Call(made[x], ctx)
    BY <1>1, <1>4, <1>5
  <1> HIDE DEF new
  <1> QED BY <1>1, <1>3, <1>5, <1>6, <1>8, <1>13, <1>14, <1>15 DEF IsOpened

\* What an answer does to the hops of the call that made the call.
Merged(request, hops, other) ==
  CASE request = "invoke" -> MergeHopsUnique(hops, other)
    [] request = "broadcast" -> MergeHopsAfter(hops, other)
    [] request = "update" -> other
    [] OTHER -> hops

\* Call t is call c once it has the answer to call p.
IsTold(c, p, ok, ctx, product, t) ==
  /\ IsCall(t) /\ t.request = c.request /\ t.open = c.open /\ t.left = c.left
  /\ t.waits = c.waits \ {p}
  /\ t.ctx.id = c.ctx.id /\ t.ctx.delivery = c.ctx.delivery /\ t.ctx.origin = c.ctx.origin
  /\ t.error <=> c.error \/ (~ok /\ c.request \notin {"invoke", "broadcast"})
  /\ t.ctx.hops = IF ok THEN Merged(c.request, c.ctx.hops, ctx.hops) ELSE c.ctx.hops
  /\ t.product = IF ok THEN [w \in Workers |-> c.product[w] + product[w]] ELSE c.product
  /\ ~ok => t.ctx = c.ctx

LEMMA ToldIs ==
  ASSUME NEW c, IsCall(c), NEW p, NEW ok \in BOOLEAN, NEW ctx, NEW product
  PROVE  IsTold(c, p, ok, ctx, product, Told(c, p, ok, ctx, product))
  <1> DEFINE more(h) == [c.ctx EXCEPT !.hops = h]
             merged == CASE c.request = "invoke" -> more(MergeHopsUnique(c.ctx.hops, ctx.hops))
                         [] c.request = "broadcast" -> more(MergeHopsAfter(c.ctx.hops, ctx.hops))
                         [] c.request = "update" -> more(ctx.hops)
                         [] OTHER -> c.ctx
             sum == [w \in Workers |-> c.product[w] + product[w]]
             good == [c EXCEPT !.waits = c.waits \ {p}, !.ctx = merged, !.product = sum]
             bad == [c EXCEPT !.waits = c.waits \ {p},
                              !.error = c.error \/ c.request \notin {"invoke", "broadcast"}]
  <1>1. Told(c, p, ok, ctx, product) = IF ok THEN good ELSE bad
    BY DEF Told
  <1>2. /\ IsContext(c.ctx)
        /\ \A h : /\ IsContext(more(h)) /\ more(h).id = c.ctx.id /\ more(h).delivery = c.ctx.delivery
                  /\ more(h).origin = c.ctx.origin /\ more(h).hops = h
    BY ContextIs DEF IsCall
  <1> HIDE DEF more
  <1>3. /\ IsContext(merged) /\ merged.id = c.ctx.id /\ merged.delivery = c.ctx.delivery
        /\ merged.origin = c.ctx.origin
        /\ merged.hops = Merged(c.request, c.ctx.hops, ctx.hops)
    BY <1>2 DEF Merged
  <1> HIDE DEF merged, sum
  <1>4. /\ IsCall(good) /\ good.request = c.request /\ good.open = c.open /\ good.left = c.left
        /\ good.waits = c.waits \ {p} /\ good.ctx = merged /\ good.product = sum /\ good.error = c.error
    BY <1>3 DEF IsCall
  <1>5. /\ IsCall(bad) /\ bad.request = c.request /\ bad.open = c.open /\ bad.left = c.left
        /\ bad.waits = c.waits \ {p} /\ bad.ctx = c.ctx /\ bad.product = c.product
        /\ bad.error <=> c.error \/ c.request \notin {"invoke", "broadcast"}
    BY DEF IsCall
  <1> HIDE DEF good, bad
  <1>6. CASE ok
    BY <1>1, <1>3, <1>4, <1>6 DEF sum, IsTold
  <1>7. CASE ~ok
    BY <1>1, <1>5, <1>7 DEF IsTold
  <1> QED BY <1>6, <1>7

\* A call is answered, and the call that made it, if it still waits for it, told so.
LEMMA RespondIs ==
  ASSUME ShapeInv, NEW p \in DOMAIN calls, NEW ok \in BOOLEAN, NEW product,
         Respond(p, ok, calls[p].ctx, product), UNCHANGED <<cluster, seen>>, handled' \in [Participants -> Nat]
  PROVE  /\ ShapeInv'
         /\ DOMAIN calls' = DOMAIN calls \ {p}
         /\ \A q \in DOMAIN calls' :
              /\ q # Front(p) => calls'[q] = calls[q]
              /\ calls'[q].open = calls[q].open /\ calls'[q].request = calls[q].request
              /\ calls'[q].left = calls[q].left
              /\ calls'[q].ctx.id = calls[q].ctx.id /\ calls'[q].ctx.delivery = calls[q].ctx.delivery
         /\ Front(p) \in DOMAIN calls' =>
              /\ calls'[Front(p)].waits = calls[Front(p)].waits \ {p}
              /\ p \notin calls[Front(p)].waits => calls'[Front(p)] = calls[Front(p)]
              /\ p \in calls[Front(p)].waits =>
                   (calls'[Front(p)].error <=>
                      calls[Front(p)].error \/ (~ok /\ calls[Front(p)].request \notin {"invoke", "broadcast"}))
              /\ calls[Front(p)].error => calls'[Front(p)].error
         /\ p = Root => answer'.done /\ answer'.ok = ok
         /\ p # Root => answer' = answer
  <1> DEFINE up == Front(p)
             rest == [q \in DOMAIN calls \ {p} |-> calls[q]]
             told(c) == Told(c, p, ok, calls[p].ctx, product)
             heard == p \in calls[up].waits
  <1>1. calls' = IF up \in DOMAIN rest /\ p \in rest[up].waits THEN [rest EXCEPT ![up] = told(rest[up])] ELSE rest
    BY DEF Respond, Return
  <1>3. ASSUME NEW c, IsCall(c)
        PROVE  IsTold(c, p, ok, calls[p].ctx, product, told(c))
    BY <1>3, ToldIs, Zenon
  <1> HIDE DEF told
  <1>4. DOMAIN rest = DOMAIN calls \ {p} /\ \A q \in DOMAIN rest : rest[q] = calls[q]
    OBVIOUS
  <1>5. /\ DOMAIN calls' = DOMAIN calls \ {p} /\ calls' = [q \in DOMAIN calls' |-> calls'[q]]
        /\ \A q \in DOMAIN calls' : calls'[q] = IF q = up /\ heard THEN told(calls[q]) ELSE calls[q]
    BY <1>1, <1>4
  <1>6. \A q \in DOMAIN calls : IsCall(calls[q])
    BY DEF ShapeInv, Proper
  <1> HIDE DEF heard
  <1>7. ASSUME NEW q \in DOMAIN calls'
        PROVE  /\ calls'[q].open = calls[q].open /\ calls'[q].request = calls[q].request
               /\ calls'[q].left = calls[q].left
               /\ calls'[q].ctx.id = calls[q].ctx.id /\ calls'[q].ctx.delivery = calls[q].ctx.delivery
               /\ Proper(q, calls'[q])
    <2>1. q \in DOMAIN calls /\ IsCall(calls[q]) /\ Proper(q, calls[q])
      BY <1>5, <1>6 DEF ShapeInv
    <2>2. calls'[q] = calls[q] \/ IsTold(calls[q], p, ok, calls[p].ctx, product, calls'[q])
      BY <1>3, <1>5, <2>1
    <2>3. IsCall(calls'[q]) /\ calls'[q].request = calls[q].request
      BY <2>1, <2>2 DEF IsTold
    <2>4. Proper(q, calls'[q])
      BY <2>1, <2>3 DEF Proper
    <2> QED BY <2>1, <2>2, <2>4 DEF IsTold
  <1>8. ShapeInv'
    BY <1>5, <1>7 DEF ShapeInv, Proper, Family
  <1>9. up \in DOMAIN calls' =>
          /\ calls'[up].waits = calls[up].waits \ {p}
          /\ p \notin calls[up].waits => calls'[up] = calls[up]
          /\ p \in calls[up].waits =>
               (calls'[up].error <=> calls[up].error \/ (~ok /\ calls[up].request \notin {"invoke", "broadcast"}))
          /\ calls[up].error => calls'[up].error
    <2> SUFFICES ASSUME up \in DOMAIN calls'
                 PROVE  /\ calls'[up].waits = calls[up].waits \ {p}
                        /\ p \notin calls[up].waits => calls'[up] = calls[up]
                        /\ p \in calls[up].waits =>
                             (calls'[up].error <=> calls[up].error \/ (~ok /\ calls[up].request \notin {"invoke", "broadcast"}))
                        /\ calls[up].error => calls'[up].error
      OBVIOUS
    <2>1. IsCall(calls[up]) /\ (heard <=> p \in calls[up].waits)
      BY <1>5, <1>6 DEF heard
    <2>2. IsTold(calls[up], p, ok, calls[p].ctx, product, told(calls[up]))
      BY <1>3, <2>1
    <2>3. calls'[up] = IF heard THEN told(calls[up]) ELSE calls[up]
      BY <1>5
    <2> HIDE DEF up
    <2>4. CASE heard
      BY <2>1, <2>2, <2>3, <2>4 DEF IsTold
    <2>5. CASE ~heard
      BY <2>1, <2>3, <2>5
    <2> QED BY <2>4, <2>5
  <1>10. /\ p = Root => answer'.done /\ answer'.ok = ok
         /\ p # Root => answer' = answer
    BY DEF Respond
  <1> QED BY <1>5, <1>7, <1>8, <1>9, <1>10

LEMMA ReturnIs ==
  ASSUME ShapeInv, NEW p \in DOMAIN calls, NEW ok \in BOOLEAN, NEW product,
         Respond(p, ok, calls[p].ctx, product), Front(p) \in DOMAIN calls'
  PROVE  LET up == calls[Front(p)]  told == calls'[Front(p)]  heard == ok /\ p \in up.waits
         IN  /\ told.ctx.origin = up.ctx.origin
             /\ told.ctx.hops = IF heard THEN Merged(up.request, up.ctx.hops, calls[p].ctx.hops) ELSE up.ctx.hops
             /\ told.product = IF heard THEN [w \in Workers |-> up.product[w] + product[w]] ELSE up.product
  <1> DEFINE r == Front(p)
             rest == [q \in DOMAIN calls \ {p} |-> calls[q]]
             told(c) == Told(c, p, ok, calls[p].ctx, product)
  <1>1. calls' = IF r \in DOMAIN rest /\ p \in rest[r].waits THEN [rest EXCEPT ![r] = told(rest[r])] ELSE rest
    BY DEF Respond, Return
  <1>3. ASSUME NEW c, IsCall(c)
        PROVE  IsTold(c, p, ok, calls[p].ctx, product, told(c))
    BY <1>3, ToldIs, Zenon
  <1> HIDE DEF told
  <1>4. /\ r \in DOMAIN rest /\ rest[r] = calls[r]
        /\ calls'[r] = IF p \in calls[r].waits THEN told(calls[r]) ELSE calls[r]
    BY <1>1
  <1>5. IsCall(calls[r])
    BY <1>4 DEF ShapeInv, Proper
  <1> HIDE DEF r, rest
  <1> QED BY <1>3, <1>4, <1>5 DEF r, IsTold

\* Context ctx is context c with what participant x registers.
Registers(c, ctx, x) ==
  /\ IsContext(ctx) /\ ctx.id = c.id /\ ctx.delivery = c.delivery /\ ctx.origin = c.origin
  /\ c.hops \in Seq(Participants) => /\ ctx.hops \in Seq(Participants)
                                    /\ Range(ctx.hops) \subseteq Range(c.hops) \cup {x}

LEMMA ObservedRegisters ==
  ASSUME ShapeInv, NEW p \in DOMAIN calls
  PROVE  Registers(calls[p].ctx, Observed(p), Last(p))
  <1> DEFINE c == calls[p].ctx
  <1>1. /\ IsContext(Observed(p)) /\ Observed(p).id = c.id /\ Observed(p).delivery = c.delivery
        /\ Observed(p).origin = c.origin
        /\ Observed(p).hops \in {c.hops, Append(c.hops, Last(p))}
    BY ObservedIs
  <1>2. Last(p) \in Participants
    BY LastOne DEF ShapeInv, Proper
  <1> HIDE DEF c
  <1>3. ASSUME c.hops \in Seq(Participants)
        PROVE  /\ Observed(p).hops \in Seq(Participants)
               /\ Range(Observed(p).hops) \subseteq Range(c.hops) \cup {Last(p)}
    <2>1. /\ Append(c.hops, Last(p)) \in Seq(Participants)
          /\ Range(Append(c.hops, Last(p))) = Range(c.hops) \cup {Last(p)}
      BY <1>2, <1>3, PushIs
    <2> QED BY <1>1, <1>3, <2>1
  <1>4. Registers(c, Observed(p), Last(p))
    BY <1>1, <1>3 DEF Registers
  <1> QED BY <1>4 DEF c

\* The request of a call is opened by the calls it makes: each is of the same family and
\* goes to the leader, or to a worker, as its request says.
Opens(p, ctx, made, left, error) ==
  /\ Registers(calls[p].ctx, ctx, Last(p))
  /\ error \in BOOLEAN
  /\ Open(p, ctx, made, left, error)
  /\ Suits(made)

LEMMA PeersAre ==
  ASSUME ShapeInv, NEW p \in DOMAIN calls, ~ToLeader(calls[p].request)
  PROVE  Peers(p) \subseteq Workers /\ Last(p) \in Workers
  <1>1. p \in Seq(Participants) /\ p # <<>> /\ Last(p) # Leader
    BY DEF ShapeInv, Proper
  <1>2. Last(p) \in Workers
    BY <1>1, LastOne DEF Participants
  <1> QED BY <1>2 DEF Peers, ShapeInv, ClusterType

\* What a participant passes on: a worker asks its peers, but those the signal went through,
\* and the leader if it is to go that way; the leader goes on to the workers it knows.
Asks(p, ctx, made, left) ==
  /\ Last(p) # Leader =>
       /\ DOMAIN made \subseteq Peers(p) \cup {Leader}
       /\ \A w \in Peers(p) : w \in DOMAIN made \/ WentThroughWorker(ctx, w)
       /\ Leader \in DOMAIN made => ByLeader(Last(p))
       /\ ByLeader(Last(p)) => Leader \in DOMAIN made \/ WentThroughLeader(ctx)
       /\ left = {}
  /\ Last(p) = Leader =>
       /\ DOMAIN made = {}
       /\ left \subseteq cluster.led
       /\ \A w \in cluster.led : w \in left \/ WentThroughWorker(ctx, w)

LEMMA InvokeAsks ==
  ASSUME ShapeInv, NEW p \in DOMAIN calls, Invoke(p)
  PROVE  \E made : /\ Opens(p, Observed(p), made, {}, FALSE) /\ Asks(p, Observed(p), made, {})
                   /\ calls[p].request = "invoke"
                   /\ \A w \in DOMAIN made \ {Leader} : ~WentThroughWorker(Observed(p), w)
                   /\ Leader \in DOMAIN made => ~WentThroughLeader(Observed(p))
  <1> DEFINE ctx == Observed(p)
             peers == {w \in Peers(p) : ~WentThroughWorker(ctx, w)}
             leader == IF Led(p) /\ ~WentThroughLeader(ctx) THEN {Leader} ELSE {}
             made == [x \in peers \cup leader |-> IF x = Leader THEN "broadcast" ELSE "invoke"]
  <1>1. Registers(calls[p].ctx, ctx, Last(p))
    BY ObservedRegisters
  <1>2. calls[p].request = "invoke" /\ Open(p, ctx, made, {}, FALSE)
    BY DEF Invoke
  <1>3. cluster.request = "invoke" /\ Family = {"invoke", "broadcast"}
    BY <1>2 DEF Family, ShapeInv, Proper, ClusterType
  <1>4. Peers(p) \subseteq Workers /\ Last(p) \in Workers /\ Leader \notin Workers
    BY <1>2, PeersAre, LeaderAssumption DEF ToLeader
  <1>5. Suits(made)
    BY <1>3, <1>4 DEF Suits, Participants, ToLeader
  <1>6. Led(p) <=> ByLeader(Last(p))
    BY <1>3 DEF Led, ByLeader
  <1> HIDE DEF ctx
  <1>7. Asks(p, ctx, made, {})
    BY <1>4, <1>6 DEF Asks
  <1>8. /\ \A w \in DOMAIN made \ {Leader} : ~WentThroughWorker(ctx, w)
        /\ Leader \in DOMAIN made => ~WentThroughLeader(ctx)
    BY <1>4
  <1> HIDE DEF made
  <1>9. Opens(p, ctx, made, {}, FALSE)
    BY <1>1, <1>2, <1>5 DEF Opens
  <1> QED BY <1>2, <1>7, <1>8, <1>9 DEF ctx

LEMMA BroadcastAsks ==
  ASSUME ShapeInv, NEW p \in DOMAIN calls, WorkerBroadcast(p)
  PROVE  /\ Opens(p, Observed(p), << >>, cluster.led, FALSE) /\ Asks(p, Observed(p), << >>, cluster.led)
         /\ calls[p].request = "broadcast"
  <1>1. Registers(calls[p].ctx, Observed(p), Last(p))
    BY ObservedRegisters
  <1>2. DOMAIN << >> = {}
    OBVIOUS
  <1>3. calls[p].request = "broadcast" /\ Last(p) = Leader
    BY DEF WorkerBroadcast, ShapeInv, Proper, ToLeader
  <1>4. Opens(p, Observed(p), << >>, cluster.led, FALSE)
    BY <1>1, <1>2 DEF WorkerBroadcast, Opens, Suits
  <1> QED BY <1>2, <1>3, <1>4 DEF Asks

LEMMA QueryAsks ==
  ASSUME ShapeInv, NEW p \in DOMAIN calls, ProcessQuery(p)
  PROVE  \E ctx, made : /\ Opens(p, ctx, made, {}, FALSE) /\ Asks(p, ctx, made, {})
                        /\ calls[p].request = "query"
                        /\ \/ /\ DOMAIN made = {Leader} /\ ~WentThroughLeader(Observed(p))
                              /\ ctx.hops = Append(Observed(p).hops, Last(p))
                           \/ DOMAIN made = Peers(p)
  <1> DEFINE obs == Observed(p)
             alone == Peers(p) = {} /\ Led(p) /\ ~WentThroughLeader(obs)
             own == IF Peers(p) = {} /\ ~WentThroughLeader(obs) THEN RegisterHop(obs, Last(p)) ELSE obs
             asked == IF alone THEN {Leader} ELSE Peers(p)
             made == [x \in asked |-> IF x = Leader THEN "proxied_query" ELSE "query"]
             more == RegisterHop(obs, Last(p))
  <1>1. Registers(calls[p].ctx, obs, Last(p))
    BY ObservedRegisters
  <1>2. calls[p].request = "query" /\ Open(p, own, made, {}, FALSE)
    BY DEF ProcessQuery
  <1>3. cluster.request = "query" /\ Family = {"query", "proxied_query"}
    BY <1>2 DEF Family, ShapeInv, Proper, ClusterType
  <1>4. /\ Peers(p) \subseteq Workers /\ Last(p) \in Workers /\ Leader \notin Workers /\ Last(p) \in Participants
        /\ Last(p) # Leader
    BY <1>2, PeersAre, LeaderAssumption DEF ToLeader, Participants
  <1>5. Suits(made)
    BY <1>3, <1>4 DEF Suits, Participants, ToLeader
  <1>6. ByLeader(Last(p)) <=> Led(p) /\ Peers(p) = {}
    BY <1>3 DEF Led, ByLeader, Peers
  <1>7. /\ IsContext(more) /\ more.id = obs.id /\ more.delivery = obs.delivery /\ more.origin = obs.origin
        /\ more.hops = Append(obs.hops, Last(p))
    <2>1. IsContext(obs)
      BY <1>1 DEF Registers
    <2>2. more = [obs EXCEPT !.hops = Append(obs.hops, Last(p))]
      BY DEF RegisterHop
    <2> HIDE DEF obs, more
    <2> QED BY <2>1, <2>2, ContextIs
  <1>8. own = IF Peers(p) = {} /\ ~WentThroughLeader(obs) THEN more ELSE obs
    OBVIOUS
  <1> HIDE DEF obs, more
  <1>9. ASSUME obs.hops \in Seq(Participants)
        PROVE  /\ Append(obs.hops, Last(p)) \in Seq(Participants)
               /\ Range(Append(obs.hops, Last(p))) = Range(obs.hops) \cup {Last(p)}
    BY <1>4, <1>9, PushIs
  <1>10. Registers(calls[p].ctx, own, Last(p))
    BY <1>1, <1>7, <1>8, <1>9 DEF Registers
  <1>11. WentThroughLeader(obs) => WentThroughLeader(own)
    BY <1>8
  <1>12. DOMAIN made = IF alone THEN {Leader} ELSE Peers(p)
    OBVIOUS
  <1>13. alone => own = more /\ ~WentThroughLeader(obs)
    BY <1>8
  <1>14. Asks(p, own, made, {})
    <2>1. Leader \in DOMAIN made => alone
      BY <1>4, <1>12
    <2>2. ByLeader(Last(p)) /\ ~alone => WentThroughLeader(own)
      BY <1>6, <1>11
    <2> HIDE DEF own, made
    <2> QED BY <1>4, <1>6, <1>12, <2>1, <2>2 DEF Asks
  <1> HIDE DEF own, made
  <1>15. Opens(p, own, made, {}, FALSE)
    BY <1>2, <1>5, <1>10 DEF Opens
  <1>16. \/ DOMAIN made = {Leader} /\ ~WentThroughLeader(obs) /\ own.hops = Append(obs.hops, Last(p))
         \/ DOMAIN made = Peers(p)
    BY <1>7, <1>12, <1>13
  <1> QED BY <1>2, <1>14, <1>15, <1>16 DEF obs

LEMMA ProxyAsks ==
  ASSUME ShapeInv, NEW p \in DOMAIN calls, WorkerProxy(p)
  PROVE  LET ctx == Observed(p)  left == cluster.led \ Range(ctx.hops)
         IN  /\ Opens(p, ctx, << >>, left, FALSE) /\ Asks(p, ctx, << >>, left)
             /\ calls[p].request = "proxied_query"
  <1> DEFINE ctx == Observed(p)  left == cluster.led \ Range(ctx.hops)
  <1>1. Registers(calls[p].ctx, ctx, Last(p))
    BY ObservedRegisters
  <1>2. DOMAIN << >> = {}
    OBVIOUS
  <1>3. calls[p].request = "proxied_query" /\ Last(p) = Leader
    BY DEF WorkerProxy, ShapeInv, Proper, ToLeader
  <1>4. Open(p, ctx, << >>, left, FALSE)
    BY DEF WorkerProxy
  <1> HIDE DEF ctx
  <1>5. Asks(p, ctx, << >>, left)
    BY <1>2, <1>3 DEF Asks, WentThroughWorker
  <1> HIDE DEF left
  <1>6. Opens(p, ctx, << >>, left, FALSE)
    BY <1>1, <1>2, <1>4 DEF Opens, Suits
  <1> QED BY <1>3, <1>5, <1>6 DEF ctx, left

\* A request that spreads over the cluster.
LEMMA SpreadsAre ==
  ASSUME ShapeInv, NEW p \in DOMAIN calls,
         Invoke(p) \/ WorkerBroadcast(p) \/ ProcessQuery(p) \/ WorkerProxy(p)
  PROVE  \E ctx, made, left : Opens(p, ctx, made, left, FALSE) /\ Asks(p, ctx, made, left)
  BY InvokeAsks, BroadcastAsks, QueryAsks, ProxyAsks

\* The leader takes a request, or fails to.
LEMMA TakesIs ==
  ASSUME ShapeInv, NEW p \in DOMAIN calls, LeaderTakes(p)
  PROVE  \E error : /\ Opens(p, Observed(p), << >>, {}, error)
                    /\ DOMAIN << >> = {} /\ calls[p].request = "leader_update"
  <1>1. Registers(calls[p].ctx, Observed(p), Last(p))
    BY ObservedRegisters
  <1>2. DOMAIN << >> = {}
    OBVIOUS
  <1>3. PICK error \in BOOLEAN : Open(p, Observed(p), << >>, {}, error)
    BY Zenon DEF LeaderTakes
  <1>4. Opens(p, Observed(p), << >>, {}, error)
    BY <1>1, <1>2, <1>3 DEF Opens, Suits
  <1>5. calls[p].request = "leader_update"
    BY Zenon DEF LeaderTakes
  <1> QED BY <1>2, <1>4, <1>5

LEMMA OpensAre ==
  ASSUME ShapeInv, NEW p \in DOMAIN calls,
         Invoke(p) \/ WorkerBroadcast(p) \/ ProcessQuery(p) \/ WorkerProxy(p) \/ LeaderTakes(p)
  PROVE  \E ctx, made, left, error : Opens(p, ctx, made, left, error)
  <1> QED BY SpreadsAre, TakesIs

\* A request to the leader goes one way, or fails.
LEMMA SendsAre ==
  ASSUME ShapeInv, NEW p \in DOMAIN calls, SendToLeader(p)
  PROVE  \E made, error : /\ Opens(p, Observed(p), made, {}, error)
                          /\ \/ error /\ DOMAIN made = {}
                             \/ /\ ~error
                                /\ \E x \in Participants :
                                     DOMAIN made = {x} /\ (x # Leader => ~WentThroughWorker(Observed(p), x))
  <1> DEFINE ctx == Observed(p)
             ways == {w \in Peers(p) : ~WentThroughWorker(ctx, w)}
  <1>1. Registers(calls[p].ctx, ctx, Last(p))
    BY ObservedRegisters
  <1>2. calls[p].request = "update" /\ Family = {"update", "leader_update"}
    BY DEF SendToLeader, ShapeInv, Proper, Family, ClusterType
  <1>3. Peers(p) \subseteq Workers
    BY <1>2, PeersAre DEF ToLeader
  <1> DEFINE one(x, r) == [y \in {x} |-> r]
  <1>4. \A x, r : DOMAIN one(x, r) = {x} /\ one(x, r)[x] = r
    OBVIOUS
  <1>5. ASSUME NEW x \in Participants, NEW r \in Family, x = Leader <=> ToLeader(r),
               Open(p, ctx, one(x, r), {}, FALSE)
        PROVE  /\ Opens(p, ctx, one(x, r), {}, FALSE)
               /\ DOMAIN one(x, r) = {x}
    BY <1>1, <1>4, <1>5 DEF Opens, Suits
  <1>6. CASE Led(p) /\ Open(p, ctx, one(Leader, "leader_update"), {}, FALSE)
    <2>1. Leader \in Participants /\ "leader_update" \in Family /\ ToLeader("leader_update")
      BY <1>2 DEF Participants, ToLeader
    <2> QED BY <1>5, <1>6, <2>1
  <1>7. ASSUME NEW w \in ways, Open(p, ctx, one(w, "update"), {}, FALSE)
        PROVE  /\ Opens(p, ctx, one(w, "update"), {}, FALSE) /\ DOMAIN one(w, "update") = {w}
               /\ w \in Participants /\ ~WentThroughWorker(ctx, w)
    <2>1. w \in Participants /\ w # Leader /\ "update" \in Family /\ ~ToLeader("update")
      BY <1>2, <1>3, LeaderAssumption DEF Participants, ToLeader
    <2> QED BY <1>5, <1>7, <2>1
  <1>8. CASE ways = {} /\ Open(p, ctx, << >>, {}, TRUE)
    <2>1. DOMAIN << >> = {}
      OBVIOUS
    <2>2. Opens(p, ctx, << >>, {}, TRUE)
      BY <1>1, <1>8, <2>1 DEF Opens, Suits
    <2> QED BY <2>1, <2>2
  <1> HIDE DEF ways
  <1> QED BY <1>6, <1>7, <1>8 DEF SendToLeader, ways

\* The leader's next worker: a call that is not open joins the others.
LEMMA NextIs ==
  ASSUME ShapeInv, NEW p \in DOMAIN calls, NEW w \in Workers, BroadcastNext(p, w) \/ ProxyNext(p, w)
  PROVE  /\ ShapeInv' /\ UNCHANGED <<cluster, seen, handled, answer>>
         /\ calls[p].request \in {"broadcast", "proxied_query"}
         /\ DOMAIN calls \subseteq DOMAIN calls'
         /\ \A q \in DOMAIN calls : /\ calls'[q].open = calls[q].open /\ calls'[q].ctx = calls[q].ctx
                                    /\ calls'[q].request = calls[q].request
         /\ \A q \in DOMAIN calls' \ DOMAIN calls :
              /\ ~calls'[q].open
              /\ calls[p].request = "broadcast" => calls'[q].ctx = calls[p].ctx
  <1>1. /\ p \in Seq(Participants) /\ p # <<>> /\ IsCall(calls[p]) /\ w \in Participants /\ w # Leader
        /\ calls[p].request \in Family
    BY LeaderAssumption DEF ShapeInv, Proper, Participants
  <1> DEFINE q == Append(p, w)
  <1>2. q \in Seq(Participants) /\ q # <<>> /\ q # p /\ Last(q) = w
    BY <1>1, ChainGrows
  <1> HIDE DEF q
  <1>3. ASSUME NEW c, IsCall(c), c.request = calls[p].request, c.open = calls[p].open, c.ctx = calls[p].ctx,
               NEW d, IsCall(d), d.request \in Family, ~ToLeader(d.request), ~d.open,
               calls[p].request = "broadcast" => d.ctx = calls[p].ctx,
               calls' = [calls EXCEPT ![p] = c] \/ calls' = Adding(p, c, q, d),
               UNCHANGED <<cluster, seen, handled, answer>>,
               calls[p].request \in {"broadcast", "proxied_query"}
        PROVE  /\ ShapeInv'
               /\ DOMAIN calls \subseteq DOMAIN calls'
               /\ \A r \in DOMAIN calls : /\ calls'[r].open = calls[r].open /\ calls'[r].ctx = calls[r].ctx
                                          /\ calls'[r].request = calls[r].request
               /\ \A r \in DOMAIN calls' \ DOMAIN calls :
                    /\ ~calls'[r].open
                    /\ calls[p].request = "broadcast" => calls'[r].ctx = calls[p].ctx
    <2>1. /\ DOMAIN calls' \in {DOMAIN calls, DOMAIN calls \cup {q}}
          /\ calls' = [r \in DOMAIN calls' |-> calls'[r]]
          /\ \A r \in DOMAIN calls : calls'[r] = IF r = p THEN c ELSE calls[r]
          /\ \A r \in DOMAIN calls' \ DOMAIN calls : r = q /\ calls'[r] = d
      <3>1. CASE calls' = [calls EXCEPT ![p] = c]
        BY <3>1 DEF ShapeInv
      <3>2. CASE calls' = Adding(p, c, q, d)
        BY <3>2 DEF Adding
      <3> QED BY <1>3, <3>1, <3>2
    <2>2. Proper(p, c) /\ Proper(q, d)
      BY <1>1, <1>2, <1>3 DEF ShapeInv, Proper
    <2>3. \A r \in DOMAIN calls' : Proper(r, calls'[r])
      BY <2>1, <2>2 DEF ShapeInv
    <2>4. ShapeInv'
      BY <1>3, <2>1, <2>3 DEF ShapeInv, Proper, Family
    <2> QED BY <1>3, <2>1, <2>4
  <1>4. CASE BroadcastNext(p, w)
    <2> DEFINE c == [calls[p] EXCEPT !.left = @ \ {w},
                                     !.waits = IF WentThroughWorker(calls[p].ctx, w) THEN {} ELSE {q}]
               d == Call("invoke", calls[p].ctx)
    <2>1. /\ calls[p].request = "broadcast" /\ UNCHANGED <<cluster, seen, handled, answer>>
          /\ calls' = [calls EXCEPT ![p] = c] \/ calls' = Adding(p, c, q, d)
      BY <1>4 DEF BroadcastNext, q
    <2>2. IsCall(c) /\ c.request = calls[p].request /\ c.open = calls[p].open /\ c.ctx = calls[p].ctx
      BY <1>1 DEF IsCall
    <2>3. IsCall(d) /\ d.request = "invoke" /\ ~d.open /\ d.ctx = calls[p].ctx
      BY <1>1, CallIs DEF IsCall
    <2>4. "invoke" \in Family /\ ~ToLeader("invoke")
      BY <1>1, <2>1 DEF Family, ToLeader
    <2> HIDE DEF c, d
    <2> QED BY <1>3, <2>1, <2>2, <2>3, <2>4
  <1>5. CASE ProxyNext(p, w)
    <2> DEFINE c == [calls[p] EXCEPT !.left = @ \ {w}, !.waits = {q}]
               x == Context(q, Leader, Unlimited, <<>>)
               d == Call("query", x)
    <2>1. /\ calls[p].request = "proxied_query" /\ UNCHANGED <<cluster, seen, handled, answer>>
          /\ calls' = Adding(p, c, q, d)
      BY <1>5 DEF ProxyNext, q
    <2>2. IsCall(c) /\ c.request = calls[p].request /\ c.open = calls[p].open /\ c.ctx = calls[p].ctx
      BY <1>1 DEF IsCall
    <2>3. IsContext(x)
      BY DEF Context, IsContext
    <2>4. IsCall(d) /\ d.request = "query" /\ ~d.open
      BY <2>3, CallIs
    <2>5. "query" \in Family /\ ~ToLeader("query")
      BY <1>1, <2>1 DEF Family, ToLeader
    <2> HIDE DEF c, d
    <2> QED BY <1>3, <2>1, <2>2, <2>4, <2>5
  <1>6. calls[p].request \in {"broadcast", "proxied_query"} /\ UNCHANGED <<cluster, seen, handled, answer>>
    BY DEF BroadcastNext, ProxyNext
  <1> QED BY <1>4, <1>5, <1>6

\* Whatever handles a call, what it answers with is what the lemmas above ask for.
LEMMA QuietIs ==
  ASSUME ShapeInv, NEW p \in DOMAIN calls, Refuse(p) \/ AnswerQuery(p) \/ PassOn(p) \/ FailOn(p)
  PROVE  /\ UNCHANGED <<cluster, seen, handled>>
         /\ \E ok, product :
              /\ ok \in BOOLEAN /\ Respond(p, ok, calls[p].ctx, product)
              /\ ok => Complete(p) /\ calls[p].request \notin {"invoke", "leader_update"}
              /\ ~ok => ~calls[p].open \/ calls[p].error
  BY DEF Refuse, AnswerQuery, PassOn, FailOn, Complete

LEMMA EventIs ==
  ASSUME ShapeInv, NEW p \in DOMAIN calls, TriggerEvent(p) \/ TakeEffect(p)
  PROVE  /\ UNCHANGED <<cluster, seen>>
         /\ Complete(p) /\ Last(p) \in Participants
         /\ \/ calls[p].request = "invoke" /\ Last(p) \in Workers
            \/ calls[p].request = "leader_update" /\ Last(p) = Leader
         /\ handled' = [handled EXCEPT ![Last(p)] = handled[Last(p)] + 1]
         /\ handled' \in [Participants -> Nat]
         /\ Respond(p, TRUE, calls[p].ctx, calls[p].product)
  <1>1. /\ p \in Seq(Participants) /\ p # <<>> /\ (Last(p) = Leader <=> ToLeader(calls[p].request))
        /\ handled \in [Participants -> Nat]
    BY DEF ShapeInv, Proper
  <1>2. Last(p) \in Participants
    BY <1>1, LastOne
  <1>3. CASE TriggerEvent(p)
    <2>1. Last(p) \in Workers
      BY <1>1, <1>2, <1>3 DEF TriggerEvent, ToLeader, Participants
    <2>2. handled' = [handled EXCEPT ![Last(p)] = handled[Last(p)] + 1]
      BY <1>3 DEF TriggerEvent
    <2>3. handled' \in [Participants -> Nat]
      BY <1>1, <1>2, <2>2
    <2> QED BY <1>2, <1>3, <2>1, <2>2, <2>3 DEF TriggerEvent
  <1>4. CASE TakeEffect(p)
    <2>1. Last(p) = Leader
      BY <1>1, <1>4 DEF TakeEffect, ToLeader
    <2>2. handled' = [handled EXCEPT ![Last(p)] = handled[Last(p)] + 1]
      BY <1>4, <2>1 DEF TakeEffect
    <2>3. handled' \in [Participants -> Nat]
      BY <1>1, <1>2, <2>2
    <2> QED BY <1>2, <1>4, <2>1, <2>2, <2>3 DEF TakeEffect
  <1> QED BY <1>3, <1>4

\* The steps of a call, by what they do to it: it is opened, it is answered, it takes
\* effect and is answered, or the leader goes on to its next worker.
LEMMA HandlerIs ==
  ASSUME NEW p, Handler(p)
  PROVE  \/ Invoke(p) \/ WorkerBroadcast(p) \/ ProcessQuery(p) \/ WorkerProxy(p) \/ LeaderTakes(p)
         \/ SendToLeader(p)
         \/ Refuse(p) \/ AnswerQuery(p) \/ PassOn(p) \/ FailOn(p)
         \/ TriggerEvent(p) \/ TakeEffect(p)
         \/ \E w \in Workers : BroadcastNext(p, w) \/ ProxyNext(p, w)
  BY DEF Handler

\* A call fails on the network for the participant that made it, which goes on without it.
IsFailed(p) ==
  LET up == Front(p)
  IN  /\ ~Local /\ p # Root /\ lost' # {} /\ UNCHANGED <<cluster, seen, handled, answer>>
      /\ p \in DOMAIN calls /\ up \in DOMAIN calls' /\ up # p /\ p \in calls[up].waits
      /\ DOMAIN calls' \in {DOMAIN calls, DOMAIN calls \ {p}}
      /\ \A q \in DOMAIN calls' : q # up => calls'[q] = calls[q]
      /\ IsTold(calls[up], p, FALSE, calls[p].ctx, calls[p].product, calls'[up])

LEMMA FailIs ==
  ASSUME ShapeInv, NEW p \in DOMAIN calls, Fail(p)
  PROVE  ShapeInv' /\ IsFailed(p)
  <1> DEFINE up == Front(p)
             rest == [q \in DOMAIN calls \ {p} |-> calls[q]]
             told == Told(calls[up], p, FALSE, calls[p].ctx, calls[p].product)
  <1>1. /\ OverNetwork(p) /\ up \in DOMAIN calls /\ p \in calls[up].waits /\ lost' = lost \cup {p}
        /\ UNCHANGED <<cluster, seen, handled, answer>>
        /\ \/ calls' = Return(calls, p, FALSE, calls[p].ctx, calls[p].product)
           \/ calls' = [calls EXCEPT ![up] = told]
    BY DEF Fail
  <1>2. p \in Seq(Participants) /\ p # <<>> /\ IsCall(calls[up]) /\ Proper(up, calls[up])
    BY <1>1 DEF ShapeInv, Proper
  <1>3. up # p
    BY <1>2, FrontDiffers
  <1>4. ~Local /\ p # Root
    <2>1. Len(Root) = 1
      BY DEF Root
    <2>2. Len(p) > 1 /\ cluster.remote # {}
      BY <1>1 DEF OverNetwork
    <2>3. p # Root
      BY <2>1, <2>2
    <2> QED BY <2>2, <2>3 DEF Local
  <1>5. IsTold(calls[up], p, FALSE, calls[p].ctx, calls[p].product, told)
    <2>1. FALSE \in BOOLEAN
      OBVIOUS
    <2> QED BY <1>2, <2>1, ToldIs, Zenon
  <1> HIDE DEF told
  <1>6. Return(calls, p, FALSE, calls[p].ctx, calls[p].product) = [rest EXCEPT ![up] = told]
    <2>1. /\ DOMAIN rest = DOMAIN calls \ {p} /\ up \in DOMAIN rest /\ p \in rest[up].waits
          /\ rest[up] = calls[up]
      BY <1>1, <1>3
    <2>2. Return(calls, p, FALSE, calls[p].ctx, calls[p].product)
            = IF up \in DOMAIN rest /\ p \in rest[up].waits
              THEN [rest EXCEPT ![up] = Told(rest[up], p, FALSE, calls[p].ctx, calls[p].product)] ELSE rest
      BY DEF Return
    <2> HIDE DEF rest
    <2> QED BY <2>1, <2>2 DEF told
  <1>7. /\ DOMAIN calls' \in {DOMAIN calls, DOMAIN calls \ {p}} /\ calls' = [q \in DOMAIN calls' |-> calls'[q]]
        /\ \A q \in DOMAIN calls' : calls'[q] = IF q = up THEN told ELSE calls[q]
    <2>1. calls = [q \in DOMAIN calls |-> calls[q]]
      BY DEF ShapeInv
    <2> HIDE DEF up
    <2>2. CASE calls' = [calls EXCEPT ![up] = told]
      BY <2>1, <2>2
    <2>3. CASE calls' = [rest EXCEPT ![up] = told]
      BY <2>3
    <2> QED BY <1>1, <1>6, <2>2, <2>3
  <1>8. up \in DOMAIN calls'
    BY <1>1, <1>3, <1>7
  <1>9. \A q \in DOMAIN calls' : Proper(q, calls'[q])
    <2>1. Proper(up, told)
      BY <1>2, <1>5 DEF Proper, IsTold
    <2> HIDE DEF up
    <2> QED BY <1>7, <2>1 DEF ShapeInv
  <1>10. ShapeInv'
    BY <1>1, <1>7, <1>9 DEF ShapeInv, Proper, Family
  <1> HIDE DEF up
  <1> QED BY <1>1, <1>3, <1>4, <1>5, <1>7, <1>8, <1>10 DEF IsFailed, up

LEMMA ShapeInit ==
  ASSUME Init
  PROVE  /\ ShapeInv
         /\ DOMAIN calls = {Root} /\ Root \in Seq(Participants) /\ Len(Root) < 2
         /\ calls[Root] = Call(cluster.request, Context(Root, Nobody, cluster.delivery, <<>>))
  <1> DEFINE x == Context(Root, Nobody, cluster.delivery, <<>>)
             c == Call(cluster.request, x)
  <1>1. /\ cluster \in ClusterType /\ seen = [w \in Workers |-> {}] /\ handled = [y \in Participants |-> 0]
        /\ calls = [p \in {Root} |-> c]
    BY ClustersAssumption DEF Init
  <1>2. cluster.entry \in Workers /\ cluster.request \in {"invoke", "query", "update"}
    BY <1>1 DEF ClusterType
  <1>3. cluster.entry \in Participants /\ cluster.entry # Leader
    BY <1>2, LeaderAssumption DEF Participants
  <1>4. Root \in Seq(Participants) /\ Root # <<>> /\ Len(Root) < 2 /\ Last(Root) = cluster.entry
    BY <1>3 DEF Root, Last
  <1>5. IsContext(x)
    BY DEF Context, IsContext
  <1>6. IsCall(c) /\ c.request = cluster.request
    BY <1>5, CallIs
  <1> HIDE DEF c, x
  <1>7. Proper(Root, c)
    BY <1>2, <1>3, <1>4, <1>6 DEF Proper, Family, ToLeader
  <1>8. DOMAIN calls = {Root} /\ calls[Root] = c
    BY <1>1
  <1>9. calls = [p \in DOMAIN calls |-> calls[p]]
    BY <1>1
  <1>10. handled \in [Participants -> Nat] /\ seen = [w \in Workers |-> seen[w]]
    BY <1>1
  <1>11. ShapeInv
    BY <1>1, <1>7, <1>8, <1>9, <1>10 DEF ShapeInv
  <1> QED BY <1>4, <1>8, <1>11 DEF c, x

-----------------------------------------------------------------------------
(* A signal that is delivered once *)

(***************************************************************************)
(* The invariant behind HandledOnce. While a signal is limited to one      *)
(* delivery and no network lies between, every call carries the signal's   *)
(* own id; a worker that is through with the signal, or has a call of it   *)
(* open, has noted it, so that it refuses every other; and it has one such *)
(* call at most, which is the one that will trigger the event.             *)
(***************************************************************************)
OpenAt(w) == {p \in DOMAIN calls : calls[p].open /\ Last(p) = w}
Limited == Local /\ cluster.request = "invoke" /\ cluster.delivery = 1

OnceAt(w) ==
  /\ handled[w] \in {0, 1}
  /\ \A p, q \in OpenAt(w) : p = q
  /\ handled[w] = 1 => OpenAt(w) = {}
  /\ handled[w] = 1 \/ OpenAt(w) # {} => Root \in seen[w]

SameSignal(c) == c.ctx.id = Root /\ c.ctx.delivery = 1

HandledInv ==
  /\ cluster.request # "invoke" => \A w \in Workers : handled[w] = 0
  /\ Limited => /\ \A p \in DOMAIN calls : SameSignal(calls[p])
                /\ \A w \in Workers : OnceAt(w)

LEMMA HandledInit ==
  ASSUME Init PROVE HandledInv
  <1> DEFINE x == Context(Root, Nobody, cluster.delivery, <<>>)
  <1>1. /\ DOMAIN calls = {Root}
        /\ calls[Root] = Call(cluster.request, x)
    BY ShapeInit
  <1>2. x.id = Root /\ x.delivery = cluster.delivery
    BY DEF Context
  <1> HIDE DEF x
  <1>3. calls[Root].ctx = x /\ ~calls[Root].open
    BY <1>1, CallIs
  <1>4. \A w \in Workers : handled[w] = 0 /\ OpenAt(w) = {}
    BY <1>1, <1>3 DEF Init, OpenAt, Participants
  <1> QED BY <1>1, <1>2, <1>3, <1>4 DEF HandledInv, OnceAt, SameSignal, Limited

\* A step that handles nothing and opens nothing.
LEMMA HandledQuiet ==
  ASSUME HandledInv, UNCHANGED <<cluster, handled, seen>>,
         \A q \in DOMAIN calls' : calls'[q].open => q \in DOMAIN calls /\ calls[q].open,
         Limited => \A q \in DOMAIN calls' : SameSignal(calls'[q])
  PROVE  HandledInv'
  <1>1. \A w : OpenAt(w)' \subseteq OpenAt(w)
    BY DEF OpenAt
  <1>2. (Limited' <=> Limited) /\ Root' = Root
    BY DEF Limited, Local, Root
  <1>3. \A c : SameSignal(c)' <=> SameSignal(c)
    BY <1>2 DEF SameSignal
  <1>4. ASSUME Limited, NEW w \in Workers PROVE OnceAt(w)'
    <2>1. OnceAt(w)
      BY <1>4 DEF HandledInv
    <2> QED BY <1>1, <1>2, <2>1 DEF OnceAt
  <1>5. ASSUME Limited, NEW q \in DOMAIN calls' PROVE SameSignal(calls'[q])
    BY <1>5
  <1> QED BY <1>2, <1>4, <1>5 DEF HandledInv, SameSignal

LEMMA HandledStep ==
  ASSUME ShapeInv, HandledInv, NEW p \in DOMAIN calls, Handler(p)
  PROVE  ShapeInv' /\ HandledInv'
  <1>1. /\ Proper(p, calls[p]) /\ p \in Seq(Participants) /\ p # <<>>
        /\ calls[p].request \in Family
    BY DEF ShapeInv, Proper
  <1>2. Limited => \A q \in DOMAIN calls : SameSignal(calls[q])
    BY DEF HandledInv
  <1>3. ASSUME NEW ctx, NEW made, NEW left, NEW error, Opens(p, ctx, made, left, error)
        PROVE  ShapeInv' /\ HandledInv'
    <2> DEFINE new == Made(p, made)
    <2>1. /\ ShapeInv'
          /\ ~Refused(p) /\ Record(p) /\ UNCHANGED <<cluster, handled, answer>>
          /\ IsOpened(p, ctx, made, left, error)
      BY <1>3, OpenIs DEF Opens, Registers
    <2>2. \A q \in new : calls'[q].ctx = ctx /\ ~calls'[q].open
      <3>1. \A q \in new : \E x \in DOMAIN made : calls'[q] = Call(made[x], ctx)
        BY <2>1 DEF IsOpened, Made
      <3> QED BY <3>1, CallIs
    <2> HIDE DEF new
    <2>3. /\ DOMAIN calls' = DOMAIN calls \cup new
          /\ calls'[p].ctx = ctx
          /\ \A q \in new : calls'[q].ctx = ctx /\ ~calls'[q].open
          /\ \A q \in DOMAIN calls \ (new \cup {p}) : calls'[q] = calls[q]
      BY <2>1, <2>2 DEF IsOpened, new
    <2>4. ctx.id = calls[p].ctx.id /\ ctx.delivery = calls[p].ctx.delivery
      BY <1>3 DEF Opens, Registers
    <2>5. (Limited' <=> Limited) /\ Root' = Root
      BY <2>1 DEF Limited, Local, Root
    <2>6. \A c : SameSignal(c)' <=> SameSignal(c)
      BY <2>5 DEF SameSignal
    <2>7. ASSUME Limited, NEW q \in DOMAIN calls' PROVE SameSignal(calls'[q])
      BY <1>2, <2>1, <2>3, <2>4, <2>7 DEF SameSignal
    <2>8. \A w : OpenAt(w)' \subseteq OpenAt(w) \cup {p} /\ (w # Last(p) => OpenAt(w)' \subseteq OpenAt(w))
      BY <2>1, <2>3 DEF OpenAt
    <2>9. ASSUME Limited, NEW w \in Workers PROVE OnceAt(w)'
      <3>1. OnceAt(w)
        BY <2>9 DEF HandledInv
      <3>2. SameSignal(calls[p])
        BY <1>2, <2>9
      <3>3. ~OverNetwork(p)
        BY <2>9 DEF OverNetwork, Limited, Local
      <3>4. seen[w] \subseteq seen'[w] /\ (w = Last(p) => Root \in seen'[w])
        <4>1. seen = [v \in Workers |-> seen[v]] /\ w # Leader
          BY LeaderAssumption DEF ShapeInv
        <4>2. CASE Last(p) = Leader
          BY <2>1, <4>1, <4>2 DEF Record
        <4>3. CASE Last(p) # Leader
          <5>1. seen' = [seen EXCEPT ![Last(p)] = seen[Last(p)] \cup {calls[p].ctx.id}]
            BY <2>1, <3>3, <4>3 DEF Record
          <5> QED BY <3>2, <4>1, <5>1 DEF SameSignal
        <4> QED BY <4>2, <4>3
      <3>5. CASE w # Last(p)
        BY <2>1, <2>5, <2>8, <3>1, <3>4, <3>5 DEF OnceAt
      <3>6. CASE w = Last(p)
        <4>1. Root \notin seen[w]
          BY <2>1, <3>2, <3>3, <3>6 DEF Refused, SameSignal, Unlimited
        <4>2. OpenAt(w) = {} /\ handled[w] = 0
          BY <3>1, <4>1 DEF OnceAt
        <4>3. OpenAt(w)' \subseteq {p}
          BY <2>8, <4>2
        <4> QED BY <2>1, <2>5, <3>4, <3>6, <4>2, <4>3 DEF OnceAt
      <3> QED BY <3>5, <3>6
    <2>10. HandledInv'
      BY <2>1, <2>5, <2>6, <2>7, <2>9 DEF HandledInv
    <2> QED BY <2>1, <2>10
  <1>4. CASE Invoke(p) \/ WorkerBroadcast(p) \/ ProcessQuery(p) \/ WorkerProxy(p) \/ LeaderTakes(p)
    BY <1>3, <1>4, OpensAre
  <1>5. CASE SendToLeader(p)
    BY <1>3, <1>5, SendsAre
  <1>6. CASE Refuse(p) \/ AnswerQuery(p) \/ PassOn(p) \/ FailOn(p)
    <2>1. PICK ok, product : ok \in BOOLEAN /\ Respond(p, ok, calls[p].ctx, product)
      BY <1>6, QuietIs
    <2>2. UNCHANGED <<cluster, seen, handled>> /\ handled' \in [Participants -> Nat]
      BY <1>6, QuietIs DEF ShapeInv
    <2>3. /\ ShapeInv' /\ DOMAIN calls' = DOMAIN calls \ {p}
          /\ \A q \in DOMAIN calls' :
               /\ calls'[q].open = calls[q].open
               /\ calls'[q].ctx.id = calls[q].ctx.id /\ calls'[q].ctx.delivery = calls[q].ctx.delivery
      BY <2>1, <2>2, RespondIs
    <2>4. Limited => \A q \in DOMAIN calls' : SameSignal(calls'[q])
      BY <1>2, <2>3 DEF SameSignal
    <2> QED BY <2>2, <2>3, <2>4, HandledQuiet
  <1>7. CASE TriggerEvent(p) \/ TakeEffect(p)
    <2>1. /\ UNCHANGED <<cluster, seen>> /\ Complete(p)
          /\ \/ calls[p].request = "invoke" /\ Last(p) \in Workers
             \/ calls[p].request = "leader_update" /\ Last(p) = Leader
          /\ Last(p) \in Participants
          /\ handled' = [handled EXCEPT ![Last(p)] = handled[Last(p)] + 1]
      BY <1>7, EventIs
    <2>2. /\ ShapeInv' /\ DOMAIN calls' = DOMAIN calls \ {p}
          /\ \A q \in DOMAIN calls' :
               /\ calls'[q].open = calls[q].open
               /\ calls'[q].ctx.id = calls[q].ctx.id /\ calls'[q].ctx.delivery = calls[q].ctx.delivery
      BY <1>7, EventIs, RespondIs
    <2>3. (Limited' <=> Limited) /\ Root' = Root
      BY <2>1 DEF Limited, Local, Root
    <2>4. \A c : SameSignal(c)' <=> SameSignal(c)
      BY <2>3 DEF SameSignal
    <2>5. \A w : OpenAt(w)' = OpenAt(w) \ {p}
      BY <2>2 DEF OpenAt
    <2>6. handled \in [Participants -> Nat] /\ Workers \subseteq Participants /\ Leader \notin Workers
      BY LeaderAssumption DEF ShapeInv, Participants
    <2>7. ASSUME cluster.request # "invoke", NEW w \in Workers PROVE handled'[w] = 0
      <3>1. calls[p].request # "invoke"
        BY <1>1, <2>7 DEF Family
      <3>2. Last(p) = Leader
        BY <2>1, <3>1
      <3> QED BY <2>1, <2>6, <2>7, <3>2 DEF HandledInv
    <2>8. ASSUME Limited, NEW w \in Workers PROVE OnceAt(w)'
      <3>1. OnceAt(w)
        BY <2>8 DEF HandledInv
      <3>2. CASE w # Last(p)
        <4>1. handled'[w] = handled[w]
          BY <2>1, <2>6, <3>2
        <4> QED BY <2>1, <2>3, <2>5, <3>1, <4>1 DEF OnceAt
      <3>3. CASE w = Last(p)
        <4>1. p \in OpenAt(w)
          BY <2>1, <3>3 DEF Complete, OpenAt
        <4>2. handled[w] = 0 /\ OpenAt(w) = {p} /\ Root \in seen[w]
          BY <3>1, <4>1 DEF OnceAt
        <4>3. handled'[w] = 1
          BY <2>1, <2>6, <3>3, <4>2
        <4> QED BY <2>1, <2>3, <2>5, <4>2, <4>3 DEF OnceAt
      <3> QED BY <3>2, <3>3
    <2>9. ASSUME Limited, NEW q \in DOMAIN calls' PROVE SameSignal(calls'[q])
      BY <1>2, <2>2, <2>9 DEF SameSignal
    <2>10. HandledInv'
      BY <2>1, <2>3, <2>4, <2>7, <2>8, <2>9 DEF HandledInv
    <2> QED BY <2>2, <2>10
  <1>8. ASSUME NEW w \in Workers, BroadcastNext(p, w) \/ ProxyNext(p, w)
        PROVE  ShapeInv' /\ HandledInv'
    <2>1. /\ ShapeInv' /\ UNCHANGED <<cluster, seen, handled, answer>>
          /\ calls[p].request \in {"broadcast", "proxied_query"}
          /\ \A q \in DOMAIN calls : /\ calls'[q].open = calls[q].open /\ calls'[q].ctx = calls[q].ctx
          /\ \A q \in DOMAIN calls' \ DOMAIN calls :
               /\ ~calls'[q].open
               /\ calls[p].request = "broadcast" => calls'[q].ctx = calls[p].ctx
      BY <1>8, NextIs
    <2>2. Limited => calls[p].request = "broadcast"
      BY <1>1, <2>1 DEF Family, Limited
    <2>3. Limited => \A q \in DOMAIN calls' : SameSignal(calls'[q])
      BY <1>2, <2>1, <2>2 DEF SameSignal
    <2> QED BY <2>1, <2>3, HandledQuiet
  <1> QED BY <1>4, <1>5, <1>6, <1>7, <1>8, HandlerIs

\* There is no network for a signal that is limited to fail on.
LEMMA HandledFails ==
  ASSUME HandledInv, NEW p, IsFailed(p) PROVE HandledInv'
  BY DEF HandledInv, IsFailed, Limited, Local

(***************************************************************************)
(* A worker that a broadcast reaches along several chains triggers the     *)
(* event once, when the signal is limited to one delivery and no worker is *)
(* on a machine of its own (worker/mod.rs 117-125, 243-272): for any       *)
(* peers and any workers connected to the leader.                          *)
(***************************************************************************)
THEOREM TriggersOnce == Spec => []HandledOnce
  <1> USE DEF vars
  <1>1. Init => ShapeInv /\ HandledInv
    BY ShapeInit, HandledInit
  <1>2. ShapeInv /\ HandledInv /\ [Next]_vars => ShapeInv' /\ HandledInv'
    <2> SUFFICES ASSUME ShapeInv, HandledInv, [Next]_vars PROVE ShapeInv' /\ HandledInv'
      OBVIOUS
    <2>1. CASE Handling
      BY <2>1, HandledStep DEF Handling
    <2>2. CASE UNCHANGED vars
      <3>1. ShapeInv'
        BY <2>2 DEF ShapeInv, Proper, Family
      <3>2. HandledInv'
        BY <2>2 DEF HandledInv, Limited, Local, OnceAt, OpenAt, SameSignal, Root
      <3> QED BY <3>1, <3>2
    <2>3. ASSUME NEW p \in DOMAIN calls, Fail(p) PROVE ShapeInv' /\ HandledInv'
      BY <2>3, FailIs, HandledFails
    <2> QED BY <2>1, <2>2, <2>3 DEF Next
  <1>3. ShapeInv /\ HandledInv => HandledOnce
    <2> SUFFICES ASSUME HandledInv, Local, cluster.delivery = 1, NEW w \in Workers
                 PROVE  handled[w] <= 1
      BY DEF HandledOnce
    <2>1. handled[w] \in {0, 1}
      BY DEF HandledInv, Limited, OnceAt
    <2> QED BY <2>1
  <1> QED BY <1>1, <1>2, <1>3, PTL DEF Spec

-----------------------------------------------------------------------------
(* A request to the leader *)

(***************************************************************************)
(* The invariant behind TakesEffectOnce. Only the longest chain's call can *)
(* be the leader's, or not open, whatever calls fail; so the request takes *)
(* effect once, and only an answer that says so makes a caller complete.   *)
(* While none fails on the network, the calls form one line: every call    *)
(* but the last waits for the next one, and none gives up while it waits.  *)
(* Only the last can be answered, and the answer that travels back along   *)
(* the line says whether the leader has taken the request.                 *)
(***************************************************************************)
TakenAt(c, taken) ==
  /\ ~c.open => taken = 0 /\ c.waits = {} /\ ~c.error
  /\ c.request # "update" => taken = 0 /\ c.waits = {}
  /\ c.open /\ c.waits = {} /\ ~c.error /\ c.request = "update" => taken = 1

Forwarded ==
  /\ handled[Leader] \in {0, 1}
  /\ \A p, q \in DOMAIN calls : Len(p) = Len(q) => p = q
  /\ \A p, q \in DOMAIN calls : Len(p) < Len(q) => calls[p].open /\ calls[p].request = "update"
  /\ \A p \in DOMAIN calls : TakenAt(calls[p], handled[Leader])
  /\ answer.done /\ answer.ok => handled[Leader] = 1

Line ==
  /\ \A p \in DOMAIN calls : Len(p) < 2 => p = Root
  /\ \A p, q \in DOMAIN calls : Len(p) = Len(q) => p = q
  /\ \A p, q \in DOMAIN calls : Len(p) < Len(q) => calls[p].waits # {}
  /\ \A p \in DOMAIN calls : calls[p].waits # {} =>
       \E r \in DOMAIN calls : calls[p].waits = {r} /\ Len(r) = Len(p) + 1
  /\ \A p \in DOMAIN calls : Len(p) > 1 => Front(p) \in DOMAIN calls

EffectAt(c, taken) ==
  /\ ~c.open => taken = 0 /\ c.waits = {} /\ ~c.error
  /\ c.waits # {} => c.request = "update" /\ ~c.error
  /\ c.open /\ c.waits = {} /\ c.request = "update" => (c.error <=> taken = 0)
  /\ c.open /\ c.waits = {} /\ c.request # "update" => taken = 0

Effects ==
  /\ handled[Leader] \in {0, 1}
  /\ \A p \in DOMAIN calls : EffectAt(calls[p], handled[Leader])
  /\ answer.done => DOMAIN calls = {} /\ (answer.ok <=> handled[Leader] = 1)

UpdateInv == cluster.request = "update" => Forwarded /\ (lost = {} => Line /\ Effects)

\* What begins with a chain, and what the chain begins with.
LEMMA BeginsIs ==
  ASSUME NEW S, NEW p \in Seq(S), NEW q \in Seq(S), NEW x \in S
  PROVE  /\ Begins(p, p) /\ Begins(p, Append(p, x)) /\ ~Begins(Append(p, x), p)
         /\ Begins(q, Append(p, x)) => q = Append(p, x) \/ Begins(q, p)
         /\ Begins(Append(p, x), q) => Begins(p, q)
  <1> DEFINE a == Append(p, x)  n == Len(p)  m == Len(q)  k == Len(a)
  <1>1. /\ a \in Seq(S) /\ k = n + 1 /\ \A i \in 1..n : a[i] = p[i]
    BY AppendProperties
  <1>2. n \in Nat /\ m \in Nat
    BY LenProperties
  <1>3. Begins(p, p) /\ Begins(p, a)
    BY <1>1, <1>2 DEF Begins
  <1> HIDE DEF a
  <1>4. ~Begins(a, p)
    <2> HIDE DEF n, k
    <2>1. ~(k <= n)
      BY <1>1, <1>2
    <2> QED BY <2>1 DEF Begins, n, k
  <1>5. ASSUME Begins(q, a) PROVE q = a \/ Begins(q, p)
    <2>1. m <= k /\ \A i \in 1..m : a[i] = q[i]
      BY <1>5 DEF Begins
    <2> HIDE DEF n, m, k
    <2>2. CASE m = k
      <3>1. \A i \in 1..Len(q) : q[i] = a[i]
        BY <2>1 DEF m
      <3> QED BY <1>1, <2>2, <3>1, SeqEqual DEF m, k
    <2>3. CASE m # k
      <3>1. m <= n /\ \A i \in 1..m : i \in 1..n
        BY <1>1, <1>2, <2>1, <2>3
      <3> QED BY <1>1, <2>1, <3>1 DEF Begins, m, n
    <2> QED BY <2>2, <2>3
  <1>6. Begins(a, q) => Begins(p, q)
    BY <1>1, <1>3, BeginsOn
  <1> QED BY <1>3, <1>4, <1>5, <1>6 DEF a

LEMMA FrontBegins ==
  ASSUME NEW S, NEW p \in Seq(S), p # <<>>
  PROVE  Begins(Front(p), p)
  <1> DEFINE n == Len(p)  f == SubSeq(p, 1, n - 1)
  <1>1. n \in Nat /\ n >= 1
    <2>1. n \in Nat \ {0}
      BY LastOne
    <2> QED BY <2>1
  <1>2. Front(p) = f
    BY DEF Front
  <1>3. CASE n > 1
    <2>1. Len(Front(p)) = n - 1
      BY <1>3, FrontIs
    <2>2. \A i \in 1..(n - 1) - 1 + 1 : f[i] = p[1 + i - 1]
      BY <1>1, <1>3, SubSeqProperties
    <2> HIDE DEF n, f
    <2>3. n - 1 <= n /\ \A i \in 1..n - 1 : f[i] = p[i]
      BY <1>1, <2>2
    <2> QED BY <1>2, <2>1, <2>3 DEF Begins, n
  <1>4. CASE ~(n > 1)
    <2> HIDE DEF n
    <2>1. n - 1 = 0
      BY <1>1, <1>4
    <2>2. Front(p) = SubSeq(p, 1, 0)
      BY <2>1 DEF Front, n
    <2>3. SubSeq(p, 1, 0) = <<>> /\ Len(<<>>) = 0
      BY SubSeqProperties
    <2> QED BY <1>1, <2>2, <2>3 DEF Begins, n
  <1> QED BY <1>3, <1>4

\* In a line, the call that waits for nothing is the last one.
LEMMA LastInLine ==
  ASSUME ShapeInv, Line, NEW p \in DOMAIN calls, calls[p].waits = {}
  PROVE  \A q \in DOMAIN calls : /\ Len(q) \in Nat /\ Len(q) >= 1
                                 /\ q # p => Len(q) < Len(p) /\ calls[q].waits # {}
  <1> DEFINE n(q) == Len(q)
  <1>1. \A q \in DOMAIN calls : n(q) \in Nat /\ n(q) >= 1
    <2>1. \A q \in DOMAIN calls : q \in Seq(Participants) /\ q # <<>>
      BY DEF ShapeInv, Proper
    <2>2. \A q \in DOMAIN calls : Len(q) \in Nat \ {0}
      BY <2>1, LastOne
    <2> QED BY <2>2
  <1>2. /\ \A q, r \in DOMAIN calls : n(q) = n(r) => q = r
        /\ \A q, r \in DOMAIN calls : n(q) < n(r) => calls[q].waits # {}
    BY DEF Line
  <1> HIDE DEF n
  <1>3. \A q \in DOMAIN calls : /\ n(q) \in Nat /\ n(q) >= 1
                                /\ q # p => n(q) < n(p) /\ calls[q].waits # {}
    BY <1>1, <1>2
  <1> QED BY <1>3 DEF n

LEMMA UpdateInit ==
  ASSUME Init PROVE UpdateInv
  <1> DEFINE x == Context(Root, Nobody, cluster.delivery, <<>>)
  <1>1. /\ DOMAIN calls = {Root} /\ Len(Root) < 2
        /\ calls[Root] = Call(cluster.request, x)
    BY ShapeInit
  <1> HIDE DEF x
  <1>2. /\ ~calls[Root].open /\ calls[Root].waits = {} /\ ~calls[Root].error
    BY <1>1, CallIs
  <1>3. handled[Leader] = 0 /\ ~answer.done
    BY DEF Init, Participants
  <1>4. Line
    <2>1. ~(Len(Root) < Len(Root)) /\ ~(Len(Root) > 1)
      BY <1>1
    <2> QED BY <1>1, <1>2, <2>1 DEF Line
  <1>5. Effects
    BY <1>1, <1>2, <1>3 DEF Effects, EffectAt
  <1>6. cluster.request = "update" => Forwarded
    <2>1. calls[Root].request = cluster.request /\ ~(Len(Root) < Len(Root))
      BY <1>1, CallIs
    <2> QED BY <1>1, <1>2, <1>3, <2>1 DEF Forwarded, TakenAt
  <1> QED BY <1>4, <1>5, <1>6 DEF UpdateInv

\* The last call of the line is answered: the one before it is the last one then.
LEMMA UpdateAnswered ==
  ASSUME ShapeInv, Line, Effects, cluster.request = "update", NEW p \in DOMAIN calls,
         calls[p].waits = {}, NEW ok \in BOOLEAN, NEW product,
         Respond(p, ok, calls[p].ctx, product), UNCHANGED <<cluster, seen>>,
         handled' \in [Participants -> Nat],
         handled'[Leader] \in {0, 1}, ok <=> handled'[Leader] = 1
  PROVE  ShapeInv' /\ Line' /\ Effects'
  <1> DEFINE up == Front(p)
  <1>1. /\ ShapeInv'
        /\ DOMAIN calls' = DOMAIN calls \ {p}
        /\ \A q \in DOMAIN calls' :
             /\ q # up => calls'[q] = calls[q]
             /\ calls'[q].open = calls[q].open /\ calls'[q].request = calls[q].request
        /\ up \in DOMAIN calls' =>
             /\ calls'[up].waits = calls[up].waits \ {p}
             /\ p \in calls[up].waits =>
                  (calls'[up].error <=>
                     calls[up].error \/ (~ok /\ calls[up].request \notin {"invoke", "broadcast"}))
        /\ p = Root => answer'.done /\ answer'.ok = ok
        /\ p # Root => answer' = answer
    BY RespondIs
  <1>2. \A q \in DOMAIN calls : /\ Len(q) \in Nat /\ Len(q) >= 1
                                /\ q # p => Len(q) < Len(p) /\ calls[q].waits # {}
    BY LastInLine
  <1>3. Root' = Root
    BY DEF Root
  <1>4. ~answer.done
    BY DEF Effects
  <1>5. p \in Seq(Participants)
    BY DEF ShapeInv, Proper
  <1> HIDE DEF up
  <1>6. CASE Len(p) < 2
    <2>1. p = Root
      BY <1>6 DEF Line
    <2>2. DOMAIN calls' = {}
      BY <1>1, <1>2, <1>6
    <2>3. Line'
      BY <2>2 DEF Line
    <2>4. Effects'
      BY <1>1, <2>1, <2>2 DEF Effects
    <2> QED BY <1>1, <2>3, <2>4
  <1>7. CASE ~(Len(p) < 2)
    <2>1. Len(p) > 1
      <3>1. Len(p) \in Nat /\ Len(p) >= 1
        BY <1>2
      <3> QED BY <1>7, <3>1
    <2>2. up \in DOMAIN calls /\ Len(up) = Len(p) - 1
      BY <1>5, <2>1, FrontIs DEF Line, up
    <2>3. up # p /\ calls[up].waits # {}
      BY <1>2, <2>2
    <2>4. PICK r \in DOMAIN calls : calls[up].waits = {r} /\ Len(r) = Len(up) + 1
      BY <2>2, <2>3 DEF Line
    <2>5. r = p
      BY <1>2, <2>2, <2>4
    <2>6. up \in DOMAIN calls' /\ calls'[up].waits = {}
      BY <1>1, <2>2, <2>3, <2>4, <2>5
    <2>7. calls[up].open /\ calls[up].request = "update" /\ ~calls[up].error
      BY <2>2, <2>3 DEF Effects, EffectAt
    <2>8. calls'[up].open /\ calls'[up].request = "update" /\ (calls'[up].error <=> ~ok)
      <3>1. p \in calls[up].waits
        BY <2>4, <2>5
      <3> QED BY <1>1, <2>6, <2>7, <3>1
    <2>9. \A q \in DOMAIN calls' : q # up => Len(q) < Len(up) /\ calls'[q] = calls[q] /\ calls[q].waits # {}
      <3> SUFFICES ASSUME NEW q \in DOMAIN calls', q # up
                   PROVE  Len(q) < Len(up) /\ calls'[q] = calls[q] /\ calls[q].waits # {}
        OBVIOUS
      <3>1. q \in DOMAIN calls /\ q # p
        BY <1>1
      <3>2. Len(q) # Len(up)
        BY <2>2, <3>1 DEF Line
      <3>3. /\ Len(q) \in Nat /\ Len(q) < Len(p) /\ calls[q].waits # {}
            /\ Len(p) \in Nat
        BY <1>2, <3>1
      <3>4. Len(q) < Len(up)
        BY <2>2, <3>2, <3>3
      <3> QED BY <1>1, <3>3, <3>4
    <2>10. p # Root
      <3>1. Len(Root) < 2
        BY DEF Root
      <3> QED BY <2>1, <3>1
    <2>11. ASSUME NEW q \in DOMAIN calls', calls'[q].waits # {}
           PROVE  \E t \in DOMAIN calls' : calls'[q].waits = {t} /\ Len(t) = Len(q) + 1
      <3>1. q # up /\ q \in DOMAIN calls /\ calls[q].waits # {} /\ calls'[q] = calls[q]
        BY <1>1, <2>6, <2>9, <2>11
      <3>2. PICK t \in DOMAIN calls : calls[q].waits = {t} /\ Len(t) = Len(q) + 1
        BY <3>1 DEF Line
      <3>3. t # p
        BY <1>2, <2>2, <2>9, <3>1, <3>2
      <3> QED BY <1>1, <3>1, <3>2, <3>3
    <2>12. ASSUME NEW q \in DOMAIN calls', Len(q) > 1 PROVE Front(q) \in DOMAIN calls'
      <3>1. q \in DOMAIN calls /\ q \in Seq(Participants)
        BY <1>1 DEF ShapeInv, Proper
      <3>2. Front(q) \in DOMAIN calls /\ Len(Front(q)) = Len(q) - 1
        BY <2>12, <3>1, FrontIs DEF Line
      <3>3. Front(q) # p
        BY <1>1, <1>2, <3>1, <3>2
      <3> QED BY <1>1, <3>2, <3>3
    <2>13. Line'
      <3>1. \A q \in DOMAIN calls' : Len(q) < 2 => q = Root'
        BY <1>1, <1>3 DEF Line
      <3>2. \A q, t \in DOMAIN calls' : Len(q) = Len(t) => q = t
        BY <1>1 DEF Line
      <3>3. \A q, t \in DOMAIN calls' : Len(q) < Len(t) => calls'[q].waits # {}
        BY <1>1, <1>2, <2>2, <2>9
      <3> QED BY <2>11, <2>12, <3>1, <3>2, <3>3 DEF Line
    <2>14. ASSUME NEW q \in DOMAIN calls' PROVE EffectAt(calls'[q], handled'[Leader])
      <3>1. CASE q = up
        BY <2>6, <2>8, <3>1 DEF EffectAt
      <3>2. CASE q # up
        <4>1. calls'[q] = calls[q] /\ calls[q].waits # {} /\ EffectAt(calls[q], handled[Leader])
          BY <1>1, <2>9, <3>2 DEF Effects
        <4> QED BY <4>1 DEF EffectAt
      <3> QED BY <3>1, <3>2
    <2>15. Effects'
      BY <1>1, <1>4, <2>10, <2>14 DEF Effects, EffectAt
    <2> QED BY <1>1, <2>13, <2>15
  <1> QED BY <1>6, <1>7

\* The last call of the line is opened: it fails for want of a way, is the leader's, or
\* makes the one call that is the last one then.
LEMMA UpdateOpened ==
  ASSUME ShapeInv, Line, Effects, NEW p \in DOMAIN calls, ~calls[p].open,
         UNCHANGED <<cluster, handled, answer>>,
         NEW ctx, NEW made, NEW error \in BOOLEAN, IsOpened(p, ctx, made, {}, error),
         \/ DOMAIN made = {} /\ (calls[p].request = "update" => error)
         \/ ~error /\ calls[p].request = "update" /\ \E x \in Participants : DOMAIN made = {x}
  PROVE  Line' /\ Effects'
  <1>1. /\ p \notin Made(p, made) /\ DOMAIN calls' = DOMAIN calls \cup Made(p, made)
        /\ calls'[p].open /\ calls'[p].request = calls[p].request
        /\ calls'[p].waits = Made(p, made) /\ calls'[p].error = error
        /\ \A x \in DOMAIN made : calls'[Append(p, x)] = Call(made[x], ctx)
        /\ \A q \in DOMAIN calls \ (Made(p, made) \cup {p}) : calls'[q] = calls[q]
    BY DEF IsOpened
  <1>2. calls[p].waits = {} /\ handled[Leader] = 0 /\ ~answer.done
    BY DEF Effects, EffectAt
  <1>3. \A q \in DOMAIN calls : /\ Len(q) \in Nat /\ Len(q) >= 1
                                /\ q # p => Len(q) < Len(p) /\ calls[q].waits # {}
    BY <1>2, LastInLine
  <1>4. Root' = Root
    BY DEF Root
  <1>5. p \in Seq(Participants)
    BY DEF ShapeInv, Proper
  <1>6. CASE DOMAIN made = {} /\ (calls[p].request = "update" => error)
    <2>1. Made(p, made) = {}
      BY <1>6 DEF Made
    <2>2. /\ DOMAIN calls' = DOMAIN calls
          /\ \A q \in DOMAIN calls : calls'[q].waits = calls[q].waits
      BY <1>1, <1>2, <2>1
    <2>3. Line'
      BY <1>4, <2>2 DEF Line
    <2>4. ASSUME NEW q \in DOMAIN calls' PROVE EffectAt(calls'[q], handled'[Leader])
      <3>1. CASE q = p
        BY <1>1, <1>2, <1>6, <2>1, <3>1 DEF EffectAt
      <3>2. CASE q # p
        BY <1>1, <2>1, <3>2 DEF Effects
      <3> QED BY <3>1, <3>2
    <2>5. Effects'
      BY <1>2, <2>4 DEF Effects
    <2> QED BY <2>3, <2>5
  <1>7. ASSUME ~error, calls[p].request = "update", NEW x \in Participants, DOMAIN made = {x}
        PROVE  Line' /\ Effects'
    <2> DEFINE r == Append(p, x)
    <2>1. Made(p, made) = {r}
      BY <1>7 DEF Made
    <2>2. /\ r \in Seq(Participants) /\ r # p /\ Len(r) = Len(p) + 1 /\ Front(r) = p
      BY <1>5, ChainGrows
    <2>3. calls'[r] = Call(made[x], ctx)
      BY <1>1, <1>7
    <2> HIDE DEF r
    <2>4. ~calls'[r].open /\ calls'[r].waits = {} /\ ~calls'[r].error
      BY <2>3, CallIs
    <2>5. r \notin DOMAIN calls
      BY <1>3, <2>2
    <2>6. /\ DOMAIN calls' = DOMAIN calls \cup {r}
          /\ calls'[p].waits = {r}
          /\ \A q \in DOMAIN calls \ {p} : calls'[q] = calls[q]
      BY <1>1, <2>1, <2>5
    <2>7. Len(r) \in Nat /\ ~(Len(r) < 2) /\ \A q \in DOMAIN calls : Len(q) < Len(r)
      BY <1>3, <2>2
    <2>8. Line'
      <3>1. \A q \in DOMAIN calls' : Len(q) < 2 => q = Root'
        BY <1>4, <2>6, <2>7 DEF Line
      <3>2. \A q, t \in DOMAIN calls' : Len(q) = Len(t) => q = t
        <4>1. \A q \in DOMAIN calls : Len(q) # Len(r)
          BY <1>3, <2>7
        <4> QED BY <2>6, <4>1 DEF Line
      <3>3. ASSUME NEW q \in DOMAIN calls', NEW t \in DOMAIN calls', Len(q) < Len(t) PROVE calls'[q].waits # {}
        <4>1. q # r
          <5>1. Len(t) \in Nat /\ (t = r \/ Len(t) < Len(r))
            BY <1>3, <2>6, <2>7
          <5> QED BY <2>7, <3>3, <5>1
        <4> QED BY <1>3, <2>6, <4>1
      <3>4. ASSUME NEW q \in DOMAIN calls', calls'[q].waits # {}
            PROVE  \E t \in DOMAIN calls' : calls'[q].waits = {t} /\ Len(t) = Len(q) + 1
        <4>1. CASE q = p
          BY <2>2, <2>6, <4>1
        <4>2. CASE q # p
          <5>1. q \in DOMAIN calls /\ calls'[q] = calls[q]
            BY <2>4, <2>6, <3>4, <4>2
          <5>2. PICK t \in DOMAIN calls : calls[q].waits = {t} /\ Len(t) = Len(q) + 1
            BY <3>4, <5>1 DEF Line
          <5> QED BY <2>6, <5>1, <5>2
        <4> QED BY <4>1, <4>2
      <3>5. \A q \in DOMAIN calls' : Len(q) > 1 => Front(q) \in DOMAIN calls'
        BY <2>2, <2>6 DEF Line
      <3> QED BY <3>1, <3>2, <3>3, <3>4, <3>5 DEF Line
    <2>9. ASSUME NEW q \in DOMAIN calls' PROVE EffectAt(calls'[q], handled'[Leader])
      <3>1. CASE q = p
        BY <1>1, <1>2, <1>7, <2>6, <3>1 DEF EffectAt
      <3>2. CASE q = r
        BY <1>2, <2>4, <3>2 DEF EffectAt
      <3>3. CASE q # p /\ q # r
        BY <2>6, <3>3 DEF Effects
      <3> QED BY <3>1, <3>2, <3>3
    <2>10. Effects'
      BY <1>2, <2>9 DEF Effects
    <2> QED BY <2>8, <2>10
  <1> QED BY <1>6, <1>7

\* Who knows whom does not change while a request travels.
LEMMA ClusterStays ==
  ASSUME NEW p, Handler(p) PROVE cluster' = cluster
  <1>1. CASE Invoke(p) \/ WorkerBroadcast(p) \/ ProcessQuery(p) \/ WorkerProxy(p) \/ LeaderTakes(p)
               \/ SendToLeader(p)
    <2>1. ASSUME NEW ctx, NEW made, NEW left, NEW error, Open(p, ctx, made, left, error)
          PROVE  cluster' = cluster
      BY <2>1, Zenon DEF Open
    <2>2. \E ctx, made, left, error : Open(p, ctx, made, left, error)
      <3>1. CASE Invoke(p)
        BY <3>1, Zenon DEF Invoke
      <3>2. CASE ProcessQuery(p)
        BY <3>2, Zenon DEF ProcessQuery
      <3>3. CASE WorkerBroadcast(p) \/ WorkerProxy(p) \/ LeaderTakes(p)
        BY <3>3, Zenon DEF WorkerBroadcast, WorkerProxy, LeaderTakes
      <3>4. CASE SendToLeader(p)
        BY <3>4, Zenon DEF SendToLeader
      <3> QED BY <1>1, <3>1, <3>2, <3>3, <3>4
    <2> QED BY <2>1, <2>2
  <1>2. CASE Refuse(p) \/ AnswerQuery(p) \/ PassOn(p) \/ FailOn(p) \/ TriggerEvent(p) \/ TakeEffect(p)
    BY <1>2 DEF Refuse, AnswerQuery, PassOn, FailOn, TriggerEvent, TakeEffect
  <1>3. CASE \E w \in Workers : BroadcastNext(p, w) \/ ProxyNext(p, w)
    BY <1>3 DEF BroadcastNext, ProxyNext
  <1> QED BY <1>1, <1>2, <1>3, HandlerIs

LEMMA NotPassedOn ==
  ASSUME NEW p, calls[p].request \in {"update", "leader_update"}
  PROVE  ~(\/ Invoke(p) \/ WorkerBroadcast(p) \/ ProcessQuery(p) \/ WorkerProxy(p)
           \/ \E w \in Workers : BroadcastNext(p, w) \/ ProxyNext(p, w))
  <1>1. Invoke(p) => calls[p].request = "invoke"
    BY Zenon DEF Invoke
  <1>2. ProcessQuery(p) => calls[p].request = "query"
    BY Zenon DEF ProcessQuery
  <1>3. /\ WorkerBroadcast(p) => calls[p].request = "broadcast"
        /\ WorkerProxy(p) => calls[p].request = "proxied_query"
    BY Zenon DEF WorkerBroadcast, WorkerProxy
  <1>4. \A w \in Workers : BroadcastNext(p, w) \/ ProxyNext(p, w) => calls[p].request \in {"broadcast", "proxied_query"}
    BY Zenon DEF BroadcastNext, ProxyNext
  <1> QED BY <1>1, <1>2, <1>3, <1>4

LEMMA UpdateStep ==
  ASSUME ShapeInv, Line, Effects, cluster.request = "update", NEW p \in DOMAIN calls, Handler(p)
  PROVE  ShapeInv' /\ Line' /\ Effects'
  <1>1. calls[p].request \in {"update", "leader_update"}
    BY DEF ShapeInv, Proper, Family
  <1>2. EffectAt(calls[p], handled[Leader]) /\ handled[Leader] \in {0, 1} /\ handled \in [Participants -> Nat]
    BY DEF Effects, ShapeInv
  <1>3. ASSUME NEW made, NEW error, Opens(p, Observed(p), made, {}, error),
               \/ DOMAIN made = {} /\ (calls[p].request = "update" => error)
               \/ ~error /\ calls[p].request = "update" /\ \E x \in Participants : DOMAIN made = {x}
        PROVE  ShapeInv' /\ Line' /\ Effects'
    <2>1. /\ ShapeInv'
          /\ ~calls[p].open /\ UNCHANGED <<cluster, handled, answer>>
          /\ IsOpened(p, Observed(p), made, {}, error)
          /\ error \in BOOLEAN
      BY <1>3, OpenIs DEF Opens, Registers
    <2> QED BY <1>3, <2>1, UpdateOpened
  <1>4. CASE SendToLeader(p)
    <2>1. calls[p].request = "update"
      BY <1>4 DEF SendToLeader
    <2>2. PICK made, error :
            /\ Opens(p, Observed(p), made, {}, error)
            /\ \/ error /\ DOMAIN made = {}
               \/ /\ ~error
                  /\ \E x \in Participants :
                       DOMAIN made = {x} /\ (x # Leader => ~WentThroughWorker(Observed(p), x))
      BY <1>4, SendsAre
    <2> QED BY <1>3, <2>1, <2>2
  <1>5. CASE LeaderTakes(p)
    <2>1. PICK error : /\ Opens(p, Observed(p), << >>, {}, error)
                       /\ DOMAIN << >> = {} /\ calls[p].request = "leader_update"
      BY <1>5, TakesIs
    <2> QED BY <1>3, <2>1
  <1>6. CASE Refuse(p) \/ AnswerQuery(p) \/ PassOn(p) \/ FailOn(p)
    <2>1. /\ UNCHANGED <<cluster, seen, handled>>
          /\ \E ok, product :
               /\ ok \in BOOLEAN /\ Respond(p, ok, calls[p].ctx, product)
               /\ ok => Complete(p) /\ calls[p].request \notin {"invoke", "leader_update"}
               /\ ~ok => ~calls[p].open \/ calls[p].error
      BY <1>6, QuietIs
    <2>2. PICK ok, product :
               /\ ok \in BOOLEAN /\ Respond(p, ok, calls[p].ctx, product)
               /\ ok => Complete(p) /\ calls[p].request \notin {"invoke", "leader_update"}
               /\ ~ok => ~calls[p].open \/ calls[p].error
      BY <2>1
    <2>3. calls[p].waits = {} /\ (ok <=> handled[Leader] = 1)
      <3>1. CASE ok
        BY <1>1, <1>2, <2>2, <3>1 DEF Complete, EffectAt
      <3>2. CASE ~ok
        BY <1>2, <2>2, <3>2 DEF EffectAt
      <3> QED BY <3>1, <3>2
    <2> QED BY <1>2, <2>1, <2>2, <2>3, UpdateAnswered
  <1>7. CASE TriggerEvent(p) \/ TakeEffect(p)
    <2>1. /\ UNCHANGED <<cluster, seen>> /\ Complete(p) /\ Last(p) \in Participants
          /\ \/ calls[p].request = "invoke" /\ Last(p) \in Workers
             \/ calls[p].request = "leader_update" /\ Last(p) = Leader
          /\ handled' = [handled EXCEPT ![Last(p)] = handled[Last(p)] + 1]
          /\ handled' \in [Participants -> Nat]
          /\ Respond(p, TRUE, calls[p].ctx, calls[p].product)
      BY <1>7, EventIs
    <2>2. calls[p].request = "leader_update" /\ Last(p) = Leader /\ calls[p].waits = {}
      BY <1>1, <2>1 DEF Complete
    <2>3. handled[Leader] = 0
      BY <1>2, <2>1, <2>2 DEF Complete, EffectAt
    <2>4. handled'[Leader] = 1
      BY <1>2, <2>1, <2>2, <2>3
    <2> QED BY <2>1, <2>2, <2>4, UpdateAnswered
  <1>8. CASE Invoke(p) \/ WorkerBroadcast(p) \/ ProcessQuery(p) \/ WorkerProxy(p)
               \/ \E w \in Workers : BroadcastNext(p, w) \/ ProxyNext(p, w)
    BY <1>1, <1>8, NotPassedOn
  <1> QED BY <1>4, <1>5, <1>6, <1>7, <1>8, HandlerIs

\* A step that makes no call keeps Forwarded if who is told of a failure fails, and who
\* is told of a success is so once the leader has taken the request.
LEMMA ForwardedOn ==
  ASSUME Forwarded, DOMAIN calls' \subseteq DOMAIN calls, handled'[Leader] \in {0, 1},
         \A q \in DOMAIN calls' :
           /\ calls'[q].open = calls[q].open /\ calls'[q].request = calls[q].request
           /\ \/ calls'[q] = calls[q]
              \/ calls[q].waits # {} /\ (calls'[q].error \/ handled'[Leader] = 1),
         \/ handled'[Leader] = handled[Leader]
         \/ /\ handled'[Leader] = 1
            /\ \A q \in DOMAIN calls' : calls[q].open /\ calls[q].request = "update",
         answer'.done /\ answer'.ok => handled'[Leader] = 1
  PROVE  Forwarded'
  <1>1. \A q \in DOMAIN calls : TakenAt(calls[q], handled[Leader])
    BY DEF Forwarded
  <1>2. ASSUME NEW q \in DOMAIN calls' PROVE TakenAt(calls'[q], handled'[Leader])
    <2>1. TakenAt(calls[q], handled[Leader]) /\ q \in DOMAIN calls
      BY <1>1
    <2>2. CASE calls'[q] = calls[q]
      BY <2>1, <2>2 DEF TakenAt
    <2>3. CASE calls[q].waits # {} /\ (calls'[q].error \/ handled'[Leader] = 1)
      <3>1. calls[q].open /\ calls[q].request = "update"
        BY <2>1, <2>3 DEF TakenAt
      <3> QED BY <2>3, <3>1 DEF TakenAt
    <2> QED BY <2>2, <2>3
  <1>3. \A q, r \in DOMAIN calls' : Len(q) = Len(r) => q = r
    BY DEF Forwarded
  <1>4. \A q, r \in DOMAIN calls' : Len(q) < Len(r) => calls'[q].open /\ calls'[q].request = "update"
    BY DEF Forwarded
  <1> QED BY <1>2, <1>3, <1>4 DEF Forwarded

\* All calls but the one that is not open, or is the leader's, are open and pass it on.
LEMMA LastForwarded ==
  ASSUME ShapeInv, Forwarded, NEW p \in DOMAIN calls, ~calls[p].open \/ calls[p].request # "update"
  PROVE  \A q \in DOMAIN calls : /\ Len(q) \in Nat
                                 /\ q # p => Len(q) < Len(p) /\ calls[q].open /\ calls[q].request = "update"
  <1>1. \A q \in DOMAIN calls : q \in Seq(Participants)
    BY DEF ShapeInv, Proper
  <1>2. \A q \in DOMAIN calls : Len(q) \in Nat
    BY <1>1, LenProperties
  <1>3. ASSUME NEW q \in DOMAIN calls, q # p
        PROVE  Len(q) < Len(p) /\ calls[q].open /\ calls[q].request = "update"
    <2>1. Len(q) # Len(p) /\ ~(Len(p) < Len(q))
      BY <1>3 DEF Forwarded
    <2>2. Len(q) < Len(p)
      BY <1>2, <2>1
    <2> QED BY <2>2 DEF Forwarded
  <1> QED BY <1>2, <1>3

LEMMA ForwardedAnswered ==
  ASSUME ShapeInv, Forwarded, cluster.request = "update", NEW p \in DOMAIN calls,
         NEW ok \in BOOLEAN, NEW product, Respond(p, ok, calls[p].ctx, product),
         UNCHANGED <<cluster, seen>>, handled' \in [Participants -> Nat],
         handled'[Leader] \in {0, 1}, ok => handled'[Leader] = 1,
         \/ handled'[Leader] = handled[Leader]
         \/ /\ handled'[Leader] = 1 /\ calls[p].request # "update"
  PROVE  Forwarded'
  <1> DEFINE up == Front(p)
  <1>1. /\ DOMAIN calls' = DOMAIN calls \ {p}
        /\ \A q \in DOMAIN calls' :
             /\ q # up => calls'[q] = calls[q]
             /\ calls'[q].open = calls[q].open /\ calls'[q].request = calls[q].request
    BY RespondIs
  <1>8. /\ p = Root => answer'.done /\ answer'.ok = ok
        /\ p # Root => answer' = answer
    BY DEF Respond
  <1>9. up \in DOMAIN calls' =>
          /\ p \notin calls[up].waits => calls'[up] = calls[up]
          /\ p \in calls[up].waits =>
               (calls'[up].error <=>
                  calls[up].error \/ (~ok /\ calls[up].request \notin {"invoke", "broadcast"}))
    BY RespondIs
  <1>2. \A q \in DOMAIN calls : calls[q].request \in {"update", "leader_update"}
    BY DEF ShapeInv, Proper, Family
  <1> HIDE DEF up
  <1>3. ASSUME NEW q \in DOMAIN calls'
        PROVE  \/ calls'[q] = calls[q]
               \/ calls[q].waits # {} /\ (calls'[q].error \/ handled'[Leader] = 1)
    <2>1. CASE q = up /\ p \in calls[up].waits
      BY <1>1, <1>2, <1>9, <2>1
    <2>2. CASE ~(q = up /\ p \in calls[up].waits)
      BY <1>1, <1>9, <2>2
    <2> QED BY <2>1, <2>2
  <1>4. \/ handled'[Leader] = handled[Leader]
        \/ /\ handled'[Leader] = 1
           /\ \A q \in DOMAIN calls' : calls[q].open /\ calls[q].request = "update"
    BY <1>1, LastForwarded
  <1>5. answer'.done /\ answer'.ok => handled'[Leader] = 1
    BY <1>4, <1>8 DEF Forwarded
  <1> QED BY <1>1, <1>3, <1>4, <1>5, ForwardedOn

LEMMA ForwardedFails ==
  ASSUME ShapeInv, Forwarded, cluster.request = "update", NEW p \in DOMAIN calls, IsFailed(p)
  PROVE  Forwarded'
  <1> DEFINE up == Front(p)
  <1>1. /\ UNCHANGED <<cluster, handled, answer>>
        /\ up \in DOMAIN calls' /\ p \in calls[up].waits /\ DOMAIN calls' \subseteq DOMAIN calls
        /\ \A q \in DOMAIN calls' : q # up => calls'[q] = calls[q]
        /\ IsTold(calls[up], p, FALSE, calls[p].ctx, calls[p].product, calls'[up])
    BY DEF IsFailed
  <1> HIDE DEF up
  <1>2. calls[up].request \in {"update", "leader_update"}
    BY <1>1 DEF ShapeInv, Proper, Family
  <1>3. /\ calls'[up].open = calls[up].open /\ calls'[up].request = calls[up].request
        /\ calls[up].waits # {} /\ calls'[up].error
    BY <1>1, <1>2 DEF IsTold
  <1>4. handled'[Leader] = handled[Leader] /\ handled'[Leader] \in {0, 1}
        /\ (answer'.done /\ answer'.ok => handled'[Leader] = 1)
    BY <1>1 DEF Forwarded
  <1>5. \A q \in DOMAIN calls' :
           /\ calls'[q].open = calls[q].open /\ calls'[q].request = calls[q].request
           /\ \/ calls'[q] = calls[q]
              \/ calls[q].waits # {} /\ (calls'[q].error \/ handled'[Leader] = 1)
    BY <1>1, <1>3
  <1> QED BY <1>1, <1>4, <1>5, ForwardedOn

LEMMA ForwardedOpened ==
  ASSUME ShapeInv, Forwarded, NEW p \in DOMAIN calls, ~calls[p].open,
         UNCHANGED <<cluster, handled, answer>>,
         NEW ctx, NEW made, NEW error \in BOOLEAN, IsOpened(p, ctx, made, {}, error),
         \/ DOMAIN made = {} /\ (calls[p].request = "update" => error)
         \/ ~error /\ calls[p].request = "update" /\ \E x \in Participants : DOMAIN made = {x}
  PROVE  Forwarded'
  <1>1. /\ p \notin Made(p, made) /\ DOMAIN calls' = DOMAIN calls \cup Made(p, made)
        /\ calls'[p].open /\ calls'[p].request = calls[p].request
        /\ calls'[p].waits = Made(p, made) /\ calls'[p].error = error
        /\ \A x \in DOMAIN made : calls'[Append(p, x)] = Call(made[x], ctx)
        /\ \A q \in DOMAIN calls \ (Made(p, made) \cup {p}) : calls'[q] = calls[q]
    BY DEF IsOpened
  <1>2. handled[Leader] = 0 /\ \A q \in DOMAIN calls : TakenAt(calls[q], handled[Leader])
    BY DEF Forwarded, TakenAt
  <1>3. \A q \in DOMAIN calls : /\ Len(q) \in Nat
                                /\ q # p => Len(q) < Len(p) /\ calls[q].open /\ calls[q].request = "update"
    BY LastForwarded
  <1>4. p \in Seq(Participants)
    BY DEF ShapeInv, Proper
  <1>5. CASE DOMAIN made = {} /\ (calls[p].request = "update" => error)
    <2>1. Made(p, made) = {}
      BY <1>5 DEF Made
    <2>2. /\ DOMAIN calls' = DOMAIN calls /\ calls'[p].waits = {}
          /\ \A q \in DOMAIN calls : q # p => calls'[q] = calls[q]
      BY <1>1, <2>1
    <2>3. TakenAt(calls'[p], 0)
      BY <1>1, <1>5, <2>2 DEF TakenAt
    <2>4. \A q \in DOMAIN calls' : TakenAt(calls'[q], handled'[Leader])
      BY <1>2, <2>2, <2>3
    <2>5. \A q, r \in DOMAIN calls' : Len(q) < Len(r) => calls'[q].open /\ calls'[q].request = "update"
      <3> SUFFICES ASSUME NEW q \in DOMAIN calls', NEW r \in DOMAIN calls', Len(q) < Len(r)
                   PROVE  calls'[q].open /\ calls'[q].request = "update"
        OBVIOUS
      <3>1. q # p
        <4>1. r = p \/ Len(r) < Len(p)
          BY <1>3, <2>2
        <4> QED BY <1>3, <2>2, <4>1
      <3> QED BY <1>3, <2>2, <3>1
    <2> QED BY <1>2, <2>2, <2>4, <2>5 DEF Forwarded
  <1>6. ASSUME ~error, calls[p].request = "update", NEW x \in Participants, DOMAIN made = {x}
        PROVE  Forwarded'
    <2> DEFINE r == Append(p, x)
    <2>1. Made(p, made) = {r}
      BY <1>6 DEF Made
    <2>2. Len(r) = Len(p) + 1
      BY <1>4, ChainGrows
    <2>3. calls'[r] = Call(made[x], ctx)
      BY <1>1, <1>6
    <2> HIDE DEF r
    <2>4. ~calls'[r].open /\ calls'[r].waits = {} /\ ~calls'[r].error
      BY <2>3, CallIs
    <2>5. Len(r) \in Nat /\ \A q \in DOMAIN calls : Len(q) < Len(r) /\ Len(q) # Len(r)
      BY <1>3, <2>2
    <2>6. /\ DOMAIN calls' = DOMAIN calls \cup {r} /\ r \notin DOMAIN calls
          /\ calls'[p].waits = {r} /\ calls'[p].open /\ calls'[p].request = "update"
          /\ \A q \in DOMAIN calls \ {p} : calls'[q] = calls[q]
      BY <1>1, <1>6, <2>1, <2>5
    <2>7. TakenAt(calls'[p], 0) /\ TakenAt(calls'[r], 0)
      BY <2>4, <2>6 DEF TakenAt
    <2>8. \A q \in DOMAIN calls' : TakenAt(calls'[q], handled'[Leader])
      BY <1>2, <2>6, <2>7
    <2>9. \A q, s \in DOMAIN calls' : Len(q) = Len(s) => q = s
      BY <2>5, <2>6 DEF Forwarded
    <2>10. \A q \in DOMAIN calls : calls'[q].open /\ calls'[q].request = "update"
      BY <1>3, <2>6
    <2>11. \A s \in DOMAIN calls' : ~(Len(r) < Len(s))
      <3>1. ~(Len(r) < Len(r)) /\ \A s \in DOMAIN calls : ~(Len(r) < Len(s))
        BY <1>3, <2>5
      <3> QED BY <2>6, <3>1
    <2> QED BY <1>2, <2>6, <2>8, <2>9, <2>10, <2>11 DEF Forwarded
  <1> QED BY <1>5, <1>6

LEMMA ForwardedStep ==
  ASSUME ShapeInv, Forwarded, cluster.request = "update", NEW p \in DOMAIN calls, Handler(p)
  PROVE  Forwarded'
  <1>1. calls[p].request \in {"update", "leader_update"}
    BY DEF ShapeInv, Proper, Family
  <1>2. TakenAt(calls[p], handled[Leader]) /\ handled[Leader] \in {0, 1} /\ handled \in [Participants -> Nat]
    BY DEF Forwarded, ShapeInv
  <1>3. ASSUME NEW made, NEW error, Opens(p, Observed(p), made, {}, error),
               \/ DOMAIN made = {} /\ (calls[p].request = "update" => error)
               \/ ~error /\ calls[p].request = "update" /\ \E x \in Participants : DOMAIN made = {x}
        PROVE  Forwarded'
    <2>1. /\ ~calls[p].open /\ UNCHANGED <<cluster, handled, answer>>
          /\ IsOpened(p, Observed(p), made, {}, error)
          /\ error \in BOOLEAN
      BY <1>3, OpenIs DEF Opens, Registers
    <2> QED BY <1>3, <2>1, ForwardedOpened
  <1>4. CASE SendToLeader(p)
    <2>1. calls[p].request = "update"
      BY <1>4 DEF SendToLeader
    <2>2. PICK made, error :
            /\ Opens(p, Observed(p), made, {}, error)
            /\ \/ error /\ DOMAIN made = {}
               \/ /\ ~error
                  /\ \E x \in Participants :
                       DOMAIN made = {x} /\ (x # Leader => ~WentThroughWorker(Observed(p), x))
      BY <1>4, SendsAre
    <2> QED BY <1>3, <2>1, <2>2
  <1>5. CASE LeaderTakes(p)
    <2>1. PICK error : /\ Opens(p, Observed(p), << >>, {}, error)
                       /\ DOMAIN << >> = {} /\ calls[p].request = "leader_update"
      BY <1>5, TakesIs
    <2> QED BY <1>3, <2>1
  <1>6. CASE Refuse(p) \/ AnswerQuery(p) \/ PassOn(p) \/ FailOn(p)
    <2>1. UNCHANGED <<cluster, seen, handled>>
      BY <1>6, QuietIs
    <2>2. PICK ok, product :
               /\ ok \in BOOLEAN /\ Respond(p, ok, calls[p].ctx, product)
               /\ ok => Complete(p) /\ calls[p].request \notin {"invoke", "leader_update"}
      BY <1>6, QuietIs
    <2>3. ok => handled[Leader] = 1
      BY <1>1, <1>2, <2>2 DEF Complete, TakenAt
    <2> QED BY <1>2, <2>1, <2>2, <2>3, ForwardedAnswered
  <1>7. CASE TriggerEvent(p) \/ TakeEffect(p)
    <2>1. /\ UNCHANGED <<cluster, seen>> /\ Complete(p)
          /\ \/ calls[p].request = "invoke" /\ Last(p) \in Workers
             \/ calls[p].request = "leader_update" /\ Last(p) = Leader
          /\ handled' = [handled EXCEPT ![Last(p)] = handled[Last(p)] + 1]
          /\ handled' \in [Participants -> Nat]
          /\ Respond(p, TRUE, calls[p].ctx, calls[p].product)
      BY <1>7, EventIs
    <2>2. calls[p].request = "leader_update" /\ Last(p) = Leader
      BY <1>1, <2>1
    <2>3. handled[Leader] = 0
      BY <1>2, <2>2 DEF TakenAt
    <2>4. handled'[Leader] = 1
      BY <1>2, <2>1, <2>2, <2>3 DEF Participants
    <2> QED BY <2>1, <2>2, <2>4, ForwardedAnswered
  <1>8. CASE Invoke(p) \/ WorkerBroadcast(p) \/ ProcessQuery(p) \/ WorkerProxy(p)
               \/ \E w \in Workers : BroadcastNext(p, w) \/ ProxyNext(p, w)
    BY <1>1, <1>8, NotPassedOn
  <1> QED BY <1>4, <1>5, <1>6, <1>7, <1>8, HandlerIs

LEMMA UpdateNext ==
  ASSUME ShapeInv, UpdateInv, HandledInv, [Next]_vars
  PROVE  ShapeInv' /\ UpdateInv' /\ HandledInv'
  <1> USE DEF vars
  <1>1. ASSUME NEW p \in DOMAIN calls, Handler(p), lost' = lost PROVE ShapeInv' /\ UpdateInv' /\ HandledInv'
    <2>1. ShapeInv' /\ HandledInv'
      BY <1>1, HandledStep
    <2>2. cluster' = cluster
      BY <1>1, ClusterStays
    <2>3. CASE cluster.request = "update"
      <3>1. Forwarded'
        BY <1>1, <2>3, ForwardedStep DEF UpdateInv
      <3>2. lost = {} => Line' /\ Effects'
        BY <1>1, <2>3, UpdateStep DEF UpdateInv
      <3> QED BY <1>1, <2>1, <3>1, <3>2 DEF UpdateInv
    <2>4. CASE cluster.request # "update"
      BY <2>1, <2>2, <2>4 DEF UpdateInv
    <2> QED BY <2>1, <2>3, <2>4
  <1>2. CASE UNCHANGED vars
    <2>1. ShapeInv'
      BY <1>2 DEF ShapeInv, Proper, Family
    <2>2. UpdateInv'
      BY <1>2 DEF UpdateInv, Forwarded, TakenAt, Line, Effects, EffectAt, Root
    <2>3. HandledInv'
      BY <1>2 DEF HandledInv, Limited, Local, OnceAt, OpenAt, SameSignal, Root
    <2> QED BY <2>1, <2>2, <2>3
  <1>3. ASSUME NEW p \in DOMAIN calls, Fail(p) PROVE ShapeInv' /\ UpdateInv' /\ HandledInv'
    <2>1. ShapeInv' /\ IsFailed(p)
      BY <1>3, FailIs
    <2>2. lost' # {} /\ cluster' = cluster
      BY <2>1 DEF IsFailed
    <2>3. cluster.request = "update" => Forwarded'
      BY <2>1, ForwardedFails DEF UpdateInv
    <2>4. UpdateInv'
      BY <2>2, <2>3 DEF UpdateInv
    <2> QED BY <2>1, <2>4, HandledFails
  <1> QED BY <1>1, <1>2, <1>3 DEF Next, Handling

LEMMA UpdateHolds == Spec => [](ShapeInv /\ UpdateInv /\ HandledInv)
  <1>1. Init => ShapeInv /\ UpdateInv /\ HandledInv
    BY ShapeInit, UpdateInit, HandledInit
  <1>2. ShapeInv /\ UpdateInv /\ HandledInv /\ [Next]_vars => ShapeInv' /\ UpdateInv' /\ HandledInv'
    BY UpdateNext
  <1> QED BY <1>1, <1>2, PTL DEF Spec

(***************************************************************************)
(* A request to the leader that workers pass on takes effect at most once; *)
(* it has if the caller is told so, and it has not if he is told of a      *)
(* failure and no call failed on the network (send_to_leader,              *)
(* worker/mod.rs): for any peers, any workers connected to the leader or   *)
(* on machines of their own, any worker the request enters at, and however *)
(* many calls fail.                                                        *)
(***************************************************************************)
THEOREM ToldWhatTookEffect == Spec => []TakesEffectOnce
  <1>1. UpdateInv => TakesEffectOnce
    <2> SUFFICES ASSUME UpdateInv, cluster.request = "update"
                 PROVE  /\ handled[Leader] <= 1
                        /\ answer.done /\ answer.ok => handled[Leader] = 1
                        /\ answer.done /\ ~answer.ok /\ lost = {} => handled[Leader] = 0
      BY DEF TakesEffectOnce
    <2> QED BY DEF UpdateInv, Forwarded, Effects
  <1> QED BY <1>1, UpdateHolds, PTL

-----------------------------------------------------------------------------
(* Requests that spread over the cluster *)

(***************************************************************************)
(* What holds while nothing has failed. A call that is under way is        *)
(* awaited by the call that made it, so the calls form a tree that grows   *)
(* at its leaves and is answered from them. Counts are the workers that    *)
(* have done their part and said so, Reached those that have or are asked  *)
(* to. Who has been visited has passed the request on, to everyone the     *)
(* cluster connects it with, unless the context shows that they know.      *)
(***************************************************************************)
NoFailure == \A q \in DOMAIN calls : ~calls[q].error

Tree ==
  /\ \A q \in DOMAIN calls : q # Root => Front(q) \in DOMAIN calls /\ q \in calls[Front(q)].waits
  /\ \A q \in DOMAIN calls : ~calls[q].open => calls[q].waits = {} /\ calls[q].left = {}

Counts ==
  IF cluster.request = "invoke" THEN {w \in Workers : handled[w] > 0}
  ELSE {w \in Workers : \E q \in DOMAIN calls : calls[q].product[w] > 0}
Asked == {Last(q) : q \in DOMAIN calls}
Reached == Counts \cup (Asked \cap Workers)
Visited == {w \in Workers : w \in Counts \/ OpenAt(w) # {}}
LeaderIn == Leader \in Asked \/ cluster.led \subseteq Reached

Traced(ctx, reached, leaderIn) ==
  /\ \A w \in Workers : WentThroughWorker(ctx, w) => w \in reached
  /\ WentThroughLeader(ctx) => leaderIn

Spread ==
  /\ \A w \in Visited : cluster.peers[w] \subseteq Reached /\ (ByLeader(w) => LeaderIn)
  /\ \A q \in OpenAt(Leader) : cluster.led \subseteq Reached \cup calls[q].left
  /\ \A q \in DOMAIN calls : Traced(calls[q].ctx, Reached, LeaderIn)

\* The request goes nowhere but where the cluster leads it.
InReach(x) == /\ x \in Workers => x \in Reachable
              /\ x = Leader => cluster.led \subseteq Reachable
Sound ==
  /\ Counts \subseteq Reachable
  /\ \A q \in DOMAIN calls : InReach(Last(q)) /\ calls[q].left \subseteq cluster.led

DataInv ==
  \A q \in DOMAIN calls : /\ calls[q].ctx.hops \in Seq(Participants)
                          /\ calls[q].product \in [Workers -> Nat]

\* Reachable is the least set with the entry that is closed.
LEMMA ReachableIs ==
  ASSUME cluster \in ClusterType
  PROVE  /\ Reachable \subseteq Workers /\ cluster.entry \in Reachable
         /\ \A w \in Reachable : /\ cluster.peers[w] \subseteq Reachable
                                 /\ ByLeader(w) => cluster.led \subseteq Reachable
         /\ \A S \in SUBSET Workers : cluster.entry \in S /\ Closed(S) => Reachable \subseteq S
  <1>1. /\ cluster.entry \in Workers /\ cluster.led \subseteq Workers
        /\ \A w \in Workers : cluster.peers[w] \subseteq Workers
    BY DEF ClusterType
  <1>2. /\ Reachable \subseteq Workers /\ cluster.entry \in Reachable
        /\ \A S \in SUBSET Workers : cluster.entry \in S /\ Closed(S) => Reachable \subseteq S
    BY <1>1 DEF Reachable
  <1>3. ASSUME NEW w \in Reachable, NEW x \in Workers, x \in cluster.peers[w] \/ (ByLeader(w) /\ x \in cluster.led)
        PROVE  x \in Reachable
    <2> SUFFICES ASSUME NEW S \in SUBSET Workers, cluster.entry \in S, Closed(S) PROVE x \in S
      BY DEF Reachable
    <2>1. w \in S
      BY <1>2
    <2> QED BY <1>3, <2>1 DEF Closed
  <1> QED BY <1>1, <1>2, <1>3

LEMMA ReachableStays ==
  ASSUME cluster' = cluster
  PROVE  /\ Reachable' = Reachable /\ Root' = Root
         /\ \A x : (InReach(x)' <=> InReach(x)) /\ (ByLeader(x)' <=> ByLeader(x))
  <1>1. \A S : Closed(S)' <=> Closed(S)
    BY DEF Closed, ByLeader
  <1>2. Reachable' = Reachable
    BY <1>1 DEF Reachable
  <1> QED BY <1>2 DEF Root, InReach, ByLeader

\* Calls have chains of participants, the root's of one.
LEMMA ChainsAre ==
  ASSUME ShapeInv
  PROVE  /\ Root \in Seq(Participants) /\ Len(Root) = 1 /\ Last(Root) = cluster.entry
         /\ cluster.entry \in Workers
         /\ \A q \in DOMAIN calls : q \in Seq(Participants) /\ Len(q) \in Nat /\ Len(q) >= 1 /\ Last(q) \in Participants
         /\ \A q \in DOMAIN calls, x \in Participants :
              /\ Append(q, x) \in Seq(Participants) /\ Append(q, x) # q /\ Append(q, x) # Root
              /\ Last(Append(q, x)) = x /\ Front(Append(q, x)) = q
  <1>1. cluster.entry \in Workers /\ cluster.entry \in Participants
    BY DEF ShapeInv, ClusterType, Participants
  <1>2. Root \in Seq(Participants) /\ Len(Root) = 1 /\ Last(Root) = cluster.entry
    BY <1>1 DEF Root, Last
  <1>3. \A q \in DOMAIN calls : q \in Seq(Participants) /\ q # <<>>
    BY DEF ShapeInv, Proper
  <1>4. \A q \in DOMAIN calls : Len(q) \in Nat /\ Len(q) >= 1 /\ Last(q) \in Participants
    <2>1. \A q \in DOMAIN calls : Len(q) \in Nat \ {0} /\ Last(q) \in Participants
      BY <1>3, LastOne
    <2> QED BY <2>1
  <1>5. ASSUME NEW q \in DOMAIN calls, NEW x \in Participants
        PROVE  /\ Append(q, x) \in Seq(Participants) /\ Append(q, x) # q /\ Append(q, x) # Root
               /\ Last(Append(q, x)) = x /\ Front(Append(q, x)) = q
    <2>1. /\ Append(q, x) \in Seq(Participants) /\ Append(q, x) # q /\ Len(Append(q, x)) = Len(q) + 1
          /\ Last(Append(q, x)) = x /\ Front(Append(q, x)) = q
      BY <1>3, ChainGrows
    <2> DEFINE n == Len(q)  m == Len(Append(q, x))  r == Len(Root)
    <2>2. n \in Nat /\ n >= 1 /\ m = n + 1 /\ r = 1
      BY <1>2, <1>4, <2>1
    <2> HIDE DEF n, m, r
    <2>3. m # r
      BY <2>2
    <2>4. Append(q, x) # Root
      BY <2>3 DEF m, r
    <2> QED BY <2>1, <2>4
  <1> QED BY <1>1, <1>2, <1>3, <1>4, <1>5

\* A call that awaits nothing has made none that is under way.
LEMMA LeafIs ==
  ASSUME ShapeInv, Tree, NEW p \in DOMAIN calls, calls[p].waits = {}
  PROVE  /\ \A q \in DOMAIN calls : q # Root => Front(q) # p
         /\ \A x \in Participants : Append(p, x) \notin DOMAIN calls
  <1>1. \A q \in DOMAIN calls : q # Root => Front(q) # p
    BY DEF Tree
  <1>2. \A x \in Participants : Append(p, x) # Root /\ Front(Append(p, x)) = p
    BY ChainsAre
  <1> QED BY <1>1, <1>2

\* A set of calls with the root and what its calls await.
Awaits(S) == /\ Root \in S
             /\ \A q \in S \cap DOMAIN calls : calls[q].waits \cap DOMAIN calls \subseteq S

\* The root awaits the whole tree.
LEMMA AllAwaited ==
  ASSUME ShapeInv, Tree, NEW S, Awaits(S)
  PROVE  DOMAIN calls \subseteq S
  <1> DEFINE rest == DOMAIN calls \ S
             T == {Len(q) : q \in rest}
  <1>1. \A q \in DOMAIN calls : q \in Seq(Participants) /\ q # <<>> /\ Len(q) \in Nat /\ Len(q) >= 1
    BY ChainsAre DEF ShapeInv, Proper
  <1>2. ASSUME rest # {} PROVE FALSE
    <2>1. T \subseteq Nat /\ T # {}
      BY <1>1, <1>2
    <2> HIDE DEF T
    <2>2. PICK i \in T : \A j \in T : i <= j
      BY <2>1, Least
    <2>3. PICK q \in rest : i = Len(q)
      BY DEF T
    <2>4. Front(q) \in DOMAIN calls /\ q \in calls[Front(q)].waits
      BY DEF Tree, Awaits
    <2>5. Front(q) \in rest
      BY <2>4 DEF Awaits
    <2>6. Len(Front(q)) \in T /\ Len(Front(q)) \in Nat
      BY <1>1, <2>5 DEF T
    <2>7. CASE Len(q) > 1
      <3>1. Len(Front(q)) = Len(q) - 1
        BY <1>1, <2>7, FrontIs
      <3>2. i <= Len(Front(q)) /\ i \in Nat
        BY <2>1, <2>2, <2>6
      <3> QED BY <2>3, <3>1, <3>2
    <2>8. CASE ~(Len(q) > 1)
      <3>1. q \in Seq(Participants) /\ Len(q) \in Nat /\ Len(q) >= 1
        BY <1>1
      <3> DEFINE n == Len(q)
      <3>2. n - 1 = 0
        <4>1. n \in Nat /\ n >= 1 /\ ~(n > 1)
          BY <2>8, <3>1
        <4> HIDE DEF n
        <4> QED BY <4>1
      <3>3. Front(q) = SubSeq(q, 1, 0)
        BY <3>2 DEF Front
      <3>4. SubSeq(q, 1, 0) = <<>>
        BY <3>1, SubSeqProperties
      <3> QED BY <1>1, <2>4, <3>3, <3>4
    <2> QED BY <2>7, <2>8
  <1> QED BY <1>2

\* Once the root awaits nothing, it is the only call.
LEMMA OnlyRoot ==
  ASSUME ShapeInv, Tree, Root \in DOMAIN calls => calls[Root].waits = {}
  PROVE  DOMAIN calls \subseteq {Root}
  <1>1. Awaits({Root})
    BY DEF Awaits
  <1> QED BY <1>1, AllAwaited

\* A call that is opened adds its own to the tree.
LEMMA TreeOpened ==
  ASSUME ShapeInv, Tree, NEW p \in DOMAIN calls, ~calls[p].open, cluster' = cluster,
         NEW ctx, NEW made, NEW left, NEW error, IsOpened(p, ctx, made, left, error), Suits(made)
  PROVE  /\ Tree' /\ (NoFailure /\ ~error => NoFailure')
         /\ Made(p, made) \cap DOMAIN calls = {}
         /\ \A q \in Made(p, made) : /\ \E x \in DOMAIN made : q = Append(p, x) /\ calls'[q] = Call(made[x], ctx)
                                     /\ Last(q) \in DOMAIN made /\ ~calls'[q].open
         /\ \A x \in DOMAIN made : Append(p, x) \in Made(p, made) /\ Last(Append(p, x)) = x
  <1> DEFINE new == Made(p, made)
  <1>1. /\ p \notin new /\ DOMAIN calls' = DOMAIN calls \cup new
        /\ calls'[p].open /\ calls'[p].waits = new /\ calls'[p].error = error
        /\ \A x \in DOMAIN made : calls'[Append(p, x)] = Call(made[x], ctx)
        /\ \A q \in DOMAIN calls \ (new \cup {p}) : calls'[q] = calls[q]
    BY DEF IsOpened
  <1>2. calls[p].waits = {}
    BY DEF Tree
  <1>3. \A q \in DOMAIN calls : q # Root => Front(q) # p
    BY <1>2, LeafIs
  <1>4. \A x \in DOMAIN made : /\ Append(p, x) \in new /\ Append(p, x) \notin DOMAIN calls
                               /\ Append(p, x) # Root
                               /\ Last(Append(p, x)) = x /\ Front(Append(p, x)) = p
    BY <1>2, LeafIs, ChainsAre DEF Suits, Made
  <1>5. ASSUME NEW q \in new
        PROVE  /\ \E x \in DOMAIN made : q = Append(p, x) /\ calls'[q] = Call(made[x], ctx)
               /\ Last(q) \in DOMAIN made /\ q \notin DOMAIN calls /\ Front(q) = p
               /\ ~calls'[q].open /\ ~calls'[q].error /\ calls'[q].waits = {} /\ calls'[q].left = {}
    <2>1. PICK x \in DOMAIN made : q = Append(p, x)
      BY DEF Made
    <2>2. calls'[q] = Call(made[x], ctx)
      BY <1>1, <2>1
    <2>3. ~calls'[q].open /\ ~calls'[q].error /\ calls'[q].waits = {} /\ calls'[q].left = {}
      BY <2>2, CallIs
    <2> QED BY <1>4, <2>1, <2>2, <2>3
  <1> HIDE DEF new
  <1>6. Root' = Root
    BY ReachableStays
  <1>7. \A q \in DOMAIN calls \ {p} : calls'[q] = calls[q]
    BY <1>1, <1>5
  <1>8. ASSUME NEW q \in DOMAIN calls', q # Root
        PROVE  Front(q) \in DOMAIN calls' /\ q \in calls'[Front(q)].waits
    <2>1. CASE q \in new
      BY <1>1, <1>5, <2>1
    <2>2. CASE q \notin new
      <3>1. q \in DOMAIN calls /\ Front(q) \in DOMAIN calls /\ q \in calls[Front(q)].waits /\ Front(q) # p
        BY <1>1, <1>3, <1>8, <2>2 DEF Tree
      <3> QED BY <1>1, <1>7, <3>1
    <2> QED BY <2>1, <2>2
  <1>9. ASSUME NEW q \in DOMAIN calls', ~calls'[q].open PROVE calls'[q].waits = {} /\ calls'[q].left = {}
    <2>1. CASE q \in new
      BY <1>5, <2>1
    <2>2. CASE q \notin new
      BY <1>1, <1>7, <1>9, <2>2 DEF Tree
    <2> QED BY <2>1, <2>2
  <1>10. Tree'
    BY <1>6, <1>8, <1>9 DEF Tree
  <1>11. ASSUME NoFailure, ~error, NEW q \in DOMAIN calls' PROVE ~calls'[q].error
    <2>1. CASE q \in new
      BY <1>5, <2>1
    <2>2. CASE q \notin new
      BY <1>1, <1>7, <1>11, <2>2 DEF NoFailure
    <2> QED BY <2>1, <2>2
  <1>12. NoFailure /\ ~error => NoFailure'
    BY <1>11 DEF NoFailure
  <1> QED BY <1>4, <1>5, <1>10, <1>12 DEF new

\* The leader goes on to worker w: it need not ask it, or calls it.
NextCall(p, w) ==
  /\ Append(p, w) \notin DOMAIN calls
  /\ DOMAIN calls' = DOMAIN calls \cup {Append(p, w)}
  /\ calls'[p].waits = {Append(p, w)}
  /\ \E request, ctx :
       /\ calls'[Append(p, w)] = Call(request, ctx)
       /\ ctx = calls[p].ctx \/ ctx = Context(Append(p, w), Leader, Unlimited, <<>>)
       /\ calls[p].request = "broadcast" => ctx = calls[p].ctx /\ ~WentThroughWorker(ctx, w)
IsNext(p, w) ==
  /\ calls[p].open /\ calls[p].waits = {} /\ w \in calls[p].left /\ Last(p) = Leader
  /\ p \in DOMAIN calls' /\ calls'[p].open /\ calls'[p].request = calls[p].request
  /\ calls'[p].left = calls[p].left \ {w}
  /\ calls'[p].ctx = calls[p].ctx /\ calls'[p].product = calls[p].product
  /\ calls'[p].error = calls[p].error
  /\ \A q \in DOMAIN calls \ {p} : q \in DOMAIN calls' /\ calls'[q] = calls[q]
  /\ \/ WentThroughWorker(calls[p].ctx, w) /\ DOMAIN calls' = DOMAIN calls /\ calls'[p].waits = {}
     \/ NextCall(p, w)

LEMMA GoesNext ==
  ASSUME ShapeInv, NEW p \in DOMAIN calls, NEW w \in Workers, BroadcastNext(p, w) \/ ProxyNext(p, w),
         Append(p, w) \notin DOMAIN calls
  PROVE  IsNext(p, w)
  <1> DEFINE q == Append(p, w)
  <1>1. /\ IsCall(calls[p]) /\ (Last(p) = Leader <=> ToLeader(calls[p].request))
        /\ calls = [r \in DOMAIN calls |-> calls[r]]
    BY DEF ShapeInv, Proper
  <1>2. q \notin DOMAIN calls /\ q # p
    OBVIOUS
  <1> HIDE DEF q
  <1> DEFINE on(waits) == [calls[p] EXCEPT !.left = calls[p].left \ {w}, !.waits = waits]
  <1>3. ASSUME NEW waits
        PROVE  LET c == on(waits)
               IN  /\ c.open = calls[p].open /\ c.request = calls[p].request /\ c.left = calls[p].left \ {w}
                   /\ c.waits = waits /\ c.ctx = calls[p].ctx /\ c.product = calls[p].product
                   /\ c.error = calls[p].error
    BY <1>1 DEF IsCall
  <1>4. ASSUME NEW c, NEW d, calls' = Adding(p, c, q, d)
        PROVE  /\ DOMAIN calls' = DOMAIN calls \cup {q} /\ calls'[p] = c /\ calls'[q] = d
               /\ \A r \in DOMAIN calls \ {p} : r \in DOMAIN calls' /\ calls'[r] = calls[r]
    BY <1>2, <1>4 DEF Adding
  <1>5. CASE BroadcastNext(p, w)
    <2> DEFINE skip == WentThroughWorker(calls[p].ctx, w)
               waits == IF skip THEN {} ELSE {q}
               c == on(waits)
               d == Call("invoke", calls[p].ctx)
    <2>1. /\ calls[p].open /\ calls[p].request = "broadcast" /\ calls[p].waits = {} /\ w \in calls[p].left
          /\ calls' = IF skip THEN [calls EXCEPT ![p] = c] ELSE Adding(p, c, q, d)
      BY <1>5, Zenon DEF BroadcastNext, q
    <2>2. Last(p) = Leader
      BY <1>1, <2>1 DEF ToLeader
    <2>3. /\ c.open = calls[p].open /\ c.request = calls[p].request /\ c.left = calls[p].left \ {w}
          /\ c.waits = waits /\ c.ctx = calls[p].ctx /\ c.product = calls[p].product
          /\ c.error = calls[p].error
      <3> HIDE DEF on
      <3> QED BY <1>3
    <2> HIDE DEF c, d
    <2>4. CASE skip
      <3>1. /\ DOMAIN calls' = DOMAIN calls /\ calls'[p] = c
            /\ \A r \in DOMAIN calls \ {p} : r \in DOMAIN calls' /\ calls'[r] = calls[r]
        BY <2>1, <2>4
      <3> QED BY <2>1, <2>2, <2>3, <2>4, <3>1 DEF IsNext
    <2>5. CASE ~skip
      <3>1. /\ DOMAIN calls' = DOMAIN calls \cup {q} /\ calls'[p] = c /\ calls'[q] = d
            /\ \A r \in DOMAIN calls \ {p} : r \in DOMAIN calls' /\ calls'[r] = calls[r]
        BY <1>4, <2>1, <2>5
      <3>2. NextCall(p, w)
        BY <1>2, <2>3, <2>5, <3>1 DEF NextCall, q, d
      <3> QED BY <2>1, <2>2, <2>3, <3>1, <3>2 DEF IsNext
    <2> QED BY <2>4, <2>5
  <1>6. CASE ProxyNext(p, w)
    <2> DEFINE c == on({q})
               d == Call("query", Context(q, Leader, Unlimited, <<>>))
    <2>1. /\ calls[p].open /\ calls[p].request = "proxied_query" /\ calls[p].waits = {} /\ w \in calls[p].left
          /\ calls' = Adding(p, c, q, d)
      BY <1>6, Zenon DEF ProxyNext, q
    <2>2. Last(p) = Leader
      BY <1>1, <2>1 DEF ToLeader
    <2>3. /\ c.open = calls[p].open /\ c.request = calls[p].request /\ c.left = calls[p].left \ {w}
          /\ c.waits = {q} /\ c.ctx = calls[p].ctx /\ c.product = calls[p].product
          /\ c.error = calls[p].error
      <3> HIDE DEF on
      <3> QED BY <1>3
    <2> HIDE DEF c
    <2>4. /\ DOMAIN calls' = DOMAIN calls \cup {q} /\ calls'[p] = c /\ calls'[q] = d
          /\ \A r \in DOMAIN calls \ {p} : r \in DOMAIN calls' /\ calls'[r] = calls[r]
      BY <1>4, <2>1
    <2>5. NextCall(p, w)
      BY <1>2, <2>1, <2>3, <2>4 DEF NextCall, q
    <2> QED BY <2>1, <2>2, <2>3, <2>4, <2>5 DEF IsNext
  <1> QED BY <1>5, <1>6

LEMMA TreeNext ==
  ASSUME ShapeInv, Tree, NEW p \in DOMAIN calls, NEW w \in Workers, IsNext(p, w), cluster' = cluster
  PROVE  Tree' /\ (NoFailure => NoFailure')
  <1> DEFINE new == Append(p, w)
  <1>1. /\ calls[p].waits = {} /\ p \in DOMAIN calls' /\ calls'[p].open /\ calls'[p].error = calls[p].error
        /\ \A q \in DOMAIN calls \ {p} : q \in DOMAIN calls' /\ calls'[q] = calls[q]
        /\ DOMAIN calls' = DOMAIN calls \/ NextCall(p, w)
    BY DEF IsNext
  <1>2. /\ \A q \in DOMAIN calls : q # Root => Front(q) # p
        /\ new # Root /\ Front(new) = p
    BY <1>1, LeafIs, ChainsAre DEF Participants
  <1> HIDE DEF new
  <1>3. ASSUME NextCall(p, w)
        PROVE  /\ DOMAIN calls' = DOMAIN calls \cup {new} /\ new \notin DOMAIN calls
               /\ calls'[p].waits = {new}
               /\ ~calls'[new].open /\ ~calls'[new].error /\ calls'[new].waits = {} /\ calls'[new].left = {}
    <2>1. /\ DOMAIN calls' = DOMAIN calls \cup {new} /\ new \notin DOMAIN calls /\ calls'[p].waits = {new}
          /\ \E request, ctx : calls'[new] = Call(request, ctx)
      BY <1>3 DEF NextCall, new
    <2> QED BY <2>1, CallIs
  <1>4. Root' = Root
    BY ReachableStays
  <1>5. ASSUME NEW q \in DOMAIN calls', q # Root
        PROVE  Front(q) \in DOMAIN calls' /\ q \in calls'[Front(q)].waits
    <2>1. CASE q \in DOMAIN calls
      <3>1. Front(q) \in DOMAIN calls /\ q \in calls[Front(q)].waits /\ Front(q) # p
        BY <1>2, <1>5, <2>1 DEF Tree
      <3> QED BY <1>1, <3>1
    <2>2. CASE q \notin DOMAIN calls
      BY <1>1, <1>2, <1>3, <2>2
    <2> QED BY <2>1, <2>2
  <1>6. ASSUME NEW q \in DOMAIN calls'
        PROVE  /\ ~calls'[q].open => calls'[q].waits = {} /\ calls'[q].left = {}
               /\ NoFailure => ~calls'[q].error
    <2>1. CASE q \in DOMAIN calls
      BY <1>1, <2>1 DEF Tree, NoFailure
    <2>2. CASE q \notin DOMAIN calls
      BY <1>1, <1>3, <2>2
    <2> QED BY <2>1, <2>2
  <1> QED BY <1>4, <1>5, <1>6 DEF Tree, NoFailure

\* A leaf is answered.
LEMMA TreeAnswered ==
  ASSUME ShapeInv, Tree, NEW p \in DOMAIN calls, calls[p].waits = {}, NEW ok \in BOOLEAN, NEW product,
         Respond(p, ok, calls[p].ctx, product), UNCHANGED <<cluster, seen>>,
         handled' \in [Participants -> Nat]
  PROVE  /\ Tree'
         /\ ok \/ cluster.request = "invoke" => (NoFailure => NoFailure')
  <1> DEFINE up == Front(p)
  <1>1. /\ DOMAIN calls' = DOMAIN calls \ {p}
        /\ \A q \in DOMAIN calls' : /\ q # up => calls'[q] = calls[q]
                                    /\ calls'[q].open = calls[q].open /\ calls'[q].left = calls[q].left
    BY RespondIs, Zenon
  <1>9. up \in DOMAIN calls' => calls'[up].waits = calls[up].waits \ {p}
    BY RespondIs
  <1>8. up \in DOMAIN calls' /\ calls'[up].error =>
          calls[up].error \/ (~ok /\ calls[up].request \notin {"invoke", "broadcast"})
    <2>1. up \in DOMAIN calls' =>
            /\ p \notin calls[up].waits => calls'[up] = calls[up]
            /\ p \in calls[up].waits =>
                 (calls'[up].error <=>
                    calls[up].error \/ (~ok /\ calls[up].request \notin {"invoke", "broadcast"}))
      BY RespondIs
    <2> QED BY <2>1
  <1>2. \A q \in DOMAIN calls : q # Root => Front(q) # p
    BY LeafIs
  <1>3. Root' = Root
    BY ReachableStays
  <1>4. cluster.request = "invoke" => \A q \in DOMAIN calls : calls[q].request \in {"invoke", "broadcast"}
    BY DEF ShapeInv, Proper, Family
  <1> HIDE DEF up
  <1>5. ASSUME NEW q \in DOMAIN calls', q # Root
        PROVE  Front(q) \in DOMAIN calls' /\ q \in calls'[Front(q)].waits
    <2>1. q \in DOMAIN calls /\ q # p /\ Front(q) \in DOMAIN calls /\ q \in calls[Front(q)].waits /\ Front(q) # p
      BY <1>1, <1>2, <1>5 DEF Tree
    <2> QED BY <1>1, <1>9, <2>1
  <1>6. ASSUME NEW q \in DOMAIN calls', ~calls'[q].open PROVE calls'[q].waits = {} /\ calls'[q].left = {}
    <2>1. calls[q].waits = {} /\ calls[q].left = {}
      BY <1>1, <1>6 DEF Tree
    <2> QED BY <1>1, <1>9, <2>1
  <1>7. ASSUME NoFailure, ok \/ cluster.request = "invoke", NEW q \in DOMAIN calls' PROVE ~calls'[q].error
    BY <1>1, <1>4, <1>7, <1>8 DEF NoFailure
  <1> QED BY <1>3, <1>5, <1>6, <1>7 DEF Tree, NoFailure

\* What a context shows holds on when more is reached.
LEMMA TracedOn ==
  ASSUME NEW ctx, NEW c, NEW d, NEW r, NEW l, NEW reached, NEW leaderIn,
         Traced(c, r, l), Traced(d, r, l), r \subseteq reached, l => leaderIn,
         ctx.origin = c.origin, Range(ctx.hops) \subseteq Range(c.hops) \cup Range(d.hops)
  PROVE  Traced(ctx, reached, leaderIn)
  BY DEF Traced, WentThroughWorker, WentThroughLeader

\* What a participant registers is that it has been reached.
LEMMA TracedHere ==
  ASSUME NEW c, NEW ctx, NEW x \in Participants, NEW r, NEW l,
         c.hops \in Seq(Participants), Registers(c, ctx, x), Traced(c, r, l),
         x \in Workers => x \in r, x = Leader => l
  PROVE  Traced(ctx, r, l)
  <1>1. ctx.origin = c.origin /\ Range(ctx.hops) \subseteq Range(c.hops) \cup {x}
    BY DEF Registers
  <1> QED BY <1>1 DEF Traced, WentThroughWorker, WentThroughLeader

\* The hops of a merged context are of either.
LEMMA MergedIs ==
  ASSUME NEW request, NEW h \in Seq(Participants), NEW o \in Seq(Participants)
  PROVE  /\ Merged(request, h, o) \in Seq(Participants)
         /\ Range(Merged(request, h, o)) \subseteq Range(h) \cup Range(o)
  <1>1. CASE request = "invoke"
    BY <1>1, MergeUniqueIs DEF Merged
  <1>2. CASE request = "broadcast"
    BY <1>2, MergeAfterIs DEF Merged
  <1>3. CASE request \notin {"invoke", "broadcast"}
    BY <1>3 DEF Merged
  <1> QED BY <1>1, <1>2, <1>3

\* A call that is opened registers, and passes the request on.
LEMMA SpreadOpened ==
  ASSUME ShapeInv, DataInv, Tree, Spread, NEW p \in DOMAIN calls, ~calls[p].open,
         UNCHANGED <<cluster, handled>>,
         NEW ctx, NEW made, NEW left, Registers(calls[p].ctx, ctx, Last(p)), Suits(made),
         IsOpened(p, ctx, made, left, FALSE), Asks(p, ctx, made, left)
  PROVE  Spread' /\ Counts' = Counts /\ Asked' = Asked \cup DOMAIN made
  <1> DEFINE new == Made(p, made)  x == Last(p)
  <1>1. /\ p \notin new /\ DOMAIN calls' = DOMAIN calls \cup new
        /\ calls'[p].open /\ calls'[p].ctx = ctx /\ calls'[p].left = left
        /\ calls'[p].product = calls[p].product
        /\ \A q \in DOMAIN calls \ (new \cup {p}) : calls'[q] = calls[q]
    BY DEF IsOpened
  <1>2. /\ new \cap DOMAIN calls = {}
        /\ \A q \in new : Last(q) \in DOMAIN made /\ ~calls'[q].open
        /\ \A y \in DOMAIN made : Append(p, y) \in new /\ Last(Append(p, y)) = y
        /\ \A q \in new : \E y \in DOMAIN made : calls'[q] = Call(made[y], ctx)
    <2>1. cluster' = cluster /\ p \in DOMAIN calls /\ FALSE \in BOOLEAN
      OBVIOUS
    <2>2. /\ Made(p, made) \cap DOMAIN calls = {}
          /\ \A q \in Made(p, made) : /\ \E y \in DOMAIN made : q = Append(p, y) /\ calls'[q] = Call(made[y], ctx)
                                      /\ Last(q) \in DOMAIN made /\ ~calls'[q].open
          /\ \A y \in DOMAIN made : Append(p, y) \in Made(p, made) /\ Last(Append(p, y)) = y
      BY <2>1, TreeOpened, Zenon
    <2> QED BY <2>2
  <1>3. \A q \in new : calls'[q].ctx = ctx /\ calls'[q].product = [w \in Workers |-> 0]
    BY <1>2, CallIs
  <1>4. x \in Participants /\ (x \in Workers <=> x # Leader)
    BY ChainsAre, LeaderAssumption DEF Participants
  <1> HIDE DEF new
  <1>5. Asked' = Asked \cup DOMAIN made
    BY <1>1, <1>2 DEF Asked
  <1>6. Counts' = Counts
    <2>1. CASE cluster.request = "invoke"
      BY <2>1 DEF Counts
    <2>2. CASE cluster.request # "invoke"
      <3>1. \A q \in DOMAIN calls : calls'[q].product = calls[q].product
        BY <1>1, <1>2
      <3>2. \A q \in new, w \in Workers : ~(calls'[q].product[w] > 0)
        BY <1>3
      <3>3. \A w \in Workers : (\E q \in DOMAIN calls' : calls'[q].product[w] > 0)
                                <=> (\E q \in DOMAIN calls : calls[q].product[w] > 0)
        BY <1>1, <3>1, <3>2
      <3> QED BY <2>2, <3>3 DEF Counts
    <2> QED BY <2>1, <2>2
  <1>7. Reached' = Reached \cup (DOMAIN made \cap Workers) /\ (LeaderIn => LeaderIn')
    BY <1>5, <1>6 DEF Reached, LeaderIn
  <1>8. x \in Asked /\ (x \in Workers => x \in Reached) /\ (x = Leader => LeaderIn)
    BY DEF Asked, Reached, LeaderIn
  <1>9. Traced(ctx, Reached, LeaderIn)
    <2>1. Traced(calls[p].ctx, Reached, LeaderIn) /\ calls[p].ctx.hops \in Seq(Participants)
      BY DEF Spread, DataInv
    <2> QED BY <1>4, <1>8, <2>1, TracedHere
  <1>10. ASSUME NEW q \in DOMAIN calls' PROVE Traced(calls'[q].ctx, Reached', LeaderIn')
    <2>1. Traced(calls'[q].ctx, Reached, LeaderIn)
      <3>1. CASE q \in new \cup {p}
        BY <1>1, <1>3, <1>9, <3>1
      <3>2. CASE q \notin new \cup {p}
        BY <1>1, <3>2 DEF Spread
      <3> QED BY <3>1, <3>2
    <2> QED BY <1>7, <2>1 DEF Traced
  <1>11. \A y : OpenAt(y)' \subseteq OpenAt(y) \cup {p} /\ (y # x => OpenAt(y)' \subseteq OpenAt(y))
    BY <1>1, <1>2 DEF OpenAt
  <1>12. \A w : ByLeader(w)' <=> ByLeader(w)
    BY ReachableStays
  <1>13. ASSUME NEW w \in Visited'
         PROVE  cluster.peers[w] \subseteq Reached' /\ (ByLeader(w) => LeaderIn')
    <2>1. CASE w = x
      <3>1. x # Leader /\ x \in Workers
        BY <1>4, <2>1, LeaderAssumption DEF Visited
      <3>2. /\ \A v \in Peers(p) : v \in DOMAIN made \/ WentThroughWorker(ctx, v)
            /\ ByLeader(x) => Leader \in DOMAIN made \/ WentThroughLeader(ctx)
        BY <3>1 DEF Asks
      <3>3. Peers(p) = cluster.peers[w] /\ Peers(p) \subseteq Workers
        BY <2>1, <3>1 DEF Peers, ShapeInv, ClusterType
      <3>4. \A v \in Peers(p) : v \in Reached'
        BY <1>7, <1>9, <3>2, <3>3 DEF Traced
      <3>5. Leader \in DOMAIN made => LeaderIn'
        BY <1>5 DEF LeaderIn
      <3>6. ByLeader(x) => LeaderIn'
        BY <1>7, <1>9, <3>2, <3>5 DEF Traced
      <3> QED BY <2>1, <3>3, <3>4, <3>6
    <2>2. CASE w # x
      <3>1. w \in Visited
        BY <1>6, <1>11, <2>2 DEF Visited
      <3> QED BY <1>7, <3>1 DEF Spread
    <2> QED BY <2>1, <2>2
  <1>14. ASSUME NEW q \in OpenAt(Leader)' PROVE cluster.led \subseteq Reached' \cup calls'[q].left
    <2>1. CASE q = p
      <3>1. x = Leader
        BY <2>1 DEF OpenAt
      <3>2. \A w \in cluster.led : w \in left \/ WentThroughWorker(ctx, w)
        BY <3>1 DEF Asks
      <3>3. cluster.led \subseteq Workers
        BY DEF ShapeInv, ClusterType
      <3> QED BY <1>1, <1>7, <1>9, <2>1, <3>2, <3>3 DEF Traced
    <2>2. CASE q # p
      <3>1. q \in OpenAt(Leader) /\ q \in DOMAIN calls /\ q \notin new
        BY <1>2, <1>11, <2>2 DEF OpenAt
      <3> QED BY <1>1, <1>7, <2>2, <3>1 DEF Spread
    <2> QED BY <2>1, <2>2
  <1>15. Spread'
    BY <1>10, <1>12, <1>13, <1>14 DEF Spread
  <1> QED BY <1>5, <1>6, <1>15

\* The leader goes on to a worker: it is one that need not be asked, or is asked then.
LEMMA SpreadNext ==
  ASSUME ShapeInv, DataInv, Tree, Spread, NEW p \in DOMAIN calls, NEW w \in Workers, IsNext(p, w),
         UNCHANGED <<cluster, handled>>
  PROVE  Spread' /\ Counts' = Counts /\ Asked' \subseteq Asked \cup {w}
  <1> DEFINE new == Append(p, w)
  <1>1. /\ calls[p].open /\ w \in calls[p].left /\ Last(p) = Leader
        /\ p \in DOMAIN calls' /\ calls'[p].open /\ calls'[p].left = calls[p].left \ {w}
        /\ calls'[p].ctx = calls[p].ctx /\ calls'[p].product = calls[p].product
        /\ \A q \in DOMAIN calls \ {p} : q \in DOMAIN calls' /\ calls'[q] = calls[q]
        /\ \/ WentThroughWorker(calls[p].ctx, w) /\ DOMAIN calls' = DOMAIN calls
           \/ NextCall(p, w)
    BY DEF IsNext
  <1>2. Last(new) = w /\ w # Leader
    BY ChainsAre, LeaderAssumption DEF Participants
  <1> HIDE DEF new
  <1>3. ASSUME NextCall(p, w)
        PROVE  /\ DOMAIN calls' = DOMAIN calls \cup {new}
               /\ ~calls'[new].open /\ calls'[new].product = [v \in Workers |-> 0]
               /\ \/ calls'[new].ctx = calls[p].ctx
                  \/ calls'[new].ctx = Context(new, Leader, Unlimited, <<>>)
    <2>1. PICK request, ctx :
            /\ calls'[new] = Call(request, ctx)
            /\ ctx = calls[p].ctx \/ ctx = Context(new, Leader, Unlimited, <<>>)
      BY <1>3 DEF NextCall, new
    <2>2. DOMAIN calls' = DOMAIN calls \cup {new}
      BY <1>3 DEF NextCall, new
    <2>3. calls'[new].ctx = ctx /\ ~calls'[new].open /\ calls'[new].product = [v \in Workers |-> 0]
      BY <2>1, CallIs
    <2> QED BY <2>1, <2>2, <2>3
  <1>4. \A q \in DOMAIN calls' : q \in DOMAIN calls \/ (q = new /\ NextCall(p, w))
    BY <1>1, <1>3
  <1>5. Asked \subseteq Asked' /\ Asked' \subseteq Asked \cup {w} /\ (NextCall(p, w) => w \in Asked')
    BY <1>1, <1>2, <1>3, <1>4 DEF Asked
  <1>6. Counts' = Counts
    <2>1. CASE cluster.request = "invoke"
      BY <2>1 DEF Counts
    <2>2. CASE cluster.request # "invoke"
      <3>1. \A q \in DOMAIN calls : q \in DOMAIN calls' /\ calls'[q].product = calls[q].product
        BY <1>1
      <3>2. \A q \in DOMAIN calls' \ DOMAIN calls, v \in Workers : ~(calls'[q].product[v] > 0)
        BY <1>3, <1>4
      <3>3. \A v \in Workers : (\E q \in DOMAIN calls' : calls'[q].product[v] > 0)
                                <=> (\E q \in DOMAIN calls : calls[q].product[v] > 0)
        BY <3>1, <3>2
      <3> QED BY <2>2, <3>3 DEF Counts
    <2> QED BY <2>1, <2>2
  <1>7. Reached \subseteq Reached' /\ (LeaderIn => LeaderIn')
    BY <1>5, <1>6 DEF Reached, LeaderIn
  <1>8. Traced(calls[p].ctx, Reached, LeaderIn)
    BY DEF Spread
  <1>9. w \in Reached'
    <2>1. CASE WentThroughWorker(calls[p].ctx, w)
      BY <1>7, <1>8, <2>1 DEF Traced
    <2>2. CASE NextCall(p, w)
      BY <1>5, <2>2 DEF Reached
    <2> QED BY <1>1, <2>1, <2>2
  <1>10. LeaderIn'
    <2>1. Leader \in Asked
      BY <1>1 DEF Asked
    <2> QED BY <1>7, <2>1 DEF LeaderIn
  <1>11. ASSUME NEW q \in DOMAIN calls' PROVE Traced(calls'[q].ctx, Reached', LeaderIn')
    <2>1. CASE calls'[q].ctx = Context(new, Leader, Unlimited, <<>>)
      <3> DEFINE c == Context(new, Leader, Unlimited, <<>>)
      <3>1. c.origin = Leader /\ c.hops = <<>>
        BY DEF Context
      <3>2. Range(<<>>) = {}
        BY DEF Range
      <3> HIDE DEF c
      <3>3. Traced(c, Reached', LeaderIn')
        BY <1>10, <3>1, <3>2, LeaderAssumption DEF Traced, WentThroughWorker, WentThroughLeader
      <3> QED BY <2>1, <3>3 DEF c
    <2>2. CASE calls'[q].ctx # Context(new, Leader, Unlimited, <<>>)
      <3>1. \E r \in DOMAIN calls : calls'[q].ctx = calls[r].ctx
        BY <1>1, <1>3, <1>4, <2>2
      <3>2. Traced(calls'[q].ctx, Reached, LeaderIn)
        BY <3>1 DEF Spread
      <3> QED BY <1>7, <3>2 DEF Traced
    <2> QED BY <2>1, <2>2
  <1>12. \A y : OpenAt(y)' \subseteq OpenAt(y)
    BY <1>1, <1>3, <1>4 DEF OpenAt
  <1>13. \A v : ByLeader(v)' <=> ByLeader(v)
    BY ReachableStays
  <1>14. ASSUME NEW v \in Visited' PROVE cluster.peers[v] \subseteq Reached' /\ (ByLeader(v) => LeaderIn')
    <2>1. v \in Visited
      BY <1>6, <1>12 DEF Visited
    <2> QED BY <1>7, <2>1 DEF Spread
  <1>15. ASSUME NEW q \in OpenAt(Leader)' PROVE cluster.led \subseteq Reached' \cup calls'[q].left
    <2>1. q \in OpenAt(Leader) /\ q \in DOMAIN calls
      BY <1>12 DEF OpenAt
    <2>2. cluster.led \subseteq Reached \cup calls[q].left
      BY <2>1 DEF Spread
    <2>3. calls[q].left \subseteq calls'[q].left \cup {w}
      BY <1>1, <2>1
    <2> QED BY <1>7, <1>9, <2>2, <2>3
  <1>16. Spread'
    BY <1>11, <1>13, <1>14, <1>15 DEF Spread
  <1> QED BY <1>5, <1>6, <1>16

\* A call is answered by a participant that is done with it, or has been visited before.
LEMMA SpreadAnswered ==
  ASSUME ShapeInv, DataInv, Spread, NEW p \in DOMAIN calls, NEW ok \in BOOLEAN, NEW product,
         Respond(p, ok, calls[p].ctx, product), UNCHANGED <<cluster, seen>>,
         handled' \in [Participants -> Nat],
         Counts \subseteq Counts', Counts' \subseteq Visited,
         Last(p) \in Workers => Last(p) \in Counts' \/ \E q \in DOMAIN calls \ {p} : Last(q) = Last(p),
         Last(p) = Leader => calls[p].open /\ calls[p].left = {}
  PROVE  Spread'
  <1> DEFINE up == Front(p)  x == Last(p)
  <1>1. /\ DOMAIN calls' = DOMAIN calls \ {p}
        /\ \A q \in DOMAIN calls' : /\ q # up => calls'[q] = calls[q]
                                    /\ calls'[q].open = calls[q].open /\ calls'[q].left = calls[q].left
    <2>0. /\ DOMAIN calls' = DOMAIN calls \ {p}
          /\ \A q \in DOMAIN calls' : /\ q # Front(p) => calls'[q] = calls[q]
                                      /\ calls'[q].open = calls[q].open
                                      /\ calls'[q].left = calls[q].left
      BY RespondIs, ZenonT(60)
    <2>1. DOMAIN calls' = DOMAIN calls \ {p}
      BY <2>0, Zenon
    <2>2. \A q \in DOMAIN calls' : q # up => calls'[q] = calls[q]
      BY <2>0, Zenon
    <2>3. \A q \in DOMAIN calls' : calls'[q].open = calls[q].open
      BY <2>0, Zenon
    <2>4. \A q \in DOMAIN calls' : calls'[q].left = calls[q].left
      BY <2>0, Zenon
    <2> QED BY <2>1, <2>2, <2>3, <2>4
  <1>2. up \in DOMAIN calls' =>
          /\ calls'[up].ctx.origin = calls[up].ctx.origin
          /\ \/ calls'[up].ctx.hops = calls[up].ctx.hops
             \/ calls'[up].ctx.hops = Merged(calls[up].request, calls[up].ctx.hops, calls[p].ctx.hops)
    BY ReturnIs
  <1>3. x \in Participants /\ Leader \notin Workers
    BY ChainsAre, LeaderAssumption
  <1> HIDE DEF up, x
  <1>4. \A y \in Asked : y # x => y \in Asked'
    BY <1>1 DEF Asked, x
  <1>5. Reached \subseteq Reached'
    <2>1. x \in Workers => x \in Reached'
      BY <1>1 DEF Reached, Asked, x
    <2> QED BY <1>4, <2>1 DEF Reached
  <1>6. LeaderIn => LeaderIn'
    <2>1. CASE x # Leader
      BY <1>4, <1>5, <2>1 DEF LeaderIn
    <2>2. CASE x = Leader
      <3>1. p \in OpenAt(Leader) /\ calls[p].left = {}
        BY <2>2 DEF OpenAt, x
      <3>2. cluster.led \subseteq Reached
        BY <3>1 DEF Spread
      <3> QED BY <1>5, <3>2 DEF LeaderIn
    <2> QED BY <2>1, <2>2
  <1>7. ASSUME NEW q \in DOMAIN calls' PROVE Traced(calls'[q].ctx, Reached', LeaderIn')
    <2>1. q \in DOMAIN calls /\ Traced(calls[q].ctx, Reached, LeaderIn)
      BY <1>1 DEF Spread
    <2>2. CASE calls'[q].ctx.hops = calls[q].ctx.hops
      <3>1. calls'[q].ctx.origin = calls[q].ctx.origin /\ calls'[q].ctx.hops = calls[q].ctx.hops
        BY <1>1, <1>2, <2>2
      <3> QED BY <1>5, <1>6, <2>1, <3>1 DEF Traced, WentThroughWorker, WentThroughLeader
    <2>3. CASE calls'[q].ctx.hops # calls[q].ctx.hops
      <3>1. /\ calls'[q].ctx.origin = calls[q].ctx.origin
            /\ calls'[q].ctx.hops = Merged(calls[q].request, calls[q].ctx.hops, calls[p].ctx.hops)
        BY <1>1, <1>2, <2>3
      <3>2. calls[q].ctx.hops \in Seq(Participants) /\ calls[p].ctx.hops \in Seq(Participants)
        BY <2>1 DEF DataInv
      <3>3. Range(calls'[q].ctx.hops) \subseteq Range(calls[q].ctx.hops) \cup Range(calls[p].ctx.hops)
        BY <3>1, <3>2, MergedIs
      <3>4. Traced(calls[p].ctx, Reached, LeaderIn)
        BY DEF Spread
      <3> QED BY <1>5, <1>6, <2>1, <3>1, <3>3, <3>4 DEF Traced, WentThroughWorker, WentThroughLeader
    <2> QED BY <2>2, <2>3
  <1>8. \A y : OpenAt(y)' \subseteq OpenAt(y)
    BY <1>1 DEF OpenAt
  <1>9. \A v : ByLeader(v)' <=> ByLeader(v)
    BY ReachableStays
  <1>10. ASSUME NEW v \in Visited' PROVE cluster.peers[v] \subseteq Reached' /\ (ByLeader(v) => LeaderIn')
    <2>1. v \in Visited
      BY <1>8 DEF Visited
    <2> QED BY <1>5, <1>6, <2>1 DEF Spread
  <1>11. ASSUME NEW q \in OpenAt(Leader)' PROVE cluster.led \subseteq Reached' \cup calls'[q].left
    <2>1. q \in OpenAt(Leader) /\ calls'[q].left = calls[q].left
      BY <1>1, <1>8 DEF OpenAt
    <2> QED BY <1>5, <2>1 DEF Spread
  <1> QED BY <1>7, <1>9, <1>10, <1>11 DEF Spread

\* A worker that can be reached asks only workers that can.
LEMMA SoundOpened ==
  ASSUME ShapeInv, Sound, NEW p \in DOMAIN calls, UNCHANGED cluster,
         NEW ctx, NEW made, NEW left, NEW error, IsOpened(p, ctx, made, left, error),
         Asks(p, ctx, made, left), Counts' = Counts,
         \A q \in Made(p, made) : /\ Last(q) \in DOMAIN made
                                  /\ \E x \in DOMAIN made : calls'[q] = Call(made[x], ctx)
  PROVE  Sound'
  <1> DEFINE new == Made(p, made)  x == Last(p)
  <1>1. /\ DOMAIN calls' = DOMAIN calls \cup new /\ calls'[p].left = left
        /\ \A q \in DOMAIN calls \ (new \cup {p}) : calls'[q] = calls[q]
    BY DEF IsOpened
  <1>2. \A q \in new : Last(q) \in DOMAIN made /\ calls'[q].left = {}
    BY CallIs
  <1>3. /\ Reachable \subseteq Workers
        /\ \A w \in Reachable : /\ cluster.peers[w] \subseteq Reachable
                                /\ ByLeader(w) => cluster.led \subseteq Reachable
    BY ReachableIs DEF ShapeInv
  <1>4. x \in Participants /\ (x \in Workers <=> x # Leader) /\ InReach(x) /\ Peers(p) = cluster.peers[x]
    BY ChainsAre, LeaderAssumption DEF Participants, Sound, Peers
  <1>5. \A y \in DOMAIN made : InReach(y)
    <2>1. CASE x = Leader
      BY <2>1 DEF Asks
    <2>2. CASE x # Leader
      <3>1. x \in Reachable
        BY <1>4, <2>2 DEF InReach
      <3>2. DOMAIN made \subseteq Peers(p) \cup {Leader} /\ (Leader \in DOMAIN made => ByLeader(x))
        BY <2>2 DEF Asks
      <3> QED BY <1>3, <1>4, <3>1, <3>2, LeaderAssumption DEF InReach
    <2> QED BY <2>1, <2>2
  <1>6. left \subseteq cluster.led
    BY DEF Asks
  <1> HIDE DEF new, x
  <1>7. \A q \in DOMAIN calls' : InReach(Last(q)) /\ calls'[q].left \subseteq cluster.led
    <2> SUFFICES ASSUME NEW q \in DOMAIN calls' PROVE InReach(Last(q)) /\ calls'[q].left \subseteq cluster.led
      OBVIOUS
    <2>1. CASE q \in new
      BY <1>2, <1>5, <2>1
    <2>2. CASE q = p /\ q \notin new
      BY <1>1, <1>4, <1>6, <2>2 DEF x
    <2>3. CASE q # p /\ q \notin new
      BY <1>1, <2>3 DEF Sound
    <2> QED BY <2>1, <2>2, <2>3
  <1>8. Reachable' = Reachable /\ \A y : InReach(y)' <=> InReach(y)
    BY ReachableStays
  <1> QED BY <1>7, <1>8 DEF Sound

LEMMA SoundNext ==
  ASSUME ShapeInv, Sound, NEW p \in DOMAIN calls, NEW w \in Workers, IsNext(p, w), UNCHANGED cluster,
         Counts' = Counts
  PROVE  Sound'
  <1> DEFINE new == Append(p, w)
  <1>1. /\ w \in calls[p].left /\ Last(p) = Leader
        /\ calls'[p].left = calls[p].left \ {w}
        /\ \A q \in DOMAIN calls \ {p} : calls'[q] = calls[q]
        /\ DOMAIN calls' = DOMAIN calls \/ NextCall(p, w)
    BY DEF IsNext
  <1>2. Last(new) = w /\ w # Leader
    BY ChainsAre, LeaderAssumption DEF Participants
  <1> HIDE DEF new
  <1>3. NextCall(p, w) => DOMAIN calls' = DOMAIN calls \cup {new} /\ calls'[new].left = {}
    <2> SUFFICES ASSUME NextCall(p, w) PROVE DOMAIN calls' = DOMAIN calls \cup {new} /\ calls'[new].left = {}
      OBVIOUS
    <2>1. DOMAIN calls' = DOMAIN calls \cup {new} /\ \E request, ctx : calls'[new] = Call(request, ctx)
      BY DEF NextCall, new
    <2> QED BY <2>1, CallIs
  <1>4. InReach(w)
    <2>1. InReach(Leader) /\ w \in cluster.led
      BY <1>1 DEF Sound
    <2> QED BY <1>2, <2>1 DEF InReach
  <1>5. \A q \in DOMAIN calls' : InReach(Last(q)) /\ calls'[q].left \subseteq cluster.led
    <2> SUFFICES ASSUME NEW q \in DOMAIN calls' PROVE InReach(Last(q)) /\ calls'[q].left \subseteq cluster.led
      OBVIOUS
    <2>1. CASE q \in DOMAIN calls
      BY <1>1, <2>1 DEF Sound
    <2>2. CASE q \notin DOMAIN calls
      BY <1>1, <1>2, <1>3, <1>4, <2>2
    <2> QED BY <2>1, <2>2
  <1>6. Reachable' = Reachable /\ \A y : InReach(y)' <=> InReach(y)
    BY ReachableStays
  <1> QED BY <1>5, <1>6 DEF Sound

LEMMA SoundAnswered ==
  ASSUME ShapeInv, Sound, NEW p \in DOMAIN calls, NEW ok \in BOOLEAN, NEW product,
         Respond(p, ok, calls[p].ctx, product), UNCHANGED <<cluster, seen>>,
         handled' \in [Participants -> Nat],
         Counts' \subseteq Counts \cup ({Last(p)} \cap Workers)
  PROVE  Sound'
  <1>1. /\ DOMAIN calls' = DOMAIN calls \ {p}
        /\ \A q \in DOMAIN calls' : calls'[q].left = calls[q].left
    BY RespondIs, Zenon
  <1>2. Reachable' = Reachable /\ \A y : InReach(y)' <=> InReach(y)
    BY ReachableStays
  <1>3. InReach(Last(p)) /\ Counts \subseteq Reachable
    BY DEF Sound
  <1>4. Counts' \subseteq Reachable
    BY <1>3 DEF InReach
  <1>5. \A q \in DOMAIN calls' : InReach(Last(q)) /\ calls'[q].left \subseteq cluster.led
    BY <1>1 DEF Sound
  <1> QED BY <1>2, <1>4, <1>5 DEF Sound

\* Sound holds on, whatever has failed before.
LEMMA SoundBroadcasts ==
  ASSUME ShapeInv, Sound, NEW p \in DOMAIN calls, NEW w \in Workers, BroadcastNext(p, w)
  PROVE  cluster.request = "invoke" => Sound' /\ Counts' = Counts
  <1> DEFINE q == Append(p, w)
             asked(waits) == [calls[p] EXCEPT !.left = calls[p].left \ {w}, !.waits = waits]
  <1>1. /\ IsCall(calls[p]) /\ (Last(p) = Leader <=> ToLeader(calls[p].request))
        /\ calls = [r \in DOMAIN calls |-> calls[r]]
    BY DEF ShapeInv, Proper
  <1>2. \A waits : asked(waits).left = calls[p].left \ {w}
    BY <1>1 DEF IsCall
  <1>3. /\ calls[p].request = "broadcast" /\ w \in calls[p].left /\ UNCHANGED <<cluster, seen, handled, answer>>
        /\ \E waits : \/ calls' = [calls EXCEPT ![p] = asked(waits)]
                      \/ calls' = Adding(p, asked(waits), q, Call("invoke", calls[p].ctx))
    <2>1. /\ calls[p].request = "broadcast" /\ w \in calls[p].left /\ UNCHANGED <<cluster, seen, handled, answer>>
          /\ \/ calls' = [calls EXCEPT ![p] = asked({})]
             \/ calls' = Adding(p, asked({q}), q, Call("invoke", calls[p].ctx))
      BY DEF BroadcastNext
    <2> HIDE DEF asked, q
    <2> QED BY <2>1
  <1> HIDE DEF asked
  <1>4. Last(q) = w /\ w # Leader
    BY ChainsAre, LeaderAssumption DEF Participants
  <1>5. Call("invoke", calls[p].ctx).left = {}
    BY CallIs
  <1> HIDE DEF q
  <1>6. /\ DOMAIN calls' \subseteq DOMAIN calls \cup {q}
        /\ \A r \in DOMAIN calls' : r \in DOMAIN calls => calls'[r].left \subseteq calls[r].left
        /\ \A r \in DOMAIN calls' \ DOMAIN calls : calls'[r].left = {}
    <2>1. PICK waits : \/ calls' = [calls EXCEPT ![p] = asked(waits)]
                       \/ calls' = Adding(p, asked(waits), q, Call("invoke", calls[p].ctx))
      BY <1>3
    <2>2. CASE calls' = [calls EXCEPT ![p] = asked(waits)]
      BY <1>1, <1>2, <2>2
    <2>3. CASE calls' = Adding(p, asked(waits), q, Call("invoke", calls[p].ctx))
      BY <1>2, <1>5, <2>3 DEF Adding
    <2> QED BY <2>1, <2>2, <2>3
  <1>7. InReach(w) /\ w \in cluster.led
    <2>1. InReach(Leader) /\ w \in cluster.led
      BY <1>1, <1>3 DEF Sound, ToLeader
    <2> QED BY <1>4, <2>1 DEF InReach
  <1>8. Reachable' = Reachable /\ \A y : InReach(y)' <=> InReach(y)
    BY <1>3, ReachableStays
  <1>9. \A r \in DOMAIN calls' : InReach(Last(r)) /\ calls'[r].left \subseteq cluster.led
    <2> SUFFICES ASSUME NEW r \in DOMAIN calls' PROVE InReach(Last(r)) /\ calls'[r].left \subseteq cluster.led
      OBVIOUS
    <2>1. CASE r \in DOMAIN calls
      BY <1>6, <2>1 DEF Sound
    <2>2. CASE r \notin DOMAIN calls
      BY <1>4, <1>6, <1>7, <2>2
    <2> QED BY <2>1, <2>2
  <1>10. cluster.request = "invoke" => Counts' = Counts
    BY <1>3 DEF Counts
  <1> QED BY <1>3, <1>8, <1>9, <1>10 DEF Sound

LEMMA SoundFails ==
  ASSUME Sound, cluster.request = "invoke", NEW p, IsFailed(p)
  PROVE  Sound' /\ Counts' = Counts
  <1> DEFINE up == Front(p)
  <1>1. /\ UNCHANGED <<cluster, handled>> /\ DOMAIN calls' \subseteq DOMAIN calls
        /\ \A q \in DOMAIN calls' : q # up => calls'[q] = calls[q]
        /\ IsTold(calls[up], p, FALSE, calls[p].ctx, calls[p].product, calls'[up])
    BY DEF IsFailed
  <1> HIDE DEF up
  <1>2. \A q \in DOMAIN calls' : calls'[q].left = calls[q].left
    BY <1>1 DEF IsTold
  <1>3. Reachable' = Reachable /\ \A y : InReach(y)' <=> InReach(y)
    BY <1>1, ReachableStays
  <1>4. Counts' = Counts
    BY <1>1 DEF Counts
  <1>5. \A q \in DOMAIN calls' : InReach(Last(q)) /\ calls'[q].left \subseteq cluster.led
    BY <1>1, <1>2 DEF Sound
  <1> QED BY <1>1, <1>3, <1>4, <1>5 DEF Sound

LEMMA SoundStep ==
  ASSUME ShapeInv, Sound, cluster.request = "invoke", NEW p \in DOMAIN calls, Handler(p)
  PROVE  Sound' /\ (Counts' = Counts \/ \E w \in Reachable : Counts' = Counts \cup {w})
  <1>1. calls[p].request \in {"invoke", "broadcast"} /\ handled \in [Participants -> Nat]
    BY DEF ShapeInv, Proper, Family
  <1>2. CASE Invoke(p) \/ WorkerBroadcast(p) \/ ProcessQuery(p) \/ WorkerProxy(p)
    <2>1. PICK ctx, made, left : Opens(p, ctx, made, left, FALSE) /\ Asks(p, ctx, made, left)
      BY <1>2, SpreadsAre
    <2>2. Suits(made) /\ IsContext(ctx) /\ Open(p, ctx, made, left, FALSE)
      BY <2>1 DEF Opens, Registers
    <2>3. UNCHANGED <<cluster, handled, answer>> /\ IsOpened(p, ctx, made, left, FALSE)
      <3>1. FALSE \in BOOLEAN
        OBVIOUS
      <3> QED BY <2>2, <3>1, OpenIs, Zenon
    <2>4. Counts' = Counts
      BY <2>3 DEF Counts
    <2>5. \A q \in Made(p, made) : /\ Last(q) \in DOMAIN made
                                   /\ \E x \in DOMAIN made : calls'[q] = Call(made[x], ctx)
      <3>1. \A x \in DOMAIN made : x \in Participants /\ Last(Append(p, x)) = x
        BY <2>2, ChainsAre DEF Suits
      <3> QED BY <2>3, <3>1 DEF Made, IsOpened
    <2>6. Sound'
      BY <2>1, <2>3, <2>4, <2>5, SoundOpened
    <2> QED BY <2>4, <2>6
  <1>3. CASE Refuse(p) \/ AnswerQuery(p) \/ PassOn(p) \/ FailOn(p)
    <2>1. UNCHANGED <<cluster, seen, handled>>
      BY <1>3, QuietIs
    <2>2. PICK ok, product : ok \in BOOLEAN /\ Respond(p, ok, calls[p].ctx, product)
      BY <1>3, QuietIs
    <2>3. Counts' = Counts
      BY <2>1 DEF Counts
    <2>4. handled' \in [Participants -> Nat] /\ Counts' \subseteq Counts \cup ({Last(p)} \cap Workers)
      BY <1>1, <2>1, <2>3
    <2>5. Sound'
      BY <2>1, <2>2, <2>4, SoundAnswered
    <2> QED BY <2>3, <2>5
  <1>4. CASE TriggerEvent(p) \/ TakeEffect(p)
    <2>1. /\ UNCHANGED <<cluster, seen>>
          /\ handled' = [handled EXCEPT ![Last(p)] = handled[Last(p)] + 1]
          /\ handled' \in [Participants -> Nat] /\ Last(p) \in Workers
          /\ Respond(p, TRUE, calls[p].ctx, calls[p].product)
      <3>1. /\ UNCHANGED <<cluster, seen>>
            /\ handled' = [handled EXCEPT ![Last(p)] = handled[Last(p)] + 1]
            /\ handled' \in [Participants -> Nat]
            /\ \/ calls[p].request = "invoke" /\ Last(p) \in Workers
               \/ calls[p].request = "leader_update" /\ Last(p) = Leader
            /\ Respond(p, TRUE, calls[p].ctx, calls[p].product)
        BY <1>4, EventIs, Zenon
      <3> QED BY <1>1, <3>1
    <2>2. \A w \in Workers : handled'[w] > 0 <=> handled[w] > 0 \/ w = Last(p)
      BY <1>1, <2>1 DEF Participants
    <2>3. Counts' = Counts \cup {Last(p)}
      BY <2>1, <2>2 DEF Counts
    <2>4. Sound'
      BY <2>1, <2>3, SoundAnswered
    <2>5. Last(p) \in Reachable
      BY <2>1 DEF Sound, InReach
    <2> QED BY <2>3, <2>4, <2>5
  <1>5. ASSUME NEW w \in Workers, BroadcastNext(p, w) \/ ProxyNext(p, w) PROVE Sound' /\ Counts' = Counts
    <2>1. BroadcastNext(p, w)
      BY <1>1, <1>5 DEF ProxyNext
    <2> QED BY <2>1, SoundBroadcasts
  <1>6. ~(LeaderTakes(p) \/ SendToLeader(p))
    BY <1>1, Zenon DEF LeaderTakes, SendToLeader
  <1> QED BY <1>2, <1>3, <1>4, <1>5, <1>6, HandlerIs

\* When the root awaits nothing any more, who can be reached has done its part.
LEMMA Closes ==
  ASSUME ShapeInv, Tree, Spread, Sound, Root \in DOMAIN calls, Complete(Root)
  PROVE  DOMAIN calls = {Root} /\ Reachable = Counts \cup {cluster.entry}
  <1>1. calls[Root].open /\ calls[Root].waits = {}
    BY DEF Complete
  <1>2. DOMAIN calls = {Root}
    BY <1>1, OnlyRoot
  <1>3. Last(Root) = cluster.entry /\ cluster.entry \in Workers
    BY ChainsAre
  <1>4. Asked = {cluster.entry}
    BY <1>2, <1>3 DEF Asked
  <1>5. Reached = Counts \cup {cluster.entry} /\ Reached \subseteq Workers
    BY <1>3, <1>4 DEF Reached, Counts
  <1>6. Reached \subseteq Visited
    <2>1. Root \in OpenAt(cluster.entry)
      BY <1>1, <1>3 DEF OpenAt
    <2> QED BY <1>5, <2>1 DEF Visited
  <1>7. LeaderIn => cluster.led \subseteq Reached
    BY <1>3, <1>4, LeaderAssumption DEF LeaderIn
  <1>8. Closed(Reached)
    BY <1>6, <1>7 DEF Closed, Spread
  <1>9. Reachable \subseteq Reached
    BY <1>5, <1>8, ReachableIs DEF ShapeInv
  <1>10. Reached \subseteq Reachable
    BY <1>5, ReachableIs DEF ShapeInv, Sound
  <1> QED BY <1>2, <1>5, <1>9, <1>10

\* Hops are of participants, and products count.
LEMMA DataOpened ==
  ASSUME ShapeInv, DataInv, NEW p \in DOMAIN calls,
         NEW ctx, NEW made, NEW left, NEW error, Opens(p, ctx, made, left, error)
  PROVE  DataInv'
  <1> DEFINE new == Made(p, made)
  <1>1. IsOpened(p, ctx, made, left, error)
    BY OpenIs DEF Opens, Registers
  <1>2. /\ DOMAIN calls' = DOMAIN calls \cup new /\ calls'[p].ctx = ctx
        /\ calls'[p].product = calls[p].product /\ p \notin new
        /\ \A q \in DOMAIN calls \ (new \cup {p}) : calls'[q] = calls[q]
    BY <1>1 DEF IsOpened
  <1>3. \A q \in new : calls'[q].ctx = ctx /\ calls'[q].product = [w \in Workers |-> 0]
    <2>1. \A q \in new : \E x \in DOMAIN made : calls'[q] = Call(made[x], ctx)
      BY <1>1 DEF IsOpened, Made
    <2> QED BY <2>1, CallIs
  <1>4. ctx.hops \in Seq(Participants)
    BY DEF DataInv, Opens, Registers
  <1> HIDE DEF new
  <1>5. ASSUME NEW q \in DOMAIN calls'
        PROVE  calls'[q].ctx.hops \in Seq(Participants) /\ calls'[q].product \in [Workers -> Nat]
    <2>1. CASE q \in new
      BY <1>3, <1>4, <2>1
    <2>2. CASE q = p
      BY <1>2, <1>4, <2>2 DEF DataInv
    <2>3. CASE q # p /\ q \notin new
      BY <1>2, <2>3 DEF DataInv
    <2> QED BY <2>1, <2>2, <2>3
  <1> QED BY <1>5 DEF DataInv

LEMMA DataAnswered ==
  ASSUME ShapeInv, DataInv, NEW p \in DOMAIN calls, NEW ok \in BOOLEAN, NEW product \in [Workers -> Nat],
         Respond(p, ok, calls[p].ctx, product), UNCHANGED <<cluster, seen>>,
         handled' \in [Participants -> Nat]
  PROVE  DataInv'
  <1> DEFINE up == Front(p)
  <1>1. /\ DOMAIN calls' = DOMAIN calls \ {p}
        /\ \A q \in DOMAIN calls' : q # up => calls'[q] = calls[q]
    BY RespondIs, Zenon
  <1>2. up \in DOMAIN calls' =>
          /\ calls'[up].ctx.hops \in
               {calls[up].ctx.hops, Merged(calls[up].request, calls[up].ctx.hops, calls[p].ctx.hops)}
          /\ calls'[up].product \in {calls[up].product, [w \in Workers |-> calls[up].product[w] + product[w]]}
    BY ReturnIs
  <1> HIDE DEF up
  <1>3. ASSUME NEW q \in DOMAIN calls'
        PROVE  calls'[q].ctx.hops \in Seq(Participants) /\ calls'[q].product \in [Workers -> Nat]
    <2>1. /\ q \in DOMAIN calls
          /\ calls[q].ctx.hops \in Seq(Participants) /\ calls[q].product \in [Workers -> Nat]
          /\ calls[p].ctx.hops \in Seq(Participants)
      BY <1>1 DEF DataInv
    <2>2. CASE q # up
      BY <1>1, <2>1, <2>2
    <2>3. CASE q = up
      <3>1. Merged(calls[q].request, calls[q].ctx.hops, calls[p].ctx.hops) \in Seq(Participants)
        BY <2>1, MergedIs
      <3>2. calls'[q].ctx.hops \in Seq(Participants)
        BY <1>2, <2>1, <2>3, <3>1
      <3>3. [w \in Workers |-> calls[q].product[w] + product[w]] \in [Workers -> Nat]
        BY <2>1
      <3>4. calls'[q].product \in [Workers -> Nat]
        BY <1>2, <2>1, <2>3, <3>3
      <3> QED BY <3>2, <3>4
    <2> QED BY <2>2, <2>3
  <1> QED BY <1>3 DEF DataInv

LEMMA DataFails ==
  ASSUME DataInv, NEW p, IsFailed(p) PROVE DataInv'
  <1> DEFINE up == Front(p)
  <1>1. /\ DOMAIN calls' \subseteq DOMAIN calls
        /\ \A q \in DOMAIN calls' : q # up => calls'[q] = calls[q]
        /\ IsTold(calls[up], p, FALSE, calls[p].ctx, calls[p].product, calls'[up])
    BY DEF IsFailed
  <1> HIDE DEF up
  <1>2. calls'[up].ctx.hops = calls[up].ctx.hops /\ calls'[up].product = calls[up].product
    BY <1>1 DEF IsTold
  <1> QED BY <1>1, <1>2 DEF DataInv

LEMMA DataStep ==
  ASSUME ShapeInv, DataInv, NEW p \in DOMAIN calls, Handler(p)
  PROVE  DataInv'
  <1>1. CASE Invoke(p) \/ WorkerBroadcast(p) \/ ProcessQuery(p) \/ WorkerProxy(p) \/ LeaderTakes(p)
    BY <1>1, OpensAre, DataOpened
  <1>2. CASE SendToLeader(p)
    BY <1>2, SendsAre, DataOpened
  <1>3. calls[p].product \in [Workers -> Nat] /\ handled \in [Participants -> Nat]
    BY DEF DataInv, ShapeInv
  <1>4. CASE Refuse(p) \/ PassOn(p) \/ FailOn(p)
    <2>1. /\ UNCHANGED <<cluster, seen, handled>>
          /\ \E ok \in BOOLEAN : Respond(p, ok, calls[p].ctx, calls[p].product)
      BY <1>4 DEF Refuse, PassOn, FailOn
    <2> QED BY <1>3, <2>1, DataAnswered
  <1>5. CASE AnswerQuery(p)
    <2> DEFINE more == [calls[p].product EXCEPT ![Last(p)] = @ + 1]
    <2>1. /\ UNCHANGED <<cluster, seen, handled>> /\ Respond(p, TRUE, calls[p].ctx, more)
      BY <1>5 DEF AnswerQuery
    <2>2. more \in [Workers -> Nat]
      <3>1. \A w \in Workers : more[w] = calls[p].product[w] \/ more[w] = calls[p].product[w] + 1
        BY <1>3
      <3>2. more = [w \in Workers |-> more[w]]
        BY <1>3
      <3> HIDE DEF more
      <3> QED BY <1>3, <3>1, <3>2
    <2> HIDE DEF more
    <2> QED BY <1>3, <2>1, <2>2, DataAnswered
  <1>6. CASE TriggerEvent(p) \/ TakeEffect(p)
    BY <1>3, <1>6, EventIs, DataAnswered
  <1>7. ASSUME NEW w \in Workers, BroadcastNext(p, w) \/ ProxyNext(p, w) PROVE DataInv'
    <2> DEFINE new == Append(p, w)
    <2>1. PICK c, d : /\ c.ctx = calls[p].ctx /\ c.product = calls[p].product
                      /\ calls' = [calls EXCEPT ![p] = c] \/ calls' = Adding(p, c, new, d)
                      /\ d.product = [v \in Workers |-> 0]
                      /\ d.ctx.hops = calls[p].ctx.hops \/ d.ctx.hops = <<>>
      <3>1. IsCall(calls[p])
        BY DEF ShapeInv, Proper
      <3> DEFINE on(waits) == [calls[p] EXCEPT !.left = calls[p].left \ {w}, !.waits = waits]
      <3>2. \A waits : on(waits).ctx = calls[p].ctx /\ on(waits).product = calls[p].product
        BY <3>1 DEF IsCall
      <3>3. Context(new, Leader, Unlimited, <<>>).hops = <<>>
        BY DEF Context
      <3>4. \A r, x : Call(r, x).product = [v \in Workers |-> 0] /\ Call(r, x).ctx = x
        BY CallIs
      <3> DEFINE d1 == Call("invoke", calls[p].ctx)
                 d2 == Call("query", Context(new, Leader, Unlimited, <<>>))
      <3>5. \E waits : \/ calls' = [calls EXCEPT ![p] = on(waits)]
                       \/ calls' = Adding(p, on(waits), new, d1)
                       \/ calls' = Adding(p, on(waits), new, d2)
        BY <1>7, Zenon DEF BroadcastNext, ProxyNext
      <3>6. /\ d1.product = [v \in Workers |-> 0] /\ d1.ctx.hops = calls[p].ctx.hops
            /\ d2.product = [v \in Workers |-> 0] /\ d2.ctx.hops = <<>>
        BY <3>3, <3>4
      <3> HIDE DEF on, d1, d2
      <3> QED BY <3>2, <3>5, <3>6
    <2>2. <<>> \in Seq(Participants) /\ calls = [q \in DOMAIN calls |-> calls[q]]
      BY DEF ShapeInv
    <2> HIDE DEF new
    <2>3. \A q \in DOMAIN calls' : calls'[q] = c \/ (q \in DOMAIN calls /\ calls'[q] = calls[q]) \/ calls'[q] = d
      <3>1. CASE calls' = [calls EXCEPT ![p] = c]
        BY <2>2, <3>1
      <3>2. CASE calls' = Adding(p, c, new, d)
        BY <3>2 DEF Adding
      <3> QED BY <2>1, <3>1, <3>2
    <2>4. /\ c.ctx.hops \in Seq(Participants) /\ c.product \in [Workers -> Nat]
          /\ d.ctx.hops \in Seq(Participants) /\ d.product \in [Workers -> Nat]
      <3>1. calls[p].ctx.hops \in Seq(Participants) /\ calls[p].product \in [Workers -> Nat]
        BY DEF DataInv
      <3>2. [v \in Workers |-> 0] \in [Workers -> Nat]
        OBVIOUS
      <3>3. d.product \in [Workers -> Nat]
        BY <2>1, <3>2
      <3> QED BY <2>1, <2>2, <3>1, <3>3
    <2> QED BY <2>3, <2>4 DEF DataInv
  <1> QED BY <1>1, <1>2, <1>4, <1>5, <1>6, <1>7, HandlerIs

(***************************************************************************)
(* A request that is under way and of which nothing has failed.            *)
(***************************************************************************)
Going == Root \in DOMAIN calls /\ Tree /\ NoFailure /\ Spread /\ Sound

\* While the root has not been opened there is no other call.
LEMMA RootFirst ==
  ASSUME ShapeInv, Going, ~calls[Root].open
  PROVE  DOMAIN calls = {Root}
  <1>1. Tree /\ Root \in DOMAIN calls /\ calls[Root].waits = {}
    BY DEF Going, Tree
  <1> QED BY <1>1, OnlyRoot

LEMMA GoingOpened ==
  ASSUME ShapeInv, DataInv, Going, NEW p \in DOMAIN calls,
         Invoke(p) \/ WorkerBroadcast(p) \/ ProcessQuery(p) \/ WorkerProxy(p)
  PROVE  /\ Going' /\ calls'[Root].open /\ Record(p) /\ ~Refused(p)
         /\ UNCHANGED <<cluster, handled, answer>>
         /\ Counts' = Counts /\ Visited \subseteq Visited' /\ (Last(p) \in Workers => Last(p) \in Visited')
  <1>1. PICK ctx, made, left : Opens(p, ctx, made, left, FALSE) /\ Asks(p, ctx, made, left)
    BY SpreadsAre
  <1>2. /\ Registers(calls[p].ctx, ctx, Last(p)) /\ Suits(made) /\ IsContext(ctx)
        /\ Open(p, ctx, made, left, FALSE)
    BY <1>1 DEF Opens, Registers
  <1>3. /\ ShapeInv' /\ ~calls[p].open /\ ~Refused(p) /\ Record(p) /\ UNCHANGED <<cluster, handled, answer>>
        /\ IsOpened(p, ctx, made, left, FALSE)
    <2>1. FALSE \in BOOLEAN
      OBVIOUS
    <2> QED BY <1>2, <2>1, OpenIs, Zenon
  <1>4. Root \in DOMAIN calls /\ Tree /\ NoFailure /\ Spread /\ Sound
    BY DEF Going
  <1>5. /\ Tree' /\ NoFailure' /\ Made(p, made) \cap DOMAIN calls = {}
        /\ \A q \in Made(p, made) : /\ \E x \in DOMAIN made : calls'[q] = Call(made[x], ctx)
                                    /\ Last(q) \in DOMAIN made /\ ~calls'[q].open
    <2>1. /\ Tree' /\ (NoFailure /\ ~FALSE => NoFailure')
          /\ Made(p, made) \cap DOMAIN calls = {}
          /\ \A q \in Made(p, made) : /\ \E x \in DOMAIN made : q = Append(p, x) /\ calls'[q] = Call(made[x], ctx)
                                      /\ Last(q) \in DOMAIN made /\ ~calls'[q].open
          /\ \A x \in DOMAIN made : Append(p, x) \in Made(p, made) /\ Last(Append(p, x)) = x
      BY <1>2, <1>3, <1>4, TreeOpened, Zenon
    <2> QED BY <1>4, <2>1
  <1>6. Spread' /\ Counts' = Counts
    BY <1>1, <1>2, <1>3, <1>4, SpreadOpened
  <1>7. Sound'
    BY <1>1, <1>3, <1>4, <1>5, <1>6, SoundOpened
  <1>8. Root' = Root
    BY <1>3, ReachableStays
  <1>9. /\ p \in DOMAIN calls' /\ calls'[p].open
        /\ \A q \in DOMAIN calls : q \in DOMAIN calls' /\ (calls[q].open => calls'[q].open)
    <2>1. /\ DOMAIN calls' = DOMAIN calls \cup Made(p, made) /\ calls'[p].open
          /\ \A q \in DOMAIN calls \ (Made(p, made) \cup {p}) : calls'[q] = calls[q]
      BY <1>3 DEF IsOpened
    <2> QED BY <1>5, <2>1
  <1>10. Going'
    BY <1>4, <1>5, <1>6, <1>7, <1>8, <1>9 DEF Going
  <1>11. calls'[Root].open
    <2>1. ~calls[Root].open => p = Root
      BY RootFirst
    <2> QED BY <1>4, <1>9, <2>1
  <1>12. /\ \A x : OpenAt(x) \subseteq OpenAt(x)' /\ OpenAt(Last(p))' # {}
    BY <1>9 DEF OpenAt
  <1> QED BY <1>3, <1>6, <1>10, <1>11, <1>12 DEF Visited

LEMMA GoingNext ==
  ASSUME ShapeInv, DataInv, Going, NEW p \in DOMAIN calls, NEW w \in Workers,
         BroadcastNext(p, w) \/ ProxyNext(p, w)
  PROVE  /\ Going' /\ calls'[Root].open /\ IsNext(p, w)
         /\ UNCHANGED <<cluster, seen, handled, answer>>
         /\ Counts' = Counts /\ Visited \subseteq Visited'
  <1>1. Root \in DOMAIN calls /\ Tree /\ NoFailure /\ Spread /\ Sound
    BY DEF Going
  <1>2. calls[p].open /\ calls[p].waits = {} /\ UNCHANGED <<cluster, seen, handled, answer>>
    BY DEF BroadcastNext, ProxyNext
  <1>3. Append(p, w) \notin DOMAIN calls
    BY <1>1, <1>2, LeafIs DEF Participants
  <1>4. IsNext(p, w)
    BY <1>3, GoesNext
  <1>5. Tree' /\ NoFailure'
    BY <1>1, <1>2, <1>4, TreeNext
  <1>6. Spread' /\ Counts' = Counts
    BY <1>1, <1>2, <1>4, SpreadNext
  <1>7. Sound'
    BY <1>1, <1>2, <1>4, <1>6, SoundNext
  <1>8. Root' = Root
    BY <1>2, ReachableStays
  <1>9. \A q \in DOMAIN calls : q \in DOMAIN calls' /\ (calls[q].open => calls'[q].open)
    BY <1>4 DEF IsNext
  <1>10. Going'
    BY <1>1, <1>5, <1>6, <1>7, <1>8, <1>9 DEF Going
  <1>11. calls'[Root].open
    <2>1. ~calls[Root].open => p = Root
      BY RootFirst
    <2> QED BY <1>1, <1>2, <1>9, <2>1
  <1>12. /\ \A x : OpenAt(x) \subseteq OpenAt(x)'
    BY <1>9 DEF OpenAt
  <1> QED BY <1>2, <1>4, <1>6, <1>10, <1>11, <1>12 DEF Visited

\* A call other than the root is answered.
LEMMA GoingAnswered ==
  ASSUME ShapeInv, DataInv, Going, NEW p \in DOMAIN calls, p # Root, NEW ok \in BOOLEAN, NEW product,
         Respond(p, ok, calls[p].ctx, product), UNCHANGED <<cluster, seen>>,
         handled' \in [Participants -> Nat],
         calls[p].waits = {}, ok \/ cluster.request = "invoke",
         Counts \subseteq Counts', Counts' \subseteq Counts \cup ({Last(p)} \cap Workers), Counts' \subseteq Visited,
         Last(p) \in Workers => Last(p) \in Counts' \/ \E q \in DOMAIN calls \ {p} : Last(q) = Last(p),
         Last(p) = Leader => calls[p].open /\ calls[p].left = {}
  PROVE  Going' /\ calls'[Root].open /\ answer' = answer
  <1>1. Root \in DOMAIN calls /\ Tree /\ NoFailure /\ Spread /\ Sound
    BY DEF Going
  <1>2. Tree' /\ NoFailure'
    BY <1>1, TreeAnswered
  <1>3. Spread'
    BY <1>1, SpreadAnswered
  <1>4. Sound'
    BY <1>1, SoundAnswered
  <1>5. Root' = Root
    BY ReachableStays
  <1>6. /\ DOMAIN calls' = DOMAIN calls \ {p}
        /\ \A q \in DOMAIN calls' : calls'[q].open = calls[q].open
        /\ answer' = answer
    BY RespondIs, Zenon
  <1>7. Root \in DOMAIN calls'
    BY <1>1, <1>6
  <1>8. calls[Root].open
    BY RootFirst
  <1> QED BY <1>2, <1>3, <1>4, <1>5, <1>6, <1>7, <1>8 DEF Going

\* Who a call is answered for has been visited still.
LEMMA VisitedAnswered ==
  ASSUME ShapeInv, NEW p \in DOMAIN calls, NEW ok \in BOOLEAN, NEW product,
         Respond(p, ok, calls[p].ctx, product), UNCHANGED <<cluster, seen>>,
         handled' \in [Participants -> Nat],
         Counts \subseteq Counts', calls[p].open => Last(p) \notin Workers \/ Last(p) \in Counts'
  PROVE  Visited \subseteq Visited'
  <1>1. /\ DOMAIN calls' = DOMAIN calls \ {p}
        /\ \A q \in DOMAIN calls' : calls'[q].open = calls[q].open
    BY RespondIs, Zenon
  <1>2. ASSUME NEW w \in Workers, OpenAt(w) # {} PROVE OpenAt(w)' # {} \/ w \in Counts'
    <2>1. PICK q \in DOMAIN calls : calls[q].open /\ Last(q) = w
      BY <1>2 DEF OpenAt
    <2> QED BY <1>1, <2>1 DEF OpenAt
  <1> QED BY <1>2 DEF Visited

LEMMA GoingInit ==
  ASSUME Init
  PROVE  /\ Going /\ DataInv /\ ~answer.done /\ Counts = {} /\ Visited = {}
         /\ DOMAIN calls = {Root} /\ ~calls[Root].open /\ calls[Root].ctx.hops = <<>>
         /\ calls[Root].request = cluster.request
         /\ calls[Root].product = [w \in Workers |-> 0] /\ calls[Root].waits = {}
         /\ calls[Root].ctx.origin = Nobody
  <1> DEFINE x == Context(Root, Nobody, cluster.delivery, <<>>)
  <1>1. ShapeInv /\ DOMAIN calls = {Root} /\ calls[Root] = Call(cluster.request, x)
    BY ShapeInit
  <1>2. x.origin = Nobody /\ x.hops = <<>>
    BY DEF Context
  <1> HIDE DEF x
  <1>3. /\ calls[Root].ctx = x /\ ~calls[Root].open /\ ~calls[Root].error
        /\ calls[Root].waits = {} /\ calls[Root].left = {} /\ calls[Root].product = [w \in Workers |-> 0]
        /\ calls[Root].request = cluster.request
    BY <1>1, CallIs
  <1>4. Last(Root) = cluster.entry /\ cluster.entry \in Workers
    BY <1>1, ChainsAre
  <1>5. Counts = {}
    <2>1. \A w \in Workers : ~(handled[w] > 0)
      BY DEF Init, Participants
    <2>2. \A q \in DOMAIN calls, w \in Workers : ~(calls[q].product[w] > 0)
      BY <1>1, <1>3
    <2> QED BY <2>1, <2>2 DEF Counts
  <1>6. \A y : OpenAt(y) = {}
    BY <1>1, <1>3 DEF OpenAt
  <1>7. Visited = {}
    BY <1>5, <1>6 DEF Visited
  <1>8. Tree /\ NoFailure
    BY <1>1, <1>3 DEF Tree, NoFailure
  <1>9. Range(<<>>) = {}
    BY DEF Range
  <1>10. \A r, l : Traced(x, r, l)
    BY <1>2, <1>9, NobodyAssumption DEF Traced, WentThroughWorker, WentThroughLeader, Participants
  <1>11. Spread
    BY <1>1, <1>3, <1>6, <1>7, <1>10 DEF Spread
  <1>12. Sound
    BY <1>1, <1>3, <1>4, <1>5, ReachableIs, LeaderAssumption DEF Sound, InReach, ShapeInv
  <1>13. [w \in Workers |-> 0] \in [Workers -> Nat] /\ <<>> \in Seq(Participants)
    OBVIOUS
  <1>14. DataInv
    BY <1>1, <1>2, <1>3, <1>13 DEF DataInv
  <1>15. ~answer.done
    BY DEF Init
  <1> QED BY <1>1, <1>2, <1>3, <1>5, <1>7, <1>8, <1>11, <1>12, <1>14, <1>15 DEF Going

(***************************************************************************)
(* A broadcast. Whatever calls fail, it goes nowhere but where the cluster *)
(* leads it. While none does: a worker that has seen the signal has been   *)
(* visited, so a call it refuses is not missed; and when the caller is     *)
(* answered, there is no call left, and the event was triggered wherever   *)
(* the signal gets to.                                                     *)
(***************************************************************************)
Marked ==
  /\ \A w \in Workers : seen[w] # {} => w \in Visited
  /\ ~calls[Root].open => Visited = {}

InvokeInv ==
  cluster.request = "invoke" =>
    /\ Sound
    /\ lost = {} => IF answer.done THEN DOMAIN calls = {} /\ Counts = Reachable ELSE Going /\ Marked

\* What a step of a broadcast does: nothing to the workers that have triggered the event,
\* one more of them, or the last with the answer.
Through == answer.done /\ lost = {}
FloodStep ==
  \/ Counts' = Counts /\ (Through' <=> Through)
  \/ ~Through /\ ~Through' /\ \E w \in Reachable : Counts' = Counts \cup {w}
  \/ /\ ~Through /\ Through' /\ Counts' = Reachable
     /\ \E w \in Reachable : Counts \cup {w} = Reachable

LEMMA InvokeRefused ==
  ASSUME ShapeInv, DataInv, cluster.request = "invoke", Going, Marked, NEW p \in DOMAIN calls, Refuse(p)
  PROVE  Going' /\ Marked' /\ Counts' = Counts /\ answer' = answer
  <1>1. /\ ~calls[p].open /\ Refused(p) /\ UNCHANGED <<cluster, seen, handled>>
        /\ Respond(p, FALSE, calls[p].ctx, calls[p].product)
    BY DEF Refuse
  <1>2. Last(p) \in Workers /\ seen[Last(p)] # {}
    BY <1>1 DEF Refused
  <1>3. Last(p) \in Visited
    BY <1>2 DEF Marked
  <1>4. p # Root
    BY <1>1, <1>3 DEF Marked
  <1>5. Last(p) # Leader
    BY <1>2, LeaderAssumption
  <1>6. Counts' = Counts
    BY <1>1 DEF Counts
  <1>7. Last(p) \in Counts' \/ \E q \in DOMAIN calls \ {p} : Last(q) = Last(p)
    BY <1>1, <1>3, <1>6 DEF Visited, OpenAt
  <1>8. handled' \in [Participants -> Nat] /\ calls[p].waits = {} /\ Counts \subseteq Visited
    BY <1>1 DEF ShapeInv, Going, Tree, Visited, Counts
  <1>9. Going' /\ calls'[Root].open /\ answer' = answer
    BY <1>1, <1>4, <1>5, <1>6, <1>7, <1>8, GoingAnswered
  <1>10. Visited \subseteq Visited'
    BY <1>1, <1>6, <1>8, VisitedAnswered
  <1>11. Root' = Root
    BY <1>1, ReachableStays
  <1> QED BY <1>1, <1>6, <1>9, <1>10, <1>11 DEF Marked

LEMMA InvokeHandled ==
  ASSUME ShapeInv, DataInv, cluster.request = "invoke", Going, Marked, NEW p \in DOMAIN calls,
         TriggerEvent(p) \/ PassOn(p)
  PROVE  /\ p # Root => Going' /\ Marked' /\ answer' = answer /\ Counts' = Counts \cup ({Last(p)} \cap Workers)
         /\ p = Root => /\ DOMAIN calls' = {} /\ answer'.done /\ Counts' = Reachable
                        /\ Reachable = Counts \cup {cluster.entry} /\ cluster.entry \in Reachable
         /\ cluster' = cluster
  <1>1. /\ Complete(p) /\ Respond(p, TRUE, calls[p].ctx, calls[p].product) /\ UNCHANGED <<cluster, seen>>
        /\ handled' \in [Participants -> Nat]
        /\ \/ Last(p) \in Workers /\ handled' = [handled EXCEPT ![Last(p)] = handled[Last(p)] + 1]
           \/ Last(p) = Leader /\ handled' = handled
    <2>1. CASE TriggerEvent(p)
      <3>1. /\ Complete(p) /\ Respond(p, TRUE, calls[p].ctx, calls[p].product) /\ UNCHANGED <<cluster, seen>>
            /\ handled' \in [Participants -> Nat]
            /\ handled' = [handled EXCEPT ![Last(p)] = handled[Last(p)] + 1]
            /\ \/ calls[p].request = "invoke" /\ Last(p) \in Workers
               \/ calls[p].request = "leader_update" /\ Last(p) = Leader
        BY <2>1, EventIs, Zenon
      <3>2. calls[p].request = "invoke"
        BY <2>1 DEF TriggerEvent
      <3> QED BY <3>1, <3>2
    <2>2. CASE PassOn(p)
      <3>1. /\ Complete(p) /\ Respond(p, TRUE, calls[p].ctx, calls[p].product)
            /\ UNCHANGED <<cluster, seen, handled>> /\ calls[p].request \in {"broadcast", "proxied_query", "update"}
        BY <2>2 DEF PassOn
      <3>2. calls[p].request \in {"invoke", "broadcast"} /\ (Last(p) = Leader <=> ToLeader(calls[p].request))
        BY DEF ShapeInv, Proper, Family
      <3>3. Last(p) = Leader
        BY <3>1, <3>2 DEF ToLeader
      <3> QED BY <3>1, <3>3 DEF ShapeInv
    <2> QED BY <2>1, <2>2
  <1>2. Leader \notin Workers /\ Workers \subseteq Participants /\ handled \in [Participants -> Nat]
    BY LeaderAssumption DEF Participants, ShapeInv
  <1>3. Counts' = Counts \cup ({Last(p)} \cap Workers)
    <2>1. cluster'.request = "invoke"
      BY <1>1
    <2>2. CASE Last(p) = Leader
      BY <1>1, <1>2, <2>1, <2>2 DEF Counts
    <2>3. CASE Last(p) \in Workers
      <3>1. \A w \in Workers : handled'[w] > 0 <=> handled[w] > 0 \/ w = Last(p)
        BY <1>1, <1>2, <2>3
      <3> QED BY <2>1, <2>3, <3>1 DEF Counts
    <2> QED BY <1>1, <2>2, <2>3
  <1>4. calls[p].open /\ calls[p].waits = {} /\ calls[p].left = {}
    BY <1>1 DEF Complete
  <1>5. Counts' \subseteq Visited
    BY <1>3, <1>4 DEF Visited, OpenAt, Counts
  <1>6. Root' = Root /\ Reachable' = Reachable
    BY <1>1, ReachableStays
  <1>7. ASSUME p # Root PROVE Going' /\ Marked' /\ answer' = answer
    <2>1. Going' /\ calls'[Root].open /\ answer' = answer
      BY <1>1, <1>3, <1>4, <1>5, <1>7, GoingAnswered
    <2>2. Visited \subseteq Visited'
      BY <1>1, <1>3, VisitedAnswered
    <2> QED BY <1>1, <1>6, <2>1, <2>2 DEF Marked
  <1>8. ASSUME p = Root
        PROVE  /\ DOMAIN calls' = {} /\ answer'.done /\ Counts' = Reachable
               /\ Reachable = Counts \cup {cluster.entry} /\ cluster.entry \in Reachable
    <2>1. DOMAIN calls = {Root} /\ Reachable = Counts \cup {cluster.entry}
      BY <1>1, <1>8, Closes DEF Going
    <2>2. DOMAIN calls' = DOMAIN calls \ {p} /\ (p = Root => answer'.done /\ answer'.ok = TRUE)
      BY <1>1, RespondIs, Zenon
    <2>3. Last(Root) = cluster.entry /\ cluster.entry \in Workers
      BY ChainsAre
    <2> QED BY <1>3, <1>8, <2>1, <2>2, <2>3
  <1> QED BY <1>1, <1>3, <1>7, <1>8

LEMMA InvokeStep ==
  ASSUME ShapeInv, DataInv, cluster.request = "invoke", InvokeInv, NEW p \in DOMAIN calls, Handler(p),
         lost = {}, lost' = {}
  PROVE  cluster' = cluster /\ InvokeInv' /\ FloodStep
  <1>1. ~answer.done /\ Going /\ Marked
    BY DEF InvokeInv
  <1>2. calls[p].request \in {"invoke", "broadcast"} /\ ~calls[p].error
    BY <1>1 DEF ShapeInv, Proper, Family, Going, NoFailure
  <1>3. CASE Invoke(p) \/ WorkerBroadcast(p) \/ ProcessQuery(p) \/ WorkerProxy(p)
    <2>1. /\ Going' /\ calls'[Root].open /\ Record(p) /\ ~Refused(p)
          /\ UNCHANGED <<cluster, handled, answer>>
          /\ Counts' = Counts /\ Visited \subseteq Visited' /\ (Last(p) \in Workers => Last(p) \in Visited')
      BY <1>1, <1>3, GoingOpened, Zenon
    <2>2. Root' = Root
      BY <2>1, ReachableStays
    <2>3. \A w \in Workers : seen'[w] = seen[w] \/ w = Last(p)
      <3>1. seen = [w \in Workers |-> seen[w]]
        BY DEF ShapeInv
      <3> QED BY <2>1, <3>1 DEF Record
    <2>4. Marked'
      BY <1>1, <2>1, <2>2, <2>3 DEF Marked
    <2> QED BY <1>1, <2>1, <2>4 DEF InvokeInv, FloodStep, Through, Going
  <1>4. CASE Refuse(p)
    <2>1. Going' /\ Marked' /\ Counts' = Counts /\ answer' = answer /\ cluster' = cluster
      BY <1>1, <1>4, InvokeRefused DEF Refuse
    <2> QED BY <1>1, <2>1 DEF InvokeInv, FloodStep, Through, Going
  <1>5. CASE TriggerEvent(p) \/ PassOn(p)
    <2>1. /\ p # Root => Going' /\ Marked' /\ answer' = answer /\ Counts' = Counts \cup ({Last(p)} \cap Workers)
          /\ p = Root => /\ DOMAIN calls' = {} /\ answer'.done /\ Counts' = Reachable
                         /\ Reachable = Counts \cup {cluster.entry} /\ cluster.entry \in Reachable
          /\ cluster' = cluster
      BY <1>1, <1>5, InvokeHandled, Zenon
    <2>2. Reachable' = Reachable
      BY <2>1, ReachableStays
    <2>3. Last(p) \in Workers => Last(p) \in Reachable
      BY <1>1 DEF Going, Sound, InReach
    <2>4. CASE p = Root
      <3>1. Sound'
        BY <2>1, <2>2, <2>4 DEF Sound
      <3> QED BY <1>1, <2>1, <2>2, <2>4, <3>1 DEF InvokeInv, FloodStep, Through
    <2>5. CASE p # Root
      <3>1. Counts' = Counts \/ (Counts' = Counts \cup {Last(p)} /\ Last(p) \in Workers)
        BY <2>1, <2>5
      <3> QED BY <1>1, <2>1, <2>3, <2>5, <3>1 DEF InvokeInv, FloodStep, Through, Going
    <2> QED BY <2>4, <2>5
  <1>6. ASSUME NEW w \in Workers, BroadcastNext(p, w) \/ ProxyNext(p, w) PROVE cluster' = cluster /\ InvokeInv' /\ FloodStep
    <2>1. /\ Going' /\ calls'[Root].open /\ UNCHANGED <<cluster, seen, handled, answer>>
          /\ Counts' = Counts /\ Visited \subseteq Visited'
      BY <1>1, <1>6, GoingNext
    <2>2. Root' = Root
      BY <2>1, ReachableStays
    <2>3. Marked'
      BY <1>1, <2>1, <2>2 DEF Marked
    <2> QED BY <1>1, <2>1, <2>3 DEF InvokeInv, FloodStep, Through, Going
  <1>7. ~(AnswerQuery(p) \/ FailOn(p) \/ TakeEffect(p) \/ LeaderTakes(p) \/ SendToLeader(p))
    BY <1>2, Zenon DEF AnswerQuery, FailOn, TakeEffect, LeaderTakes, SendToLeader
  <1> QED BY <1>3, <1>4, <1>5, <1>6, <1>7, HandlerIs

LEMMA InvokeInit ==
  ASSUME Init PROVE ShapeInv /\ DataInv /\ InvokeInv
  <1>1. ShapeInv /\ Going /\ DataInv /\ ~answer.done /\ Visited = {}
    BY ShapeInit, GoingInit
  <1>2. \A w \in Workers : seen[w] = {}
    BY DEF Init
  <1> QED BY <1>1, <1>2 DEF InvokeInv, Marked, Going

\* A step in which nothing changes.
LEMMA FlowStutters ==
  ASSUME UNCHANGED vars
  PROVE  /\ Reachable' = Reachable /\ Root' = Root /\ Counts' = Counts /\ Visited' = Visited
         /\ (ShapeInv' <=> ShapeInv) /\ (DataInv' <=> DataInv) /\ (Sound' <=> Sound) /\ (Going' <=> Going)
  <1>1. /\ cluster' = cluster /\ calls' = calls /\ seen' = seen /\ handled' = handled /\ answer' = answer
        /\ lost' = lost
    BY DEF vars
  <1>2. /\ Reachable' = Reachable /\ Root' = Root
        /\ \A x : (InReach(x)' <=> InReach(x)) /\ (ByLeader(x)' <=> ByLeader(x))
    BY <1>1, ReachableStays
  <1>3. Counts' = Counts /\ Asked' = Asked /\ \A w : OpenAt(w)' = OpenAt(w)
    BY <1>1 DEF Counts, Asked, OpenAt
  <1>4. Visited' = Visited /\ Reached' = Reached /\ (LeaderIn' <=> LeaderIn)
    BY <1>1, <1>3 DEF Visited, Reached, LeaderIn
  <1>5. (ShapeInv' <=> ShapeInv) /\ (DataInv' <=> DataInv)
    BY <1>1 DEF ShapeInv, Proper, Family, DataInv
  <1>6. (Tree' <=> Tree) /\ (NoFailure' <=> NoFailure)
    BY <1>1, <1>2 DEF Tree, NoFailure
  <1>7. ASSUME NEW c PROVE Traced(c, Reached', LeaderIn') <=> Traced(c, Reached, LeaderIn)
    BY <1>4 DEF Traced
  <1>8. Spread' <=> Spread
    BY <1>1, <1>2, <1>3, <1>4, <1>7 DEF Spread
  <1>9. Sound' <=> Sound
    BY <1>1, <1>2, <1>3 DEF Sound
  <1> QED BY <1>1, <1>2, <1>3, <1>4, <1>5, <1>6, <1>8, <1>9 DEF Going

BroadcastInv == ShapeInv /\ HandledInv /\ DataInv /\ InvokeInv

LEMMA InvokeNext ==
  ASSUME BroadcastInv, [Next]_vars
  PROVE  /\ BroadcastInv' /\ cluster' = cluster
         /\ cluster.request = "invoke" => FloodStep
  <1> USE DEF BroadcastInv
  <1>1. CASE UNCHANGED vars
    <2>1. /\ Reachable' = Reachable /\ Root' = Root /\ Counts' = Counts /\ Visited' = Visited
          /\ (ShapeInv' <=> ShapeInv) /\ (DataInv' <=> DataInv) /\ (Sound' <=> Sound) /\ (Going' <=> Going)
      BY <1>1, FlowStutters, Zenon
    <2>2. /\ cluster' = cluster /\ calls' = calls /\ seen' = seen /\ handled' = handled /\ answer' = answer
          /\ lost' = lost
      BY <1>1 DEF vars
    <2>3. InvokeInv'
      BY <2>1, <2>2 DEF InvokeInv, Marked
    <2>4. HandledInv'
      BY <2>2 DEF HandledInv, Limited, Local, OnceAt, OpenAt, SameSignal, Root
    <2>5. FloodStep
      BY <2>1, <2>2 DEF FloodStep, Through
    <2> QED BY <2>1, <2>2, <2>3, <2>4, <2>5
  <1>2. ASSUME NEW p \in DOMAIN calls, Handler(p), lost' = lost
        PROVE  BroadcastInv' /\ cluster' = cluster /\ (cluster.request = "invoke" => FloodStep)
    <2>1. ShapeInv' /\ HandledInv' /\ DataInv' /\ cluster' = cluster
      BY <1>2, HandledStep, DataStep, ClusterStays
    <2>2. CASE cluster.request = "invoke" /\ lost = {}
      <3>1. InvokeInv' /\ FloodStep
        BY <1>2, <2>2, InvokeStep
      <3> QED BY <2>1, <3>1
    <2>3. CASE cluster.request = "invoke" /\ lost # {}
      <3>1. Sound' /\ (Counts' = Counts \/ \E w \in Reachable : Counts' = Counts \cup {w})
        BY <1>2, <2>3, SoundStep DEF InvokeInv
      <3>2. InvokeInv' /\ FloodStep
        BY <1>2, <2>3, <3>1 DEF InvokeInv, FloodStep, Through
      <3> QED BY <2>1, <3>2
    <2>4. CASE cluster.request # "invoke"
      BY <2>1, <2>4 DEF InvokeInv
    <2> QED BY <2>2, <2>3, <2>4
  <1>3. ASSUME NEW p \in DOMAIN calls, Fail(p)
        PROVE  BroadcastInv' /\ cluster' = cluster /\ (cluster.request = "invoke" => FloodStep)
    <2>1. ShapeInv' /\ IsFailed(p)
      BY <1>3, FailIs
    <2>2. cluster' = cluster /\ lost' # {} /\ answer' = answer
      BY <2>1 DEF IsFailed
    <2>3. HandledInv' /\ DataInv'
      BY <2>1, HandledFails, DataFails
    <2>4. ASSUME cluster.request = "invoke" PROVE InvokeInv' /\ FloodStep
      <3>1. Sound' /\ Counts' = Counts
        BY <2>1, <2>4, SoundFails DEF InvokeInv
      <3>2. ~Through
        BY <1>3, <2>4 DEF InvokeInv, Through
      <3> QED BY <2>2, <3>1, <3>2 DEF InvokeInv, FloodStep, Through
    <2> QED BY <2>1, <2>2, <2>3, <2>4 DEF InvokeInv
  <1> QED BY <1>1, <1>2, <1>3 DEF Next, Handling

LEMMA BroadcastHolds == Spec => []BroadcastInv
  <1>1. Init => BroadcastInv
    BY InvokeInit, HandledInit DEF BroadcastInv
  <1>2. BroadcastInv /\ [Next]_vars => BroadcastInv'
    BY InvokeNext
  <1> QED BY <1>1, <1>2, PTL DEF Spec

(***************************************************************************)
(* A broadcast implements Flood, for every cluster: whatever the order in  *)
(* which workers invoke each other, refuse a signal they have seen and     *)
(* answer (worker/mod.rs Invoke and TriggerEvent, leader/mod.rs            *)
(* WorkerBroadcast), nobody triggers the event that the signal cannot get  *)
(* to; and while no call fails on the network, the caller has its answer   *)
(* not before the last worker that the signal gets to has triggered it.    *)
(* Once one has failed the answer says nothing: the broadcast passes over  *)
(* it (worker/mod.rs 1617-1622, leader/mod.rs 595-601).                    *)
(***************************************************************************)
THEOREM BroadcastFloods == Spec => IsFlood
  <1> DEFINE group == IF cluster.request = "invoke" THEN Reachable ELSE {}
             done == IF cluster.request = "invoke" THEN {w \in Workers : handled[w] > 0} ELSE {}
             closed == cluster.request = "invoke" /\ answer.done /\ lost = {}
  <1>2. Init => F!Init
    <2> SUFFICES ASSUME Init PROVE F!Init
      OBVIOUS
    <2>1. Counts = {} /\ ~answer.done
      BY GoingInit
    <2>2. done = {}
      BY <2>1 DEF Counts
    <2>3. closed = FALSE
      BY <2>1
    <2> QED BY <2>2, <2>3 DEF F!Init
  <1>3. ASSUME BroadcastInv, [Next]_vars PROVE [F!Next]_F!vars
    <2>1. cluster' = cluster /\ (cluster.request = "invoke" => FloodStep)
      BY <1>3, InvokeNext
    <2>2. CASE cluster.request # "invoke"
      <3>2. group' = group /\ done' = done /\ closed' = closed
        BY <2>1, <2>2
      <3> QED BY <3>2 DEF F!vars
    <2>3. CASE cluster.request = "invoke"
      <3>1. FloodStep
        BY <2>1, <2>3
      <3>2. Reachable' = Reachable
        BY <2>1, ReachableStays
      <3>3. /\ group = Reachable /\ group' = group
            /\ done = Counts /\ done' = Counts'
            /\ closed = Through /\ closed' = Through'
        BY <2>1, <2>3, <3>2 DEF Counts, Through
      <3>4. CASE Counts' = Counts /\ (Through' <=> Through)
        <4>1. group' = group /\ done' = done /\ closed' = closed
          BY <3>3, <3>4
        <4> QED BY <4>1 DEF F!vars
      <3>5. CASE ~Through /\ ~Through' /\ \E w \in Reachable : Counts' = Counts \cup {w}
        <4>1. CASE Counts' = Counts
          BY <3>4, <3>5, <4>1
        <4>2. CASE Counts' # Counts
          <5>1. ~closed /\ closed' = closed /\ group' = group
            BY <3>3, <3>5
          <5>2. \E w \in group \ done : done' = done \cup {w}
            BY <3>3, <3>5, <4>2
          <5> HIDE DEF group, done, closed
          <5>3. ~closed /\ (\E w \in group \ done : done' = done \cup {w}) /\ group' = group /\ closed' = closed
            BY <5>1, <5>2
          <5>4. F!Handle
            BY <5>3, Zenon DEF F!Handle, group, done, closed
          <5> QED BY <5>4 DEF F!Next
        <4> QED BY <4>1, <4>2
      <3>6. CASE /\ ~Through /\ Through' /\ Counts' = Reachable
                 /\ \E w \in Reachable : Counts \cup {w} = Reachable
        <4>1. ~closed /\ closed' = TRUE /\ group' = group /\ done' = group
          BY <3>3, <3>6
        <4>2. \E w \in group : done \cup {w} = group
          BY <3>3, <3>6
        <4>3. F!Close
          BY <4>1, <4>2, Zenon DEF F!Close
        <4> QED BY <4>3 DEF F!Next
      <3> QED BY <3>1, <3>4, <3>5, <3>6 DEF FloodStep
    <2> QED BY <2>2, <2>3
  <1> QED BY <1>2, <1>3, BroadcastHolds, PTL DEF Spec, IsFlood, F!Spec

-----------------------------------------------------------------------------
(* The names in an answer *)

(***************************************************************************)
(* Where no network lies between, whoever opens a call registers in its    *)
(* context, and asks nobody that is registered there. Of a broadcast's     *)
(* context nothing is lost: a call gives its hops to the call that made    *)
(* it, and the leader's one call at a time has hops that begin with the    *)
(* leader's. So a worker that has triggered the event is named in a call   *)
(* that is open, in the end in the root.                                   *)
(***************************************************************************)
Known == UNION {Range(calls[q].ctx.hops) : q \in {r \in DOMAIN calls : calls[r].open}}

NamedIn(q, c) ==
  /\ c.ctx.origin = Nobody
  /\ IsInjective(c.ctx.hops)
  /\ c.open <=> Last(q) \in Range(c.ctx.hops)

InTurn(p) ==
  calls[p].request = "broadcast" =>
    \A q \in calls[p].waits : /\ q \in DOMAIN calls /\ calls[p].waits = {q} /\ Front(q) = p
                              /\ Begins(calls[p].ctx.hops, calls[q].ctx.hops)

Names ==
  /\ \A q \in DOMAIN calls : NamedIn(q, calls[q]) /\ InTurn(q)
  /\ Counts \subseteq Known
  /\ \A w \in Visited : w \in cluster.led => Leader \in Known \cup Asked
  /\ Leader \in Asked \/ (\E q \in DOMAIN calls : Leader \in Range(calls[q].ctx.hops)) =>
       Reachable \cap cluster.led # {}

\* Without a network, whoever takes a call of a broadcast registers.
LEMMA LocalObserves ==
  ASSUME ShapeInv, Local, NEW p \in DOMAIN calls, calls[p].request # "proxied_query"
  PROVE  Observed(p).hops = Append(calls[p].ctx.hops, Last(p)) /\ ~OverNetwork(p)
  <1>1. ~OverNetwork(p)
    BY DEF OverNetwork, Local
  <1> DEFINE c == calls[p].ctx
             more == [c EXCEPT !.hops = Append(c.hops, Last(p))]
  <1>2. Observed(p) = more
    BY <1>1 DEF Observed, RegisterHop
  <1>3. IsContext(c)
    BY DEF ShapeInv, Proper, IsCall
  <1> HIDE DEF c
  <1>4. more.hops = Append(c.hops, Last(p))
    BY <1>3, ContextIs
  <1> HIDE DEF more
  <1> QED BY <1>1, <1>2, <1>4 DEF c

LEMMA NamesOpened ==
  ASSUME ShapeInv, DataInv, Going, Names, Local, cluster.request = "invoke", NEW p \in DOMAIN calls,
         NEW made, NEW left, Opens(p, Observed(p), made, left, FALSE), Asks(p, Observed(p), made, left),
         \A w \in DOMAIN made \ {Leader} : ~WentThroughWorker(Observed(p), w),
         Leader \in DOMAIN made => ~WentThroughLeader(Observed(p))
  PROVE  Names'
  <1> DEFINE ctx == Observed(p)  new == Made(p, made)  h == calls[p].ctx.hops  x == Last(p)
  <1>1. /\ Registers(calls[p].ctx, ctx, Last(p)) /\ Suits(made) /\ IsContext(ctx)
        /\ Open(p, ctx, made, left, FALSE) /\ FALSE \in BOOLEAN
    BY DEF Opens, Registers
  <1>2. /\ ShapeInv' /\ ~calls[p].open /\ ~Refused(p) /\ Record(p) /\ UNCHANGED <<cluster, handled, answer>>
        /\ IsOpened(p, ctx, made, left, FALSE)
    BY <1>1, OpenIs, Zenon
  <1>3. Root \in DOMAIN calls /\ Tree /\ NoFailure /\ Spread /\ Sound
    BY DEF Going
  <1>4. /\ Made(p, made) \cap DOMAIN calls = {}
        /\ \A q \in Made(p, made) : /\ \E y \in DOMAIN made : q = Append(p, y) /\ calls'[q] = Call(made[y], ctx)
                                    /\ Last(q) \in DOMAIN made /\ ~calls'[q].open
        /\ \A y \in DOMAIN made : Append(p, y) \in Made(p, made) /\ Last(Append(p, y)) = y
    BY <1>1, <1>2, <1>3, TreeOpened, Zenon
  <1>5. /\ p \notin new /\ DOMAIN calls' = DOMAIN calls \cup new
        /\ calls'[p].open /\ calls'[p].request = calls[p].request /\ calls'[p].ctx = ctx
        /\ calls'[p].waits = new
        /\ \A q \in DOMAIN calls \ (new \cup {p}) : calls'[q] = calls[q]
    BY <1>2 DEF IsOpened
  <1>6. \A q \in new : calls'[q].ctx = ctx /\ ~calls'[q].open /\ calls'[q].waits = {}
    BY <1>4, CallIs
  <1>7. calls[p].request \in {"invoke", "broadcast"} /\ (x = Leader <=> calls[p].request = "broadcast")
    BY DEF ShapeInv, Proper, Family, ToLeader
  <1>8. ctx.hops = Append(h, x) /\ ctx.origin = Nobody
    BY <1>1, <1>7, LocalObserves DEF Registers, Names, NamedIn
  <1>9. h \in Seq(Participants) /\ x \in Participants /\ x \notin Range(h) /\ IsInjective(h)
    BY <1>2, ChainsAre DEF DataInv, Names, NamedIn
  <1>10. /\ ctx.hops \in Seq(Participants) /\ Range(ctx.hops) = Range(h) \cup {x}
         /\ Begins(h, ctx.hops) /\ IsInjective(ctx.hops)
    BY <1>8, <1>9, PushIs
  <1>11. \A y \in DOMAIN made : y \notin Range(ctx.hops)
    BY DEF WentThroughWorker, WentThroughLeader
  <1> HIDE DEF ctx, new, h, x
  <1>12. \A q \in DOMAIN calls \ {p} : q \notin new /\ calls'[q] = calls[q]
    BY <1>4, <1>5 DEF new
  <1>13. ASSUME NEW q \in DOMAIN calls' PROVE NamedIn(q, calls'[q])
    <2>1. CASE q \in new
      BY <1>4, <1>6, <1>8, <1>10, <1>11, <2>1 DEF NamedIn, new
    <2>2. CASE q = p
      BY <1>5, <1>8, <1>10, <2>2 DEF NamedIn, x
    <2>3. CASE q # p /\ q \notin new
      BY <1>5, <1>12, <2>3 DEF Names
    <2> QED BY <2>1, <2>2, <2>3
  <1>14. ASSUME NEW r \in DOMAIN calls' PROVE InTurn(r)'
    <2>1. CASE r \in new
      BY <1>6, <2>1 DEF InTurn
    <2>2. CASE r = p
      <3>1. calls[p].request = "broadcast" => new = {}
        BY <1>7 DEF Asks, Made, new, x
      <3> QED BY <1>5, <2>2, <3>1 DEF InTurn
    <2>3. CASE r # p /\ r \notin new
      <3>1. r \in DOMAIN calls /\ calls'[r] = calls[r] /\ InTurn(r)
        BY <1>5, <1>12, <2>3 DEF Names
      <3>2. ASSUME calls[r].request = "broadcast", NEW q \in calls[r].waits
            PROVE  /\ q \in DOMAIN calls' /\ calls[r].waits = {q} /\ Front(q) = r
                   /\ Begins(calls[r].ctx.hops, calls'[q].ctx.hops)
        <4>1. /\ q \in DOMAIN calls /\ calls[r].waits = {q} /\ Front(q) = r
              /\ Begins(calls[r].ctx.hops, calls[q].ctx.hops)
          BY <3>1, <3>2 DEF InTurn
        <4>2. CASE q # p
          BY <1>5, <1>12, <4>1, <4>2
        <4>3. CASE q = p
          <5>1. Begins(calls[r].ctx.hops, h) /\ calls[r].ctx.hops \in Seq(Participants)
            BY <3>1, <4>1, <4>3 DEF h, DataInv
          <5> DEFINE g == calls[r].ctx.hops  o == ctx.hops
          <5>2. g \in Seq(Participants) /\ h \in Seq(Participants) /\ o \in Seq(Participants) /\ Begins(g, h) /\ Begins(h, o)
            BY <1>9, <1>10, <5>1
          <5> HIDE DEF g, o
          <5>3. Begins(g, o)
            BY <5>2, BeginsOn
          <5> QED BY <1>5, <4>1, <4>3, <5>3 DEF g, o
        <4> QED BY <4>2, <4>3
      <3> QED BY <3>1, <3>2 DEF InTurn
    <2> QED BY <2>1, <2>2, <2>3
  <1>15. Known \subseteq Known' /\ Range(ctx.hops) \subseteq Known'
    <2>1. \A q \in DOMAIN calls : calls[q].open => q \in DOMAIN calls' /\ calls'[q] = calls[q]
      BY <1>2, <1>5, <1>12
    <2>2. p \in DOMAIN calls'
      BY <1>5
    <2> QED BY <1>5, <2>1, <2>2 DEF Known
  <1>16. /\ Counts' = Counts /\ Asked' = Asked \cup DOMAIN made
    BY <1>1, <1>2, <1>3, SpreadOpened DEF ctx
  <1>17. Reachable' = Reachable
    BY <1>2, ReachableStays
  <1>18. \A w \in Visited' : w \in Visited \/ w = x
    BY <1>5, <1>6, <1>12, <1>16 DEF Visited, OpenAt, x
  <1>19. ASSUME x \in cluster.led, x \in Workers PROVE Leader \in Known' \cup Asked'
    <2>1. x # Leader /\ ByLeader(x)
      BY <1>19, LeaderAssumption DEF ByLeader
    <2>2. Leader \in DOMAIN made \/ WentThroughLeader(ctx)
      BY <2>1 DEF Asks, x, ctx
    <2>3. WentThroughLeader(ctx) => Leader \in Range(ctx.hops)
      BY <1>8, NobodyAssumption DEF WentThroughLeader, Participants
    <2> QED BY <1>15, <1>16, <2>2, <2>3
  <1>20. \A w \in Visited' : w \in cluster.led => Leader \in Known' \cup Asked'
    <2>1. Visited' \subseteq Workers
      BY DEF Visited
    <2> QED BY <1>15, <1>16, <1>18, <1>19, <2>1 DEF Names
  <1>21. Leader \in DOMAIN made => Reachable \cap cluster.led # {}
    <2> SUFFICES ASSUME Leader \in DOMAIN made PROVE Reachable \cap cluster.led # {}
      OBVIOUS
    <2>1. x # Leader
      BY DEF Asks, x
    <2>2. ByLeader(x) /\ InReach(x) /\ x \in Workers
      BY <1>3, <1>9, <2>1 DEF Asks, x, Sound, Participants
    <2> QED BY <2>2 DEF ByLeader, InReach
  <1>22. Leader \in Range(ctx.hops) => Reachable \cap cluster.led # {}
    BY <1>10 DEF Names, Asked, h, x
  <1>23. ASSUME NEW q \in DOMAIN calls', Leader \in Range(calls'[q].ctx.hops) PROVE Reachable \cap cluster.led # {}
    <2>1. CASE q \in new \cup {p}
      BY <1>5, <1>6, <1>22, <1>23, <2>1
    <2>2. CASE q \notin new \cup {p}
      BY <1>5, <1>12, <1>23, <2>2 DEF Names
    <2> QED BY <2>1, <2>2
  <1>24. Leader \in Asked' => Reachable \cap cluster.led # {}
    BY <1>16, <1>21 DEF Names
  <1>25. Counts' \subseteq Known'
    BY <1>15, <1>16 DEF Names
  <1> QED BY <1>2, <1>13, <1>14, <1>17, <1>20, <1>23, <1>24, <1>25 DEF Names

LEMMA NamesNext ==
  ASSUME ShapeInv, DataInv, Going, Names, Local, cluster.request = "invoke", NEW p \in DOMAIN calls,
         NEW w \in Workers, IsNext(p, w), UNCHANGED <<cluster, handled>>
  PROVE  Names'
  <1> DEFINE new == Append(p, w)  ctx == calls[p].ctx
  <1>1. Root \in DOMAIN calls /\ Tree /\ NoFailure /\ Spread /\ Sound
    BY DEF Going
  <1>2. /\ calls[p].open /\ Last(p) = Leader /\ w \in calls[p].left
        /\ p \in DOMAIN calls' /\ calls'[p].open /\ calls'[p].request = calls[p].request
        /\ calls'[p].ctx = ctx
        /\ \A q \in DOMAIN calls \ {p} : q \in DOMAIN calls' /\ calls'[q] = calls[q]
        /\ \/ DOMAIN calls' = DOMAIN calls /\ calls'[p].waits = {}
           \/ NextCall(p, w)
    BY DEF IsNext
  <1>3. Last(new) = w /\ w # Leader /\ Front(new) = p
    BY ChainsAre, LeaderAssumption DEF Participants
  <1>4. calls[p].request = "broadcast"
    BY <1>2 DEF ShapeInv, Proper, Family, ToLeader
  <1>5. NamedIn(p, calls[p]) /\ ctx.hops \in Seq(Participants)
    BY DEF Names, DataInv
  <1>6. Begins(ctx.hops, ctx.hops)
    <2> DEFINE n == Len(ctx.hops)
    <2>1. n \in Nat
      BY <1>5, LenProperties
    <2> HIDE DEF n
    <2>2. n <= n
      BY <2>1
    <2> QED BY <2>2 DEF Begins, n
  <1> HIDE DEF new
  <1>7. ASSUME NextCall(p, w)
        PROVE  /\ DOMAIN calls' = DOMAIN calls \cup {new} /\ new \notin DOMAIN calls /\ calls'[p].waits = {new}
               /\ calls'[new].ctx = ctx /\ ~calls'[new].open /\ calls'[new].waits = {}
               /\ w \notin Range(ctx.hops)
    <2>1. PICK request, c : calls'[new] = Call(request, c) /\ c = ctx /\ ~WentThroughWorker(c, w)
      BY <1>4, <1>7 DEF NextCall, new
    <2>2. calls'[new].ctx = c /\ ~calls'[new].open /\ calls'[new].waits = {}
      BY <2>1, CallIs
    <2>3. DOMAIN calls' = DOMAIN calls \cup {new} /\ new \notin DOMAIN calls /\ calls'[p].waits = {new}
      BY <1>7 DEF NextCall, new
    <2> QED BY <2>1, <2>2, <2>3 DEF WentThroughWorker
  <1> HIDE DEF ctx
  <1>8. \A q \in DOMAIN calls' : q \in DOMAIN calls \/ (q = new /\ NextCall(p, w))
    BY <1>2, <1>7
  <1>9. ASSUME NEW q \in DOMAIN calls' PROVE NamedIn(q, calls'[q])
    <2>1. CASE q \in DOMAIN calls /\ q # p
      BY <1>2, <2>1 DEF Names
    <2>2. CASE q = p
      BY <1>2, <1>5, <2>2 DEF NamedIn, ctx
    <2>3. CASE q = new /\ NextCall(p, w)
      <3>1. calls'[q].ctx = ctx /\ ~calls'[q].open /\ Last(q) \notin Range(ctx.hops)
        BY <1>3, <1>7, <2>3
      <3> QED BY <1>5, <3>1 DEF NamedIn, ctx
    <2> QED BY <1>8, <2>1, <2>2, <2>3
  <1>10. ASSUME NEW r \in DOMAIN calls' PROVE InTurn(r)'
    <2>1. CASE r \in DOMAIN calls /\ r # p
      <3>1. calls'[r] = calls[r] /\ InTurn(r)
        BY <1>2, <2>1 DEF Names
      <3>2. \A q \in DOMAIN calls : q \in DOMAIN calls' /\ calls'[q].ctx = calls[q].ctx
        BY <1>2 DEF ctx
      <3> QED BY <3>1, <3>2 DEF InTurn
    <2>2. CASE r = p
      <3>1. CASE calls'[p].waits = {}
        BY <2>2, <3>1 DEF InTurn
      <3>2. CASE NextCall(p, w)
        <4>1. new \in DOMAIN calls' /\ calls'[p].waits = {new} /\ calls'[new].ctx = calls'[p].ctx /\ calls'[p].ctx = ctx
          BY <1>2, <1>7, <3>2
        <4> QED BY <1>3, <1>6, <2>2, <4>1 DEF InTurn
      <3> QED BY <1>2, <3>1, <3>2
    <2>3. CASE r = new /\ NextCall(p, w)
      BY <1>7, <2>3 DEF InTurn
    <2> QED BY <1>8, <2>1, <2>2, <2>3
  <1>11. Known \subseteq Known'
    <2>1. \A q \in DOMAIN calls : calls[q].open => q \in DOMAIN calls' /\ calls'[q].open /\ calls'[q].ctx = calls[q].ctx
      BY <1>2 DEF ctx
    <2> QED BY <2>1 DEF Known
  <1>12. Counts' = Counts /\ Asked' \subseteq Asked \cup {w} /\ Asked \subseteq Asked'
    <2>1. Counts' = Counts /\ Asked' \subseteq Asked \cup {w}
      BY <1>1, SpreadNext
    <2>2. \A q \in DOMAIN calls : q \in DOMAIN calls'
      BY <1>2
    <2> QED BY <2>1, <2>2 DEF Asked
  <1>13. Reachable' = Reachable
    BY ReachableStays
  <1>14. Visited' \subseteq Visited
    <2>1. \A q \in DOMAIN calls' : calls'[q].open => q \in DOMAIN calls /\ calls[q].open
      BY <1>2, <1>7, <1>8
    <2>2. \A y : OpenAt(y)' \subseteq OpenAt(y)
      BY <2>1 DEF OpenAt
    <2> QED BY <1>12, <2>2 DEF Visited
  <1>15. ASSUME NEW q \in DOMAIN calls', Leader \in Range(calls'[q].ctx.hops) PROVE Reachable \cap cluster.led # {}
    <2>1. \E r \in DOMAIN calls : calls'[q].ctx = calls[r].ctx
      BY <1>2, <1>7, <1>8 DEF ctx
    <2> QED BY <1>15, <2>1 DEF Names
  <1>16. Leader \in Asked' => Reachable \cap cluster.led # {}
    BY <1>3, <1>12 DEF Names
  <1>17. \A v \in Visited' : v \in cluster.led => Leader \in Known' \cup Asked'
    BY <1>11, <1>12, <1>14 DEF Names
  <1> QED BY <1>9, <1>10, <1>11, <1>12, <1>13, <1>15, <1>16, <1>17 DEF Names

\* An answer names more than the call that gets it, and nothing is lost.
LEMMA NamesMerged ==
  ASSUME NEW request \in {"invoke", "broadcast"}, NEW h \in Seq(Participants), NEW o \in Seq(Participants),
         IsInjective(h), IsInjective(o), request = "broadcast" => Begins(h, o)
  PROVE  LET m == Merged(request, h, o)
         IN  /\ m \in Seq(Participants) /\ IsInjective(m) /\ Begins(h, m)
             /\ Range(m) = Range(h) \cup Range(o)
  <1>1. CASE request = "invoke"
    BY <1>1, MergeUniqueIs DEF Merged
  <1>2. CASE request = "broadcast"
    <2>1. Merged(request, h, o) = o
      BY <1>2, MergeAfterIs DEF Merged
    <2>2. Range(h) \subseteq Range(o)
      <3> DEFINE m == Len(h)  n == Len(o)
      <3>1. m \in Nat /\ n \in Nat /\ DOMAIN h = 1..m /\ DOMAIN o = 1..n
        BY LenProperties
      <3>2. m <= n /\ \A i \in 1..m : o[i] = h[i]
        BY <1>2 DEF Begins
      <3> HIDE DEF m, n
      <3>3. \A i \in DOMAIN h : i \in DOMAIN o /\ o[i] = h[i]
        BY <3>1, <3>2
      <3> QED BY <3>3 DEF Range
    <2> QED BY <1>2, <2>1, <2>2
  <1> QED BY <1>1, <1>2

LEMMA NamesAnswered ==
  ASSUME ShapeInv, DataInv, Going, Names, Local, cluster.request = "invoke", NEW p \in DOMAIN calls, p # Root,
         NEW ok \in BOOLEAN, ok <=> calls[p].open, NEW product,
         Respond(p, ok, calls[p].ctx, product), UNCHANGED <<cluster, seen>>,
         handled' \in [Participants -> Nat], calls[p].waits = {}, ~ok => Last(p) # Leader,
         Counts' \subseteq Counts \cup ({Last(p)} \cap Workers), ok \/ Counts' = Counts
  PROVE  Names'
  <1> DEFINE up == Front(p)  h == calls[up].ctx.hops  o == calls[p].ctx.hops
  <1>1. Root \in DOMAIN calls /\ Tree /\ NoFailure /\ Spread /\ Sound
    BY DEF Going
  <1>2. /\ DOMAIN calls' = DOMAIN calls \ {p}
        /\ \A q \in DOMAIN calls' :
             /\ q # up => calls'[q] = calls[q]
             /\ calls'[q].open = calls[q].open /\ calls'[q].request = calls[q].request
    BY RespondIs, Zenon
  <1>30. up \in DOMAIN calls' => calls'[up].waits = calls[up].waits \ {p}
    BY RespondIs
  <1>3. up \in DOMAIN calls /\ p \in calls[up].waits /\ calls[up].open
    BY <1>1 DEF Tree
  <1>4. up # p /\ up \in DOMAIN calls'
    BY <1>2, <1>3
  <1>5. /\ calls'[up].ctx.origin = calls[up].ctx.origin
        /\ calls'[up].ctx.hops = IF ok THEN Merged(calls[up].request, h, o) ELSE h
    <2>1. LET told == calls'[up]  heard == ok /\ p \in calls[up].waits
          IN  /\ told.ctx.origin = calls[up].ctx.origin
              /\ told.ctx.hops = IF heard THEN Merged(calls[up].request, h, o) ELSE h
      BY <1>4, ReturnIs
    <2> QED BY <1>3, <2>1
  <1>6. /\ h \in Seq(Participants) /\ o \in Seq(Participants)
        /\ NamedIn(up, calls[up]) /\ NamedIn(p, calls[p]) /\ InTurn(up)
        /\ calls[up].request \in {"invoke", "broadcast"}
    BY <1>3 DEF Names, DataInv, ShapeInv, Proper, Family
  <1>7. calls[up].request = "broadcast" => Begins(h, o) /\ calls[up].waits = {p}
    BY <1>3, <1>6 DEF InTurn
  <1> HIDE DEF up, h, o
  <1> DEFINE m == calls'[up].ctx.hops
  <1>8. /\ m \in Seq(Participants) /\ IsInjective(m) /\ Begins(h, m)
        /\ Range(h) \subseteq Range(m) /\ Range(m) \subseteq Range(h) \cup Range(o)
        /\ ok => Range(m) = Range(h) \cup Range(o)
    <2>1. CASE ok
      <3>1. m = Merged(calls[up].request, h, o)
        BY <1>5, <2>1
      <3>2. IsInjective(h) /\ IsInjective(o)
        BY <1>6 DEF NamedIn, h, o
      <3>3. LET k == Merged(calls[up].request, h, o)
            IN  /\ k \in Seq(Participants) /\ IsInjective(k) /\ Begins(h, k)
                /\ Range(k) = Range(h) \cup Range(o)
        BY <1>6, <1>7, <3>2, NamesMerged
      <3> QED BY <3>1, <3>3
    <2>2. CASE ~ok
      <3>1. m = h
        BY <1>5, <2>2
      <3> DEFINE n == Len(h)
      <3>2. n \in Nat
        BY <1>6, LenProperties
      <3> HIDE DEF n
      <3>3. n <= n
        BY <3>2
      <3>4. Begins(h, h)
        BY <3>3 DEF Begins, n
      <3> QED BY <1>6, <2>2, <3>1, <3>4 DEF NamedIn, h
    <2> QED BY <2>1, <2>2
  <1> HIDE DEF m
  <1>9. Last(up) \in Range(m)
    BY <1>3, <1>6, <1>8 DEF NamedIn, h
  <1>10. ASSUME NEW q \in DOMAIN calls' PROVE NamedIn(q, calls'[q])
    <2>1. CASE q = up
      <3>1. calls'[up].open /\ calls'[up].ctx.origin = Nobody
        BY <1>2, <1>3, <1>4, <1>5, <1>6 DEF NamedIn
      <3> QED BY <1>8, <1>9, <2>1, <3>1 DEF NamedIn, m
    <2>2. CASE q # up
      BY <1>2, <2>2 DEF Names
    <2> QED BY <2>1, <2>2
  <1>11. ASSUME NEW r \in DOMAIN calls' PROVE InTurn(r)'
    <2>1. CASE r = up
      <3>1. calls[up].request = "broadcast" => calls'[up].waits = {}
        BY <1>2, <1>30, <1>4, <1>7
      <3> QED BY <1>2, <1>4, <2>1, <3>1 DEF InTurn
    <2>2. CASE r # up
      <3>1. r \in DOMAIN calls /\ calls'[r] = calls[r] /\ InTurn(r)
        BY <1>2, <2>2 DEF Names
      <3>2. ASSUME calls[r].request = "broadcast", NEW q \in calls[r].waits
            PROVE  /\ q \in DOMAIN calls' /\ calls[r].waits = {q} /\ Front(q) = r
                   /\ Begins(calls[r].ctx.hops, calls'[q].ctx.hops)
        <4>1. /\ q \in DOMAIN calls /\ calls[r].waits = {q} /\ Front(q) = r
              /\ Begins(calls[r].ctx.hops, calls[q].ctx.hops)
          BY <3>1, <3>2 DEF InTurn
        <4>2. q # p
          BY <2>2, <4>1 DEF up
        <4>3. CASE q # up
          BY <1>2, <4>1, <4>2, <4>3
        <4>4. CASE q = up
          <5> DEFINE g == calls[r].ctx.hops
          <5>1. g \in Seq(Participants) /\ h \in Seq(Participants) /\ m \in Seq(Participants) /\ Begins(g, h) /\ Begins(h, m)
            BY <1>6, <1>8, <3>1, <4>1, <4>4 DEF h, DataInv
          <5> HIDE DEF g
          <5>2. Begins(g, m)
            BY <5>1, BeginsOn
          <5> QED BY <1>4, <4>1, <4>4, <5>2 DEF g, m
        <4> QED BY <4>3, <4>4
      <3> QED BY <3>1, <3>2 DEF InTurn
    <2> QED BY <2>1, <2>2
  <1>12. Known \subseteq Known'
    <2> SUFFICES ASSUME NEW q \in DOMAIN calls, calls[q].open, NEW y \in Range(calls[q].ctx.hops) PROVE y \in Known'
      BY DEF Known
    <2>1. CASE q # p /\ q # up
      BY <1>2, <2>1 DEF Known
    <2>2. CASE q = up
      <3>1. y \in Range(m) /\ calls'[up].open
        BY <1>2, <1>3, <1>4, <1>8, <2>2 DEF h
      <3> QED BY <1>4, <3>1 DEF Known, m
    <2>3. CASE q = p
      <3>1. y \in Range(m) /\ calls'[up].open
        BY <1>2, <1>3, <1>4, <1>8, <2>3 DEF o
      <3> QED BY <1>4, <3>1 DEF Known, m
    <2> QED BY <2>1, <2>2, <2>3
  <1>13. ok => Last(p) \in Known
    BY <1>6 DEF NamedIn, Known
  <1>14. Counts' \subseteq Known'
    BY <1>12, <1>13 DEF Names
  <1>15. Asked' \subseteq Asked /\ (Leader \in Asked => Leader \in Asked' \/ Leader \in Known')
    <2>1. Asked' \subseteq Asked /\ (Leader \in Asked => Leader \in Asked' \/ Last(p) = Leader)
      BY <1>2 DEF Asked
    <2> QED BY <1>12, <1>13, <2>1
  <1>16. Reachable' = Reachable
    BY ReachableStays
  <1>17. Visited' \subseteq Visited
    <2>1. \A y : OpenAt(y)' \subseteq OpenAt(y)
      BY <1>2 DEF OpenAt
    <2>2. ok => p \in OpenAt(Last(p))
      BY DEF OpenAt
    <2> QED BY <2>1, <2>2 DEF Visited
  <1>18. \A v \in Visited' : v \in cluster.led => Leader \in Known' \cup Asked'
    BY <1>12, <1>15, <1>17 DEF Names
  <1>19. ASSUME NEW q \in DOMAIN calls', Leader \in Range(calls'[q].ctx.hops) PROVE Reachable \cap cluster.led # {}
    <2>1. CASE q = up
      BY <1>3, <1>8, <1>19, <2>1 DEF Names, m, h, o
    <2>2. CASE q # up
      BY <1>2, <1>19, <2>2 DEF Names
    <2> QED BY <2>1, <2>2
  <1>20. Leader \in Asked' => Reachable \cap cluster.led # {}
    BY <1>15 DEF Names
  <1> QED BY <1>10, <1>11, <1>14, <1>16, <1>18, <1>19, <1>20 DEF Names

\* What the caller of the root gets.
LEMMA AnswerIs ==
  ASSUME NEW ok, NEW product, Respond(Root, ok, calls[Root].ctx, product)
  PROVE  answer'.done = TRUE /\ answer'.ok = ok /\ answer'.hops = calls[Root].ctx.hops /\ answer'.product = product
  BY DEF Respond

\* A broadcast's answer names the workers it got to.
Full(hops) ==
  /\ Once(hops, Reachable)
  /\ Leader \in Range(hops) <=> Reachable \cap cluster.led # {}

LEMMA NamesClosed ==
  ASSUME ShapeInv, Going, Names, cluster.request = "invoke", Complete(Root)
  PROVE  Full(calls[Root].ctx.hops)
  <1> DEFINE h == calls[Root].ctx.hops
  <1>1. Root \in DOMAIN calls /\ Tree /\ NoFailure /\ Spread /\ Sound
    BY DEF Going
  <1>2. DOMAIN calls = {Root} /\ Reachable = Counts \cup {cluster.entry}
    BY <1>1, Closes
  <1>3. Last(Root) = cluster.entry /\ cluster.entry \in Workers
    BY ChainsAre
  <1>4. calls[Root].open
    BY DEF Complete
  <1>5. Known = Range(h) /\ Asked = {cluster.entry}
    BY <1>2, <1>3, <1>4 DEF Known, Asked
  <1>6. IsInjective(h) /\ cluster.entry \in Range(h)
    BY <1>1, <1>3, <1>4 DEF Names, NamedIn
  <1>7. Reachable \subseteq Range(h)
    BY <1>2, <1>5, <1>6 DEF Names
  <1>8. Range(h) \cap Workers \subseteq Reachable
    <2>1. Reached = Reachable
      BY <1>2, <1>3, <1>5 DEF Reached
    <2>2. \A w \in Workers : w \in Range(h) => w \in Reached
      BY <1>1 DEF Spread, Traced, WentThroughWorker
    <2> QED BY <2>1, <2>2
  <1>9. Reachable \subseteq Workers
    BY <1>2, <1>3 DEF Counts
  <1>10. Reachable \cap cluster.led # {} => Leader \in Range(h)
    <2>1. Reachable \subseteq Visited
      BY <1>1, <1>2, <1>3, <1>4, <1>9 DEF Visited, OpenAt
    <2>2. Reachable \cap cluster.led # {} => Leader \in Known \cup Asked
      BY <2>1 DEF Names
    <2> QED BY <1>3, <1>5, <2>2, LeaderAssumption
  <1>11. Leader \in Range(h) => Reachable \cap cluster.led # {}
    BY <1>1 DEF Names
  <1> HIDE DEF h
  <1>12. Full(h)
    BY <1>6, <1>7, <1>8, <1>9, <1>10, <1>11 DEF Full, Once
  <1> QED BY <1>12 DEF h

LEMMA NamesStep ==
  ASSUME ShapeInv, DataInv, Going, Marked, Names, Local, cluster.request = "invoke", NEW p \in DOMAIN calls, Handler(p)
  PROVE  \/ Names' /\ answer' = answer
         \/ answer'.done /\ Full(answer'.hops)
  <1>1. calls[p].request \in {"invoke", "broadcast"} /\ ~calls[p].error
    BY DEF ShapeInv, Proper, Family, Going, NoFailure
  <1>2. Root \in DOMAIN calls /\ Tree /\ NoFailure /\ Spread /\ Sound
    BY DEF Going
  <1>3. CASE Invoke(p)
    <2>1. PICK made : /\ Opens(p, Observed(p), made, {}, FALSE) /\ Asks(p, Observed(p), made, {})
                      /\ calls[p].request = "invoke"
                      /\ \A w \in DOMAIN made \ {Leader} : ~WentThroughWorker(Observed(p), w)
                      /\ Leader \in DOMAIN made => ~WentThroughLeader(Observed(p))
      BY <1>3, InvokeAsks
    <2>2. Names'
      BY <2>1, NamesOpened
    <2>3. answer' = answer
      BY <1>3, GoingOpened
    <2> QED BY <2>2, <2>3
  <1>4. CASE WorkerBroadcast(p)
    <2>1. /\ Opens(p, Observed(p), << >>, cluster.led, FALSE) /\ Asks(p, Observed(p), << >>, cluster.led)
      BY <1>4, BroadcastAsks
    <2>2. DOMAIN << >> = {}
      OBVIOUS
    <2>3. Names'
      BY <2>1, <2>2, NamesOpened
    <2>4. answer' = answer
      BY <1>4, GoingOpened
    <2> QED BY <2>3, <2>4
  <1>5. ASSUME NEW w \in Workers, BroadcastNext(p, w) \/ ProxyNext(p, w) PROVE Names' /\ answer' = answer
    <2>1. IsNext(p, w) /\ UNCHANGED <<cluster, seen, handled, answer>>
      BY <1>5, GoingNext
    <2> QED BY <2>1, NamesNext
  <1>6. CASE Refuse(p)
    <2>1. /\ ~calls[p].open /\ Refused(p) /\ UNCHANGED <<cluster, seen, handled>>
          /\ Respond(p, FALSE, calls[p].ctx, calls[p].product)
      BY <1>6 DEF Refuse
    <2>2. Last(p) \in Workers /\ seen[Last(p)] # {}
      BY <2>1 DEF Refused
    <2>3. p # Root /\ Last(p) # Leader
      BY <2>1, <2>2, LeaderAssumption DEF Marked
    <2>4. handled' \in [Participants -> Nat] /\ calls[p].waits = {} /\ Counts' = Counts
      BY <1>2, <2>1 DEF ShapeInv, Tree, Counts
    <2>5. Names'
      BY <2>1, <2>3, <2>4, NamesAnswered
    <2>6. answer' = answer
      BY <2>1, <2>3 DEF Respond
    <2> QED BY <2>5, <2>6
  <1>7. CASE TriggerEvent(p) \/ PassOn(p)
    <2>1. Complete(p) /\ Respond(p, TRUE, calls[p].ctx, calls[p].product) /\ UNCHANGED <<cluster, seen>>
      BY <1>7 DEF TriggerEvent, PassOn
    <2>2. CASE p = Root
      <3>1. answer'.done /\ answer'.hops = calls[Root].ctx.hops
        BY <2>1, <2>2, AnswerIs
      <3>2. Full(calls[Root].ctx.hops)
        BY <2>1, <2>2, NamesClosed
      <3> QED BY <3>1, <3>2
    <2>3. CASE p # Root
      <3>1. Counts' = Counts \cup ({Last(p)} \cap Workers)
        BY <1>7, <2>3, InvokeHandled
      <3>2. handled' \in [Participants -> Nat]
        <4>1. CASE TriggerEvent(p)
          BY <4>1, EventIs
        <4>2. CASE PassOn(p)
          BY <4>2 DEF PassOn, ShapeInv
        <4> QED BY <1>7, <4>1, <4>2
      <3>3. calls[p].open /\ calls[p].waits = {}
        BY <2>1 DEF Complete
      <3>4. Names'
        BY <2>1, <2>3, <3>1, <3>2, <3>3, NamesAnswered
      <3>5. answer' = answer
        BY <2>1, <2>3 DEF Respond
      <3> QED BY <3>4, <3>5
    <2> QED BY <2>2, <2>3
  <1>8. ~(ProcessQuery(p) \/ WorkerProxy(p) \/ AnswerQuery(p) \/ FailOn(p) \/ TakeEffect(p) \/ LeaderTakes(p) \/ SendToLeader(p))
    BY <1>1, Zenon DEF ProcessQuery, WorkerProxy, AnswerQuery, FailOn, TakeEffect, LeaderTakes, SendToLeader
  <1> QED BY <1>3, <1>4, <1>5, <1>6, <1>7, <1>8, HandlerIs

\* On its way to the leader a request is passed to workers that did not register yet, and
\* the leader registers last.
SendNames ==
  \A q \in DOMAIN calls :
    /\ IsInjective(calls[q].ctx.hops)
    /\ ~calls[q].open => Last(q) \notin Range(calls[q].ctx.hops) /\ Leader \notin Range(calls[q].ctx.hops)

LEMMA SendNamesOpened ==
  ASSUME ShapeInv, DataInv, SendNames, Local, NEW p \in DOMAIN calls, calls[p].request # "proxied_query",
         NEW made, NEW left, NEW error, Opens(p, Observed(p), made, left, error),
         \A x \in DOMAIN made : Last(p) # Leader /\ (x # Leader => ~WentThroughWorker(Observed(p), x))
  PROVE  SendNames' /\ UNCHANGED <<cluster, answer>>
  <1> DEFINE ctx == Observed(p)  new == Made(p, made)  h == calls[p].ctx.hops  x == Last(p)
  <1>1. /\ Suits(made) /\ IsContext(ctx) /\ Open(p, ctx, made, left, error) /\ error \in BOOLEAN
    BY DEF Opens, Registers
  <1>2. /\ ShapeInv' /\ ~calls[p].open /\ ~Refused(p) /\ Record(p) /\ UNCHANGED <<cluster, handled, answer>>
        /\ IsOpened(p, ctx, made, left, error)
    BY <1>1, OpenIs, Zenon
  <1>3. /\ DOMAIN calls' = DOMAIN calls \cup new /\ calls'[p].open /\ calls'[p].ctx = ctx
        /\ \A q \in DOMAIN calls \ (new \cup {p}) : calls'[q] = calls[q]
        /\ \A y \in DOMAIN made : calls'[Append(p, y)] = Call(made[y], ctx)
    BY <1>2 DEF IsOpened
  <1>4. ctx.hops = Append(h, x)
    BY LocalObserves
  <1>5. h \in Seq(Participants) /\ x \in Participants /\ x \notin Range(h) /\ IsInjective(h) /\ Leader \notin Range(h)
    BY <1>2, ChainsAre DEF DataInv, SendNames
  <1>6. Range(ctx.hops) = Range(h) \cup {x} /\ IsInjective(ctx.hops)
    BY <1>4, <1>5, PushIs
  <1>7. ASSUME NEW q \in new
        PROVE  /\ calls'[q].ctx = ctx /\ Last(q) \notin Range(ctx.hops) /\ Leader \notin Range(ctx.hops)
    <2>1. PICK y \in DOMAIN made : q = Append(p, y)
      BY DEF Made
    <2>2. calls'[q].ctx = ctx
      BY <1>3, <2>1, CallIs
    <2>3. Last(q) = y
      BY <1>1, <2>1, ChainsAre DEF Suits
    <2>4. Leader \notin Range(ctx.hops)
      BY <1>5, <1>6
    <2>5. y \notin Range(ctx.hops)
      BY <2>4 DEF WentThroughWorker
    <2> QED BY <2>2, <2>3, <2>4, <2>5
  <1> HIDE DEF ctx, new, h, x
  <1>8. ASSUME NEW q \in DOMAIN calls'
        PROVE  /\ IsInjective(calls'[q].ctx.hops)
               /\ ~calls'[q].open => Last(q) \notin Range(calls'[q].ctx.hops) /\ Leader \notin Range(calls'[q].ctx.hops)
    <2>1. CASE q \in new
      BY <1>6, <1>7, <2>1
    <2>2. CASE q = p
      BY <1>3, <1>6, <2>2
    <2>3. CASE q \notin new /\ q # p
      BY <1>3, <2>3 DEF SendNames
    <2> QED BY <2>1, <2>2, <2>3
  <1> QED BY <1>2, <1>8 DEF SendNames

\* The answer has the names that the leader's answer had, all along the line.
LEMMA SendNamesAnswered ==
  ASSUME ShapeInv, DataInv, SendNames, Line, Effects, cluster.request = "update", NEW p \in DOMAIN calls,
         calls[p].waits = {}, NEW ok \in BOOLEAN, NEW product,
         Respond(p, ok, calls[p].ctx, product), UNCHANGED <<cluster, seen>>,
         handled' \in [Participants -> Nat]
  PROVE  /\ SendNames'
         /\ p = Root => IsInjective(answer'.hops) /\ answer'.hops \in Seq(Participants)
         /\ p # Root => answer' = answer
  <1> DEFINE up == Front(p)
  <1>1. /\ DOMAIN calls' = DOMAIN calls \ {p}
        /\ \A q \in DOMAIN calls' : /\ q # up => calls'[q] = calls[q]
                                    /\ calls'[q].open = calls[q].open
        /\ p # Root => answer' = answer
    BY RespondIs, Zenon
  <1>2. up \in DOMAIN calls' =>
          calls'[up].ctx.hops \in
            {calls[up].ctx.hops, Merged(calls[up].request, calls[up].ctx.hops, calls[p].ctx.hops)}
    BY ReturnIs
  <1>3. \A q \in DOMAIN calls' : calls[q].waits # {}
    BY <1>1, LastInLine
  <1>4. \A q \in DOMAIN calls' : calls'[q].open /\ calls[q].request = "update"
    BY <1>1, <1>3 DEF Effects, EffectAt
  <1> HIDE DEF up
  <1>5. ASSUME NEW q \in DOMAIN calls' PROVE IsInjective(calls'[q].ctx.hops)
    <2>1. CASE calls'[q].ctx.hops = calls[q].ctx.hops
      BY <1>1, <2>1 DEF SendNames
    <2>2. CASE calls'[q].ctx.hops # calls[q].ctx.hops
      <3>1. calls'[q].ctx.hops = calls[p].ctx.hops
        BY <1>1, <1>2, <1>4, <2>2 DEF Merged
      <3> QED BY <3>1 DEF SendNames
    <2> QED BY <2>1, <2>2
  <1>6. ASSUME p = Root PROVE IsInjective(answer'.hops) /\ answer'.hops \in Seq(Participants)
    <2>1. answer'.hops = calls[p].ctx.hops
      BY <1>6, AnswerIs
    <2> QED BY <2>1 DEF SendNames, DataInv
  <1> QED BY <1>1, <1>4, <1>5, <1>6 DEF SendNames

LEMMA SendNamesStep ==
  ASSUME ShapeInv, DataInv, SendNames, Line, Effects, cluster.request = "update", Local,
         NEW p \in DOMAIN calls, Handler(p)
  PROVE  /\ SendNames'
         /\ \/ answer' = answer
            \/ IsInjective(answer'.hops) /\ answer'.hops \in Seq(Participants)
  <1>1. calls[p].request \in {"update", "leader_update"}
    BY DEF ShapeInv, Proper, Family
  <1>2. EffectAt(calls[p], handled[Leader]) /\ handled \in [Participants -> Nat]
    BY DEF Effects, ShapeInv
  <1>3. CASE SendToLeader(p)
    <2>1. PICK made, error :
            /\ Opens(p, Observed(p), made, {}, error)
            /\ \/ error /\ DOMAIN made = {}
               \/ /\ ~error
                  /\ \E x \in Participants :
                       DOMAIN made = {x} /\ (x # Leader => ~WentThroughWorker(Observed(p), x))
      BY <1>3, SendsAre
    <2>2. Last(p) # Leader
      BY <1>3 DEF SendToLeader, ShapeInv, Proper, ToLeader
    <2> QED BY <1>1, <2>1, <2>2, SendNamesOpened
  <1>4. CASE LeaderTakes(p)
    <2>1. PICK error : /\ Opens(p, Observed(p), << >>, {}, error)
                       /\ DOMAIN << >> = {} /\ calls[p].request = "leader_update"
      BY <1>4, TakesIs
    <2> QED BY <1>1, <2>1, SendNamesOpened
  <1>5. CASE Refuse(p) \/ AnswerQuery(p) \/ PassOn(p) \/ FailOn(p)
    <2>1. /\ UNCHANGED <<cluster, seen, handled>>
          /\ \E ok, product :
               /\ ok \in BOOLEAN /\ Respond(p, ok, calls[p].ctx, product)
               /\ ok => Complete(p) /\ calls[p].request \notin {"invoke", "leader_update"}
               /\ ~ok => ~calls[p].open \/ calls[p].error
      BY <1>5, QuietIs
    <2>2. PICK ok, product :
               /\ ok \in BOOLEAN /\ Respond(p, ok, calls[p].ctx, product)
               /\ ok => Complete(p)
               /\ ~ok => ~calls[p].open \/ calls[p].error
      BY <2>1
    <2>3. calls[p].waits = {}
      BY <1>2, <2>2 DEF Complete, EffectAt
    <2> QED BY <1>2, <2>1, <2>2, <2>3, SendNamesAnswered
  <1>6. CASE TriggerEvent(p) \/ TakeEffect(p)
    <2>1. /\ Complete(p) /\ UNCHANGED <<cluster, seen>> /\ handled' \in [Participants -> Nat]
          /\ Respond(p, TRUE, calls[p].ctx, calls[p].product)
      BY <1>6, EventIs
    <2>2. calls[p].waits = {}
      BY <2>1 DEF Complete
    <2> QED BY <2>1, <2>2, SendNamesAnswered
  <1>7. ~(Invoke(p) \/ WorkerBroadcast(p) \/ ProcessQuery(p) \/ WorkerProxy(p))
    BY <1>1, Zenon DEF Invoke, WorkerBroadcast, ProcessQuery, WorkerProxy
  <1>8. \A w \in Workers : ~(BroadcastNext(p, w) \/ ProxyNext(p, w))
    BY <1>1, Zenon DEF BroadcastNext, ProxyNext
  <1> QED BY <1>3, <1>4, <1>5, <1>6, <1>7, <1>8, HandlerIs

NamesInv ==
  Local =>
    /\ lost = {}
    /\ cluster.request = "invoke" => IF answer.done THEN Full(answer.hops) ELSE Names
    /\ cluster.request = "update" =>
         SendNames /\ (answer.done => IsInjective(answer.hops) /\ answer.hops \in Seq(Participants))

LEMMA NamesInit ==
  ASSUME Init PROVE NamesInv
  <1>1. /\ Going /\ ~answer.done /\ Counts = {} /\ Visited = {}
        /\ DOMAIN calls = {Root} /\ ~calls[Root].open /\ calls[Root].ctx.hops = <<>>
        /\ calls[Root].waits = {} /\ calls[Root].ctx.origin = Nobody
    BY GoingInit
  <1>2. Range(<<>>) = {} /\ IsInjective(<<>>)
    BY DEF Range, IsInjective
  <1>3. Last(Root) \in Workers /\ Leader \notin Workers
    BY ShapeInit, ChainsAre, LeaderAssumption
  <1>4. Leader \notin Asked
    BY <1>1, <1>3 DEF Asked
  <1>5. \A q \in DOMAIN calls : NamedIn(q, calls[q]) /\ InTurn(q)
    BY <1>1, <1>2 DEF NamedIn, InTurn
  <1>6. Names
    BY <1>1, <1>2, <1>4, <1>5 DEF Names
  <1>7. SendNames
    BY <1>1, <1>2 DEF SendNames
  <1>8. lost = {}
    BY DEF Init
  <1> QED BY <1>1, <1>6, <1>7, <1>8 DEF NamesInv

(***************************************************************************)
(* What tests/broadcast.rs reads from the context of an answer, for every  *)
(* cluster without a network: the answer of a broadcast names every worker *)
(* it got to once, and the leader if it went through it, in whatever order *)
(* the workers answered and merged the hops (rpc/mod.rs merge_hops_unique);*)
(* on its way to the leader a request visits no worker twice.              *)
(***************************************************************************)
THEOREM AnswerNames == Spec => []AnswerNamesAll
  <1> DEFINE Inv == BroadcastInv /\ UpdateInv
  <1>1. Init => NamesInv
    BY NamesInit
  <1>2. Inv /\ Inv' /\ NamesInv /\ [Next]_vars => NamesInv'
    <2> SUFFICES ASSUME Inv, NamesInv, [Next]_vars PROVE NamesInv'
      OBVIOUS
    <2>1. ASSUME NEW p \in DOMAIN calls, Handler(p), lost' = lost PROVE NamesInv'
      <3>1. cluster' = cluster /\ ShapeInv /\ DataInv /\ InvokeInv
        BY <2>1, ClusterStays DEF BroadcastInv
      <3>2. Reachable' = Reachable
        BY <3>1, ReachableStays
      <3>3. \A h : Full(h)' <=> Full(h)
        BY <3>1, <3>2 DEF Full, Once
      <3>4. ASSUME Local, cluster.request = "invoke" PROVE IF answer'.done THEN Full(answer'.hops) ELSE Names'
        <4>1. ~answer.done /\ Going /\ Marked /\ Names
          BY <2>1, <3>1, <3>4 DEF InvokeInv, NamesInv
        <4>2. \/ Names' /\ answer' = answer
              \/ answer'.done /\ Full(answer'.hops)
          BY <2>1, <3>1, <3>4, <4>1, NamesStep
        <4> QED BY <4>1, <4>2
      <3>5. ASSUME Local, cluster.request = "update"
            PROVE  SendNames' /\ (answer'.done => IsInjective(answer'.hops) /\ answer'.hops \in Seq(Participants))
        <4>1. Line /\ Effects /\ SendNames
          BY <3>5 DEF UpdateInv, NamesInv
        <4>2. /\ SendNames'
              /\ \/ answer' = answer
                 \/ IsInjective(answer'.hops) /\ answer'.hops \in Seq(Participants)
          BY <2>1, <3>1, <3>5, <4>1, SendNamesStep
        <4> QED BY <3>5, <4>2 DEF NamesInv
      <3> QED BY <2>1, <3>1, <3>3, <3>4, <3>5 DEF NamesInv, Local
    <2>2. CASE UNCHANGED vars
      <3>1. /\ Reachable' = Reachable /\ Root' = Root /\ Counts' = Counts /\ Visited' = Visited
            /\ (Going' <=> Going)
        BY <2>2, FlowStutters, Zenon
      <3>2. /\ cluster' = cluster /\ calls' = calls /\ seen' = seen /\ handled' = handled /\ answer' = answer
            /\ lost' = lost
        BY <2>2 DEF vars
      <3>6. Names' <=> Names
        BY <3>1, <3>2 DEF Names, NamedIn, InTurn, Known, Asked
      <3>7. SendNames' <=> SendNames
        BY <3>2 DEF SendNames
      <3>8. \A h : Full(h)' <=> Full(h)
        BY <3>1, <3>2 DEF Full, Once
      <3> QED BY <3>2, <3>6, <3>7, <3>8 DEF NamesInv, Local
    <2>3. ASSUME NEW p \in DOMAIN calls, Fail(p) PROVE NamesInv'
      <3>1. IsFailed(p)
        BY <2>3, FailIs DEF BroadcastInv
      <3> QED BY <3>1 DEF IsFailed, NamesInv, Local
    <2> QED BY <2>1, <2>2, <2>3 DEF Next, Handling
  <1>3. NamesInv => AnswerNamesAll
    <2> SUFFICES ASSUME NamesInv, Local, answer.done, cluster.request \in {"invoke", "update"}
                 PROVE  /\ cluster.request = "invoke" => Full(answer.hops)
                        /\ cluster.request = "update" => Once(answer.hops, Range(answer.hops) \ {Leader})
      BY DEF AnswerNamesAll, Full
    <2>1. cluster.request = "invoke" => Full(answer.hops)
      BY DEF NamesInv
    <2>2. CASE cluster.request = "update"
      <3>1. IsInjective(answer.hops) /\ answer.hops \in Seq(Participants)
        BY <2>2 DEF NamesInv
      <3>2. Range(answer.hops) \subseteq Participants
        BY <3>1, ElementOfSeq, LenProperties DEF Range
      <3>3. Range(answer.hops) \cap Workers = Range(answer.hops) \ {Leader}
        BY <3>2, LeaderAssumption DEF Participants
      <3> QED BY <2>1, <3>1, <3>3 DEF Once
    <2> QED BY <2>1, <2>2
  <1> QED BY <1>1, <1>2, <1>3, BroadcastHolds, UpdateHolds, PTL DEF Spec

-----------------------------------------------------------------------------
(* Queries *)

(***************************************************************************)
(* The first failure of a query's call is the end of the query: a call     *)
(* that has failed, and is awaited from the root, call by call, tells the  *)
(* call that awaits it, up to the root. Until then the calls form a tree   *)
(* with no failure. The calls that are left without a caller go on, and do *)
(* not reach the root any more: no chain is gone along a second time.      *)
(***************************************************************************)
Kept ==
  \A q \in DOMAIN calls :
    /\ \A s \in calls[q].waits : Front(s) = q /\ s # Root
    /\ ~calls[q].open => calls[q].waits = {} /\ calls[q].left = {} /\ ~calls[q].error
    /\ calls[q].left \subseteq cluster.led
    /\ \A r \in DOMAIN calls : /\ ~calls[q].open /\ Begins(q, r) => r = q
                               /\ \A w \in calls[q].left : ~Begins(Append(q, w), r)

Heard == {p \in DOMAIN calls : \A S \in SUBSET DOMAIN calls : Awaits(S) => p \in S}
Doomed == Root \in DOMAIN calls /\ \E p \in Heard : calls[p].error

QueryInv ==
  cluster.request = "query" =>
    /\ Kept
    /\ IF answer.done
       THEN /\ Root \notin DOMAIN calls
            /\ answer.ok => \A w \in Workers : w \in Reachable <=> answer.product[w] > 0
       ELSE Going \/ Doomed

\* A call that is heard of is the root, or awaited by one that is.
LEMMA HeardIs ==
  ASSUME Kept, Root \in DOMAIN calls
  PROVE  /\ Root \in Heard /\ Awaits(Heard)
         /\ \A S : Awaits(S) => Heard \subseteq S
         /\ \A q \in Heard : q # Root => Front(q) \in Heard /\ q \in calls[Front(q)].waits
  <1>1. \A S : Awaits(S) => Heard \subseteq S
    <2> SUFFICES ASSUME NEW S, Awaits(S), NEW q \in Heard PROVE q \in S
      OBVIOUS
    <2>1. Awaits(S \cap DOMAIN calls)
      BY DEF Awaits
    <2>2. S \cap DOMAIN calls \in SUBSET DOMAIN calls
      OBVIOUS
    <2>3. q \in S \cap DOMAIN calls
      BY <2>1, <2>2 DEF Heard
    <2> QED BY <2>3
  <1>2. Root \in Heard
    BY DEF Heard, Awaits
  <1>3. ASSUME NEW q \in Heard, NEW s \in calls[q].waits \cap DOMAIN calls PROVE s \in Heard
    <2> SUFFICES ASSUME NEW S \in SUBSET DOMAIN calls, Awaits(S) PROVE s \in S
      BY DEF Heard
    <2>1. q \in S /\ q \in DOMAIN calls
      BY DEF Heard
    <2> QED BY <2>1 DEF Awaits
  <1>4. Awaits(Heard)
    BY <1>2, <1>3 DEF Awaits
  <1>5. ASSUME NEW q \in Heard, q # Root PROVE Front(q) \in Heard /\ q \in calls[Front(q)].waits
    <2>1. \E r \in Heard : q \in calls[r].waits
      <3>1. SUFFICES ASSUME \A r \in Heard : q \notin calls[r].waits PROVE FALSE
        OBVIOUS
      <3>2. Awaits(Heard \ {q})
        BY <1>2, <1>3, <1>5, <3>1 DEF Awaits
      <3>3. Heard \subseteq Heard \ {q}
        BY <1>1, <3>2
      <3> QED BY <3>3
    <2>2. PICK r \in Heard : q \in calls[r].waits
      BY <2>1
    <2>3. r \in DOMAIN calls
      BY DEF Heard
    <2>4. Front(q) = r
      BY <2>2, <2>3 DEF Kept
    <2> QED BY <2>2, <2>4
  <1> QED BY <1>1, <1>2, <1>4, <1>5

\* All calls of a tree are heard of.
LEMMA TreeHeard ==
  ASSUME ShapeInv, Tree
  PROVE  Heard = DOMAIN calls
  <1>1. ASSUME NEW q \in DOMAIN calls, NEW S \in SUBSET DOMAIN calls, Awaits(S) PROVE q \in S
    BY <1>1, AllAwaited
  <1> QED BY <1>1 DEF Heard

\* A call that awaits nothing and makes others, whatever became of calls it made before,
\* changes nothing for those that are heard of.
LEMMA HeardGrows ==
  ASSUME Kept, Doomed, UNCHANGED cluster, NEW r \in DOMAIN calls, calls[r].waits = {},
         DOMAIN calls \subseteq DOMAIN calls', calls'[r].error = calls[r].error \/ ~calls[r].error,
         \A q \in DOMAIN calls : q # r => calls'[q] = calls[q] \/ (Front(q) = r /\ q # Root)
  PROVE  Doomed'
  <1>1. Root' = Root /\ Root \in DOMAIN calls
    BY DEF Doomed, Root
  <1>2. /\ Awaits(Heard) /\ \A S : Awaits(S) => Heard \subseteq S
        /\ \A q \in Heard : q # Root => Front(q) \in Heard /\ q \in calls[Front(q)].waits
    BY <1>1, HeardIs
  <1>3. \A q \in Heard : q \in DOMAIN calls /\ (q # r => calls'[q] = calls[q])
    BY <1>2 DEF Heard
  <1>4. ASSUME NEW S \in SUBSET DOMAIN calls', Awaits(S)' PROVE Heard \subseteq S
    <2>1. Root \in S /\ \A q \in S \cap DOMAIN calls' : calls'[q].waits \cap DOMAIN calls' \subseteq S
      BY <1>1, <1>4 DEF Awaits
    <2>2. ASSUME NEW q \in S \cap Heard, NEW s \in calls[q].waits \cap DOMAIN calls PROVE s \in S \cap Heard
      <3>1. q # r
        BY <2>2
      <3>2. s \in S
        BY <1>3, <2>1, <2>2, <3>1
      <3>3. q \in Heard \cap DOMAIN calls /\ s \in calls[q].waits \cap DOMAIN calls
        BY <1>3, <2>2
      <3>4. s \in Heard
        BY <1>2, <3>3 DEF Awaits
      <3> QED BY <3>2, <3>4
    <2>3. Awaits(S \cap Heard)
      BY <1>2, <2>1, <2>2 DEF Awaits
    <2> QED BY <1>2, <2>3
  <1>5. Heard \subseteq Heard'
    BY <1>3, <1>4 DEF Heard
  <1>6. PICK p \in Heard : calls[p].error
    BY DEF Doomed
  <1>7. calls'[p].error
    BY <1>3, <1>6
  <1> QED BY <1>1, <1>5, <1>6, <1>7 DEF Doomed

\* Who tells a call that awaits it that it has failed passes the failure on.
LEMMA FailureTold ==
  ASSUME ShapeInv, Kept, cluster.request = "query", UNCHANGED <<cluster, seen>>, handled' \in [Participants -> Nat],
         NEW p \in DOMAIN calls, p # Root, p \in Heard, Root \in DOMAIN calls,
         NEW product, Respond(p, FALSE, calls[p].ctx, product)
  PROVE  Doomed'
  <1> DEFINE up == Front(p)
  <1>1. Root' = Root
    BY DEF Root
  <1>2. /\ Awaits(Heard) /\ \A S : Awaits(S) => Heard \subseteq S
        /\ \A q \in Heard : q # Root => Front(q) \in Heard /\ q \in calls[Front(q)].waits
    BY HeardIs
  <1>3. /\ DOMAIN calls' = DOMAIN calls \ {p}
        /\ \A q \in DOMAIN calls' : q # up => calls'[q] = calls[q]
    BY RespondIs, Zenon
  <1>4. up \in Heard /\ p \in calls[up].waits /\ up \in DOMAIN calls /\ up \in Seq(Participants) /\ p \in Seq(Participants)
    BY <1>2 DEF Heard, ShapeInv, Proper
  <1>5. up # p
    <2>1. p # <<>>
      BY DEF ShapeInv, Proper
    <2> QED BY <1>4, <2>1, FrontDiffers
  <1> HIDE DEF up
  <1>6. up \in DOMAIN calls' /\ Root \in DOMAIN calls'
    BY <1>3, <1>4, <1>5
  <1>7. calls[up].request \in {"query", "proxied_query"}
    BY <1>4 DEF ShapeInv, Proper, Family
  <1>8. calls'[up].error
    <2>1. calls'[up].error <=>
            calls[up].error \/ (~FALSE /\ calls[up].request \notin {"invoke", "broadcast"})
      BY <1>4, <1>6, RespondIs, Zenon DEF up
    <2> QED BY <1>7, <2>1
  <1>9. ASSUME NEW S \in SUBSET DOMAIN calls', Awaits(S)', up \notin S PROVE FALSE
    <2>1. Root \in S /\ \A q \in S \cap DOMAIN calls' : calls'[q].waits \cap DOMAIN calls' \subseteq S
      BY <1>1, <1>9 DEF Awaits
    <2>2. ASSUME NEW q \in S, NEW s \in calls[q].waits \cap DOMAIN calls PROVE s \in S
      <3>1. q # up /\ q \in DOMAIN calls' /\ calls'[q] = calls[q] /\ q \in DOMAIN calls
        BY <1>3, <1>9
      <3>2. Front(s) = q
        BY <3>1 DEF Kept
      <3>3. s # p
        BY <3>1, <3>2 DEF up
      <3> QED BY <1>3, <2>1, <3>1, <3>3
    <2>3. Awaits(S)
      BY <2>1, <2>2 DEF Awaits
    <2> QED BY <1>2, <1>4, <1>9, <2>3
  <1>10. up \in Heard'
    BY <1>6, <1>9 DEF Heard
  <1> QED BY <1>1, <1>6, <1>8, <1>10 DEF Doomed

\* A failure that is heard of is not lost when another call is answered.
LEMMA DoomedAnswered ==
  ASSUME ShapeInv, Kept, Doomed, cluster.request = "query", UNCHANGED <<cluster, seen>>,
         handled' \in [Participants -> Nat], NEW p \in DOMAIN calls, p # Root,
         NEW ok \in BOOLEAN, NEW product, Respond(p, ok, calls[p].ctx, product),
         ok \/ ~calls[p].open => calls[p].waits = {} /\ ~calls[p].error
  PROVE  Doomed'
  <1> DEFINE up == Front(p)
  <1>1. Root' = Root /\ Root \in DOMAIN calls
    BY DEF Doomed, Root
  <1>2. /\ Awaits(Heard) /\ \A S : Awaits(S) => Heard \subseteq S
        /\ \A q \in Heard : q # Root => Front(q) \in Heard /\ q \in calls[Front(q)].waits
    BY <1>1, HeardIs
  <1>3. /\ DOMAIN calls' = DOMAIN calls \ {p}
        /\ \A q \in DOMAIN calls' : q # up => calls'[q] = calls[q]
        /\ up \in DOMAIN calls' => /\ calls'[up].waits = calls[up].waits \ {p}
                                   /\ calls[up].error => calls'[up].error
    BY RespondIs, Zenon
  <1>4. CASE p \in Heard /\ ~ok
    BY <1>1, <1>4, FailureTold
  <1>5. CASE p \notin Heard \/ ok
    <2>1. p \in Heard => calls[p].waits = {} /\ ~calls[p].error
      BY <1>5
    <2>2. ASSUME NEW q \in DOMAIN calls'
          PROVE  /\ q \in DOMAIN calls /\ q # p
                 /\ calls[q].waits \cap DOMAIN calls' \subseteq calls'[q].waits
                 /\ calls[q].error => calls'[q].error
      <3> HIDE DEF up
      <3> QED BY <1>3
    <2>3. ASSUME NEW S \in SUBSET DOMAIN calls', Awaits(S)' PROVE Heard \ {p} \subseteq S
      <3> DEFINE T == (S \cap Heard) \cup ({p} \cap Heard)
      <3>1. Root \in S /\ \A q \in S \cap DOMAIN calls' : calls'[q].waits \cap DOMAIN calls' \subseteq S
        BY <1>1, <2>3 DEF Awaits
      <3>2. ASSUME NEW q \in T \cap DOMAIN calls, NEW s \in calls[q].waits \cap DOMAIN calls PROVE s \in T
        <4>1. s \in Heard
          BY <1>2, <3>2 DEF Awaits
        <4>2. q # p
          BY <2>1, <3>2
        <4>3. CASE s = p
          BY <4>1, <4>3
        <4>4. CASE s # p
          <5>1. q \in S /\ q \in DOMAIN calls' /\ s \in DOMAIN calls'
            BY <1>3, <3>2, <4>2, <4>4
          <5>2. s \in S
            BY <2>2, <3>1, <3>2, <5>1
          <5> QED BY <4>1, <5>2
        <4> QED BY <4>3, <4>4
      <3>3. Root \in T
        BY <1>2, <3>1 DEF Awaits
      <3> HIDE DEF T
      <3>4. Awaits(T)
        BY <3>2, <3>3 DEF Awaits
      <3>5. Heard \subseteq T
        BY <1>2, <3>4
      <3> QED BY <3>5 DEF T
    <2>4. Heard \ {p} \subseteq Heard'
      <3>1. Heard \subseteq DOMAIN calls
        BY DEF Heard
      <3> QED BY <1>3, <2>3, <3>1 DEF Heard
    <2>5. PICK q \in Heard : calls[q].error
      BY DEF Doomed
    <2>6. q # p /\ q \in DOMAIN calls
      BY <2>1, <2>5 DEF Heard
    <2>7. q \in DOMAIN calls' /\ Root \in DOMAIN calls'
      BY <1>1, <1>3, <2>6
    <2>8. q \in Heard' /\ calls'[q].error
      BY <2>2, <2>4, <2>5, <2>6, <2>7
    <2> QED BY <1>1, <2>7, <2>8 DEF Doomed
  <1> QED BY <1>4, <1>5

\* A call that nobody hears of any more is none the less one of those its participant began.
LEMMA KeptFailed ==
  ASSUME ShapeInv, Kept, NEW p, IsFailed(p)
  PROVE  Kept'
  <1> DEFINE up == Front(p)
  <1>1. /\ cluster' = cluster /\ up \in DOMAIN calls' /\ p \in calls[up].waits
        /\ DOMAIN calls' \subseteq DOMAIN calls
        /\ \A q \in DOMAIN calls' : q # up => calls'[q] = calls[q]
        /\ IsTold(calls[up], p, FALSE, calls[p].ctx, calls[p].product, calls'[up])
    BY DEF IsFailed
  <1> HIDE DEF up
  <1>2. /\ calls'[up].open = calls[up].open /\ calls'[up].left = calls[up].left
        /\ calls'[up].waits \subseteq calls[up].waits
    BY <1>1 DEF IsTold
  <1>3. up \in DOMAIN calls /\ calls[up].open
    BY <1>1 DEF Kept
  <1>4. Root' = Root
    BY <1>1 DEF Root
  <1>5. ASSUME NEW q \in DOMAIN calls'
        PROVE  /\ \A s \in calls'[q].waits : Front(s) = q /\ s # Root
               /\ ~calls'[q].open => calls'[q].waits = {} /\ calls'[q].left = {} /\ ~calls'[q].error
               /\ calls'[q].left \subseteq cluster.led
               /\ \A r \in DOMAIN calls' : /\ ~calls'[q].open /\ Begins(q, r) => r = q
                                           /\ \A w \in calls'[q].left : ~Begins(Append(q, w), r)
    <2>1. q \in DOMAIN calls
      BY <1>1
    <2>2. CASE q = up
      BY <1>1, <1>2, <1>3, <2>1, <2>2 DEF Kept
    <2>3. CASE q # up
      BY <1>1, <2>1, <2>3 DEF Kept
    <2> QED BY <2>2, <2>3
  <1> QED BY <1>1, <1>4, <1>5 DEF Kept

\* A query hears of a call that failed on the network, unless nobody waited for who made it.
LEMMA FailureHeard ==
  ASSUME ShapeInv, Kept, cluster.request = "query", NEW p, IsFailed(p), Root \in DOMAIN calls,
         Doomed \/ Heard = DOMAIN calls
  PROVE  Doomed'
  <1> DEFINE up == Front(p)
  <1>1. /\ cluster' = cluster /\ p # Root /\ p \in DOMAIN calls /\ up \in DOMAIN calls' /\ p \in calls[up].waits
        /\ DOMAIN calls' \in {DOMAIN calls, DOMAIN calls \ {p}}
        /\ \A q \in DOMAIN calls' : q # up => calls'[q] = calls[q]
        /\ IsTold(calls[up], p, FALSE, calls[p].ctx, calls[p].product, calls'[up])
    BY DEF IsFailed
  <1>2. /\ Root \in Heard /\ Awaits(Heard) /\ \A S : Awaits(S) => Heard \subseteq S
    BY HeardIs
  <1>3. /\ Root' = Root /\ Root \in DOMAIN calls' /\ up \in DOMAIN calls
    BY <1>1 DEF Root
  <1>4. CASE up \in Heard
    <2>1. calls[up].request \in {"query", "proxied_query"}
      BY <1>3 DEF ShapeInv, Proper, Family
    <2>2. calls'[up].error
      BY <1>1, <2>1 DEF IsTold
    <2>3. ASSUME NEW S \in SUBSET DOMAIN calls', Awaits(S)', up \notin S PROVE FALSE
      <3>1. Root \in S /\ \A q \in S \cap DOMAIN calls' : calls'[q].waits \cap DOMAIN calls' \subseteq S
        BY <1>3, <2>3 DEF Awaits
      <3>2. ASSUME NEW q \in S, NEW s \in calls[q].waits \cap DOMAIN calls PROVE s \in S
        <4>1. q # up /\ q \in DOMAIN calls' /\ calls'[q] = calls[q] /\ q \in DOMAIN calls
          BY <1>1, <2>3
        <4>2. Front(s) = q
          BY <4>1 DEF Kept
        <4>3. s # p
          BY <4>1, <4>2
        <4> QED BY <1>1, <3>1, <4>1, <4>3
      <3>3. Awaits(S)
        BY <3>1, <3>2 DEF Awaits
      <3> QED BY <1>2, <1>4, <2>3, <3>3
    <2>4. up \in Heard'
      BY <1>1, <2>3 DEF Heard
    <2> QED BY <1>3, <2>2, <2>4 DEF Doomed
  <1>5. CASE up \notin Heard
    <2> HIDE DEF up
    <2>1. Doomed
      BY <1>3, <1>5
    <2>2. ASSUME p \in Heard PROVE FALSE
      <3>1. Front(p) \in Heard
        BY <1>1, <2>2, HeardIs
      <3> QED BY <1>5, <3>1 DEF up
    <2>3. \A q \in Heard : q \in DOMAIN calls' /\ calls'[q] = calls[q]
      <3>1. Heard \subseteq DOMAIN calls
        BY DEF Heard
      <3> QED BY <1>1, <1>5, <2>2, <3>1
    <2>4. ASSUME NEW S \in SUBSET DOMAIN calls', Awaits(S)' PROVE Heard \subseteq S
      <3>1. Root \in S /\ \A q \in S \cap DOMAIN calls' : calls'[q].waits \cap DOMAIN calls' \subseteq S
        BY <1>3, <2>4 DEF Awaits
      <3>2. ASSUME NEW q \in S \cap Heard, NEW s \in calls[q].waits \cap DOMAIN calls PROVE s \in S \cap Heard
        <4>1. s \in Heard
          BY <1>2, <3>2 DEF Awaits, Heard
        <4>2. s \in DOMAIN calls' /\ s \in calls'[q].waits
          BY <2>3, <3>2, <4>1
        <4> QED BY <3>1, <3>2, <4>1, <4>2
      <3>3. Awaits(S \cap Heard)
        BY <1>2, <3>1, <3>2 DEF Awaits
      <3> QED BY <1>2, <3>3
    <2>5. Heard \subseteq Heard'
      BY <2>3, <2>4 DEF Heard
    <2>6. PICK q \in Heard : calls[q].error
      BY <2>1 DEF Doomed
    <2> QED BY <1>3, <2>3, <2>5, <2>6 DEF Doomed
  <1> QED BY <1>4, <1>5

LEMMA KeptOpened ==
  ASSUME ShapeInv, Kept, NEW p \in DOMAIN calls, ~calls[p].open, UNCHANGED cluster,
         NEW ctx, NEW made, NEW left, IsOpened(p, ctx, made, left, FALSE), Suits(made),
         Asks(p, ctx, made, left)
  PROVE  /\ Kept'
         /\ DOMAIN calls \subseteq DOMAIN calls' /\ Root \notin Made(p, made)
         /\ ~calls'[p].error /\ \A q \in DOMAIN calls : q # p => calls'[q] = calls[q]
  <1> DEFINE new == Made(p, made)
  <1>1. /\ DOMAIN calls' = DOMAIN calls \cup new /\ calls'[p].open /\ calls'[p].waits = new
        /\ calls'[p].left = left /\ ~calls'[p].error
        /\ \A q \in DOMAIN calls \ (new \cup {p}) : calls'[q] = calls[q]
        /\ p \notin new
    BY DEF IsOpened
  <1>2. \A q \in new : \E x \in DOMAIN made : q = Append(p, x) /\ calls'[q] = Call(made[x], ctx)
    BY DEF IsOpened, Made
  <1>3. ASSUME NEW q \in new
        PROVE  /\ \E x \in Participants : q = Append(p, x)
               /\ Front(q) = p /\ q # Root /\ q \in Seq(Participants)
               /\ ~calls'[q].open /\ calls'[q].waits = {} /\ calls'[q].left = {} /\ ~calls'[q].error
    <2>1. PICK x \in DOMAIN made : q = Append(p, x) /\ calls'[q] = Call(made[x], ctx)
      BY <1>2
    <2>2. x \in Participants
      BY DEF Suits
    <2> QED BY <2>1, <2>2, ChainsAre, CallIs
  <1>4. \A q \in DOMAIN calls : q \in Seq(Participants) /\ (Begins(p, q) => q = p)
    BY ChainsAre DEF Kept
  <1>5. ASSUME NEW x \in Participants, NEW q \in Seq(Participants)
        PROVE  /\ Begins(p, Append(p, x)) /\ ~Begins(Append(p, x), p)
               /\ Begins(q, Append(p, x)) => q = Append(p, x) \/ Begins(q, p)
               /\ Begins(Append(p, x), q) => Begins(p, q)
    BY <1>4, BeginsIs
  <1>6. new \cap DOMAIN calls = {}
    <2> SUFFICES ASSUME NEW q \in new, q \in DOMAIN calls PROVE FALSE
      OBVIOUS
    <2>1. PICK x \in Participants : q = Append(p, x)
      BY <1>3
    <2>2. Begins(p, q)
      BY <1>4, <1>5, <2>1
    <2> QED BY <1>1, <1>4, <2>2
  <1>7. left \subseteq cluster.led /\ (left = {} \/ new = {}) /\ cluster.led \subseteq Participants
    BY DEF Asks, ShapeInv, ClusterType, Participants, Made
  <1>8. Root' = Root
    BY DEF Root
  <1> HIDE DEF new
  <1>9. \A q \in DOMAIN calls : q # p => calls'[q] = calls[q]
    BY <1>1, <1>6
  <1>10. ASSUME NEW q \in DOMAIN calls'
         PROVE  /\ \A s \in calls'[q].waits : Front(s) = q /\ s # Root
                /\ ~calls'[q].open => calls'[q].waits = {} /\ calls'[q].left = {} /\ ~calls'[q].error
                /\ calls'[q].left \subseteq cluster.led
    <2>1. CASE q \in new
      BY <1>3, <2>1
    <2>2. CASE q = p
      BY <1>1, <1>3, <1>7, <2>2
    <2>3. CASE q \in DOMAIN calls /\ q # p
      BY <1>9, <2>3 DEF Kept
    <2> QED BY <1>1, <2>1, <2>2, <2>3
  <1>11. ASSUME NEW q \in DOMAIN calls', NEW r \in DOMAIN calls', ~calls'[q].open, Begins(q, r) PROVE r = q
    <2>1. CASE q \in new
      <3>1. PICK x \in Participants : q = Append(p, x)
        BY <1>3, <2>1
      <3>2. CASE r \in new
        <4>1. PICK y \in Participants : r = Append(p, y)
          BY <1>3, <3>2
        <4>2. q \in Seq(Participants)
          BY <1>3, <2>1
        <4>3. q = r \/ Begins(q, p)
          BY <1>5, <1>11, <4>1, <4>2
        <4>4. ~Begins(q, p)
          BY <1>5, <3>1, <4>2
        <4> QED BY <4>3, <4>4
      <3>3. CASE r \in DOMAIN calls
        BY <1>4, <1>5, <1>11, <3>1, <3>3
      <3> QED BY <1>1, <3>2, <3>3
    <2>2. CASE q \in DOMAIN calls
      <3>1. q # p /\ ~calls[q].open
        BY <1>1, <1>9, <1>11, <2>2
      <3>2. CASE r \in new
        <4>1. PICK x \in Participants : r = Append(p, x)
          BY <1>3, <3>2
        <4>2. q = r \/ Begins(q, p)
          BY <1>4, <1>5, <1>11, <2>2, <4>1
        <4> QED BY <2>2, <3>1, <4>2 DEF Kept
      <3>3. CASE r \in DOMAIN calls
        BY <1>11, <2>2, <3>1, <3>3 DEF Kept
      <3> QED BY <1>1, <3>2, <3>3
    <2> QED BY <1>1, <2>1, <2>2
  <1>12. ASSUME NEW q \in DOMAIN calls', NEW r \in DOMAIN calls', NEW w \in calls'[q].left,
                Begins(Append(q, w), r)
         PROVE  FALSE
    <2>1. w \in Participants
      BY <1>7, <1>10
    <2>2. CASE q \in new
      BY <1>3, <2>2
    <2>3. CASE q = p
      <3>1. new = {} /\ r \in DOMAIN calls
        BY <1>1, <1>7, <2>3
      <3> QED BY <1>4, <1>5, <1>12, <2>1, <2>3, <3>1
    <2>4. CASE q \in DOMAIN calls /\ q # p
      <3>1. w \in calls[q].left
        BY <1>9, <2>4
      <3>2. CASE r \in DOMAIN calls
        BY <1>12, <2>4, <3>1, <3>2 DEF Kept
      <3>3. CASE r \in new
        <4>1. PICK x \in Participants : r = Append(p, x)
          BY <1>3, <3>3
        <4>2. Append(q, w) \in Seq(Participants) /\ Front(Append(q, w)) = q /\ Front(r) = p
          BY <1>3, <2>1, <2>4, <3>3, ChainsAre
        <4>3. Append(q, w) = r \/ Begins(Append(q, w), p)
          BY <1>5, <1>12, <4>1, <4>2
        <4> QED BY <2>4, <3>1, <4>2, <4>3 DEF Kept
      <3> QED BY <1>1, <3>2, <3>3
    <2> QED BY <1>1, <2>2, <2>3, <2>4
  <1>13. Root \notin new
    BY <1>3
  <1> QED BY <1>1, <1>8, <1>9, <1>10, <1>11, <1>12, <1>13 DEF Kept, new

LEMMA KeptNext ==
  ASSUME ShapeInv, Kept, NEW p \in DOMAIN calls, NEW w \in Workers, ProxyNext(p, w)
  PROVE  /\ Kept' /\ IsNext(p, w) /\ Root \notin DOMAIN calls' \ DOMAIN calls
         /\ Append(p, w) \notin DOMAIN calls
  <1> DEFINE new == Append(p, w)
  <1>1. calls[p].open /\ calls[p].waits = {} /\ w \in calls[p].left /\ ~calls[p].error /\ cluster' = cluster
    BY DEF ProxyNext
  <1>2. /\ w \in Participants /\ new \in Seq(Participants) /\ Front(new) = p /\ new # Root /\ Root' = Root
    BY <1>1, ChainsAre DEF Participants, Root
  <1>3. \A q \in DOMAIN calls : q \in Seq(Participants) /\ ~Begins(new, q)
    BY <1>1, ChainsAre DEF Kept
  <1>4. ASSUME NEW q \in Seq(Participants)
        PROVE  /\ Begins(new, new)
               /\ Begins(q, new) => q = new \/ Begins(q, p)
    BY <1>2, <1>3, BeginsIs
  <1>5. new \notin DOMAIN calls
    BY <1>3, <1>4
  <1>6. IsNext(p, w)
    BY <1>5, GoesNext
  <1> HIDE DEF new
  <1>7. /\ p \in DOMAIN calls' /\ calls'[p].open /\ calls'[p].left = calls[p].left \ {w}
        /\ calls'[p].error = calls[p].error
        /\ \A q \in DOMAIN calls \ {p} : q \in DOMAIN calls' /\ calls'[q] = calls[q]
        /\ (DOMAIN calls' = DOMAIN calls /\ calls'[p].waits = {}) \/ NextCall(p, w)
    BY <1>6 DEF IsNext
  <1>8. ASSUME NextCall(p, w)
        PROVE  /\ DOMAIN calls' = DOMAIN calls \cup {new} /\ calls'[p].waits = {new}
               /\ ~calls'[new].open /\ ~calls'[new].error /\ calls'[new].waits = {} /\ calls'[new].left = {}
    <2>1. /\ DOMAIN calls' = DOMAIN calls \cup {new} /\ calls'[p].waits = {new}
          /\ \E request, ctx : calls'[new] = Call(request, ctx)
      BY <1>8 DEF NextCall, new
    <2> QED BY <2>1, CallIs
  <1>9. \A q \in DOMAIN calls' : q \in DOMAIN calls \/ (q = new /\ NextCall(p, w))
    BY <1>7, <1>8
  <1>10. ASSUME NEW q \in DOMAIN calls'
         PROVE  /\ \A s \in calls'[q].waits : Front(s) = q /\ s # Root
                /\ ~calls'[q].open => calls'[q].waits = {} /\ calls'[q].left = {} /\ ~calls'[q].error
                /\ calls'[q].left \subseteq cluster.led
    <2>1. CASE q = p
      BY <1>2, <1>7, <1>8, <2>1 DEF Kept
    <2>2. CASE q # p /\ q \in DOMAIN calls
      BY <1>7, <2>2 DEF Kept
    <2>3. CASE q # p /\ q \notin DOMAIN calls
      BY <1>8, <1>9, <2>3
    <2> QED BY <2>1, <2>2, <2>3
  <1>11. ASSUME NEW q \in DOMAIN calls', NEW r \in DOMAIN calls', ~calls'[q].open, Begins(q, r) PROVE r = q
    <2>1. CASE q \in DOMAIN calls
      <3>1. q # p /\ ~calls[q].open
        BY <1>7, <1>11, <2>1
      <3>2. CASE r \in DOMAIN calls
        BY <1>11, <2>1, <3>1, <3>2 DEF Kept
      <3>3. CASE r = new
        <4>1. Begins(q, p)
          BY <1>3, <1>4, <1>5, <1>11, <2>1, <3>3
        <4> QED BY <2>1, <3>1, <4>1 DEF Kept
      <3> QED BY <1>9, <3>2, <3>3
    <2>2. CASE q = new
      BY <1>3, <1>9, <1>11, <2>2
    <2> QED BY <1>9, <2>1, <2>2
  <1>12. ASSUME NEW q \in DOMAIN calls', NEW r \in DOMAIN calls', NEW v \in calls'[q].left,
                Begins(Append(q, v), r)
         PROVE  FALSE
    <2>1. q \in DOMAIN calls /\ v \in calls[q].left /\ (q = p => v # w)
      BY <1>7, <1>8, <1>9
    <2>2. v \in Participants
      BY <2>1 DEF Kept, ShapeInv, ClusterType, Participants
    <2>3. CASE r \in DOMAIN calls
      BY <1>12, <2>1, <2>3 DEF Kept
    <2>4. CASE r = new
      <3>1. /\ Append(q, v) \in Seq(Participants) /\ Front(Append(q, v)) = q /\ Last(Append(q, v)) = v
            /\ Last(new) = w
        BY <1>2, <2>1, <2>2, ChainsAre DEF new
      <3>2. Append(q, v) = new \/ Begins(Append(q, v), p)
        BY <1>4, <1>12, <2>4, <3>1
      <3>3. Append(q, v) # new
        BY <1>2, <2>1, <3>1
      <3> QED BY <2>1, <3>2, <3>3 DEF Kept
    <2> QED BY <1>9, <2>3, <2>4
  <1>13. Root \notin DOMAIN calls' \ DOMAIN calls
    BY <1>2, <1>9
  <1> QED BY <1>1, <1>2, <1>5, <1>6, <1>10, <1>11, <1>12, <1>13 DEF Kept, new

LEMMA KeptAnswered ==
  ASSUME ShapeInv, Kept, NEW p \in DOMAIN calls, NEW ok \in BOOLEAN, NEW product,
         Respond(p, ok, calls[p].ctx, product), UNCHANGED <<cluster, seen, handled>>
  PROVE  /\ Kept' /\ DOMAIN calls' = DOMAIN calls \ {p} /\ (p # Root => answer' = answer)
         /\ Front(p) \in DOMAIN calls' => calls[Front(p)].open
  <1> DEFINE up == Front(p)
  <1>1. handled' \in [Participants -> Nat] /\ UNCHANGED <<cluster, seen>>
    BY DEF ShapeInv
  <1>20. /\ DOMAIN calls' = DOMAIN calls \ {p}
         /\ \A q \in DOMAIN calls' : /\ q # up => calls'[q] = calls[q]
                                     /\ calls'[q].open = calls[q].open /\ calls'[q].left = calls[q].left
         /\ up \in DOMAIN calls' => calls'[up].waits = calls[up].waits \ {p}
    BY <1>1, RespondIs, Zenon
  <1>21. p # Root => answer' = answer
    BY DEF Respond
  <1>2. /\ DOMAIN calls' = DOMAIN calls \ {p}
        /\ \A q \in DOMAIN calls' : /\ q # up => calls'[q] = calls[q]
                                    /\ calls'[q].open = calls[q].open /\ calls'[q].left = calls[q].left
        /\ up \in DOMAIN calls' => calls'[up].waits = calls[up].waits \ {p}
        /\ p # Root => answer' = answer
    BY <1>20, <1>21
  <1>3. ASSUME up \in DOMAIN calls' PROVE calls[up].open
    <2>1. p \in Seq(Participants) /\ p # <<>>
      BY DEF ShapeInv, Proper
    <2>2. Begins(up, p) /\ up # p
      BY <2>1, FrontBegins, FrontDiffers
    <2> HIDE DEF up
    <2> QED BY <1>2, <1>3, <2>2 DEF Kept
  <1> HIDE DEF up
  <1>4. Root' = Root
    BY DEF Root
  <1>5. ASSUME NEW q \in DOMAIN calls'
        PROVE  /\ \A s \in calls'[q].waits : Front(s) = q /\ s # Root
               /\ ~calls'[q].open => calls'[q].waits = {} /\ calls'[q].left = {} /\ ~calls'[q].error
               /\ calls'[q].left \subseteq cluster.led
               /\ \A r \in DOMAIN calls' : /\ ~calls'[q].open /\ Begins(q, r) => r = q
                                           /\ \A w \in calls'[q].left : ~Begins(Append(q, w), r)
    <2>1. q \in DOMAIN calls /\ DOMAIN calls' \subseteq DOMAIN calls
      BY <1>2
    <2>2. CASE q = up
      BY <1>2, <1>3, <2>1, <2>2 DEF Kept
    <2>3. CASE q # up
      BY <1>2, <2>1, <2>3 DEF Kept
    <2> QED BY <2>2, <2>3
  <1> QED BY <1>2, <1>3, <1>4, <1>5 DEF Kept, up

\* What a participant adds to the product when it answers a query.
Part(p, w) == IF w = Last(p) THEN 1 ELSE 0

\* A query's call is opened, answered or refused, or the leader goes on to its next worker.
LEMMA QueryHandler ==
  ASSUME ShapeInv, DataInv, cluster.request = "query", NEW p \in DOMAIN calls, Handler(p)
  PROVE  /\ calls[p].request \in {"query", "proxied_query"}
         /\ \/ ProcessQuery(p) \/ WorkerProxy(p)
            \/ \E w \in Workers : ProxyNext(p, w)
            \/ /\ UNCHANGED <<cluster, seen, handled>>
               /\ \E ok \in BOOLEAN, product \in [Workers -> Nat] :
                    /\ Respond(p, ok, calls[p].ctx, product)
                    /\ ok => /\ Complete(p)
                             /\ \A w \in Workers : product[w] = calls[p].product[w] + Part(p, w)
                    /\ ~ok => ~calls[p].open \/ calls[p].error
  <1>1. calls[p].request \in {"query", "proxied_query"}
    BY DEF ShapeInv, Proper, Family
  <1>2. ~(Invoke(p) \/ WorkerBroadcast(p) \/ LeaderTakes(p) \/ SendToLeader(p) \/ TriggerEvent(p) \/ TakeEffect(p))
    BY <1>1 DEF Invoke, WorkerBroadcast, LeaderTakes, SendToLeader, TriggerEvent, TakeEffect
  <1>3. \A w \in Workers : ~BroadcastNext(p, w)
    BY <1>1 DEF BroadcastNext
  <1>4. calls[p].product \in [Workers -> Nat]
    BY DEF DataInv
  <1>5. CASE AnswerQuery(p)
    <2> DEFINE more == [calls[p].product EXCEPT ![Last(p)] = @ + 1]
    <2>1. UNCHANGED <<cluster, seen, handled>> /\ Respond(p, TRUE, calls[p].ctx, more) /\ Complete(p)
      BY <1>5 DEF AnswerQuery
    <2>2. \A w \in Workers : more[w] = calls[p].product[w] + Part(p, w) /\ more[w] \in Nat
      BY <1>4 DEF Part
    <2>3. more = [w \in Workers |-> more[w]]
      BY <1>4
    <2> HIDE DEF more
    <2>4. more \in [Workers -> Nat]
      BY <2>2, <2>3
    <2> QED BY <1>1, <2>1, <2>2, <2>4
  <1>6. CASE PassOn(p)
    <2>1. UNCHANGED <<cluster, seen, handled>> /\ Respond(p, TRUE, calls[p].ctx, calls[p].product) /\ Complete(p)
      BY <1>6 DEF PassOn
    <2>2. Last(p) = Leader
      BY <1>1, <1>6 DEF PassOn, ShapeInv, Proper, ToLeader
    <2>3. \A w \in Workers : calls[p].product[w] = calls[p].product[w] + Part(p, w)
      BY <1>4, <2>2, LeaderAssumption DEF Part
    <2> QED BY <1>1, <1>4, <2>1, <2>3
  <1>7. CASE Refuse(p) \/ FailOn(p)
    <2>1. /\ UNCHANGED <<cluster, seen, handled>> /\ Respond(p, FALSE, calls[p].ctx, calls[p].product)
          /\ ~calls[p].open \/ calls[p].error
      BY <1>7 DEF Refuse, FailOn
    <2> QED BY <1>1, <1>4, <2>1
  <1>8. \/ ProcessQuery(p) \/ WorkerProxy(p) \/ AnswerQuery(p) \/ PassOn(p) \/ Refuse(p) \/ FailOn(p)
        \/ \E w \in Workers : ProxyNext(p, w)
    BY <1>2, <1>3, HandlerIs
  <1> QED BY <1>1, <1>5, <1>6, <1>7, <1>8

\* What a call's answer adds to the products is what counts then.
LEMMA SummedOn ==
  ASSUME ShapeInv, DataInv, Tree, cluster.request = "query", NEW p \in DOMAIN calls, p # Root,
         NEW product \in [Workers -> Nat], Respond(p, TRUE, calls[p].ctx, product),
         UNCHANGED <<cluster, seen, handled>>,
         \A w \in Workers : product[w] = calls[p].product[w] + Part(p, w)
  PROVE  Counts' = Counts \cup ({Last(p)} \cap Workers)
  <1> DEFINE up == Front(p)
  <1>1. handled' \in [Participants -> Nat]
    BY DEF ShapeInv
  <1>2. /\ DOMAIN calls' = DOMAIN calls \ {p}
        /\ \A q \in DOMAIN calls' : q # up => calls'[q] = calls[q]
    BY <1>1, RespondIs
  <1>3. up \in DOMAIN calls'
    <2>1. p \in Seq(Participants) /\ p # <<>> /\ up \in DOMAIN calls
      BY DEF ShapeInv, Proper, Tree
    <2>2. up # p
      BY <2>1, FrontDiffers
    <2> QED BY <1>2, <2>1, <2>2
  <1>4. calls'[up].product = [w \in Workers |-> calls[up].product[w] + product[w]]
    <2>1. LET told == calls'[up]  heard == TRUE /\ p \in calls[up].waits
          IN  told.product = IF heard THEN [w \in Workers |-> calls[up].product[w] + product[w]]
                             ELSE calls[up].product
      BY <1>3, ReturnIs
    <2>2. p \in calls[up].waits
      BY DEF Tree
    <2> QED BY <2>1, <2>2
  <1>5. \A q \in DOMAIN calls, w \in Workers : calls[q].product[w] \in Nat
    BY DEF DataInv
  <1> HIDE DEF up
  <1>6. ASSUME NEW w \in Workers
        PROVE  calls'[up].product[w] = calls[up].product[w] + calls[p].product[w] + Part(p, w)
    <2>1. calls'[up].product[w] = calls[up].product[w] + product[w]
      BY <1>4
    <2>2. up \in DOMAIN calls /\ calls[up].product[w] \in Nat /\ calls[p].product[w] \in Nat
      BY <1>2, <1>3, <1>5
    <2> QED BY <2>1, <2>2 DEF Part
  <1>7. ASSUME NEW w \in Workers
        PROVE  (\E q \in DOMAIN calls' : calls'[q].product[w] > 0)
               <=> (\E q \in DOMAIN calls : calls[q].product[w] > 0) \/ w = Last(p)
    <2>1. up \in DOMAIN calls /\ calls[up].product[w] \in Nat /\ calls[p].product[w] \in Nat
      BY <1>2, <1>3, <1>5
    <2> DEFINE a == calls[up].product[w]  b == calls[p].product[w]  c == calls'[up].product[w]
    <2>2. c > 0 <=> a > 0 \/ b > 0 \/ w = Last(p)
      <3>1. a \in Nat /\ b \in Nat /\ c = a + b + Part(p, w)
        BY <1>6, <2>1
      <3> HIDE DEF a, b, c
      <3> QED BY <3>1 DEF Part
    <2>3. ASSUME NEW q \in DOMAIN calls, calls[q].product[w] > 0
          PROVE  \E r \in DOMAIN calls' : calls'[r].product[w] > 0
      <3>1. CASE q \in {p, up}
        <4>1. c > 0
          BY <2>2, <2>3, <3>1
        <4> QED BY <1>3, <4>1
      <3>2. CASE q \notin {p, up}
        <4>1. q \in DOMAIN calls' /\ calls'[q] = calls[q]
          BY <1>2, <3>2
        <4> QED BY <2>3, <4>1
      <3> QED BY <3>1, <3>2
    <2>4. ASSUME NEW q \in DOMAIN calls', calls'[q].product[w] > 0
          PROVE  (\E r \in DOMAIN calls : calls[r].product[w] > 0) \/ w = Last(p)
      <3>1. CASE q = up
        BY <2>1, <2>2, <2>4, <3>1
      <3>2. CASE q # up
        <4>1. q \in DOMAIN calls /\ calls'[q] = calls[q]
          BY <1>2, <3>2
        <4> QED BY <2>4, <4>1
      <3> QED BY <3>1, <3>2
    <2>5. w = Last(p) => \E r \in DOMAIN calls' : calls'[r].product[w] > 0
      BY <1>3, <2>2
    <2> QED BY <2>3, <2>4, <2>5
  <1> QED BY <1>7 DEF Counts

LEMMA QueryOpened ==
  ASSUME ShapeInv, DataInv, QueryInv, cluster.request = "query", NEW p \in DOMAIN calls,
         ProcessQuery(p) \/ WorkerProxy(p)
  PROVE  /\ Kept' /\ UNCHANGED <<cluster, handled, answer>>
         /\ Root \in DOMAIN calls' => Root \in DOMAIN calls
         /\ Going \/ Doomed => Going' \/ Doomed'
  <1>1. PICK ctx, made, left : Opens(p, ctx, made, left, FALSE) /\ Asks(p, ctx, made, left)
    BY SpreadsAre
  <1>2. Suits(made) /\ IsContext(ctx) /\ Open(p, ctx, made, left, FALSE)
    BY <1>1 DEF Opens, Registers
  <1>3. /\ ~calls[p].open /\ UNCHANGED <<cluster, handled, answer>>
        /\ IsOpened(p, ctx, made, left, FALSE)
    <2>1. FALSE \in BOOLEAN
      OBVIOUS
    <2>2. /\ ShapeInv' /\ ~calls[p].open /\ ~Refused(p) /\ Record(p) /\ UNCHANGED <<cluster, handled, answer>>
          /\ IsOpened(p, ctx, made, left, FALSE)
      BY <1>2, <2>1, OpenIs, Zenon
    <2> QED BY <2>2
  <1>4. Kept
    BY DEF QueryInv
  <1>5. /\ Kept' /\ DOMAIN calls \subseteq DOMAIN calls' /\ Root \notin Made(p, made)
        /\ ~calls'[p].error /\ \A q \in DOMAIN calls : q # p => calls'[q] = calls[q]
    BY <1>1, <1>2, <1>3, <1>4, KeptOpened
  <1>6. DOMAIN calls' = DOMAIN calls \cup Made(p, made)
    BY <1>3 DEF IsOpened
  <1>7. Going => Going'
    BY GoingOpened
  <1>8. ASSUME Doomed PROVE Doomed'
    <2>1. calls[p].waits = {} /\ ~calls[p].error
      BY <1>3, <1>4 DEF Kept
    <2> QED BY <1>3, <1>4, <1>5, <1>8, <2>1, HeardGrows
  <1> QED BY <1>3, <1>5, <1>6, <1>7, <1>8

LEMMA QueryNext ==
  ASSUME ShapeInv, DataInv, QueryInv, cluster.request = "query", NEW p \in DOMAIN calls, NEW w \in Workers,
         ProxyNext(p, w)
  PROVE  /\ Kept' /\ UNCHANGED <<cluster, handled, answer>>
         /\ Root \in DOMAIN calls' => Root \in DOMAIN calls
         /\ Going \/ Doomed => Going' \/ Doomed'
  <1>1. Kept
    BY DEF QueryInv
  <1>2. Kept' /\ IsNext(p, w) /\ Root \notin DOMAIN calls' \ DOMAIN calls
    BY <1>1, KeptNext
  <1>3. UNCHANGED <<cluster, handled, answer>> /\ calls[p].waits = {}
    BY DEF ProxyNext
  <1>4. /\ p \in DOMAIN calls' /\ calls'[p].error = calls[p].error
        /\ \A q \in DOMAIN calls \ {p} : q \in DOMAIN calls' /\ calls'[q] = calls[q]
    BY <1>2 DEF IsNext
  <1>5. DOMAIN calls \subseteq DOMAIN calls'
    BY <1>4
  <1>6. Going => Going'
    BY GoingNext
  <1>7. Doomed => Doomed'
    BY <1>1, <1>3, <1>4, <1>5, HeardGrows
  <1> QED BY <1>2, <1>3, <1>6, <1>7

\* What a call of a query is answered, or the caller of the query is.
LEMMA QueryAnswered ==
  ASSUME ShapeInv, DataInv, QueryInv, cluster.request = "query", NEW p \in DOMAIN calls,
         UNCHANGED <<cluster, seen, handled>>,
         NEW ok \in BOOLEAN, NEW product \in [Workers -> Nat], Respond(p, ok, calls[p].ctx, product),
         ok => Complete(p) /\ \A w \in Workers : product[w] = calls[p].product[w] + Part(p, w),
         ~ok => ~calls[p].open \/ calls[p].error
  PROVE  QueryInv'
  <1>1. Kept /\ handled' \in [Participants -> Nat]
    BY DEF QueryInv, ShapeInv
  <1>2. Kept' /\ DOMAIN calls' = DOMAIN calls \ {p} /\ (p # Root => answer' = answer)
    BY <1>1, KeptAnswered
  <1>3. Root' = Root /\ Reachable' = Reachable /\ cluster'.request = "query"
    BY ReachableStays
  <1>4. CASE answer.done
    <2>1. Root \notin DOMAIN calls
      BY <1>4 DEF QueryInv
    <2>2. answer' = answer /\ Root \notin DOMAIN calls'
      BY <1>2, <2>1
    <2> QED BY <1>2, <1>3, <1>4, <2>2 DEF QueryInv
  <1>5. CASE ~answer.done /\ p # Root
    <2>1. Going \/ Doomed
      BY <1>5 DEF QueryInv
    <2>2. CASE Doomed
      <3>1. ok \/ ~calls[p].open => calls[p].waits = {} /\ ~calls[p].error
        BY <1>1 DEF Complete, Kept
      <3>2. Doomed'
        BY <1>1, <1>5, <2>2, <3>1, DoomedAnswered
      <3> QED BY <1>2, <1>3, <1>5, <3>2 DEF QueryInv
    <2>3. CASE Going /\ ~ok
      <3>1. Tree /\ Root \in DOMAIN calls
        BY <2>3 DEF Going
      <3>2. p \in Heard
        BY <3>1, TreeHeard
      <3>3. Doomed'
        BY <1>1, <1>5, <2>3, <3>1, <3>2, FailureTold
      <3> QED BY <1>2, <1>3, <1>5, <3>3 DEF QueryInv
    <2>4. CASE Going /\ ok
      <3>1. calls[p].open /\ calls[p].waits = {} /\ calls[p].left = {} /\ Tree
        BY <2>4 DEF Complete, Going
      <3>2. Counts' = Counts \cup ({Last(p)} \cap Workers)
        BY <1>5, <2>4, <3>1, SummedOn
      <3>3. p \in OpenAt(Last(p))
        BY <3>1 DEF OpenAt
      <3>4. Counts' \subseteq Visited
        BY <3>2, <3>3 DEF Visited, Counts
      <3>5. Going'
        BY <1>1, <1>5, <2>4, <3>1, <3>2, <3>4, GoingAnswered
      <3> QED BY <1>2, <1>3, <1>5, <3>5 DEF QueryInv
    <2> QED BY <2>1, <2>2, <2>3, <2>4
  <1>6. CASE ~answer.done /\ p = Root
    <2>1. Going \/ Doomed
      BY <1>6 DEF QueryInv
    <2>2. answer'.done /\ answer'.ok = ok /\ answer'.product = product /\ Root \notin DOMAIN calls'
      BY <1>2, <1>6, AnswerIs
    <2>3. CASE ~ok
      BY <1>2, <1>3, <2>2, <2>3 DEF QueryInv
    <2>4. CASE ok
      <3>1. Complete(Root) /\ calls[Root].waits = {} /\ ~calls[Root].error /\ Root \in DOMAIN calls
        BY <1>6, <2>4 DEF Complete
      <3>2. ~Doomed
        <4>1. Awaits({Root})
          BY <3>1 DEF Awaits
        <4>2. Heard \subseteq {Root}
          BY <3>1, <4>1 DEF Heard
        <4> QED BY <3>1, <4>2 DEF Doomed
      <3>3. DOMAIN calls = {Root} /\ Reachable = Counts \cup {cluster.entry}
        BY <2>1, <3>1, <3>2, Closes DEF Going
      <3>4. Last(Root) = cluster.entry /\ cluster.entry \in Workers
        BY ChainsAre
      <3>5. ASSUME NEW w \in Workers PROVE w \in Reachable <=> product[w] > 0
        <4>1. w \in Counts <=> calls[Root].product[w] > 0
          BY <3>3 DEF Counts
        <4>2. calls[Root].product[w] \in Nat /\ product[w] = calls[Root].product[w] + Part(Root, w)
          BY <1>6, <2>4 DEF DataInv
        <4> QED BY <3>3, <3>4, <4>1, <4>2 DEF Part
      <3> QED BY <1>2, <1>3, <2>2, <3>5 DEF QueryInv
    <2> QED BY <2>3, <2>4
  <1> QED BY <1>4, <1>5, <1>6

LEMMA QueryFails ==
  ASSUME ShapeInv, QueryInv, NEW p, IsFailed(p) PROVE QueryInv'
  <1>1. UNCHANGED <<cluster, answer>> /\ DOMAIN calls' \subseteq DOMAIN calls
    BY DEF IsFailed
  <1>2. Root' = Root /\ Reachable' = Reachable
    BY <1>1, ReachableStays
  <1>3. SUFFICES ASSUME cluster.request = "query" PROVE QueryInv'
    BY <1>1 DEF QueryInv
  <1>4. Kept /\ Kept'
    BY <1>3, KeptFailed DEF QueryInv
  <1>5. CASE answer.done
    BY <1>1, <1>2, <1>3, <1>4, <1>5 DEF QueryInv
  <1>6. CASE ~answer.done
    <2>1. Going \/ Doomed
      BY <1>3, <1>6 DEF QueryInv
    <2>2. Root \in DOMAIN calls /\ (Doomed \/ Heard = DOMAIN calls)
      BY <2>1, TreeHeard DEF Going, Doomed
    <2>3. Doomed'
      BY <1>3, <1>4, <2>2, FailureHeard
    <2> QED BY <1>1, <1>3, <1>4, <1>6, <2>3 DEF QueryInv
  <1> QED BY <1>5, <1>6

LEMMA QueryStep ==
  ASSUME ShapeInv, DataInv, QueryInv, NEW p \in DOMAIN calls, Handler(p), cluster' = cluster
  PROVE  QueryInv'
  <1>1. CASE cluster.request # "query"
    BY <1>1 DEF QueryInv
  <1>2. CASE cluster.request = "query"
    <2>1. Reachable' = Reachable /\ Root' = Root
      BY ReachableStays
    <2>2. ASSUME Kept', answer' = answer, Root \in DOMAIN calls' => Root \in DOMAIN calls,
                 Going \/ Doomed => Going' \/ Doomed'
          PROVE  QueryInv'
      BY <1>2, <2>1, <2>2 DEF QueryInv
    <2>3. CASE ProcessQuery(p) \/ WorkerProxy(p)
      BY <1>2, <2>2, <2>3, QueryOpened
    <2>4. CASE \E w \in Workers : ProxyNext(p, w)
      BY <1>2, <2>2, <2>4, QueryNext
    <2>5. CASE /\ UNCHANGED <<cluster, seen, handled>>
               /\ \E ok \in BOOLEAN, product \in [Workers -> Nat] :
                    /\ Respond(p, ok, calls[p].ctx, product)
                    /\ ok => /\ Complete(p)
                             /\ \A w \in Workers : product[w] = calls[p].product[w] + Part(p, w)
                    /\ ~ok => ~calls[p].open \/ calls[p].error
      BY <1>2, <2>5, QueryAnswered
    <2> QED BY <1>2, <2>3, <2>4, <2>5, QueryHandler
  <1> QED BY <1>1, <1>2

(***************************************************************************)
(* If no worker has peers a query takes one way: the worker it enters at   *)
(* asks the leader, and the leader every other worker it knows, which asks *)
(* nobody. A worker's part is in the leader's product once its call has    *)
(* been answered, and the leader does not call it again; the part of the   *)
(* worker the query enters at is added at the end only.                    *)
(***************************************************************************)
Alone == cluster.request = "query" /\ \A x \in Workers : cluster.peers[x] = {}
AtLeader == Append(Root, Leader)
Empty(c) == \A w \in Workers : c.product[w] = 0
OnceIn(product) == \A w \in Workers : product[w] <= 1

AtEntry(c, asked) ==
  /\ c.request = "query" /\ OnceIn(c.product) /\ c.product[cluster.entry] = 0
  /\ ~c.open \/ AtLeader \in asked => Empty(c)
Proxied(c, asked) ==
  /\ c.request = "proxied_query" /\ OnceIn(c.product)
  /\ cluster.entry \in Range(c.ctx.hops) /\ cluster.entry \notin c.left /\ c.product[cluster.entry] = 0
  /\ \A w \in Workers : c.product[w] = 1 => w \notin c.left /\ Append(AtLeader, w) \notin asked
  /\ ~c.open => Empty(c)
AskedByLeader(p, c) ==
  /\ \E w \in Workers \ {cluster.entry} : p = Append(AtLeader, w)
  /\ c.request = "query" /\ c.ctx.origin = Leader /\ c.waits = {} /\ Empty(c)

\* Call p is c, and the calls of the set asked are there.
PartAt(p, c, asked) ==
  /\ p = Root => AtEntry(c, asked)
  /\ p = AtLeader => Proxied(c, asked)
  /\ p \notin {Root, AtLeader} => AskedByLeader(p, c)
Parts == \A p \in DOMAIN calls : PartAt(p, calls[p], DOMAIN calls)

PartsInv == Alone => Parts /\ (answer.done /\ answer.ok => OnceIn(answer.product))

\* Where the calls of such a query are.
LEMMA PlacesAre ==
  ASSUME ShapeInv
  PROVE  /\ cluster.entry \in Workers /\ Last(Root) = cluster.entry
         /\ AtLeader # Root /\ Front(AtLeader) = Root /\ Last(AtLeader) = Leader
         /\ Front(Root) \notin DOMAIN calls
         /\ \A w \in Participants :
              LET q == Append(AtLeader, w)
              IN  q # Root /\ q # AtLeader /\ Front(q) = AtLeader /\ Last(q) = w /\ Begins(q, q)
  <1>1. /\ Root \in Seq(Participants) /\ Len(Root) = 1 /\ Last(Root) = cluster.entry /\ cluster.entry \in Workers
    BY ChainsAre
  <1>2. Leader \in Participants
    BY DEF Participants
  <1>3. /\ AtLeader \in Seq(Participants) /\ AtLeader # Root /\ Len(AtLeader) = Len(Root) + 1
        /\ Last(AtLeader) = Leader /\ Front(AtLeader) = Root
    <2>1. /\ Append(Root, Leader) \in Seq(Participants) /\ Append(Root, Leader) # Root
          /\ Len(Append(Root, Leader)) = Len(Root) + 1
          /\ Last(Append(Root, Leader)) = Leader /\ Front(Append(Root, Leader)) = Root
      <3>1. ASSUME NEW r \in Seq(Participants), NEW x \in Participants
            PROVE  /\ Append(r, x) \in Seq(Participants) /\ Append(r, x) # r /\ Len(Append(r, x)) = Len(r) + 1
                   /\ Last(Append(r, x)) = x /\ Front(Append(r, x)) = r
        BY ChainGrows
      <3> QED BY <1>1, <1>2, <3>1
    <2> QED BY <2>1 DEF AtLeader
  <1>4. ASSUME NEW w \in Participants
        PROVE  LET q == Append(AtLeader, w)
               IN  q # Root /\ q # AtLeader /\ Front(q) = AtLeader /\ Last(q) = w /\ Begins(q, q)
    <2> DEFINE q == Append(AtLeader, w)
    <2>1. /\ q \in Seq(Participants) /\ q # AtLeader /\ Front(q) = AtLeader /\ Last(q) = w
          /\ Len(q) = Len(AtLeader) + 1
      BY <1>3, ChainGrows, Zenon
    <2>2. q # Root
      <3> DEFINE n == Len(q)  m == Len(AtLeader)  k == Len(Root)
      <3>1. n = m + 1 /\ m = k + 1 /\ k = 1
        BY <1>1, <1>3, <2>1
      <3> HIDE DEF n, m, k
      <3>2. n # k
        BY <3>1
      <3> QED BY <3>2 DEF n, k
    <2> HIDE DEF q
    <2>3. Begins(q, q)
      BY <1>2, <2>1, BeginsIs
    <2> USE DEF q
    <2> QED BY <2>1, <2>2, <2>3
  <1>5. Front(Root) \notin DOMAIN calls
    <2> DEFINE n == Len(Root)
    <2>1. n = 1
      BY <1>1
    <2> HIDE DEF n
    <2>2. n - 1 = 0
      BY <2>1
    <2>3. Front(Root) = SubSeq(Root, 1, 0)
      BY <2>2 DEF Front, n
    <2>4. SubSeq(Root, 1, 0) = <<>>
      BY <1>1, SubSeqProperties
    <2> QED BY <2>3, <2>4 DEF ShapeInv, Proper
  <1> QED BY <1>1, <1>3, <1>4, <1>5

\* What is where stays when the cluster does.
LEMMA PlacesStay ==
  ASSUME cluster' = cluster
  PROVE  /\ AtLeader' = AtLeader /\ Root' = Root /\ (Alone' <=> Alone)
         /\ (\A q \in DOMAIN calls' : PartAt(q, calls'[q], DOMAIN calls')) => Parts'
  <1>1. AtLeader' = AtLeader /\ Root' = Root /\ (Alone' <=> Alone)
    BY DEF AtLeader, Root, Alone
  <1>2. ASSUME NEW q \in DOMAIN calls', PartAt(q, calls'[q], DOMAIN calls')
        PROVE  PartAt(q, calls[q], DOMAIN calls)'
    BY <1>1, <1>2 DEF PartAt, AtEntry, Proxied, AskedByLeader, Empty, OnceIn
  <1> QED BY <1>1, <1>2 DEF Parts

LEMMA PartsOpened ==
  ASSUME ShapeInv, DataInv, Kept, Alone, Parts, NEW p \in DOMAIN calls, ProcessQuery(p) \/ WorkerProxy(p)
  PROVE  Parts' /\ answer' = answer
  <1>0. /\ cluster.entry \in Workers /\ Last(Root) = cluster.entry
        /\ AtLeader # Root /\ Front(AtLeader) = Root /\ Last(AtLeader) = Leader
        /\ cluster.request = "query" /\ Leader \notin Workers
    BY PlacesAre, LeaderAssumption DEF Alone
  <1>1. Observed(p).origin = calls[p].ctx.origin /\ Registers(calls[p].ctx, Observed(p), Last(p))
    BY ObservedIs, ObservedRegisters
  <1>2. PICK ctx, made, left :
          /\ Opens(p, ctx, made, left, FALSE) /\ Asks(p, ctx, made, left)
          /\ \/ /\ calls[p].request = "query" /\ left = {}
                /\ \/ /\ DOMAIN made = {Leader} /\ ~WentThroughLeader(Observed(p))
                      /\ ctx.hops = Append(Observed(p).hops, Last(p))
                   \/ DOMAIN made = Peers(p)
             \/ /\ calls[p].request = "proxied_query" /\ DOMAIN made = {}
                /\ ctx = Observed(p) /\ left = cluster.led \ Range(ctx.hops)
    <2>1. CASE ProcessQuery(p)
      BY <2>1, QueryAsks, Zenon
    <2>2. CASE WorkerProxy(p)
      <3>1. DOMAIN << >> = {}
        OBVIOUS
      <3> QED BY <2>2, <3>1, ProxyAsks
    <2> QED BY <2>1, <2>2
  <1>3. Suits(made) /\ IsContext(ctx) /\ Open(p, ctx, made, left, FALSE)
    BY <1>2 DEF Opens, Registers
  <1>4. /\ ShapeInv' /\ ~calls[p].open /\ UNCHANGED <<cluster, handled, answer>>
        /\ IsOpened(p, ctx, made, left, FALSE)
    <2>1. FALSE \in BOOLEAN
      OBVIOUS
    <2>2. /\ ShapeInv' /\ ~calls[p].open /\ ~Refused(p) /\ Record(p) /\ UNCHANGED <<cluster, handled, answer>>
          /\ IsOpened(p, ctx, made, left, FALSE)
      BY <1>3, <2>1, OpenIs, Zenon
    <2> QED BY <2>2
  <1>5. \A q \in DOMAIN calls : q # p => calls'[q] = calls[q]
    BY <1>2, <1>3, <1>4, KeptOpened
  <1>6. /\ DOMAIN calls' = DOMAIN calls \cup Made(p, made)
        /\ calls'[p].request = calls[p].request /\ calls'[p].ctx = ctx /\ calls'[p].waits = Made(p, made)
        /\ calls'[p].left = left /\ calls'[p].product = calls[p].product /\ calls'[p].open
        /\ \A x \in DOMAIN made : calls'[Append(p, x)] = Call(made[x], ctx)
    BY <1>4 DEF IsOpened
  <1>7. SUFFICES ASSUME NEW q \in DOMAIN calls' PROVE PartAt(q, calls'[q], DOMAIN calls')
    BY <1>4, PlacesStay
  <1>8. CASE p = Root
    <2>1. AtEntry(calls[p], DOMAIN calls) /\ calls[p].request = "query" /\ Empty(calls[p])
      BY <1>4, <1>8 DEF Parts, PartAt, AtEntry
    <2>2. Peers(p) = {}
      BY <1>0, <1>8 DEF Alone, Peers
    <2>3. AtEntry(calls'[p], DOMAIN calls')
      BY <1>6, <2>1 DEF AtEntry, Empty
    <2>4. CASE DOMAIN made = {Leader} /\ ctx.hops = Append(Observed(p).hops, Last(p))
      <3>1. Made(p, made) = {AtLeader} /\ calls'[AtLeader] = Call(made[Leader], ctx)
        BY <1>6, <1>8, <2>4 DEF Made, AtLeader
      <3> DEFINE c == calls'[AtLeader]
      <3>2. /\ c.request = made[Leader] /\ c.ctx = ctx /\ ~c.open /\ c.left = {}
            /\ c.product = [w \in Workers |-> 0]
        BY <3>1, CallIs
      <3>3. made[Leader] = "proxied_query"
        <4>1. made[Leader] \in Family /\ ToLeader(made[Leader])
          BY <1>3, <2>4 DEF Suits
        <4> QED BY <1>0, <4>1 DEF Family, ToLeader
      <3>4. cluster.entry \in Range(ctx.hops)
        <4>1. Observed(p).hops \in Seq(Participants) /\ Last(p) \in Participants
          BY <1>1, ChainsAre DEF Registers, DataInv
        <4>2. Range(ctx.hops) = Range(Observed(p).hops) \cup {Last(p)}
          BY <2>4, <4>1, PushIs
        <4> QED BY <1>0, <1>8, <4>2
      <3>5. Empty(c) /\ c.product[cluster.entry] = 0 /\ OnceIn(c.product)
            /\ \A w \in Workers : c.product[w] # 1
        BY <1>0, <3>2 DEF Empty, OnceIn
      <3>6. Proxied(c, DOMAIN calls')
        BY <3>2, <3>3, <3>4, <3>5 DEF Proxied
      <3> HIDE DEF c
      <3>7. q \notin {Root, AtLeader} => AskedByLeader(q, calls'[q])
        <4>1. q \notin {Root, AtLeader} => q \in DOMAIN calls /\ calls'[q] = calls[q]
          BY <1>5, <1>6, <1>8, <3>1
        <4> QED BY <4>1 DEF Parts, PartAt
      <3> QED BY <1>0, <1>8, <2>3, <3>6, <3>7 DEF PartAt, c
    <2>5. CASE DOMAIN made = {}
      <3>1. DOMAIN calls' = DOMAIN calls
        BY <1>6, <2>5 DEF Made
      <3>2. q # Root => PartAt(q, calls'[q], DOMAIN calls')
        BY <1>5, <1>8, <3>1 DEF Parts
      <3> QED BY <1>0, <1>8, <2>3, <3>2 DEF PartAt
    <2> QED BY <1>2, <2>1, <2>2, <2>4, <2>5
  <1>9. CASE p # Root
    <2>1. DOMAIN made = {}
      <3>1. CASE calls[p].request = "query"
        <4>1. p # AtLeader
          BY <3>1 DEF Parts, PartAt, Proxied
        <4>2. AskedByLeader(p, calls[p])
          BY <1>9, <4>1 DEF Parts, PartAt
        <4>3. WentThroughLeader(Observed(p))
          BY <1>1, <4>2 DEF AskedByLeader, WentThroughLeader
        <4>4. Last(p) \in Workers
          BY <4>2, PlacesAre DEF AskedByLeader, Participants
        <4>5. Peers(p) = {}
          BY <4>4 DEF Peers, Alone
        <4> QED BY <1>2, <3>1, <4>3, <4>5
      <3>2. CASE calls[p].request # "query"
        BY <1>2, <3>2
      <3> QED BY <3>1, <3>2
    <2>2. DOMAIN calls' = DOMAIN calls /\ calls'[p].waits = {}
      BY <1>6, <2>1 DEF Made
    <2>3. ASSUME p = AtLeader PROVE Proxied(calls'[p], DOMAIN calls')
      <3>1. Proxied(calls[p], DOMAIN calls) /\ Empty(calls[p])
        BY <1>4, <1>9, <2>3 DEF Parts, PartAt, Proxied
      <3>2. ctx = Observed(p) /\ left = cluster.led \ Range(ctx.hops) /\ calls[p].request = "proxied_query"
        BY <1>2, <3>1 DEF Proxied
      <3>3. ctx = calls[p].ctx
        BY <1>0, <2>3, <3>2 DEF Observed
      <3> DEFINE c == calls'[p]
      <3>4. /\ c.request = "proxied_query" /\ c.ctx = calls[p].ctx /\ c.open /\ c.left = left
            /\ c.product = calls[p].product
        BY <1>6, <3>2, <3>3
      <3> HIDE DEF c
      <3>5. \A w \in Workers : c.product[w] # 1
        BY <3>1, <3>4 DEF Empty
      <3>6. Proxied(c, DOMAIN calls')
        BY <3>1, <3>2, <3>3, <3>4, <3>5 DEF Proxied
      <3> QED BY <3>6 DEF c
    <2>4. ASSUME p # AtLeader PROVE AskedByLeader(p, calls'[p])
      <3>1. AskedByLeader(p, calls[p])
        BY <1>9, <2>4 DEF Parts, PartAt
      <3>2. ctx.origin = calls[p].ctx.origin
        BY <1>2 DEF Opens, Registers
      <3> QED BY <1>6, <2>2, <3>1, <3>2 DEF AskedByLeader, Empty
    <2>5. q # p => PartAt(q, calls'[q], DOMAIN calls')
      BY <1>5, <2>2 DEF Parts
    <2> QED BY <1>9, <2>3, <2>4, <2>5 DEF PartAt
  <1> QED BY <1>8, <1>9

LEMMA PartsNext ==
  ASSUME ShapeInv, Kept, Alone, Parts, NEW p \in DOMAIN calls, NEW w \in Workers, ProxyNext(p, w)
  PROVE  Parts' /\ answer' = answer
  <1>1. /\ AtLeader # Root /\ cluster.entry \in Workers
        /\ \A v \in Workers : LET q == Append(AtLeader, v) IN q # Root /\ q # AtLeader /\ Last(q) = v
    BY PlacesAre DEF Participants
  <1>2. UNCHANGED <<cluster, answer>> /\ calls[p].request = "proxied_query" /\ calls[p].open /\ w \in calls[p].left
    BY DEF ProxyNext
  <1>3. p = AtLeader /\ Proxied(calls[p], DOMAIN calls)
    BY <1>2 DEF Parts, PartAt, AtEntry, AskedByLeader
  <1> DEFINE new == Append(p, w)
             x == Context(new, Leader, Unlimited, <<>>)
             d == Call("query", x)
  <1>4. /\ new \notin DOMAIN calls
        /\ calls'[p].product = calls[p].product /\ calls'[p].ctx = calls[p].ctx
        /\ calls'[p].left = calls[p].left \ {w} /\ calls'[p].open
        /\ calls'[p].request = calls[p].request
        /\ \A q \in DOMAIN calls \ {p} : q \in DOMAIN calls' /\ calls'[q] = calls[q]
    BY KeptNext DEF IsNext
  <1>5. DOMAIN calls' = DOMAIN calls \cup {new} /\ calls'[new] = d
    <2> DEFINE c == [calls[p] EXCEPT !.left = calls[p].left \ {w}, !.waits = {new}]
    <2>1. calls' = Adding(p, c, new, d)
      BY Zenon DEF ProxyNext
    <2>2. new # p
      BY <1>4
    <2> HIDE DEF c, new, d
    <2> QED BY <1>4, <2>1, <2>2 DEF Adding
  <1>6. AskedByLeader(new, d)
    <2>1. x.origin = Leader
      BY DEF Context
    <2> HIDE DEF x
    <2>2. /\ d.request = "query" /\ d.ctx = x /\ d.waits = {}
          /\ d.product = [v \in Workers |-> 0]
      BY CallIs
    <2>3. w # cluster.entry
      BY <1>2, <1>3 DEF Proxied
    <2> HIDE DEF d
    <2> QED BY <1>3, <2>1, <2>2, <2>3 DEF AskedByLeader, Empty
  <1> HIDE DEF x, d
  <1>7. new # Root /\ new # AtLeader
    BY <1>1, <1>3
  <1>8. Proxied(calls'[p], DOMAIN calls')
    <2> DEFINE c == calls'[p]
    <2>1. \A v \in Workers : c.product[v] = 1 => v # w
      BY <1>2, <1>3, <1>4 DEF Proxied
    <2>2. \A v \in Workers : v # w => Append(AtLeader, v) # new
      BY <1>1, <1>3
    <2>3. /\ c.product = calls[p].product /\ c.ctx = calls[p].ctx /\ c.left = calls[p].left \ {w} /\ c.open
          /\ c.request = calls[p].request
      BY <1>4
    <2> HIDE DEF c, new
    <2>4. Proxied(c, DOMAIN calls')
      BY <1>3, <1>5, <2>1, <2>2, <2>3 DEF Proxied
    <2> QED BY <2>4 DEF c
  <1> HIDE DEF new
  <1>9. SUFFICES ASSUME NEW q \in DOMAIN calls' PROVE PartAt(q, calls'[q], DOMAIN calls')
    BY <1>2, PlacesStay
  <1>10. CASE q = p
    BY <1>1, <1>3, <1>8, <1>10 DEF PartAt
  <1>11. CASE q = new
    BY <1>5, <1>6, <1>7, <1>11 DEF PartAt
  <1>12. CASE q \in DOMAIN calls /\ q # p
    <2>1. calls'[q] = calls[q] /\ PartAt(q, calls[q], DOMAIN calls)
      BY <1>4, <1>12 DEF Parts
    <2>2. AtLeader \in DOMAIN calls
      BY <1>3
    <2> QED BY <1>3, <1>12, <2>1, <2>2 DEF PartAt, AtEntry
  <1> QED BY <1>5, <1>10, <1>11, <1>12

LEMMA PartsAnswered ==
  ASSUME ShapeInv, DataInv, Kept, Alone, Parts, NEW p \in DOMAIN calls,
         UNCHANGED <<cluster, seen, handled>>,
         NEW ok \in BOOLEAN, NEW product \in [Workers -> Nat], Respond(p, ok, calls[p].ctx, product),
         ok => \A w \in Workers : product[w] = calls[p].product[w] + Part(p, w)
  PROVE  Parts' /\ (answer' = answer \/ (answer'.ok => OnceIn(answer'.product)))
  <1>1. /\ AtLeader # Root /\ Front(AtLeader) = Root /\ Last(AtLeader) = Leader
        /\ cluster.entry \in Workers /\ Last(Root) = cluster.entry /\ Front(Root) \notin DOMAIN calls
        /\ \A w \in Workers :
             LET q == Append(AtLeader, w) IN q # Root /\ q # AtLeader /\ Front(q) = AtLeader /\ Last(q) = w /\ Begins(q, q)
    BY PlacesAre DEF Participants
  <1>2. /\ DOMAIN calls' = DOMAIN calls \ {p} /\ (p # Root => answer' = answer)
        /\ Front(p) \in DOMAIN calls' => calls[Front(p)].open
    BY KeptAnswered
  <1>3. handled' \in [Participants -> Nat]
    BY DEF ShapeInv
  <1>4. \A q \in DOMAIN calls' : /\ q # Front(p) => calls'[q] = calls[q]
                                 /\ calls'[q].open = calls[q].open /\ calls'[q].request = calls[q].request
                                 /\ calls'[q].left = calls[q].left
    BY <1>3, RespondIs, Zenon
  <1>5. \A q \in DOMAIN calls : \A w \in Workers : calls[q].product[w] \in Nat
    BY DEF DataInv
  <1>6. ASSUME p = Root PROVE answer'.ok => OnceIn(answer'.product)
    <2>1. answer'.ok = ok /\ answer'.product = product
      BY <1>6, AnswerIs
    <2>2. AtEntry(calls[p], DOMAIN calls)
      BY <1>6 DEF Parts, PartAt
    <2>3. ASSUME ok, NEW w \in Workers PROVE product[w] <= 1
      <3>1. product[w] = calls[p].product[w] + Part(p, w) /\ calls[p].product[w] \in Nat
        BY <1>5, <2>3
      <3>2. calls[p].product[w] <= 1 /\ (w = Last(p) => calls[p].product[w] = 0)
        BY <1>1, <1>6, <2>2 DEF AtEntry, OnceIn
      <3> QED BY <3>1, <3>2 DEF Part
    <2> QED BY <2>1, <2>3 DEF OnceIn
  <1>7. ASSUME NEW q \in DOMAIN calls' PROVE PartAt(q, calls'[q], DOMAIN calls')
    <2>1. q \in DOMAIN calls /\ PartAt(q, calls[q], DOMAIN calls) /\ DOMAIN calls' \subseteq DOMAIN calls
      BY <1>2 DEF Parts
    <2>2. CASE q # Front(p)
      <3>1. calls'[q] = calls[q]
        BY <1>4, <2>2
      <3> QED BY <2>1, <3>1 DEF PartAt, AtEntry, Proxied
    <2>3. CASE q = Front(p)
      <3> DEFINE c == calls'[q]
      <3> DEFINE heard == ok /\ p \in calls[q].waits
      <3>1. /\ c.product = IF heard THEN [w \in Workers |-> calls[q].product[w] + product[w]] ELSE calls[q].product
            /\ c.ctx.hops = IF heard THEN Merged(calls[q].request, calls[q].ctx.hops, calls[p].ctx.hops)
                            ELSE calls[q].ctx.hops
        BY <2>3, ReturnIs
      <3>2. c.open /\ c.request = calls[q].request /\ c.left = calls[q].left
        BY <1>2, <1>4, <2>3
      <3>3. p # Root
        BY <1>1, <2>1, <2>3
      <3> HIDE DEF c
      <3>4. \A w \in Workers :
              c.product[w] = calls[q].product[w] + (IF heard THEN calls[p].product[w] + Part(p, w) ELSE 0)
        <4> SUFFICES ASSUME NEW w \in Workers
                     PROVE  c.product[w] = calls[q].product[w] + (IF heard THEN calls[p].product[w] + Part(p, w) ELSE 0)
          OBVIOUS
        <4>1. calls[q].product[w] \in Nat
          BY <1>5, <2>1
        <4>2. CASE heard
          BY <3>1, <4>2
        <4>3. CASE ~heard
          BY <3>1, <4>1, <4>3
        <4> QED BY <4>2, <4>3
      <3> HIDE DEF heard
      <3>5. CASE p = AtLeader
        <4>1. q = Root /\ AtEntry(calls[q], DOMAIN calls) /\ Empty(calls[q])
          BY <1>1, <2>1, <2>3, <3>5 DEF PartAt, AtEntry
        <4>2. Proxied(calls[p], DOMAIN calls)
          BY <3>5 DEF Parts, PartAt
        <4>3. ASSUME NEW w \in Workers PROVE c.product[w] <= 1 /\ (w = cluster.entry => c.product[w] = 0)
          <5>1. Part(p, w) = 0
            BY <1>1, <3>5, LeaderAssumption DEF Part
          <5>2. calls[q].product[w] = 0 /\ calls[p].product[w] \in Nat /\ calls[p].product[w] <= 1
                /\ (w = cluster.entry => calls[p].product[w] = 0)
            BY <1>5, <4>1, <4>2 DEF Empty, Proxied, OnceIn
          <5> QED BY <3>4, <5>1, <5>2
        <4>4. AtEntry(c, DOMAIN calls')
          BY <1>1, <1>2, <3>2, <3>5, <4>1, <4>3 DEF AtEntry, OnceIn
        <4> QED BY <1>1, <4>1, <4>4 DEF PartAt, c
      <3>6. CASE p # AtLeader
        <4>1. AskedByLeader(p, calls[p])
          BY <3>3, <3>6 DEF Parts, PartAt
        <4>2. PICK x \in Workers \ {cluster.entry} : p = Append(AtLeader, x)
          BY <4>1 DEF AskedByLeader
        <4>3. q = AtLeader /\ Last(p) = x /\ Proxied(calls[q], DOMAIN calls)
          BY <1>1, <2>1, <2>3, <4>2 DEF PartAt
        <4>4. x \notin calls[q].left /\ calls[q].product[x] = 0
          <5>1. Begins(Append(q, x), p)
            BY <1>1, <4>2, <4>3
          <5>2. x \notin calls[q].left
            BY <2>1, <5>1 DEF Kept
          <5>3. calls[q].product[x] # 1 /\ calls[q].product[x] <= 1 /\ calls[q].product[x] \in Nat
            BY <1>5, <2>1, <4>2, <4>3 DEF Proxied, OnceIn
          <5> QED BY <5>2, <5>3
        <4>5. ASSUME NEW w \in Workers
              PROVE  /\ w # x => c.product[w] = calls[q].product[w]
                     /\ w = x => c.product[w] \in {0, 1}
          <5>1. calls[p].product[w] = 0 /\ calls[q].product[w] \in Nat
            BY <1>5, <2>1, <4>1 DEF AskedByLeader, Empty
          <5>2. Part(p, w) = IF w = x THEN 1 ELSE 0
            BY <4>3 DEF Part
          <5> QED BY <3>4, <4>4, <5>1, <5>2
        <4>6. c.ctx.hops = calls[q].ctx.hops
          BY <3>1, <4>3 DEF Merged, Proxied
        <4>7. OnceIn(c.product) /\ c.product[cluster.entry] = 0
          <5>1. c.product[cluster.entry] = calls[q].product[cluster.entry]
            BY <1>1, <4>2, <4>5
          <5>2. \A w \in Workers : c.product[w] <= 1
            BY <4>3, <4>5 DEF Proxied, OnceIn
          <5> QED BY <4>3, <5>1, <5>2 DEF Proxied, OnceIn
        <4>8. \A w \in Workers : c.product[w] = 1 => w \notin c.left /\ Append(AtLeader, w) \notin DOMAIN calls'
          <5> SUFFICES ASSUME NEW w \in Workers, c.product[w] = 1
                       PROVE  w \notin c.left /\ Append(AtLeader, w) \notin DOMAIN calls'
            OBVIOUS
          <5>1. CASE w = x
            BY <1>2, <3>2, <4>2, <4>4, <5>1
          <5>2. CASE w # x
            BY <1>2, <3>2, <4>3, <4>5, <5>2 DEF Proxied
          <5> QED BY <5>1, <5>2
        <4>9. Proxied(c, DOMAIN calls')
          BY <3>2, <4>3, <4>6, <4>7, <4>8 DEF Proxied
        <4> QED BY <1>1, <4>3, <4>9 DEF PartAt, c
      <3> QED BY <3>5, <3>6
    <2> QED BY <2>2, <2>3
  <1>8. Parts'
    BY <1>7, PlacesStay
  <1> QED BY <1>2, <1>6, <1>8

LEMMA PartsFailed ==
  ASSUME PartsInv, NEW p, IsFailed(p) PROVE PartsInv'
  <1> DEFINE up == Front(p)
  <1>1. /\ UNCHANGED <<cluster, answer>> /\ up \in DOMAIN calls'
        /\ DOMAIN calls' \subseteq DOMAIN calls
        /\ \A q \in DOMAIN calls' : q # up => calls'[q] = calls[q]
        /\ IsTold(calls[up], p, FALSE, calls[p].ctx, calls[p].product, calls'[up])
    BY DEF IsFailed
  <1> HIDE DEF up
  <1>2. LET c == calls[up]  t == calls'[up]
        IN  /\ t.request = c.request /\ t.open = c.open /\ t.left = c.left /\ t.ctx = c.ctx
            /\ t.product = c.product /\ t.waits \subseteq c.waits
    BY <1>1 DEF IsTold
  <1>3. (Alone' <=> Alone) /\ \A x : OnceIn(x)' <=> OnceIn(x)
    BY <1>1, PlacesStay DEF OnceIn
  <1>4. ASSUME Parts, NEW q \in DOMAIN calls' PROVE PartAt(q, calls'[q], DOMAIN calls')
    <2>1. PartAt(q, calls[q], DOMAIN calls)
      BY <1>1, <1>4 DEF Parts
    <2>2. /\ calls'[q].request = calls[q].request /\ calls'[q].open = calls[q].open
          /\ calls'[q].left = calls[q].left /\ calls'[q].ctx = calls[q].ctx
          /\ calls'[q].product = calls[q].product /\ calls'[q].waits \subseteq calls[q].waits
      BY <1>1, <1>2
    <2> QED BY <1>1, <2>1, <2>2 DEF PartAt, AtEntry, Proxied, AskedByLeader, Empty
  <1>5. Parts => Parts'
    BY <1>1, <1>4, PlacesStay
  <1> QED BY <1>1, <1>3, <1>5 DEF PartsInv

LEMMA PartsStep ==
  ASSUME ShapeInv, DataInv, QueryInv, PartsInv, NEW p \in DOMAIN calls, Handler(p), cluster' = cluster
  PROVE  PartsInv'
  <1>1. (Alone' <=> Alone) /\ \A x : OnceIn(x)' <=> OnceIn(x)
    BY PlacesStay DEF OnceIn
  <1>2. SUFFICES ASSUME Alone PROVE Parts' /\ (answer'.done /\ answer'.ok => OnceIn(answer'.product))
    BY <1>1 DEF PartsInv
  <1>3. Kept /\ Parts /\ cluster.request = "query" /\ (answer.done /\ answer.ok => OnceIn(answer.product))
    BY <1>2 DEF QueryInv, PartsInv, Alone
  <1>4. CASE ProcessQuery(p) \/ WorkerProxy(p)
    BY <1>2, <1>3, <1>4, PartsOpened
  <1>5. CASE \E w \in Workers : ProxyNext(p, w)
    BY <1>2, <1>3, <1>5, PartsNext
  <1>6. CASE /\ UNCHANGED <<cluster, seen, handled>>
             /\ \E ok \in BOOLEAN, product \in [Workers -> Nat] :
                  /\ Respond(p, ok, calls[p].ctx, product)
                  /\ ok => /\ Complete(p)
                           /\ \A w \in Workers : product[w] = calls[p].product[w] + Part(p, w)
                  /\ ~ok => ~calls[p].open \/ calls[p].error
    <2>1. PICK ok \in BOOLEAN, product \in [Workers -> Nat] :
            /\ Respond(p, ok, calls[p].ctx, product)
            /\ ok => \A w \in Workers : product[w] = calls[p].product[w] + Part(p, w)
      BY <1>6
    <2>2. Parts' /\ (answer' = answer \/ (answer'.ok => OnceIn(answer'.product)))
      BY <1>2, <1>3, <1>6, <2>1, PartsAnswered
    <2> QED BY <1>3, <2>2
  <1> QED BY <1>3, <1>4, <1>5, <1>6, QueryHandler

LEMMA QueryInit ==
  ASSUME Init
  PROVE  QueryInv /\ PartsInv
  <1>1. /\ Going /\ ~answer.done /\ DOMAIN calls = {Root} /\ ~calls[Root].open /\ calls[Root].waits = {}
        /\ calls[Root].request = cluster.request /\ calls[Root].product = [w \in Workers |-> 0]
    BY GoingInit
  <1>2. calls[Root].left = {} /\ ~calls[Root].error
    BY <1>1 DEF Going, Tree, NoFailure
  <1>3. Kept
    BY <1>1, <1>2 DEF Kept
  <1>4. ShapeInv
    BY ShapeInit
  <1>5. AtLeader # Root /\ cluster.entry \in Workers
    BY <1>4, PlacesAre
  <1>6. Alone => AtEntry(calls[Root], DOMAIN calls)
    BY <1>1, <1>5 DEF Alone, AtEntry, Empty, OnceIn
  <1>7. Alone => Parts
    BY <1>1, <1>5, <1>6 DEF Parts, PartAt
  <1> QED BY <1>1, <1>3, <1>7 DEF QueryInv, PartsInv

(***************************************************************************)
(* process_query (worker/mod.rs) and WorkerProxy (leader/mod.rs), for any  *)
(* cluster: an answer that is not an error has the part of every worker    *)
(* that can be reached and of no other, whatever calls failed, on the      *)
(* network too, and whatever became of those they left behind; and if no   *)
(* worker has peers it has each part once, since the leader leaves out the *)
(* worker that asked it.                                                   *)
(***************************************************************************)
THEOREM QueryAnswersCover == Spec => []QueryCovers
  <1> DEFINE Inv == ShapeInv /\ HandledInv /\ DataInv /\ QueryInv /\ PartsInv
  <1>1. Init => Inv
    BY HandledInit, ShapeInit, GoingInit, QueryInit
  <1>2. Inv /\ [Next]_vars => Inv'
    <2> SUFFICES ASSUME Inv, [Next]_vars PROVE Inv'
      OBVIOUS
    <2>1. ASSUME NEW p \in DOMAIN calls, Handler(p) PROVE Inv'
      BY <2>1, HandledStep, DataStep, ClusterStays, QueryStep, PartsStep
    <2>3. ASSUME NEW p \in DOMAIN calls, Fail(p) PROVE Inv'
      <3>1. ShapeInv' /\ IsFailed(p)
        BY <2>3, FailIs
      <3> QED BY <3>1, HandledFails, DataFails, QueryFails, PartsFailed
    <2>2. CASE UNCHANGED vars
      <3>1. /\ Reachable' = Reachable /\ Root' = Root /\ Counts' = Counts /\ Visited' = Visited
            /\ (ShapeInv' <=> ShapeInv) /\ (DataInv' <=> DataInv) /\ (Going' <=> Going)
        BY <2>2, FlowStutters, Zenon
      <3>2. cluster' = cluster /\ calls' = calls /\ seen' = seen /\ handled' = handled /\ answer' = answer
        BY <2>2 DEF vars
      <3>3. HandledInv'
        BY <3>2 DEF HandledInv, Limited, Local, OnceAt, OpenAt, SameSignal, Root
      <3>4. (Kept' <=> Kept) /\ (Doomed' <=> Doomed)
        BY <3>1, <3>2 DEF Kept, Doomed, Heard, Awaits
      <3>5. QueryInv'
        BY <3>1, <3>2, <3>4 DEF QueryInv
      <3>6. Parts' <=> Parts
        BY <3>2 DEF Parts, PartAt, AtEntry, Proxied, AskedByLeader, Empty, OnceIn, AtLeader, Root
      <3>7. PartsInv'
        BY <3>2, <3>6 DEF PartsInv, Alone, OnceIn
      <3> QED BY <3>1, <3>3, <3>5, <3>7
    <2> QED BY <2>1, <2>2, <2>3 DEF Next, Handling
  <1>3. Inv => QueryCovers
    <2> SUFFICES ASSUME QueryInv, PartsInv, cluster.request = "query", answer.done, answer.ok, NEW w \in Workers
                 PROVE  /\ w \in Reachable <=> answer.product[w] > 0
                        /\ (\A x \in Workers : cluster.peers[x] = {}) => answer.product[w] <= 1
      BY DEF QueryCovers
    <2>1. w \in Reachable <=> answer.product[w] > 0
      BY DEF QueryInv
    <2>2. (\A x \in Workers : cluster.peers[x] = {}) => answer.product[w] <= 1
      BY DEF PartsInv, Alone, OnceIn
    <2> QED BY <2>1, <2>2
  <1> QED BY <1>1, <1>2, <1>3, PTL DEF Spec

(***************************************************************************)
(* Whatever a caller is told by an answer (rpc/mod.rs 195-300: the hops of *)
(* its context, its product, its being no error) is what the cluster has   *)
(* done.                                                                   *)
(***************************************************************************)
THEOREM AnswersAreTrue == Spec => []AnswerTrue
  <1>1. AnswerNamesAll /\ QueryCovers /\ TakesEffectOnce => AnswerTrue
    BY DEF AnswerTrue
  <1> QED BY <1>1, AnswerNames, QueryAnswersCover, ToldWhatTookEffect, PTL
==============================================================================
