------------------------- MODULE SubscriptionsProofs -------------------------
(***************************************************************************)
(* Proofs about subscriptions.                                             *)
(***************************************************************************)
EXTENDS Subscriptions, SequenceTheorems, WellFoundedInduction, TLAPS

\* What a sequence holds.
LEMMA InSet ==
  ASSUME NEW S, NEW q \in Seq(S)
  PROVE  /\ ToSet(q) \subseteq S
         /\ \A i \in 1..Len(q) : q[i] \in ToSet(q)
         /\ \A x \in ToSet(q) : \E i \in 1..Len(q) : x = q[i]
  <1>1. DOMAIN q = 1..Len(q)
    BY LenProperties
  <1>2. \A i \in 1..Len(q) : q[i] \in S
    BY ElementOfSeq
  <1> QED BY <1>1, <1>2 DEF ToSet

LEMMA InConcat ==
  ASSUME NEW S, NEW p \in Seq(S), NEW q \in Seq(S)
  PROVE  ToSet(p \o q) = ToSet(p) \cup ToSet(q)
  <1>0. p \o q \in Seq(S) /\ Len(p) \in Nat /\ Len(q) \in Nat
    BY ConcatProperties, LenProperties
  <1>1. ASSUME NEW x \in ToSet(p \o q) PROVE x \in ToSet(p) \cup ToSet(q)
    <2>1. PICK i \in 1..Len(p \o q) : x = (p \o q)[i]
      BY <1>0, <1>1, InSet
    <2>2. i \in 1..Len(p) + Len(q)
      BY <2>1, ConcatProperties
    <2>3. CASE i <= Len(p)
      <3>1. x = p[i] /\ i \in 1..Len(p)
        BY <2>1, <2>2, <2>3, <1>0, ConcatProperties
      <3> QED BY <3>1, InSet
    <2>4. CASE ~(i <= Len(p))
      <3>1. x = q[i - Len(p)] /\ i - Len(p) \in 1..Len(q)
        BY <2>1, <2>2, <2>4, <1>0, ConcatProperties
      <3> QED BY <3>1, InSet
    <2> QED BY <2>3, <2>4
  <1>2. ASSUME NEW x \in ToSet(p) PROVE x \in ToSet(p \o q)
    <2>1. PICK i \in 1..Len(p) : x = p[i]
      BY <1>2, InSet
    <2>2. i \in 1..Len(p \o q) /\ (p \o q)[i] = x
      BY <2>1, <1>0, ConcatProperties
    <2> QED BY <2>2, <1>0, InSet
  <1>3. ASSUME NEW x \in ToSet(q) PROVE x \in ToSet(p \o q)
    <2>1. PICK i \in 1..Len(q) : x = q[i]
      BY <1>3, InSet
    <2>2. i + Len(p) \in 1..Len(p \o q) /\ (p \o q)[i + Len(p)] = x
      BY <2>1, <1>0, ConcatProperties
    <2> QED BY <2>2, <1>0, InSet
  <1> QED BY <1>1, <1>2, <1>3

\* A sequence is sorted if its two parts are, and the first comes before the second.
LEMMA SortedConcat ==
  ASSUME NEW S, NEW p \in Seq(S), NEW q \in Seq(S)
  PROVE  Sorted(p \o q) <=>
           Sorted(p) /\ Sorted(q) /\ \A a \in ToSet(p), b \in ToSet(q) : Before(a, b)
  <1>0. /\ p \o q \in Seq(S) /\ Len(p) \in Nat /\ Len(q) \in Nat
        /\ DOMAIN p = 1..Len(p) /\ DOMAIN q = 1..Len(q)
        /\ DOMAIN (p \o q) = 1..Len(p) + Len(q)
    BY ConcatProperties, LenProperties
  <1>1. \A i \in 1..Len(p) : i \in 1..Len(p) + Len(q) /\ (p \o q)[i] = p[i]
    BY <1>0, ConcatProperties
  <1>2. \A i \in 1..Len(q) : i + Len(p) \in 1..Len(p) + Len(q) /\ (p \o q)[i + Len(p)] = q[i]
    BY <1>0, ConcatProperties
  <1>3. \A i \in 1..Len(p) + Len(q) :
          \/ i \in 1..Len(p)
          \/ i - Len(p) \in 1..Len(q) /\ (p \o q)[i] = q[i - Len(p)]
    BY <1>0, ConcatProperties
  <1>4. ASSUME Sorted(p \o q)
        PROVE  Sorted(p) /\ Sorted(q) /\ \A a \in ToSet(p), b \in ToSet(q) : Before(a, b)
    <2>1. \A j, k \in 1..Len(p) + Len(q) : j < k => Before((p \o q)[j], (p \o q)[k])
      BY <1>4, <1>0 DEF Sorted
    <2>2. ASSUME NEW j \in 1..Len(p), NEW k \in 1..Len(p), j < k PROVE Before(p[j], p[k])
      BY <2>1, <2>2, <1>1
    <2>3. ASSUME NEW j \in 1..Len(q), NEW k \in 1..Len(q), j < k PROVE Before(q[j], q[k])
      <3>1. j + Len(p) < k + Len(p)
        BY <2>3, <1>0
      <3> QED BY <2>1, <3>1, <1>2
    <2>4. ASSUME NEW a \in ToSet(p), NEW b \in ToSet(q) PROVE Before(a, b)
      <3>1. PICK j \in 1..Len(p) : a = p[j]
        BY InSet
      <3>2. PICK k \in 1..Len(q) : b = q[k]
        BY InSet
      <3>3. j < k + Len(p)
        BY <1>0
      <3> QED BY <2>1, <3>1, <3>2, <3>3, <1>1, <1>2
    <2> QED BY <2>2, <2>3, <2>4, <1>0 DEF Sorted
  <1>5. ASSUME Sorted(p), Sorted(q), \A a \in ToSet(p), b \in ToSet(q) : Before(a, b)
        PROVE  Sorted(p \o q)
    <2> SUFFICES ASSUME NEW j \in 1..Len(p) + Len(q), NEW k \in 1..Len(p) + Len(q), j < k
                 PROVE  Before((p \o q)[j], (p \o q)[k])
      BY <1>0 DEF Sorted
    <2>1. CASE j \in 1..Len(p) /\ k \in 1..Len(p)
      BY <2>1, <1>1, <1>0, <1>5 DEF Sorted
    <2>2. CASE j \in 1..Len(p) /\ k \notin 1..Len(p)
      <3>1. p[j] \in ToSet(p) /\ q[k - Len(p)] \in ToSet(q)
        BY <2>2, <1>3, InSet
      <3> QED BY <3>1, <2>2, <1>1, <1>3, <1>5
    <2>3. CASE j \notin 1..Len(p)
      <3>1. k \notin 1..Len(p)
        BY <2>3, <1>0
      <3>2. j - Len(p) < k - Len(p)
        BY <1>0
      <3>3. j - Len(p) \in 1..Len(q) /\ k - Len(p) \in 1..Len(q)
        BY <3>1, <2>3, <1>3
      <3>4. Before(q[j - Len(p)], q[k - Len(p)])
        BY <3>2, <3>3, <1>5, <1>0 DEF Sorted
      <3> QED BY <3>4, <3>1, <2>3, <1>3
    <2> QED BY <2>1, <2>2, <2>3
  <1> QED BY <1>4, <1>5

\* A sequence that loses a part of its middle stays sorted, and gains nothing.
LEMMA Thinner ==
  ASSUME NEW S, NEW p \in Seq(S), NEW q \in Seq(S), NEW r \in Seq(S)
  PROVE  /\ Sorted(p \o q \o r) => Sorted(p \o r)
         /\ ToSet(p \o r) \subseteq ToSet(p \o q \o r)
  <1>1. p \o q \in Seq(S)
    BY ConcatProperties
  <1>2. ToSet(p \o q) = ToSet(p) \cup ToSet(q) /\ ToSet(p \o r) = ToSet(p) \cup ToSet(r)
    BY InConcat
  <1>3. ToSet((p \o q) \o r) = ToSet(p \o q) \cup ToSet(r)
    BY <1>1, InConcat
  <1>4. ASSUME Sorted((p \o q) \o r) PROVE Sorted(p \o r)
    <2>1. Sorted(p \o q) /\ Sorted(r) /\ \A a \in ToSet(p \o q), b \in ToSet(r) : Before(a, b)
      BY <1>1, <1>4, SortedConcat
    <2>2. Sorted(p) /\ \A a \in ToSet(p), b \in ToSet(r) : Before(a, b)
      BY <2>1, <1>2, SortedConcat
    <2> QED BY <2>1, <2>2, SortedConcat
  <1> QED BY <1>2, <1>3, <1>4

\* A message at the end.
LEMMA SortedEnd ==
  ASSUME NEW S, NEW p \in Seq(S), NEW m \in S
  PROVE  /\ Sorted(p \o <<m>>) <=> Sorted(p) /\ \A a \in ToSet(p) : Before(a, m)
         /\ ToSet(p \o <<m>>) = ToSet(p) \cup {m}
  <1>1. <<m>> \in Seq(S)
    OBVIOUS
  <1>2. Sorted(<<m>>)
    <2>1. Len(<<m>>) = 1
      OBVIOUS
    <2>2. DOMAIN <<m>> = 1..1
      BY <1>1, <2>1, LenProperties
    <2> QED BY <2>2 DEF Sorted
  <1>3. ToSet(<<m>>) = {m}
    BY DEF ToSet
  <1>4. Sorted(p \o <<m>>) <=>
          Sorted(p) /\ \A a \in ToSet(p), b \in ToSet(<<m>>) : Before(a, b)
    BY <1>1, <1>2, SortedConcat
  <1>5. ToSet(p \o <<m>>) = ToSet(p) \cup ToSet(<<m>>)
    BY <1>1, InConcat
  <1> QED BY <1>3, <1>4, <1>5

\* A set of numbers that is not empty has a least one.
LEMMA Least ==
  ASSUME NEW T, T \subseteq Nat, T # {}
  PROVE  \E i \in T : \A j \in T : i <= j
  <1>1. PICK i \in T : \A j \in T : <<j, i>> \notin OpToRel(<, Nat)
    BY WFMin, NatLessThanWellFounded, Zenon
  <1>2. \A j \in T : ~(j < i)
    BY <1>1, Zenon DEF OpToRel
  <1> QED BY <1>2

\* The copies a handler goes on with: the next is wanted, and no wanted one is lost.
LEMMA PendingRight ==
  ASSUME NEW h, NEW q \in Seq(Streams)
  PROVE  /\ Pending(h, q) \in Seq(Streams)
         /\ ToSet(Pending(h, q)) \subseteq ToSet(q)
         /\ \A x \in ToSet(q) : Wanted(h, x) => x \in ToSet(Pending(h, q))
         /\ Pending(h, q) # <<>> => Wanted(h, Head(Pending(h, q)))
         /\ IsInjective(q) => IsInjective(Pending(h, q))
  <1> DEFINE wanted == {i \in DOMAIN q : Wanted(h, q[i])}
             first == CHOOSE i \in wanted : \A j \in wanted : i <= j
  <1>0. DOMAIN q = 1..Len(q) /\ Len(q) \in Nat
    BY LenProperties
  <1>1. CASE wanted = {}
    <2>1. Pending(h, q) = <<>>
      BY <1>1 DEF Pending
    <2>2. ToSet(<<>>) = {} /\ IsInjective(<<>>) /\ <<>> \in Seq(Streams)
      BY DEF ToSet, IsInjective
    <2>3. \A x \in ToSet(q) : ~Wanted(h, x)
      BY <1>1 DEF ToSet
    <2> QED BY <2>1, <2>2, <2>3
  <1>2. CASE wanted # {}
    <2>1. \E i \in wanted : \A j \in wanted : i <= j
      <3>1. wanted \subseteq Nat
        BY <1>0
      <3> HIDE DEF wanted
      <3> QED BY <3>1, <1>2, Least
    <2>2. first \in wanted /\ \A j \in wanted : first <= j
      BY <2>1
    <2>3. first \in 1..Len(q) /\ Wanted(h, q[first])
      BY <2>2, <1>0
    <2>4. Pending(h, q) = SubSeq(q, first, Len(q))
      BY <1>2 DEF Pending
    <2> HIDE DEF first
    <2> DEFINE p == SubSeq(q, first, Len(q))
    <2>5. \A i \in first..Len(q) : q[i] \in Streams
      BY <2>3, <1>0, ElementOfSeq
    <2>6. /\ p \in Seq(Streams) /\ Len(p) = Len(q) - first + 1
          /\ \A i \in 1..Len(q) - first + 1 : p[i] = q[first + i - 1]
      <3>1. first \in Int /\ Len(q) \in Int /\ first <= Len(q)
        BY <2>3, <1>0
      <3> QED BY <3>1, <2>5, SubSeqProperties
    <2>7. DOMAIN p = 1..Len(q) - first + 1
      BY <2>6, LenProperties
    <2> HIDE DEF p, wanted
    <2>8. ASSUME NEW x \in ToSet(p) PROVE x \in ToSet(q)
      <3>1. PICK i \in 1..Len(p) : x = p[i]
        BY <2>6, InSet
      <3>2. first + i - 1 \in 1..Len(q) /\ x = q[first + i - 1]
        BY <3>1, <2>6, <2>3, <1>0
      <3> QED BY <3>2, InSet
    <2>9. ASSUME NEW x \in ToSet(q), Wanted(h, x) PROVE x \in ToSet(p)
      <3>1. PICK i \in 1..Len(q) : x = q[i]
        BY InSet
      <3>2. i \in wanted
        BY <3>1, <2>9, <1>0 DEF wanted
      <3>3. i - first + 1 \in 1..Len(p) /\ first + (i - first + 1) - 1 = i
        BY <3>2, <3>1, <2>2, <2>3, <2>6, <1>0
      <3>4. p[i - first + 1] = q[i]
        BY <3>3, <2>6
      <3> QED BY <3>1, <3>3, <3>4, <2>6, InSet
    <2>10. Wanted(h, Head(p))
      <3>1. p[1] = q[first]
        BY <2>6, <2>3, <1>0
      <3>2. Head(p) = p[1]
        BY <2>6, <2>3
      <3> QED BY <3>1, <3>2, <2>3
    <2>11. ASSUME IsInjective(q) PROVE IsInjective(p)
      <3> SUFFICES ASSUME NEW a \in 1..Len(q) - first + 1, NEW b \in 1..Len(q) - first + 1, p[a] = p[b]
                   PROVE  a = b
        BY <2>7 DEF IsInjective
      <3>1. first + a - 1 \in 1..Len(q) /\ first + b - 1 \in 1..Len(q)
        BY <2>3, <1>0
      <3>2. q[first + a - 1] = q[first + b - 1]
        BY <2>6
      <3>3. first + a - 1 = first + b - 1
        BY <3>1, <3>2, <2>11, <1>0 DEF IsInjective
      <3> QED BY <3>3, <2>3, <1>0
    <2> QED BY <2>4, <2>6, <2>8, <2>9, <2>10, <2>11 DEF p
  <1> QED BY <1>1, <1>2

-----------------------------------------------------------------------------
(* Types                                                                   *)

\* Messages that one channel hands to the next.
LEMMA Few ==
  /\ <<>> \in AtMost(1)
  /\ \A m \in Message : <<m>> \in AtMost(1)
  /\ \A q \in AtMost(1) : q \in Seq(Message) /\ (q = <<>> \/ \E m \in Message : q = <<m>>)
  <1>1. ASSUME NEW m \in Message PROVE <<m>> \in AtMost(1)
    <2>1. <<m>> \in Seq(Message) /\ Len(<<m>>) = 1
      OBVIOUS
    <2> QED BY <2>1 DEF AtMost
  <1>2. ASSUME NEW q \in AtMost(1)
        PROVE  q \in Seq(Message) /\ (q = <<>> \/ \E m \in Message : q = <<m>>)
    <2>1. q \in Seq(Message) /\ Len(q) \in Nat /\ Len(q) <= 1
      BY LenProperties DEF AtMost
    <2>2. CASE Len(q) = 0
      BY <2>1, <2>2, EmptySeq
    <2>3. CASE Len(q) = 1
      <3>1. q[1] \in Message
        BY <2>1, <2>3, ElementOfSeq
      <3>2. <<q[1]>> \in Seq(Message) /\ Len(<<q[1]>>) = 1 /\ <<q[1]>>[1] = q[1]
        BY <3>1
      <3>3. q = <<q[1]>>
        BY <2>1, <2>3, <3>2, SeqEqual
      <3> QED BY <2>1, <3>1, <3>3
    <2>4. Len(q) = 0 \/ Len(q) = 1
      <3> DEFINE n == Len(q)
      <3>1. n \in Nat /\ n <= 1
        BY <2>1
      <3> HIDE DEF n
      <3>2. n = 0 \/ n = 1
        BY <3>1
      <3> QED BY <3>2 DEF n
    <2> QED BY <2>1, <2>2, <2>3, <2>4
  <1>3. <<>> \in AtMost(1)
    BY EmptySeq DEF AtMost
  <1> QED BY <1>1, <1>2, <1>3

LEMMA MessageType ==
  /\ Id \in Message
  /\ \A h \in Handlers, n \in Nat : Product(h, n) \in Message
  /\ \A m \in Message : IsProduct(m) => m.by \in Handlers /\ m.n \in Nat /\ m = Product(m.by, m.n)
  /\ ~IsProduct(Id)
  /\ \A h, n : IsProduct(Product(h, n)) /\ Product(h, n).by = h /\ Product(h, n).n = n
  <1>1. \A h \in Handlers, n \in Nat : Product(h, n) \in Message
    BY DEF Product, Message
  <1>2. ASSUME NEW m \in Message, IsProduct(m)
        PROVE  m.by \in Handlers /\ m.n \in Nat /\ m = Product(m.by, m.n)
    BY <1>2 DEF Product, Message, IsProduct, Id
  <1> QED BY <1>1, <1>2 DEF Product, Message, IsProduct, Id

LEMMA TaskType ==
  ASSUME NEW pc \in {"none", "runs", "ended"}, NEW q \in AtMost(1)
  PROVE  /\ [pc |-> pc, holds |-> q] \in Task
         /\ \A r \in Task : [r EXCEPT !.pc = pc] \in Task /\ [r EXCEPT !.holds = q] \in Task
  BY DEF Task

LEMMA TypeInit == Init => TypeOK
  <1> SUFFICES ASSUME Init PROVE TypeOK
    OBVIOUS
  <1>1. <<>> \in Seq(Message) /\ <<>> \in AtMost(1) /\ <<>> \in AtMost(Window)
    BY Few, EmptySeq, WindowAssumption DEF AtMost
  <1>2. [pc |-> "none", holds |-> <<>>] \in Task
    BY Few, TaskType
  <1>3. subs \in Seq(Streams) /\ IsInjective(subs)
    BY DEF Init, IsInjective
  <1>4. Off \in Work /\ Off.rest = <<>>
    BY DEF Off, Work
  <1>5. \A h \in Handlers : handler[h] = Off
    BY DEF Init
  <1>6. handler \in [Handlers -> Work]
    BY <1>4 DEF Init
  <1>7. span \in [Streams -> Seq([Handlers -> Nat])]
    BY DEF Init
  <1>8. /\ relay \in [Streams -> Task] /\ pump \in [Streams -> Task]
        /\ wire \in [Streams -> AtMost(Window)] /\ got \in [Streams -> Seq(Message)]
        /\ chan \in [Streams -> AtMost(1)] /\ stream \in [Streams -> AtMost(1)]
    BY <1>1, <1>2 DEF Init
  <1> QED BY <1>3, <1>4, <1>5, <1>6, <1>7, <1>8 DEF Init, TypeOK

\* Removing one stream from the worker's list.
LEMMA Removed ==
  ASSUME NEW q \in Seq(Streams), IsInjective(q), NEW k \in 1..Len(q)
  PROVE  /\ RemoveAt(q, k) \in Seq(Streams) /\ IsInjective(RemoveAt(q, k))
         /\ ToSet(RemoveAt(q, k)) = ToSet(q) \ {q[k]}
  <1> DEFINE a == SubSeq(q, 1, k - 1)
             b == SubSeq(q, k + 1, Len(q))
  <1>0. Len(q) \in Nat /\ DOMAIN q = 1..Len(q) /\ \A i \in 1..Len(q) : q[i] \in Streams
    BY LenProperties, ElementOfSeq
  <1>1. /\ a \in Seq(Streams) /\ Len(a) = k - 1
        /\ \A i \in 1..k - 1 : a[i] = q[i]
    <2>1. 1 \in Int /\ k - 1 \in Int /\ \A i \in 1..k - 1 : q[i] \in Streams
      BY <1>0
    <2>2. (IF 1 <= k - 1 THEN k - 1 - 1 + 1 ELSE 0) = k - 1
      BY <1>0
    <2> QED BY <2>1, <2>2, <1>0, SubSeqProperties
  <1>2. /\ b \in Seq(Streams) /\ Len(b) = Len(q) - k
        /\ \A i \in 1..Len(q) - k : b[i] = q[k + i]
    <2>1. k + 1 \in Int /\ Len(q) \in Int /\ \A i \in k + 1..Len(q) : q[i] \in Streams
      BY <1>0
    <2>2. /\ b \in Seq(Streams) /\ Len(b) = IF k + 1 <= Len(q) THEN Len(q) - (k + 1) + 1 ELSE 0
          /\ \A i \in 1..Len(q) - (k + 1) + 1 : b[i] = q[k + 1 + i - 1]
      BY <2>1, SubSeqProperties
    <2> HIDE DEF b
    <2>3. Len(q) - (k + 1) + 1 = Len(q) - k /\ \A i \in 1..Len(q) - k : k + 1 + i - 1 = k + i
      BY <1>0
    <2>4. Len(b) = Len(q) - k
      <3>1. \A n \in Nat : \A i \in 1..n : (IF i + 1 <= n THEN n - (i + 1) + 1 ELSE 0) = n - i
        OBVIOUS
      <3> QED BY <2>2, <3>1, <1>0
    <2>5. \A i \in 1..Len(q) - k : b[i] = q[k + i]
      BY <2>2, <2>3
    <2> QED BY <2>2, <2>4, <2>5
  <1> HIDE DEF a, b
  <1> DEFINE r == a \o b
  <1>3. /\ r \in Seq(Streams) /\ Len(r) = Len(q) - 1 /\ DOMAIN r = 1..Len(q) - 1
        /\ \A i \in 1..Len(q) - 1 : r[i] = IF i < k THEN q[i] ELSE q[i + 1]
    <2>1. /\ r \in Seq(Streams) /\ Len(r) = Len(a) + Len(b)
          /\ \A i \in 1..Len(a) + Len(b) : r[i] = IF i <= Len(a) THEN a[i] ELSE b[i - Len(a)]
      BY <1>1, <1>2, ConcatProperties
    <2>2. Len(a) + Len(b) = Len(q) - 1
      BY <1>0, <1>1, <1>2
    <2> HIDE DEF r
    <2>3. ASSUME NEW i \in 1..Len(q) - 1 PROVE r[i] = IF i < k THEN q[i] ELSE q[i + 1]
      <3>1. CASE i < k
        <4>1. i \in 1..k - 1 /\ i \in 1..Len(a) + Len(b) /\ i <= Len(a)
          BY <3>1, <2>2, <1>0, <1>1
        <4>2. r[i] = a[i] /\ a[i] = q[i]
          BY <4>1, <2>1, <1>1
        <4> QED BY <3>1, <4>2
      <3>2. CASE ~(i < k)
        <4>1. i - (k - 1) \in 1..Len(q) - k /\ k + (i - (k - 1)) = i + 1 /\ ~(i <= k - 1)
          BY <3>2, <1>0
        <4>2. r[i] = b[i - (k - 1)]
          BY <4>1, <2>1, <2>2, <1>1
        <4>3. b[i - (k - 1)] = q[i + 1]
          BY <4>1, <1>2
        <4> QED BY <3>2, <4>2, <4>3
      <3> QED BY <3>1, <3>2
    <2> QED BY <2>1, <2>2, <2>3, LenProperties
  <1> HIDE DEF r
  <1>4. \A i, j \in 1..Len(q) : q[i] = q[j] => i = j
    BY <1>0 DEF IsInjective
  <1>5. IsInjective(r)
    <2> SUFFICES ASSUME NEW i \in 1..Len(q) - 1, NEW j \in 1..Len(q) - 1, r[i] = r[j] PROVE i = j
      BY <1>3 DEF IsInjective
    <2>1. PICK a1 \in 1..Len(q) : r[i] = q[a1] /\ a1 = IF i < k THEN i ELSE i + 1
      BY <1>0, <1>3
    <2>2. PICK b1 \in 1..Len(q) : r[j] = q[b1] /\ b1 = IF j < k THEN j ELSE j + 1
      BY <1>0, <1>3
    <2>3. a1 = b1
      BY <2>1, <2>2, <1>4
    <2> QED BY <2>1, <2>2, <2>3, <1>0
  <1>6. ASSUME NEW x \in ToSet(r) PROVE x \in ToSet(q) \ {q[k]}
    <2>1. PICK i \in 1..Len(q) - 1 : x = r[i]
      BY <1>3, InSet
    <2>2. PICK j \in 1..Len(q) : j # k /\ x = q[j]
      BY <2>1, <1>0, <1>3
    <2> QED BY <2>2, <1>4, InSet
  <1>7. ASSUME NEW x \in ToSet(q) \ {q[k]} PROVE x \in ToSet(r)
    <2>1. PICK j \in 1..Len(q) : j # k /\ x = q[j]
      BY InSet
    <2>2. PICK i \in 1..Len(r) : x = r[i]
      <3>1. CASE j < k
        <4>1. j \in 1..Len(q) - 1 /\ r[j] = q[j]
          BY <3>1, <1>0, <1>3
        <4> QED BY <4>1, <2>1, <1>3
      <3>2. CASE ~(j < k)
        <4>1. j - 1 \in 1..Len(q) - 1 /\ r[j - 1] = q[j - 1 + 1] /\ j - 1 + 1 = j
          BY <3>2, <2>1, <1>0, <1>3
        <4> QED BY <4>1, <2>1, <1>3
      <3> QED BY <3>1, <3>2
    <2> QED BY <2>2, <1>3, InSet
  <1>8. RemoveAt(q, k) = r
    BY DEF RemoveAt, r, a, b
  <1> QED BY <1>3, <1>5, <1>6, <1>7, <1>8

LEMMA UnsubscribeList ==
  ASSUME TypeOK, NEW s \in Streams, Unsubscribe(s)
  PROVE  /\ subs' \in Seq(Streams) /\ IsInjective(subs')
         /\ ToSet(subs') = ToSet(subs) \ {s}
  <1>1. subs \in Seq(Streams) /\ IsInjective(subs)
    BY DEF TypeOK
  <1>2. CASE s \in ToSet(subs)
    <2> DEFINE k == CHOOSE i \in DOMAIN subs : subs[i] = s
    <2>1. k \in 1..Len(subs) /\ subs[k] = s
      BY <1>1, <1>2, InSet, LenProperties
    <2>2. subs' = RemoveAt(subs, k)
      BY <1>2 DEF Unsubscribe
    <2> HIDE DEF k
    <2> QED BY <1>1, <2>1, <2>2, Removed
  <1>3. CASE s \notin ToSet(subs)
    BY <1>1, <1>3 DEF Unsubscribe
  <1> QED BY <1>2, <1>3

LEMMA RegisterList ==
  ASSUME TypeOK, NEW s \in Streams, Register(s), s \notin ToSet(subs)
  PROVE  /\ subs' \in Seq(Streams) /\ IsInjective(subs')
         /\ ToSet(subs') = ToSet(subs) \cup {s}
  <1>1. subs \in Seq(Streams) /\ IsInjective(subs) /\ subs' = Append(subs, s)
    BY DEF TypeOK, Register
  <1>2. /\ subs' \in Seq(Streams) /\ Len(subs') = Len(subs) + 1 /\ Len(subs) \in Nat
        /\ \A i \in 1..Len(subs) : subs'[i] = subs[i]
        /\ subs'[Len(subs) + 1] = s
    BY <1>1, AppendProperties
  <1>3. DOMAIN subs' = 1..Len(subs) + 1 /\ DOMAIN subs = 1..Len(subs)
    BY <1>1, <1>2, LenProperties
  <1>4. \A i \in 1..Len(subs) : subs[i] # s
    BY <1>1, InSet
  <1>5. IsInjective(subs')
    <2> SUFFICES ASSUME NEW i \in 1..Len(subs) + 1, NEW j \in 1..Len(subs) + 1, subs'[i] = subs'[j]
                 PROVE  i = j
      BY <1>3 DEF IsInjective
    <2>1. (i \in 1..Len(subs) \/ i = Len(subs) + 1) /\ (j \in 1..Len(subs) \/ j = Len(subs) + 1)
      BY <1>2
    <2> QED BY <1>1, <1>2, <1>3, <1>4, <2>1 DEF IsInjective
  <1>6. subs' = subs \o <<s>>
    BY <1>1, AppendIsConcat
  <1>7. ToSet(subs') = ToSet(subs) \cup {s}
    BY <1>1, <1>6, SortedEnd
  <1> QED BY <1>2, <1>5, <1>7

Registered == \A s \in ToSet(subs) : request[s] \in {"registered", "answered"}

\* A task, in its place.
LEMMA TaskAt ==
  ASSUME NEW f \in [Streams -> Task], NEW s \in Streams,
         NEW pc \in {"none", "runs", "ended"}, NEW q \in AtMost(1)
  PROVE  /\ [f EXCEPT ![s].pc = pc] \in [Streams -> Task]
         /\ [f EXCEPT ![s].holds = q] \in [Streams -> Task]
         /\ [f EXCEPT ![s] = [pc |-> pc, holds |-> q]] \in [Streams -> Task]
  BY TaskType

LEMMA TypeClient ==
  ASSUME TypeOK, NEW s \in Streams, Client(s)
  PROVE  TypeOK'
  <1>1. CASE Subscribe(s)
    <2>1. relay' \in [Streams -> Task]
      BY <1>1, TaskAt, Few DEF Subscribe, TypeOK
    <2>2. pump' \in [Streams -> Task]
      BY <1>1, TaskAt, Few DEF Subscribe, TypeOK
    <2> QED BY <1>1, <2>1, <2>2 DEF Subscribe, TypeOK
  <1>2. CASE Leave(s)
    BY <1>2 DEF Leave, TypeOK
  <1>3. CASE Read(s)
    <2>1. Inbox(s) \in Seq(Message) /\ Inbox(s) # <<>>
      BY <1>3 DEF Read, Inbox, TypeOK, AtMost
    <2>2. Head(Inbox(s)) \in Message
      BY <2>1, HeadTailProperties
    <2>3. got' \in [Streams -> Seq(Message)]
      BY <1>3, <2>2, AppendProperties DEF Read, TypeOK
    <2>4. wire' \in [Streams -> AtMost(Window)]
      <3>1. CASE Remote(s)
        <4>1. wire[s] \in Seq(Message) /\ wire[s] # <<>> /\ Len(wire[s]) <= Window
          BY <1>3, <3>1 DEF Read, Inbox, TypeOK, AtMost
        <4>2. Tail(wire[s]) \in Seq(Message) /\ Len(Tail(wire[s])) = Len(wire[s]) - 1 /\ Len(wire[s]) \in Nat
          BY <4>1, HeadTailProperties, LenProperties
        <4>3. Tail(wire[s]) \in AtMost(Window)
          <5>1. \A n \in Nat : n <= Window => n - 1 <= Window
            BY WindowAssumption
          <5> QED BY <4>1, <4>2, <5>1 DEF AtMost
        <4> QED BY <1>3, <3>1, <4>3 DEF Read, TypeOK
      <3>2. CASE ~Remote(s)
        BY <1>3, <3>2 DEF Read, TypeOK
      <3> QED BY <3>1, <3>2
    <2>5. stream' \in [Streams -> AtMost(1)]
      BY <1>3, Few DEF Read, TypeOK
    <2> QED BY <1>3, <2>3, <2>4, <2>5 DEF Read, TypeOK
  <1>4. CASE ReadEnd(s)
    BY <1>4 DEF ReadEnd, TypeOK
  <1>5. CASE Drop(s)
    <2>1. <<>> \in AtMost(Window)
      BY WindowAssumption, EmptySeq DEF AtMost
    <2> QED BY <1>5, <2>1, Few DEF Drop, TypeOK
  <1> QED BY <1>1, <1>2, <1>3, <1>4, <1>5 DEF Client

LEMMA TypeServes ==
  ASSUME TypeOK, Registered, NEW s \in Streams, Serves(s)
  PROVE  TypeOK'
  <1>0. begun \in [Handlers -> Nat] /\ span[s] \in Seq([Handlers -> Nat])
    BY DEF TypeOK
  <1>1. CASE Register(s)
    <2>1. s \notin ToSet(subs)
      BY <1>1 DEF Register, Registered
    <2>2. subs' \in Seq(Streams) /\ IsInjective(subs')
      BY <1>1, <2>1, RegisterList
    <2>3. span' \in [Streams -> Seq([Handlers -> Nat])]
      BY <1>1, <1>0 DEF Register, TypeOK
    <2> QED BY <1>1, <2>2, <2>3 DEF Register, TypeOK
  <1>2. CASE SendId(s)
    BY <1>2, Few, MessageType DEF SendId, TypeOK
  <1>3. CASE LeaveLocks(s)
    BY <1>3 DEF LeaveLocks, TypeOK
  <1>4. CASE Unsubscribe(s)
    <2>1. subs' \in Seq(Streams) /\ IsInjective(subs')
      BY <1>4, UnsubscribeList
    <2>2. Append(span[s], begun) \in Seq([Handlers -> Nat])
      BY <1>0, AppendProperties
    <2>3. span' \in [Streams -> Seq([Handlers -> Nat])]
      BY <1>4, <2>2 DEF Unsubscribe, TypeOK
    <2> QED BY <1>4, <2>1, <2>3 DEF Unsubscribe, TypeOK, Free
  <1>5. CASE Take(s)
    <2>1. relay' \in [Streams -> Task] /\ chan' \in [Streams -> AtMost(1)]
      BY <1>5, TaskAt, Few DEF Take, TypeOK
    <2> QED BY <1>5, <2>1 DEF Take, TypeOK
  <1>6. CASE Forward(s)
    <2>1. relay[s].holds \in AtMost(1)
      BY DEF TypeOK, Task
    <2>2. relay' \in [Streams -> Task]
      BY <1>6, TaskAt, Few DEF Forward, TypeOK
    <2>3. stream' \in [Streams -> AtMost(1)] /\ chan' \in [Streams -> AtMost(1)]
      BY <1>6, <2>1, Few DEF Forward, TypeOK
    <2> QED BY <1>6, <2>2, <2>3 DEF Forward, TypeOK
  <1>7. CASE CloseRelay(s)
    <2>1. relay' \in [Streams -> Task]
      BY <1>7, TaskAt, Few DEF CloseRelay, TypeOK
    <2> QED BY <1>7, <2>1 DEF CloseRelay, TypeOK
  <1>8. CASE PumpTake(s)
    <2>1. pump' \in [Streams -> Task] /\ stream' \in [Streams -> AtMost(1)]
      BY <1>8, TaskAt, Few DEF PumpTake, TypeOK
    <2> QED BY <1>8, <2>1 DEF PumpTake, TypeOK
  <1>9. CASE PumpWrite(s)
    <2>1. pump' \in [Streams -> Task]
      BY <1>9, TaskAt, Few DEF PumpWrite, TypeOK
    <2>2. pump[s].holds \in AtMost(1) /\ pump[s].holds # <<>>
      BY <1>9 DEF PumpWrite, TypeOK, Task
    <2>3. PICK m \in Message : pump[s].holds = <<m>>
      BY <2>2, Few
    <2>4. wire[s] \in Seq(Message) /\ Len(wire[s]) < Window
      BY <1>9 DEF PumpWrite, TypeOK, AtMost
    <2>5. wire[s] \o <<m>> \in Seq(Message) /\ Len(wire[s] \o <<m>>) = Len(wire[s]) + 1 /\ Len(wire[s]) \in Nat
      BY <2>4, AppendProperties, AppendIsConcat, LenProperties
    <2>6. wire[s] \o <<m>> \in AtMost(Window)
      <3>1. \A n \in Nat : n < Window => n + 1 <= Window
        BY WindowAssumption
      <3> QED BY <2>4, <2>5, <3>1 DEF AtMost
    <2>7. wire' \in [Streams -> AtMost(Window)]
      BY <1>9, <2>3, <2>6 DEF PumpWrite, TypeOK
    <2> QED BY <1>9, <2>1, <2>7 DEF PumpWrite, TypeOK
  <1>10. CASE PumpEnds(s)
    <2>1. pump' \in [Streams -> Task] /\ stream' \in [Streams -> AtMost(1)]
      BY <1>10, TaskAt, Few DEF PumpEnds, TypeOK
    <2> QED BY <1>10, <2>1 DEF PumpEnds, TypeOK
  <1> QED BY <1>1, <1>2, <1>3, <1>4, <1>5, <1>6, <1>7, <1>8, <1>9, <1>10 DEF Serves

\* The handlers, apart from what they send: a copy that is next is wanted, no
\* subscription is copied twice, and a step serves one event.
HandlersRight ==
  /\ \A h \in Handlers :
       /\ handler[h].pc # "off" => handler[h].result = "none"
       /\ IsInjective(handler[h].rest)
       /\ handler[h].rest # <<>> => Wanted(h, Head(handler[h].rest))
  /\ handler["step"].pc = "subs" => handler["step"].events = 0
  /\ handler["step"].pc = "event" => handler["step"].events = 1

\* One handler moves on.
Moves(h, pc, rest, events) ==
  handler' = [handler EXCEPT ![h] = [handler[h] EXCEPT !.pc = pc, !.rest = rest, !.events = events]]
\* One handler begins or ends.
Becomes(h, pc, events, locks, result) ==
  handler' = [handler EXCEPT ![h] = [pc |-> pc, rest |-> <<>>, events |-> events,
                                     locks |-> locks, result |-> result]]

LEMMA HandlerMoves ==
  ASSUME handler \in [Handlers -> Work]
  PROVE  /\ BeginStep => Becomes("step", "server", 0, FALSE, "none")
         /\ ClockChanged => Moves("step", "event", handler["step"].rest, 1)
         /\ \A locks, events : BeginInvoke(locks, events) => Becomes("invoke", "event", events, locks, "none")
         /\ \A h \in Handlers :
              /\ GetSubscriptions(h) => Moves(h, "subs", Pending(h, subs), handler[h].events - 1)
              /\ Send(h) => Moves(h, "subs", Pending(h, Tail(handler[h].rest)), handler[h].events)
              /\ NextEvent(h) => Moves(h, "event", handler[h].rest, handler[h].events)
              /\ Answer(h) => Becomes(h, "off", 0, FALSE, "ok")
              /\ QueryFails(h) => Becomes(h, "off", 0, FALSE, "failed")
  <1>1. \A h \in Handlers : DOMAIN handler[h] = {"pc", "rest", "events", "locks", "result"}
    BY DEF Work
  <1>2. /\ BeginStep => Becomes("step", "server", 0, FALSE, "none")
        /\ \A locks, events : BeginInvoke(locks, events) => Becomes("invoke", "event", events, locks, "none")
    BY DEF BeginStep, BeginInvoke, Becomes, Off
  <1>3. ClockChanged => Moves("step", "event", handler["step"].rest, 1)
    BY DEF ClockChanged, Moves, Handlers, Work
  <1>4. ASSUME NEW h \in Handlers
        PROVE  /\ GetSubscriptions(h) => Moves(h, "subs", Pending(h, subs), handler[h].events - 1)
               /\ Send(h) => Moves(h, "subs", Pending(h, Tail(handler[h].rest)), handler[h].events)
               /\ NextEvent(h) => Moves(h, "event", handler[h].rest, handler[h].events)
    BY DEF GetSubscriptions, Send, NextEvent, Moves, Work
  <1>5. ASSUME NEW h \in Handlers
        PROVE  /\ Answer(h) => Becomes(h, "off", 0, FALSE, "ok")
               /\ QueryFails(h) => Becomes(h, "off", 0, FALSE, "failed")
    BY DEF Answer, QueryFails, Ends, Becomes, Off
  <1> QED BY <1>2, <1>3, <1>4, <1>5

LEMMA MovesType ==
  ASSUME handler \in [Handlers -> Work], NEW h \in Handlers,
         NEW pc \in {"off", "server", "event", "subs"}, NEW rest \in Seq(Streams), NEW events \in Nat,
         Moves(h, pc, rest, events)
  PROVE  /\ handler' \in [Handlers -> Work]
         /\ handler'[h].pc = pc /\ handler'[h].rest = rest /\ handler'[h].events = events
         /\ handler'[h].result = handler[h].result /\ handler'[h].locks = handler[h].locks
         /\ \A g \in Handlers : g # h => handler'[g] = handler[g]
  <1> DEFINE w == [handler[h] EXCEPT !.pc = pc, !.rest = rest, !.events = events]
  <1>1. handler[h] \in Work
    OBVIOUS
  <1>2. w \in Work
    BY <1>1 DEF Work
  <1>3. w.pc = pc /\ w.rest = rest /\ w.events = events /\ w.result = handler[h].result /\ w.locks = handler[h].locks
    BY <1>1 DEF Work
  <1>4. handler' = [handler EXCEPT ![h] = w]
    BY DEF Moves
  <1> HIDE DEF w
  <1>5. handler' \in [Handlers -> Work] /\ handler'[h] = w /\ \A g \in Handlers : g # h => handler'[g] = handler[g]
    BY <1>2, <1>4
  <1> QED BY <1>3, <1>5 DEF w

LEMMA BecomesType ==
  ASSUME handler \in [Handlers -> Work], NEW h \in Handlers,
         NEW pc \in {"off", "server", "event", "subs"}, NEW events \in Nat, NEW locks \in BOOLEAN,
         NEW result \in {"none", "ok", "failed"},
         Becomes(h, pc, events, locks, result)
  PROVE  /\ handler' \in [Handlers -> Work]
         /\ handler'[h].pc = pc /\ handler'[h].rest = <<>> /\ handler'[h].events = events
         /\ handler'[h].result = result /\ handler'[h].locks = locks
         /\ \A g \in Handlers : g # h => handler'[g] = handler[g]
  <1> DEFINE w == [pc |-> pc, rest |-> <<>>, events |-> events, locks |-> locks, result |-> result]
  <1>1. <<>> \in Seq(Streams)
    BY EmptySeq
  <1>2. w \in Work
    BY <1>1 DEF Work
  <1>3. w.pc = pc /\ w.rest = <<>> /\ w.events = events /\ w.result = result /\ w.locks = locks
    OBVIOUS
  <1>4. handler' = [handler EXCEPT ![h] = w]
    BY DEF Becomes
  <1> HIDE DEF w
  <1>5. handler' \in [Handlers -> Work] /\ handler'[h] = w /\ \A g \in Handlers : g # h => handler'[g] = handler[g]
    BY <1>2, <1>4
  <1> QED BY <1>3, <1>5

\* The rest of a list, of which none is twice in it.
LEMMA TailRight ==
  ASSUME NEW q \in Seq(Streams), q # <<>>
  PROVE  /\ Tail(q) \in Seq(Streams) /\ Head(q) \in Streams /\ Head(q) \in ToSet(q)
         /\ ToSet(q) = {Head(q)} \cup ToSet(Tail(q))
         /\ IsInjective(q) => IsInjective(Tail(q)) /\ Head(q) \notin ToSet(Tail(q))
  <1>1. /\ Tail(q) \in Seq(Streams) /\ Len(Tail(q)) = Len(q) - 1 /\ Head(q) \in Streams
        /\ \A i \in 1..Len(Tail(q)) : Tail(q)[i] = q[i + 1]
    BY HeadTailProperties
  <1>2. Len(q) \in Nat \ {0} /\ DOMAIN q = 1..Len(q) /\ DOMAIN Tail(q) = 1..Len(q) - 1
    BY <1>1, EmptySeq, LenProperties
  <1>3. Head(q) = q[1]
    BY <1>2
  <1> DEFINE h == Head(q)
             t == Tail(q)
  <1> HIDE DEF h, t
  <1>4. /\ t \in Seq(Streams) /\ Len(t) = Len(q) - 1 /\ h = q[1] /\ DOMAIN t = 1..Len(q) - 1
        /\ \A i \in 1..Len(q) - 1 : t[i] = q[i + 1]
    BY <1>1, <1>2, <1>3 DEF h, t
  <1>5. h \in ToSet(q)
    BY <1>2, <1>4, InSet
  <1>6. ASSUME NEW x \in ToSet(q) PROVE x = h \/ x \in ToSet(t)
    <2>1. PICK i \in 1..Len(q) : x = q[i]
      BY InSet
    <2>2. CASE i # 1
      <3>1. i - 1 \in 1..Len(t) /\ t[i - 1] = q[i - 1 + 1] /\ i - 1 + 1 = i
        BY <2>2, <1>2, <1>4
      <3> QED BY <3>1, <2>1, <1>4, InSet
    <2> QED BY <2>1, <2>2, <1>4
  <1>7. ASSUME NEW x \in ToSet(t) PROVE \E i \in 1..Len(q) : i # 1 /\ x = q[i]
    <2>1. PICK i \in 1..Len(t) : x = t[i]
      BY <1>4, InSet
    <2>2. i + 1 \in 1..Len(q) /\ i + 1 # 1 /\ x = q[i + 1]
      BY <2>1, <1>2, <1>4
    <2> QED BY <2>2
  <1>8. \A x \in ToSet(t) : x \in ToSet(q)
    BY <1>7, InSet
  <1>9. ASSUME IsInjective(q) PROVE IsInjective(t) /\ h \notin ToSet(t)
    <2>0. \A i, j \in 1..Len(q) : q[i] = q[j] => i = j
      BY <1>2, <1>9 DEF IsInjective
    <2>1. h \notin ToSet(t)
      BY <2>0, <1>2, <1>4, <1>7
    <2>2. ASSUME NEW i \in 1..Len(q) - 1, NEW j \in 1..Len(q) - 1, t[i] = t[j] PROVE i = j
      <3>1. i + 1 \in 1..Len(q) /\ j + 1 \in 1..Len(q) /\ q[i + 1] = q[j + 1]
        BY <2>2, <1>2, <1>4
      <3>2. i + 1 = j + 1
        BY <3>1, <2>0
      <3> QED BY <3>2
    <2> QED BY <2>1, <2>2, <1>4 DEF IsInjective
  <1>10. /\ t \in Seq(Streams) /\ h \in Streams /\ h \in ToSet(q)
         /\ ToSet(q) = {h} \cup ToSet(t)
         /\ IsInjective(q) => IsInjective(t) /\ h \notin ToSet(t)
    <2>1. ToSet(q) = {h} \cup ToSet(t)
      BY <1>5, <1>6, <1>8
    <2>2. h \in Streams
      BY <1>1 DEF h
    <2> QED BY <2>1, <2>2, <1>4, <1>5, <1>9
  <1> QED BY <1>10 DEF h, t

\* What the handlers do to each other, and to the types.
HandlersType == handler \in [Handlers -> Work] /\ \A h \in Handlers : handler[h].pc # "subs" => handler[h].rest = <<>>

Handles ==
  \/ BeginStep \/ ClockChanged
  \/ \E locks \in BOOLEAN, events \in 1..setup.events : BeginInvoke(locks, events)
  \/ \E h \in Handlers : Works(h)

LEMMA HandlersStep ==
  ASSUME setup \in Setups, HandlersType, HandlersRight, subs \in Seq(Streams), IsInjective(subs), Handles
  PROVE  HandlersType' /\ HandlersRight'
  <1>0. handler \in [Handlers -> Work] /\ \A h \in Handlers : h = "step" \/ h = "invoke"
    BY DEF HandlersType, Handlers
  <1>1. "step" \in Handlers /\ "invoke" \in Handlers
    BY DEF Handlers
  <1>2. \A h \in Handlers : handler[h].events \in Nat /\ handler[h].rest \in Seq(Streams)
    BY <1>0 DEF Work
  <1>e. <<>> \in Seq(Streams) /\ IsInjective(<<>>)
    BY EmptySeq DEF IsInjective
  <1>3. ASSUME NEW h \in Handlers, NEW pc \in {"off", "server", "event"}, NEW events \in Nat,
               NEW locks \in BOOLEAN, NEW result \in {"none", "ok", "failed"},
               Becomes(h, pc, events, locks, result), pc # "off" => result = "none",
               h = "step" /\ pc = "event" => events = 1
        PROVE  HandlersType' /\ HandlersRight'
    <2>1. /\ handler' \in [Handlers -> Work]
          /\ handler'[h].pc = pc /\ handler'[h].rest = <<>> /\ handler'[h].events = events
          /\ handler'[h].result = result
          /\ \A g \in Handlers : g # h => handler'[g] = handler[g]
      <3>1. pc \in {"off", "server", "event", "subs"}
        OBVIOUS
      <3> QED BY <3>1, <1>0, <1>3, BecomesType
    <2>2. HandlersType'
      BY <2>1 DEF HandlersType
    <2>3. \A g \in Handlers :
            /\ handler'[g].pc # "off" => handler'[g].result = "none"
            /\ IsInjective(handler'[g].rest)
            /\ handler'[g].rest # <<>> /\ g = "step" => "step" \in setup'.sub[Head(handler'[g].rest)].triggers
      <3>1. setup' = setup
        BY DEF Handles, BeginStep, ClockChanged, BeginInvoke, Works, GetSubscriptions, Send, NextEvent,
               Answer, QueryFails, Ends
      <3>2. ASSUME NEW g \in Handlers, g # h
            PROVE  /\ handler'[g].pc # "off" => handler'[g].result = "none"
                   /\ IsInjective(handler'[g].rest)
                   /\ handler'[g].rest # <<>> /\ g = "step" => "step" \in setup'.sub[Head(handler'[g].rest)].triggers
        <4>1. handler'[g] = handler[g]
          BY <3>2, <2>1
        <4> QED BY <4>1, <3>1 DEF HandlersRight, Wanted
      <3> QED BY <2>1, <1>3, <1>e, <3>2
    <2>4. /\ handler'["step"].pc = "subs" => handler'["step"].events = 0
          /\ handler'["step"].pc = "event" => handler'["step"].events = 1
      BY <2>1, <1>1, <1>3 DEF HandlersRight
    <2> QED BY <2>2, <2>3, <2>4 DEF HandlersRight, Wanted
  <1>4. ASSUME NEW h \in Handlers, NEW pc \in {"event", "subs"}, NEW rest \in Seq(Streams), NEW events \in Nat,
               Moves(h, pc, rest, events), handler[h].pc # "off",
               IsInjective(rest), rest # <<>> => pc = "subs" /\ Wanted(h, Head(rest)),
               h = "step" => events = IF pc = "subs" THEN 0 ELSE 1
        PROVE  HandlersType' /\ HandlersRight'
    <2>1. /\ handler' \in [Handlers -> Work]
          /\ handler'[h].pc = pc /\ handler'[h].rest = rest /\ handler'[h].events = events
          /\ handler'[h].result = handler[h].result
          /\ \A g \in Handlers : g # h => handler'[g] = handler[g]
      <3>1. pc \in {"off", "server", "event", "subs"}
        OBVIOUS
      <3>2. Moves(h, pc, rest, events)
        BY <1>4
      <3>3. handler \in [Handlers -> Work] /\ rest \in Seq(Streams) /\ events \in Nat
        BY <1>0
      <3> QED BY <3>1, <3>2, <3>3, MovesType
    <2>2. HandlersType'
      BY <2>1, <1>4 DEF HandlersType
    <2>3. \A g \in Handlers :
            /\ handler'[g].pc # "off" => handler'[g].result = "none"
            /\ IsInjective(handler'[g].rest)
            /\ handler'[g].rest # <<>> /\ g = "step" => "step" \in setup'.sub[Head(handler'[g].rest)].triggers
      <3>1. setup' = setup
        BY DEF Handles, BeginStep, ClockChanged, BeginInvoke, Works, GetSubscriptions, Send, NextEvent,
               Answer, QueryFails, Ends
      <3>2. ASSUME NEW g \in Handlers, g # h
            PROVE  /\ handler'[g].pc # "off" => handler'[g].result = "none"
                   /\ IsInjective(handler'[g].rest)
                   /\ handler'[g].rest # <<>> /\ g = "step" => "step" \in setup'.sub[Head(handler'[g].rest)].triggers
        <4>1. handler'[g] = handler[g]
          BY <3>2, <2>1
        <4> QED BY <4>1, <3>1 DEF HandlersRight, Wanted
      <3>3. handler[h].result = "none"
        BY <1>4 DEF HandlersRight
      <3>4. rest # <<>> /\ h = "step" => "step" \in setup'.sub[Head(rest)].triggers
        BY <1>4, <3>1 DEF Wanted
      <3> QED BY <2>1, <1>4, <3>2, <3>3, <3>4
    <2>4. /\ handler'["step"].pc = "subs" => handler'["step"].events = 0
          /\ handler'["step"].pc = "event" => handler'["step"].events = 1
      BY <2>1, <1>1, <1>4 DEF HandlersRight
    <2> QED BY <2>2, <2>3, <2>4 DEF HandlersRight, Wanted
  <1>5. CASE BeginStep
    BY <1>5, <1>0, <1>1, <1>3, HandlerMoves
  <1>6. CASE ClockChanged
    <2>1. handler["step"].rest = <<>>
      BY <1>6, <1>1 DEF ClockChanged, HandlersType
    <2> QED BY <1>6, <2>1, <1>0, <1>1, <1>4, <1>e, HandlerMoves DEF ClockChanged
  <1>7. ASSUME NEW locks \in BOOLEAN, NEW events \in 1..setup.events, BeginInvoke(locks, events)
        PROVE  HandlersType' /\ HandlersRight'
    <2>1. Becomes("invoke", "event", events, locks, "none")
      BY <1>7, <1>0, HandlerMoves
    <2>2. setup.events \in Nat
      BY SetupsAssumption
    <2>3. events \in Nat
      BY <2>2
    <2> QED BY <2>1, <2>3, <1>1, <1>3
  <1>8. ASSUME NEW h \in Handlers, GetSubscriptions(h) PROVE HandlersType' /\ HandlersRight'
    <2>1. Moves(h, "subs", Pending(h, subs), handler[h].events - 1)
      BY <1>8, <1>0, HandlerMoves
    <2>2. handler[h].events - 1 \in Nat /\ handler[h].pc = "event"
      BY <1>8, <1>2 DEF GetSubscriptions
    <2>3. h = "step" => handler[h].events - 1 = 0
      BY <2>2 DEF HandlersRight
    <2> QED BY <2>1, <2>2, <2>3, <1>4, PendingRight
  <1>9. ASSUME NEW h \in Handlers, Send(h) PROVE HandlersType' /\ HandlersRight'
    <2>1. Moves(h, "subs", Pending(h, Tail(handler[h].rest)), handler[h].events)
      BY <1>9, <1>0, HandlerMoves
    <2>2. handler[h].pc = "subs" /\ handler[h].rest # <<>>
      BY <1>9 DEF Send
    <2>3. Tail(handler[h].rest) \in Seq(Streams) /\ IsInjective(Tail(handler[h].rest))
      BY <2>2, <1>2, TailRight DEF HandlersRight
    <2>4. h = "step" => handler[h].events = 0
      BY <2>2 DEF HandlersRight
    <2> QED BY <2>1, <2>2, <2>3, <2>4, <1>2, <1>4, PendingRight
  <1>10. ASSUME NEW h \in Handlers, NextEvent(h) PROVE HandlersType' /\ HandlersRight'
    <2>1. Moves(h, "event", <<>>, handler[h].events)
      BY <1>10, <1>0, HandlerMoves DEF NextEvent
    <2>2. handler[h].pc = "subs" /\ handler[h].events > 0 /\ h # "step"
      BY <1>10 DEF NextEvent, HandlersRight
    <2> QED BY <2>1, <2>2, <1>2, <1>4, <1>e
  <1>11. ASSUME NEW h \in Handlers, Answer(h) \/ QueryFails(h) PROVE HandlersType' /\ HandlersRight'
    BY <1>11, <1>0, <1>3, HandlerMoves
  <1> QED BY <1>5, <1>6, <1>7, <1>8, <1>9, <1>10, <1>11 DEF Handles, Works

LEMMA TypeHandles ==
  ASSUME TypeOK, HandlersRight, Handles
  PROVE  TypeOK' /\ HandlersRight'
  <1>1. HandlersType' /\ HandlersRight'
    BY HandlersStep DEF TypeOK, HandlersType
  <1>2. ASSUME UNCHANGED <<setup, subs, request, chan, relay, stream, pump, wire, reader, got, leaving, span>>,
               begun' \in [Handlers -> Nat], lock' \in {Free, "invoke"} \cup Streams
        PROVE  TypeOK'
    BY <1>1, <1>2 DEF TypeOK, HandlersType
  <1>3. CASE BeginStep \/ ClockChanged
    <2>0. begun \in [Handlers -> Nat] /\ lock \in {Free, "invoke"} \cup Streams
      BY DEF TypeOK
    <2>1. begun' \in [Handlers -> Nat] /\ lock' = lock
      BY <1>3, <2>0 DEF BeginStep, ClockChanged, Handlers
    <2>2. UNCHANGED <<setup, subs, request, chan, relay, stream, pump, wire, reader, got, leaving, span>>
      BY <1>3 DEF BeginStep, ClockChanged
    <2>3. TypeOK'
      BY <1>2, <2>0, <2>1, <2>2
    <2> QED BY <1>1, <2>3
  <1>4. ASSUME NEW locks \in BOOLEAN, NEW events \in 1..setup.events, BeginInvoke(locks, events)
        PROVE  TypeOK'
    <2>1. begun' \in [Handlers -> Nat] /\ lock' \in {Free, "invoke"} \cup Streams
      BY <1>4 DEF BeginInvoke, TypeOK, Handlers
    <2> QED BY <1>4, <1>2, <2>1 DEF BeginInvoke
  <1>5. ASSUME NEW h \in Handlers, GetSubscriptions(h) \/ NextEvent(h) PROVE TypeOK'
    BY <1>2, <1>5 DEF GetSubscriptions, NextEvent, TypeOK
  <1>6. ASSUME NEW h \in Handlers, Answer(h) \/ QueryFails(h) PROVE TypeOK'
    BY <1>2, <1>6 DEF Answer, QueryFails, Ends, TypeOK
  <1>7. ASSUME NEW h \in Handlers, Send(h) PROVE TypeOK'
    <2>1. <<Product(h, begun[h])>> \in AtMost(1)
      BY Few, MessageType DEF TypeOK
    <2>2. chan' \in [Streams -> AtMost(1)]
      BY <1>7, <2>1 DEF Send, TypeOK
    <2> QED BY <1>1, <1>7, <2>2 DEF Send, TypeOK, HandlersType
  <1> QED BY <1>1, <1>3, <1>4, <1>5, <1>6, <1>7 DEF Handles, Works

-----------------------------------------------------------------------------
(* What lies between the worker and a client                               *)

Line(g, w, p, t, r, c) == g \o w \o p \o t \o r \o c

\* A sequence p that holds no more than q, in no other order.
Within(p, q) == (Sorted(q) => Sorted(p)) /\ ToSet(p) \subseteq ToSet(q)

LEMMA LineType ==
  ASSUME NEW g \in Seq(Message), NEW w \in Seq(Message), NEW p \in Seq(Message), NEW t \in Seq(Message), NEW r \in Seq(Message),
         NEW c \in Seq(Message)
  PROVE  /\ Line(g, w, p, t, r, c) \in Seq(Message)
         /\ ToSet(Line(g, w, p, t, r, c)) =
              ToSet(g) \cup ToSet(w) \cup ToSet(p) \cup ToSet(t) \cup ToSet(r) \cup ToSet(c)
  <1> DEFINE x2 == g \o w
             x3 == x2 \o p
             x4 == x3 \o t
             x5 == x4 \o r
  <1>2. x2 \in Seq(Message) /\ ToSet(x2) = ToSet(g) \cup ToSet(w)
    BY ConcatProperties, InConcat
  <1> HIDE DEF x2
  <1>3. x3 \in Seq(Message) /\ ToSet(x3) = ToSet(x2) \cup ToSet(p)
    BY <1>2, ConcatProperties, InConcat
  <1> HIDE DEF x3
  <1>4. x4 \in Seq(Message) /\ ToSet(x4) = ToSet(x3) \cup ToSet(t)
    BY <1>3, ConcatProperties, InConcat
  <1> HIDE DEF x4
  <1>5. x5 \in Seq(Message) /\ ToSet(x5) = ToSet(x4) \cup ToSet(r)
    BY <1>4, ConcatProperties, InConcat
  <1> HIDE DEF x5
  <1>6. x5 \o c \in Seq(Message) /\ ToSet(x5 \o c) = ToSet(x5) \cup ToSet(c)
    BY <1>5, ConcatProperties, InConcat
  <1>7. Line(g, w, p, t, r, c) = x5 \o c
    BY DEF Line, x5, x4, x3, x2
  <1> QED BY <1>2, <1>3, <1>4, <1>5, <1>6, <1>7

LEMMA WithinConcat ==
  ASSUME NEW S, NEW p \in Seq(S), NEW q \in Seq(S), NEW a \in Seq(S), NEW b \in Seq(S),
         Within(p, q), a = b \/ a = <<>>
  PROVE  p \o a \in Seq(S) /\ q \o b \in Seq(S) /\ Within(p \o a, q \o b)
  <1>1. Sorted(<<>>) /\ ToSet(<<>>) = {}
    BY DEF Sorted, ToSet
  <1>2. p \o a \in Seq(S) /\ q \o b \in Seq(S)
    BY ConcatProperties
  <1>3. ToSet(p \o a) = ToSet(p) \cup ToSet(a) /\ ToSet(q \o b) = ToSet(q) \cup ToSet(b)
    BY InConcat
  <1>4. ToSet(p) \subseteq ToSet(q) /\ ToSet(a) \subseteq ToSet(b)
    BY <1>1 DEF Within
  <1>5. ASSUME Sorted(q \o b) PROVE Sorted(p \o a)
    <2>1. Sorted(q) /\ Sorted(b) /\ \A x \in ToSet(q), y \in ToSet(b) : Before(x, y)
      BY <1>5, SortedConcat
    <2>2. Sorted(p) /\ Sorted(a) /\ \A x \in ToSet(p), y \in ToSet(a) : Before(x, y)
      BY <2>1, <1>1, <1>4 DEF Within
    <2> QED BY <2>2, SortedConcat
  <1> QED BY <1>2, <1>3, <1>4, <1>5 DEF Within

\* Parts of a line are lost.
LEMMA LineLoses ==
  ASSUME NEW g \in Seq(Message), NEW w \in Seq(Message), NEW p \in Seq(Message), NEW t \in Seq(Message), NEW r \in Seq(Message),
         NEW c \in Seq(Message), NEW w2 \in {w, <<>>}, NEW p2 \in {p, <<>>}, NEW t2 \in {t, <<>>},
         NEW r2 \in {r, <<>>}, NEW c2 \in {c, <<>>}
  PROVE  Within(Line(g, w2, p2, t2, r2, c2), Line(g, w, p, t, r, c))
  <1> DEFINE x2 == g \o w
             x3 == x2 \o p
             x4 == x3 \o t
             x5 == x4 \o r
             y2 == g \o w2
             y3 == y2 \o p2
             y4 == y3 \o t2
             y5 == y4 \o r2
  <1>0. /\ w2 \in Seq(Message) /\ p2 \in Seq(Message) /\ t2 \in Seq(Message) /\ r2 \in Seq(Message) /\ c2 \in Seq(Message)
        /\ Within(g, g)
    BY EmptySeq DEF Within
  <1>2. x2 \in Seq(Message) /\ y2 \in Seq(Message) /\ Within(y2, x2)
    BY <1>0, WithinConcat
  <1> HIDE DEF x2, y2
  <1>3. x3 \in Seq(Message) /\ y3 \in Seq(Message) /\ Within(y3, x3)
    BY <1>0, <1>2, WithinConcat
  <1> HIDE DEF x3, y3
  <1>4. x4 \in Seq(Message) /\ y4 \in Seq(Message) /\ Within(y4, x4)
    BY <1>0, <1>3, WithinConcat
  <1> HIDE DEF x4, y4
  <1>5. x5 \in Seq(Message) /\ y5 \in Seq(Message) /\ Within(y5, x5)
    BY <1>0, <1>4, WithinConcat
  <1> HIDE DEF x5, y5
  <1>6. Within(y5 \o c2, x5 \o c)
    BY <1>0, <1>5, WithinConcat
  <1> QED BY <1>6 DEF Line, x5, x4, x3, x2, y5, y4, y3, y2

LEMMA Regroup ==
  ASSUME NEW S, NEW a \in Seq(S), NEW b \in Seq(S), NEW c \in Seq(S)
  PROVE  (a \o b) \o c = a \o (b \o c)
  BY ConcatAssociative

LEMMA FirstPasses ==
  ASSUME NEW S, NEW g \in Seq(S), NEW w \in Seq(S), w # <<>>
  PROVE  Append(g, Head(w)) \o Tail(w) = g \o w
  <1>1. Head(w) \in S /\ Tail(w) \in Seq(S)
    BY HeadTailProperties
  <1>2. <<Head(w)>> \in Seq(S) /\ <<Head(w)>> \o Tail(w) = w
    <2>1. SubSeq(w, 1, Len(w)) = <<w[1]>> \o SubSeq(w, 2, Len(w))
      <3>1. 1 \in 1..Len(w) /\ Len(w) \in 1..Len(w)
        BY EmptySeq
      <3>2. SubSeq(w, 1, Len(w)) = <<w[1]>> \o SubSeq(w, 1 + 1, Len(w))
        BY <3>1, SubSeqRecursiveFirst
      <3> QED BY <3>2
    <2>2. SubSeq(w, 1, Len(w)) = w /\ Tail(w) = SubSeq(w, 2, Len(w))
      BY SubSeqFull, TailIsSubSeq
    <2> QED BY <1>1, <2>1, <2>2
  <1>3. Append(g, Head(w)) = g \o <<Head(w)>>
    BY <1>1, AppendIsConcat
  <1>4. (g \o <<Head(w)>>) \o Tail(w) = g \o (<<Head(w)>> \o Tail(w))
    BY <1>1, <1>2, Regroup
  <1>5. Append(g, Head(w)) \o Tail(w) = g \o w
    BY <1>2, <1>3, <1>4
  <1> QED BY <1>5

\* A part of a line is passed on, as each task does it.
LEMMA LineTake ==
  ASSUME NEW g \in Seq(Message), NEW w \in Seq(Message), NEW p \in Seq(Message), NEW t \in Seq(Message),
         NEW c \in Seq(Message)
  PROVE  Line(g, w, p, t, c, <<>>) = Line(g, w, p, t, <<>>, c)
  <1> DEFINE x == g \o w \o p \o t
  <1>1. x \in Seq(Message)
    BY ConcatProperties
  <1> HIDE DEF x
  <1>2. x \o c \in Seq(Message)
    BY <1>1, ConcatProperties
  <1>3. (x \o c) \o <<>> = (x \o <<>>) \o c
    BY <1>1, <1>2, ConcatEmptySeq
  <1> QED BY <1>3 DEF Line, x

LEMMA LineForward ==
  ASSUME NEW g \in Seq(Message), NEW w \in Seq(Message), NEW p \in Seq(Message), NEW r \in Seq(Message),
         NEW c \in Seq(Message)
  PROVE  Line(g, w, p, r, <<>>, c) = Line(g, w, p, <<>>, r, c)
  <1> DEFINE x == g \o w \o p
  <1>1. x \in Seq(Message)
    BY ConcatProperties
  <1> HIDE DEF x
  <1>2. x \o r \in Seq(Message)
    BY <1>1, ConcatProperties
  <1>3. (x \o r) \o <<>> = (x \o <<>>) \o r
    BY <1>1, <1>2, ConcatEmptySeq
  <1> QED BY <1>3 DEF Line, x

LEMMA LinePumpTake ==
  ASSUME NEW g \in Seq(Message), NEW w \in Seq(Message), NEW t \in Seq(Message), NEW r \in Seq(Message),
         NEW c \in Seq(Message)
  PROVE  Line(g, w, t, <<>>, r, c) = Line(g, w, <<>>, t, r, c)
  <1> DEFINE x == g \o w
  <1>1. x \in Seq(Message)
    BY ConcatProperties
  <1> HIDE DEF x
  <1>2. x \o t \in Seq(Message)
    BY <1>1, ConcatProperties
  <1>3. (x \o t) \o <<>> = (x \o <<>>) \o t
    BY <1>1, <1>2, ConcatEmptySeq
  <1> QED BY <1>3 DEF Line, x

LEMMA LinePumpWrite ==
  ASSUME NEW g \in Seq(Message), NEW w \in Seq(Message), NEW p \in Seq(Message), NEW t, NEW r, NEW c
  PROVE  Line(g, w \o p, <<>>, t, r, c) = Line(g, w, p, t, r, c)
  <1>1. g \o (w \o p) = (g \o w) \o p
    BY Regroup
  <1>2. (g \o (w \o p)) \o <<>> = g \o (w \o p)
    <2>1. w \o p \in Seq(Message)
      BY ConcatProperties
    <2>2. g \o (w \o p) \in Seq(Message)
      BY <2>1, ConcatProperties
    <2> QED BY <2>2, ConcatEmptySeq
  <1>3. (g \o (w \o p)) \o <<>> = (g \o w) \o p
    BY <1>1, <1>2
  <1> QED BY <1>3 DEF Line

LEMMA LineRead ==
  ASSUME NEW g \in Seq(Message), NEW w \in Seq(Message), w # <<>>, NEW p, NEW t, NEW r, NEW c
  PROVE  Line(Append(g, Head(w)), Tail(w), p, t, r, c) = Line(g, w, p, t, r, c)
  <1>1. Append(g, Head(w)) \o Tail(w) = g \o w
    BY FirstPasses
  <1> QED BY <1>1 DEF Line

LEMMA LineReadHere ==
  ASSUME NEW g \in Seq(Message), NEW m \in Message, NEW r, NEW c
  PROVE  Line(Append(g, m), <<>>, <<>>, <<>>, r, c) = Line(g, <<>>, <<>>, <<m>>, r, c)
  <1>1. Append(g, m) \in Seq(Message) /\ Append(g, m) = g \o <<m>>
    BY AppendProperties, AppendIsConcat
  <1>2. Append(g, m) \o <<>> = Append(g, m) /\ g \o <<>> = g
    BY <1>1, ConcatEmptySeq
  <1>3. Append(g, m) \o <<>> \o <<>> \o <<>> = g \o <<>> \o <<>> \o <<m>>
    BY <1>1, <1>2
  <1> QED BY <1>3 DEF Line

-----------------------------------------------------------------------------
(* The inductive invariant                                                 *)

\* Only a client on the network has a task that writes to its connection.
Local(s) == ~Remote(s) => wire[s] = <<>> /\ pump[s].holds = <<>> /\ pump[s].pc = "none"

\* Where a subscription stands: it is registered once, and for good removed.
Stands(s) ==
  /\ s \in ToSet(subs) => request[s] \in {"registered", "answered"} /\ leaving[s] # "done"
  /\ leaving[s] # "no" \/ Id \in ToSet(Flow(s)) => request[s] = "answered"
  /\ Len(span[s]) = IF request[s] \in {"none", "asked"} THEN 0 ELSE IF leaving[s] = "done" THEN 2 ELSE 1

\* What is under way to a client.
Sent(s) ==
  /\ Sorted(Flow(s))
  /\ \A m \in ToSet(Flow(s)) : IsProduct(m) =>
       /\ m.n <= begun[m.by] /\ Wanted(m.by, s)
       /\ leaving[s] = "done" => m.n <= span[s][2][m.by]

\* A product of the step under way.
This == Product("step", begun["step"])

\* What a handler is still to send: nothing of which its client is sent already.
ToSend(s) ==
  /\ \A h \in Handlers :
       s \in ToSet(handler[h].rest) /\ leaving[s] = "done" => begun[h] <= span[s][2][h]
  /\ handler["step"].pc \in {"server", "event"} \/ s \in ToSet(handler["step"].rest) =>
       This \notin ToSet(Flow(s))

\* A task that ended holds nothing, and it ended for a reason.
Ended(s) ==
  /\ Closed(s) =>
       /\ relay[s].holds = <<>> /\ chan[s] = <<>>
       /\ reader[s] # "open" \/ (s \notin ToSet(subs) /\ request[s] = "answered")
  /\ pump[s].pc = "ended" => Closed(s) \/ reader[s] = "gone"

\* The step under way leaves nobody out.
Served(s) ==
  /\ handler["step"].pc = "subs"
  /\ s \in ToSet(subs) /\ "step" \in setup.sub[s].triggers /\ span[s][1]["step"] < begun["step"]
  /\ reader[s] = "open"
  => s \in ToSet(handler["step"].rest) \/ This \in ToSet(Flow(s))

Unborn == [pc |-> "none", holds |-> <<>>]

\* The tasks begin with the request.
Started ==
  \A s \in Streams : request[s] = "none" => relay[s] = Unborn /\ pump[s] = Unborn

StreamInv(s) == Local(s) /\ Stands(s) /\ Sent(s) /\ ToSend(s) /\ Ended(s) /\ Served(s)
SubscriptionsInv == Started /\ HandlersRight /\ \A s \in Streams : StreamInv(s)

LEMMA FlowIs ==
  ASSUME TypeOK, NEW s \in Streams
  PROVE  /\ got[s] \in Seq(Message) /\ wire[s] \in Seq(Message) /\ pump[s].holds \in Seq(Message)
         /\ stream[s] \in Seq(Message) /\ relay[s].holds \in Seq(Message) /\ chan[s] \in Seq(Message)
         /\ Flow(s) = Line(got[s], wire[s], pump[s].holds, stream[s], relay[s].holds, chan[s])
         /\ Flow(s) \in Seq(Message) /\ ToSet(Flow(s)) \subseteq Message
  <1>1. /\ got[s] \in Seq(Message) /\ wire[s] \in Seq(Message) /\ stream[s] \in Seq(Message)
        /\ chan[s] \in Seq(Message)
    BY DEF TypeOK, AtMost
  <1>2. pump[s].holds \in Seq(Message) /\ relay[s].holds \in Seq(Message)
    BY DEF TypeOK, AtMost, Task
  <1>3. Flow(s) = Line(got[s], wire[s], pump[s].holds, stream[s], relay[s].holds, chan[s])
    BY DEF Flow, Line
  <1>4. Flow(s) \in Seq(Message)
    <2> DEFINE g == got[s]
               w == wire[s]
               p == pump[s].holds
               t == stream[s]
               r == relay[s].holds
               c == chan[s]
    <2>1. /\ g \in Seq(Message) /\ w \in Seq(Message) /\ p \in Seq(Message) /\ t \in Seq(Message)
          /\ r \in Seq(Message) /\ c \in Seq(Message)
      BY <1>1, <1>2
    <2>2. Flow(s) = Line(g, w, p, t, r, c)
      BY <1>3
    <2> HIDE DEF g, w, p, t, r, c
    <2>3. Line(g, w, p, t, r, c) \in Seq(Message)
      BY <2>1, LineType
    <2> QED BY <2>2, <2>3
  <1> QED BY <1>1, <1>2, <1>3, <1>4, InSet

LEMMA FlowNow ==
  ASSUME NEW s \in Streams
  PROVE  Flow(s)' = Line(got'[s], wire'[s], pump'[s].holds, stream'[s], relay'[s].holds, chan'[s])
  BY DEF Flow, Line

\* A part that is empty or stays leaves the line as it is, and no more is lost
\* than what somebody dropped.
LEMMA FlowLoses ==
  ASSUME TypeOK, NEW s \in Streams,
         got'[s] = got[s], wire'[s] \in {wire[s], <<>>}, pump'[s].holds \in {pump[s].holds, <<>>},
         stream'[s] \in {stream[s], <<>>}, relay'[s].holds \in {relay[s].holds, <<>>},
         chan'[s] \in {chan[s], <<>>}
  PROVE  Within(Flow(s)', Flow(s))
  <1> DEFINE g == got[s]
             w == wire[s]
             p == pump[s].holds
             t == stream[s]
             r == relay[s].holds
             c == chan[s]
             w2 == wire'[s]
             p2 == pump'[s].holds
             t2 == stream'[s]
             r2 == relay'[s].holds
             c2 == chan'[s]
  <1>1. /\ g \in Seq(Message) /\ w \in Seq(Message) /\ p \in Seq(Message) /\ t \in Seq(Message)
        /\ r \in Seq(Message) /\ c \in Seq(Message) /\ Flow(s) = Line(g, w, p, t, r, c)
    BY FlowIs
  <1>2. Flow(s)' = Line(g, w2, p2, t2, r2, c2)
    BY FlowNow
  <1>3. w2 \in {w, <<>>} /\ p2 \in {p, <<>>} /\ t2 \in {t, <<>>} /\ r2 \in {r, <<>>} /\ c2 \in {c, <<>>}
    OBVIOUS
  <1> HIDE DEF g, w, p, t, r, c, w2, p2, t2, r2, c2
  <1>4. Within(Line(g, w2, p2, t2, r2, c2), Line(g, w, p, t, r, c))
    BY <1>1, <1>3, LineLoses
  <1> QED BY <1>1, <1>2, <1>4

LEMMA FlowSame ==
  ASSUME NEW s \in Streams,
         got'[s] = got[s], wire'[s] = wire[s], pump'[s].holds = pump[s].holds,
         stream'[s] = stream[s], relay'[s].holds = relay[s].holds, chan'[s] = chan[s]
  PROVE  Flow(s)' = Flow(s)
  BY DEF Flow

\* The tasks between the worker and the client pass on what they hold.
LEMMA FlowPasses ==
  ASSUME TypeOK, NEW s \in Streams, Local(s)
  PROVE  /\ Take(s) => Flow(s)' = Flow(s)
         /\ Forward(s) /\ ~Gone(s) => Flow(s)' = Flow(s)
         /\ PumpTake(s) => Flow(s)' = Flow(s)
         /\ PumpWrite(s) => Flow(s)' = Flow(s)
         /\ Read(s) => Flow(s)' = Flow(s)
  <1> DEFINE g == got[s]
             w == wire[s]
             p == pump[s].holds
             t == stream[s]
             r == relay[s].holds
             c == chan[s]
  <1>1. /\ g \in Seq(Message) /\ w \in Seq(Message) /\ p \in Seq(Message) /\ t \in Seq(Message)
        /\ r \in Seq(Message) /\ c \in Seq(Message) /\ Flow(s) = Line(g, w, p, t, r, c)
    BY FlowIs
  <1>0. /\ \A x : [relay EXCEPT ![s].holds = x][s].holds = x /\ [pump EXCEPT ![s].holds = x][s].holds = x
        /\ \A x, y : [relay EXCEPT ![s] = [pc |-> x, holds |-> y]][s].holds = y
    BY DEF TypeOK, Task
  <1>2. CASE Take(s)
    <2>1. /\ r = <<>> /\ got'[s] = g /\ wire'[s] = w /\ pump'[s].holds = p /\ stream'[s] = t
          /\ relay'[s].holds = c /\ chan'[s] = <<>>
      BY <1>2, <1>0 DEF Take, TypeOK
    <2>2. Flow(s)' = Line(g, w, p, t, c, <<>>)
      BY <2>1, FlowNow
    <2> HIDE DEF g, w, p, t, r, c
    <2>3. Line(g, w, p, t, c, <<>>) = Line(g, w, p, t, <<>>, c)
      BY <1>1, LineTake
    <2> QED BY <1>1, <2>1, <2>2, <2>3
  <1>3. CASE Forward(s) /\ ~Gone(s)
    <2>1. /\ t = <<>> /\ got'[s] = g /\ wire'[s] = w /\ pump'[s].holds = p /\ stream'[s] = r
          /\ relay'[s].holds = <<>> /\ chan'[s] = c
      BY <1>3, <1>0 DEF Forward, TypeOK
    <2>2. Flow(s)' = Line(g, w, p, r, <<>>, c)
      BY <2>1, FlowNow
    <2> HIDE DEF g, w, p, t, r, c
    <2>3. Line(g, w, p, r, <<>>, c) = Line(g, w, p, <<>>, r, c)
      BY <1>1, LineForward
    <2> QED BY <1>1, <2>1, <2>2, <2>3
  <1>4. CASE PumpTake(s)
    <2>1. /\ p = <<>> /\ got'[s] = g /\ wire'[s] = w /\ pump'[s].holds = t /\ stream'[s] = <<>>
          /\ relay'[s].holds = r /\ chan'[s] = c
      BY <1>4, <1>0 DEF PumpTake, TypeOK
    <2>2. Flow(s)' = Line(g, w, t, <<>>, r, c)
      BY <2>1, FlowNow
    <2> HIDE DEF g, w, p, t, r, c
    <2>3. Line(g, w, t, <<>>, r, c) = Line(g, w, <<>>, t, r, c)
      BY <1>1, LinePumpTake
    <2> QED BY <1>1, <2>1, <2>2, <2>3
  <1>5. CASE PumpWrite(s)
    <2>1. /\ got'[s] = g /\ wire'[s] = w \o p /\ pump'[s].holds = <<>> /\ stream'[s] = t
          /\ relay'[s].holds = r /\ chan'[s] = c
      BY <1>5, <1>0 DEF PumpWrite, TypeOK
    <2>2. Flow(s)' = Line(g, w \o p, <<>>, t, r, c)
      BY <2>1, FlowNow
    <2> HIDE DEF g, w, p, t, r, c
    <2>3. Line(g, w \o p, <<>>, t, r, c) = Line(g, w, p, t, r, c)
      BY <1>1, LinePumpWrite
    <2> QED BY <1>1, <2>2, <2>3
  <1>6. CASE Read(s) /\ Remote(s)
    <2>1. /\ w # <<>> /\ got'[s] = Append(g, Head(w)) /\ wire'[s] = Tail(w) /\ pump'[s].holds = p /\ stream'[s] = t
          /\ relay'[s].holds = r /\ chan'[s] = c
      BY <1>6 DEF Read, Inbox, TypeOK
    <2>2. Flow(s)' = Line(Append(g, Head(w)), Tail(w), p, t, r, c)
      BY <2>1, FlowNow
    <2> HIDE DEF g, w, p, t, r, c
    <2>3. Line(Append(g, Head(w)), Tail(w), p, t, r, c) = Line(g, w, p, t, r, c)
      BY <1>1, <2>1, LineRead
    <2> QED BY <1>1, <2>2, <2>3
  <1>7. CASE Read(s) /\ ~Remote(s)
    <2>1. /\ t # <<>> /\ got'[s] = Append(g, Head(t)) /\ wire'[s] = w /\ pump'[s].holds = p /\ stream'[s] = <<>>
          /\ relay'[s].holds = r /\ chan'[s] = c /\ w = <<>> /\ p = <<>>
      BY <1>7 DEF Read, Inbox, TypeOK, Local
    <2>2. PICK m \in Message : t = <<m>>
      <3>1. t \in AtMost(1)
        BY DEF TypeOK
      <3> QED BY <3>1, <2>1, Few
    <2>3. Head(t) = m
      BY <2>2
    <2>4. Flow(s)' = Line(Append(g, m), <<>>, <<>>, <<>>, r, c)
      BY <2>1, <2>3, FlowNow
    <2> HIDE DEF g, w, p, t, r, c
    <2>5. Line(Append(g, m), <<>>, <<>>, <<>>, r, c) = Line(g, <<>>, <<>>, <<m>>, r, c)
      BY <1>1, LineReadHere
    <2> QED BY <1>1, <2>1, <2>2, <2>4, <2>5
  <1> QED BY <1>2, <1>3, <1>4, <1>5, <1>6, <1>7

\* What is sent comes last.
LEMMA FlowGrows ==
  ASSUME TypeOK, NEW s \in Streams, NEW m \in Message,
         got'[s] = got[s], wire'[s] = wire[s], pump'[s].holds = pump[s].holds,
         stream'[s] = stream[s], relay'[s].holds = relay[s].holds, chan[s] = <<>>, chan'[s] = <<m>>
  PROVE  /\ ToSet(Flow(s)') = ToSet(Flow(s)) \cup {m}
         /\ Sorted(Flow(s)') <=> Sorted(Flow(s)) /\ \A a \in ToSet(Flow(s)) : Before(a, m)
  <1> DEFINE g == got[s]
             w == wire[s]
             p == pump[s].holds
             t == stream[s]
             r == relay[s].holds
  <1>1. /\ g \in Seq(Message) /\ w \in Seq(Message) /\ p \in Seq(Message) /\ t \in Seq(Message)
        /\ r \in Seq(Message) /\ Flow(s) = Line(g, w, p, t, r, <<>>) /\ Flow(s) \in Seq(Message)
    BY FlowIs
  <1>2. Flow(s)' = Line(g, w, p, t, r, <<m>>)
    BY FlowNow
  <1> HIDE DEF g, w, p, t, r
  <1>3. Line(g, w, p, t, r, <<m>>) = Line(g, w, p, t, r, <<>>) \o <<m>>
    <2> DEFINE x == g \o w \o p \o t \o r
    <2>1. x \in Seq(Message)
      BY <1>1, ConcatProperties
    <2> HIDE DEF x
    <2>2. x \o <<m>> = (x \o <<>>) \o <<m>>
      BY <2>1, ConcatEmptySeq
    <2> QED BY <2>2 DEF Line, x
  <1>4. Flow(s)' = Flow(s) \o <<m>>
    BY <1>1, <1>2, <1>3
  <1> QED BY <1>1, <1>4, SortedEnd

-----------------------------------------------------------------------------
(* Each step keeps the invariant                                           *)

\* What is under way stays right when some of it is lost.
LEMMA FlowKept ==
  ASSUME NEW s \in Streams, Sent(s), ToSend(s), UNCHANGED <<setup, handler, begun>>,
         leaving'[s] = "done" => leaving[s] = "done" /\ span'[s] = span[s],
         Within(Flow(s)', Flow(s)) \/ Flow(s)' = Flow(s)
  PROVE  Sent(s)' /\ ToSend(s)'
  <1>1. (Sorted(Flow(s)) => Sorted(Flow(s)')) /\ ToSet(Flow(s)') \subseteq ToSet(Flow(s))
    BY DEF Within
  <1>2. \A h, x : Wanted(h, x)' <=> Wanted(h, x)
    BY DEF Wanted
  <1>3. \A m \in ToSet(Flow(s)') : IsProduct(m) =>
          /\ m.n <= begun'[m.by] /\ Wanted(m.by, s)'
          /\ leaving'[s] = "done" => m.n <= span'[s][2][m.by]
    BY <1>1, <1>2 DEF Sent
  <1>4. Sent(s)'
    BY <1>1, <1>3 DEF Sent
  <1>5. ToSend(s)'
    BY <1>1 DEF ToSend, This
  <1> QED BY <1>4, <1>5

LEMMA ServedKept ==
  ASSUME NEW s \in Streams, Served(s), UNCHANGED <<setup, handler, begun>>,
         s \in ToSet(subs') => s \in ToSet(subs) /\ span'[s] = span[s],
         reader'[s] = "open" => reader[s] = "open" /\ ToSet(Flow(s)) \subseteq ToSet(Flow(s)')
  PROVE  Served(s)'
  BY DEF Served, This

\* A stream of which nothing happens.
LEMMA Elsewhere ==
  ASSUME NEW s \in Streams, StreamInv(s), UNCHANGED <<setup, handler, begun>>,
         s \in ToSet(subs') <=> s \in ToSet(subs),
         request'[s] = request[s], chan'[s] = chan[s], relay'[s] = relay[s], stream'[s] = stream[s],
         pump'[s] = pump[s], wire'[s] = wire[s], reader'[s] = reader[s], got'[s] = got[s],
         leaving'[s] = leaving[s], span'[s] = span[s]
  PROVE  StreamInv(s)'
  <1>1. Flow(s)' = Flow(s)
    BY FlowSame
  <1>2. Sent(s)' /\ ToSend(s)'
    BY <1>1, FlowKept DEF StreamInv
  <1>3. Served(s)'
    BY <1>1, ServedKept DEF StreamInv
  <1>4. Local(s)' /\ Ended(s)'
    BY DEF StreamInv, Local, Remote, Ended, Closed
  <1>5. Stands(s)'
    BY <1>1 DEF StreamInv, Stands
  <1> QED BY <1>2, <1>3, <1>4, <1>5 DEF StreamInv

\* The steps of a subscription that leave the list and the handlers alone.
Inner(s) ==
  Subscribe(s) \/ SendId(s) \/ Leave(s) \/ LeaveLocks(s) \/ Take(s) \/ Forward(s) \/ CloseRelay(s)
  \/ PumpTake(s) \/ PumpWrite(s) \/ PumpEnds(s) \/ Read(s) \/ ReadEnd(s) \/ Drop(s)

LEMMA OthersKept ==
  ASSUME TypeOK, NEW s \in Streams, Client(s) \/ Serves(s), Registered, NEW x \in Streams, x # s, StreamInv(x)
  PROVE  StreamInv(x)'
  <1>1. UNCHANGED <<setup, handler, begun>>
    BY DEF Client, Serves, Subscribe, Leave, Read, ReadEnd, Drop, Register, SendId, LeaveLocks, Unsubscribe,
           Take, Forward, CloseRelay, PumpTake, PumpWrite, PumpEnds
  <1>2. /\ request'[x] = request[x] /\ chan'[x] = chan[x] /\ relay'[x] = relay[x] /\ stream'[x] = stream[x]
        /\ pump'[x] = pump[x] /\ wire'[x] = wire[x] /\ reader'[x] = reader[x] /\ got'[x] = got[x]
        /\ leaving'[x] = leaving[x] /\ span'[x] = span[x]
    <2>1. CASE Client(s)
      BY <2>1 DEF TypeOK, Client, Subscribe, Leave, Read, ReadEnd, Drop
    <2>2. CASE Serves(s)
      BY <2>2 DEF TypeOK, Serves, Register, SendId, LeaveLocks, Unsubscribe,
           Take, Forward, CloseRelay, PumpTake, PumpWrite, PumpEnds
    <2> QED BY <2>1, <2>2
  <1>3. x \in ToSet(subs') <=> x \in ToSet(subs)
    <2>1. CASE Register(s)
      <3>1. s \notin ToSet(subs)
        BY <2>1 DEF Register, Registered
      <3>2. ToSet(subs') = ToSet(subs) \cup {s}
        BY <2>1, <3>1, RegisterList
      <3> QED BY <3>2
    <2>2. CASE Unsubscribe(s)
      <3>1. ToSet(subs') = ToSet(subs) \ {s}
        BY <2>2, UnsubscribeList
      <3> QED BY <3>1
    <2>3. CASE ~Register(s) /\ ~Unsubscribe(s)
      <3>1. subs' = subs
        BY <2>3 DEF Client, Serves, Subscribe, Leave, Read, ReadEnd, Drop, SendId, LeaveLocks,
           Take, Forward, CloseRelay, PumpTake, PumpWrite, PumpEnds
      <3> QED BY <3>1
    <2> QED BY <2>1, <2>2, <2>3
  <1> QED BY <1>1, <1>2, <1>3, Elsewhere

\* A message that a stream passes on changes nothing in what is under way.
LEMMA PassesSafe ==
  ASSUME TypeOK, NEW s \in Streams, StreamInv(s),
         Take(s) \/ (Forward(s) /\ ~Gone(s)) \/ PumpTake(s) \/ PumpWrite(s) \/ Read(s)
  PROVE  StreamInv(s)'
  <1>1. Flow(s)' = Flow(s)
    BY FlowPasses DEF StreamInv
  <1>2. /\ UNCHANGED <<setup, handler, begun, subs, request, leaving, span, reader>>
    BY DEF Take, Forward, PumpTake, PumpWrite, Read
  <1>3. Sent(s)' /\ ToSend(s)' /\ Served(s)'
    BY <1>1, <1>2, FlowKept, ServedKept DEF StreamInv
  <1>4. Stands(s)'
    BY <1>1, <1>2 DEF StreamInv, Stands
  <1>5. Local(s)'
    BY <1>2 DEF StreamInv, Local, Remote, Take, Forward, PumpTake, PumpWrite, Read, TypeOK, Task
  <1>6. Ended(s)'
    <2>1. /\ Take(s) \/ Forward(s) => relay[s].pc # "ended" /\ relay'[s].pc = "runs"
          /\ PumpTake(s) \/ PumpWrite(s) \/ Read(s) => relay'[s] = relay[s] /\ chan'[s] = chan[s]
          /\ pump'[s].pc = pump[s].pc
      BY DEF StreamInv, Ended, Closed, Take, Forward, PumpTake, PumpWrite, Read, TypeOK, Task
    <2> QED BY <1>2, <2>1 DEF StreamInv, Ended, Closed
  <1> QED BY <1>3, <1>4, <1>5, <1>6 DEF StreamInv

\* What is thrown away is thrown away because the client is gone.
LEMMA ThrowsSafe ==
  ASSUME TypeOK, NEW s \in Streams, StreamInv(s), (Forward(s) /\ Gone(s)) \/ PumpEnds(s) \/ Drop(s)
  PROVE  StreamInv(s)'
  <1>0. /\ \A x, y : [relay EXCEPT ![s] = [pc |-> x, holds |-> y]][s] = [pc |-> x, holds |-> y]
        /\ \A x, y : [pump EXCEPT ![s] = [pc |-> x, holds |-> y]][s] = [pc |-> x, holds |-> y]
    BY DEF TypeOK
  <1>1. UNCHANGED <<setup, handler, begun, subs, request, leaving, span, got>>
    BY DEF Forward, PumpEnds, Drop
  <1>2. Within(Flow(s)', Flow(s))
    <2>1. /\ got'[s] = got[s] /\ wire'[s] \in {wire[s], <<>>} /\ pump'[s].holds \in {pump[s].holds, <<>>}
          /\ stream'[s] \in {stream[s], <<>>} /\ relay'[s].holds \in {relay[s].holds, <<>>}
          /\ chan'[s] \in {chan[s], <<>>}
      BY <1>0 DEF Forward, PumpEnds, Drop, TypeOK
    <2> QED BY <2>1, FlowLoses
  <1>3. /\ Forward(s) /\ Gone(s) => reader[s] = "gone" /\ reader'[s] = reader[s]
        /\ Drop(s) => reader'[s] = "gone"
        /\ PumpEnds(s) => reader'[s] = reader[s] /\ (reader[s] = "gone" \/ Flow(s)' = Flow(s))
    <2>1. ASSUME Forward(s), Gone(s) PROVE reader[s] = "gone" /\ reader'[s] = reader[s]
      BY <2>1 DEF Forward, Gone, StreamInv, Ended, Closed
    <2>2. Drop(s) => reader'[s] = "gone"
      BY DEF Drop, TypeOK
    <2>3. ASSUME PumpEnds(s), reader[s] # "gone" PROVE Flow(s)' = Flow(s)
      <3>1. pump[s].holds = <<>> /\ stream[s] = <<>>
        BY <2>3 DEF PumpEnds
      <3> QED BY <1>0, <2>3, <3>1, FlowSame DEF PumpEnds, TypeOK
    <2> QED BY <2>1, <2>2, <2>3 DEF PumpEnds
  <1>4. Sent(s)' /\ ToSend(s)'
    BY <1>1, <1>2, FlowKept DEF StreamInv
  <1>5. Served(s)'
    BY <1>1, <1>3, ServedKept DEF StreamInv
  <1>6. Stands(s)'
    BY <1>1, <1>2 DEF StreamInv, Stands, Within
  <1>7. Local(s)'
    BY <1>0, <1>1 DEF StreamInv, Local, Remote, Forward, PumpEnds, Drop, TypeOK
  <1>8. Ended(s)'
    <2>1. CASE Forward(s) /\ Gone(s)
      <3>1. relay'[s].holds = <<>> /\ (relay'[s].pc = "ended" => chan'[s] = <<>>) /\ pump' = pump /\ reader' = reader
        BY <1>0, <2>1 DEF Forward, TypeOK
      <3> QED BY <1>3, <2>1, <3>1 DEF Ended, Closed
    <2>2. CASE PumpEnds(s)
      <3>1. UNCHANGED <<relay, chan, reader>> /\ (reader[s] = "gone" \/ Closed(s))
        BY <2>2 DEF PumpEnds
      <3> QED BY <1>1, <3>1 DEF StreamInv, Ended, Closed
    <2>3. CASE Drop(s)
      <3>1. UNCHANGED <<relay, chan, pump>>
        BY <2>3 DEF Drop
      <3> QED BY <1>1, <1>3, <2>3, <3>1 DEF StreamInv, Ended, Closed
    <2> QED BY <2>1, <2>2, <2>3
  <1> QED BY <1>4, <1>5, <1>6, <1>7, <1>8 DEF StreamInv

\* What only moves a client, or a task, on.
LEMMA QuietSafe ==
  ASSUME TypeOK, Started, NEW s \in Streams, StreamInv(s),
         Subscribe(s) \/ Leave(s) \/ LeaveLocks(s) \/ CloseRelay(s) \/ ReadEnd(s)
  PROVE  StreamInv(s)'
  <1>0. \A x : /\ [relay EXCEPT ![s].pc = x][s].holds = relay[s].holds /\ [relay EXCEPT ![s].pc = x][s].pc = x
               /\ [pump EXCEPT ![s].pc = x][s].holds = pump[s].holds /\ [pump EXCEPT ![s].pc = x][s].pc = x
    BY DEF TypeOK, Task
  <1>1. UNCHANGED <<setup, handler, begun, subs, span, got, wire, stream, chan>>
    BY DEF Subscribe, Leave, LeaveLocks, CloseRelay, ReadEnd
  <1>2. relay'[s].holds = relay[s].holds /\ pump'[s].holds = pump[s].holds
    <2>1. CASE Subscribe(s)
      BY <1>0, <2>1 DEF Subscribe
    <2>2. CASE CloseRelay(s)
      BY <1>0, <2>2 DEF CloseRelay
    <2>3. CASE Leave(s) \/ LeaveLocks(s) \/ ReadEnd(s)
      BY <2>3 DEF Leave, LeaveLocks, ReadEnd
    <2> QED BY <2>1, <2>2, <2>3
  <1>3. Flow(s)' = Flow(s)
    BY <1>1, <1>2, FlowSame
  <1>4. reader'[s] = "open" => reader[s] = "open"
    BY DEF Subscribe, Leave, LeaveLocks, CloseRelay, ReadEnd, TypeOK
  <1>5. leaving'[s] = "done" => leaving[s] = "done"
    BY DEF Subscribe, Leave, LeaveLocks, CloseRelay, ReadEnd, TypeOK
  <1>6. Sent(s)' /\ ToSend(s)' /\ Served(s)'
    BY <1>1, <1>3, <1>4, <1>5, FlowKept, ServedKept DEF StreamInv
  <1>7. CASE Subscribe(s)
    <2>1. request'[s] = "asked" /\ request[s] = "none" /\ leaving' = leaving /\ reader' = reader
      BY <1>7 DEF Subscribe, TypeOK
    <2>2. s \notin ToSet(subs) /\ leaving[s] = "no" /\ Id \notin ToSet(Flow(s)) /\ Len(span[s]) = 0
      BY <2>1 DEF StreamInv, Stands, TypeOK
    <2>3. Stands(s)'
      BY <1>1, <1>3, <2>1, <2>2 DEF Stands
    <2>4. Local(s)'
      BY <1>0, <1>1, <1>7 DEF StreamInv, Local, Remote, Subscribe
    <2>5. Ended(s)'
      <3>1. relay'[s].pc = "runs"
        BY <1>0, <1>7 DEF Subscribe
      <3>2. pump'[s].pc = "ended" => reader[s] = "gone"
        BY <1>0, <1>7, <2>1 DEF Subscribe, Started, Unborn
      <3> QED BY <2>1, <3>1, <3>2 DEF Ended, Closed
    <2> QED BY <1>6, <2>3, <2>4, <2>5 DEF StreamInv
  <1>8. CASE Leave(s) \/ LeaveLocks(s)
    <2>1. UNCHANGED <<request, relay, pump, reader>>
      BY <1>8 DEF Leave, LeaveLocks
    <2>2. request[s] = "answered"
      <3>1. CASE Leave(s)
        <4>1. Id \in ToSet(got[s])
          <5>1. got[s] \in Seq(Message) /\ Contains(got[s], Id)
            BY <3>1 DEF Leave, TypeOK
          <5> QED BY <5>1, InSet DEF Contains
        <4>2. Id \in ToSet(Flow(s))
          <5> DEFINE g == got[s]
                     w == wire[s]
                     p == pump[s].holds
                     t == stream[s]
                     r == relay[s].holds
                     c == chan[s]
          <5>1. /\ g \in Seq(Message) /\ w \in Seq(Message) /\ p \in Seq(Message) /\ t \in Seq(Message)
                /\ r \in Seq(Message) /\ c \in Seq(Message) /\ Flow(s) = Line(g, w, p, t, r, c)
                /\ Id \in ToSet(g)
            BY <4>1, FlowIs
          <5> HIDE DEF g, w, p, t, r, c
          <5>2. ToSet(Line(g, w, p, t, r, c)) =
                  ToSet(g) \cup ToSet(w) \cup ToSet(p) \cup ToSet(t) \cup ToSet(r) \cup ToSet(c)
            BY <5>1, LineType
          <5> QED BY <5>1, <5>2
        <4> QED BY <4>2 DEF StreamInv, Stands
      <3>2. CASE LeaveLocks(s)
        BY <3>2 DEF LeaveLocks, StreamInv, Stands
      <3> QED BY <1>8, <3>1, <3>2
    <2>3. leaving'[s] # "done" /\ leaving[s] # "done"
      BY <1>8 DEF Leave, LeaveLocks, TypeOK
    <2>4. Stands(s)'
      BY <1>1, <1>3, <2>1, <2>2, <2>3 DEF StreamInv, Stands
    <2>5. Local(s)' /\ Ended(s)'
      BY <1>1, <2>1 DEF StreamInv, Local, Remote, Ended, Closed
    <2> QED BY <1>6, <2>4, <2>5 DEF StreamInv
  <1>9. CASE CloseRelay(s)
    <2>1. /\ UNCHANGED <<request, pump, reader, leaving>>
          /\ request[s] = "answered" /\ s \notin ToSet(subs) /\ relay[s].holds = <<>> /\ chan[s] = <<>>
          /\ relay'[s].pc = "ended"
      BY <1>0, <1>9 DEF CloseRelay
    <2>2. Stands(s)' /\ Local(s)'
      BY <1>1, <1>3, <2>1 DEF StreamInv, Stands, Local, Remote
    <2>3. Ended(s)'
      BY <1>1, <1>2, <2>1 DEF Ended, Closed
    <2> QED BY <1>6, <2>2, <2>3 DEF StreamInv
  <1>10. CASE ReadEnd(s)
    <2>1. UNCHANGED <<request, pump, relay, leaving>> /\ reader[s] = "open" /\ reader'[s] = "ended"
      BY <1>10 DEF ReadEnd, TypeOK
    <2>2. Stands(s)' /\ Local(s)'
      BY <1>1, <1>3, <2>1 DEF StreamInv, Stands, Local, Remote
    <2>3. Ended(s)'
      BY <1>1, <2>1 DEF StreamInv, Ended, Closed
    <2> QED BY <1>6, <2>2, <2>3 DEF StreamInv
  <1> QED BY <1>7, <1>8, <1>9, <1>10

\* The id is sent once, after which the subscription counts as answered.
LEMMA SendIdSafe ==
  ASSUME TypeOK, NEW s \in Streams, StreamInv(s), SendId(s)
  PROVE  StreamInv(s)'
  <1>1. /\ UNCHANGED <<setup, subs, relay, stream, pump, wire, reader, got, leaving, handler, begun, span>>
        /\ request[s] = "registered" /\ request'[s] = "answered"
        /\ chan'[s] = IF Closed(s) THEN chan[s] ELSE <<Id>>
        /\ Closed(s) \/ chan[s] = <<>>
    BY DEF SendId, Room, TypeOK
  <1>2. leaving[s] = "no"
    BY <1>1 DEF StreamInv, Stands
  <1>3. Local(s)' /\ Stands(s)'
    BY <1>1, <1>2 DEF StreamInv, Local, Remote, Stands
  <1>4. Ended(s)'
    BY <1>1 DEF StreamInv, Ended, Closed
  <1>5. CASE Closed(s)
    <2>1. Flow(s)' = Flow(s)
      BY <1>1, <1>5, FlowSame
    <2>2. Sent(s)' /\ ToSend(s)' /\ Served(s)'
      BY <1>1, <2>1, FlowKept, ServedKept DEF StreamInv
    <2> QED BY <1>3, <1>4, <2>2 DEF StreamInv
  <1>6. CASE ~Closed(s)
    <2>1. Id \in Message /\ ~IsProduct(Id) /\ \A h, n : Id # Product(h, n)
      BY MessageType
    <2>2. /\ ToSet(Flow(s)') = ToSet(Flow(s)) \cup {Id}
          /\ Sorted(Flow(s)') <=> Sorted(Flow(s)) /\ \A a \in ToSet(Flow(s)) : Before(a, Id)
      BY <1>1, <1>6, <2>1, FlowGrows
    <2>3. \A h, x : Wanted(h, x)' <=> Wanted(h, x)
      BY <1>1 DEF Wanted
    <2>4. Sorted(Flow(s)')
      BY <2>1, <2>2 DEF StreamInv, Sent, Before
    <2>5. Sent(s)'
      BY <1>1, <2>1, <2>2, <2>3, <2>4 DEF StreamInv, Sent
    <2>6. ToSend(s)'
      BY <1>1, <2>1, <2>2 DEF StreamInv, ToSend, This
    <2>7. Served(s)'
      BY <1>1, <2>2, ServedKept DEF StreamInv
    <2> QED BY <1>3, <1>4, <2>5, <2>6, <2>7 DEF StreamInv
  <1> QED BY <1>5, <1>6

LEMMA RegisterSafe ==
  ASSUME TypeOK, Registered, NEW s \in Streams, StreamInv(s), Register(s)
  PROVE  StreamInv(s)'
  <1>1. /\ UNCHANGED <<setup, relay, stream, pump, wire, reader, got, leaving, handler, begun, chan>>
        /\ request[s] = "asked" /\ request'[s] = "registered" /\ span'[s] = <<begun>>
    BY DEF Register, TypeOK
  <1>2. leaving[s] = "no" /\ Id \notin ToSet(Flow(s))
    BY <1>1 DEF StreamInv, Stands, TypeOK
  <1>3. Flow(s)' = Flow(s)
    BY <1>1, FlowSame
  <1>4. Sent(s)' /\ ToSend(s)'
    BY <1>1, <1>2, <1>3, FlowKept DEF StreamInv
  <1>5. Served(s)'
    <2>1. span'[s][1]["step"] = begun["step"]
      BY <1>1
    <2>2. begun["step"] \in Nat
      BY DEF TypeOK, Handlers
    <2> QED BY <1>1, <2>1, <2>2 DEF Served
  <1>6. Stands(s)'
    <2>1. Len(span'[s]) = 1
      BY <1>1
    <2> QED BY <1>1, <1>2, <1>3, <2>1 DEF Stands
  <1>7. Local(s)'
    BY <1>1 DEF StreamInv, Local, Remote
  <1>8. Ended(s)'
    BY <1>1 DEF StreamInv, Ended, Closed
  <1> QED BY <1>4, <1>5, <1>6, <1>7, <1>8 DEF StreamInv

\* All that is under way, or still to be sent, began before the subscription went.
LEMMA UnsubscribeSafe ==
  ASSUME TypeOK, NEW s \in Streams, StreamInv(s), Unsubscribe(s)
  PROVE  StreamInv(s)'
  <1>1. /\ UNCHANGED <<setup, relay, stream, pump, wire, reader, got, request, handler, begun, chan>>
        /\ leaving[s] = "asks" /\ leaving'[s] = "done" /\ span'[s] = Append(span[s], begun)
    BY DEF Unsubscribe, TypeOK
  <1>2. request[s] = "answered" /\ Len(span[s]) = 1
    BY <1>1 DEF StreamInv, Stands
  <1>3. span'[s][2] = begun /\ Len(span'[s]) = 2
    <2>1. span[s] \in Seq([Handlers -> Nat]) /\ begun \in [Handlers -> Nat]
      BY DEF TypeOK
    <2>2. Len(Append(span[s], begun)) = Len(span[s]) + 1 /\ Append(span[s], begun)[Len(span[s]) + 1] = begun
      BY <2>1, AppendProperties
    <2> QED BY <1>1, <1>2, <2>2
  <1>4. Flow(s)' = Flow(s)
    BY <1>1, FlowSame
  <1>5. s \notin ToSet(subs')
    BY UnsubscribeList
  <1>6. \A h, x : Wanted(h, x)' <=> Wanted(h, x)
    BY <1>1 DEF Wanted
  <1>7. Sent(s)'
    BY <1>1, <1>3, <1>4, <1>6 DEF StreamInv, Sent
  <1>8. ToSend(s)'
    <2>1. \A h \in Handlers : begun[h] \in Nat
      BY DEF TypeOK
    <2> QED BY <1>1, <1>3, <1>4, <2>1 DEF StreamInv, ToSend, This
  <1>9. Served(s)' /\ Stands(s)'
    BY <1>1, <1>2, <1>3, <1>4, <1>5 DEF Served, Stands
  <1>10. Local(s)'
    BY <1>1 DEF StreamInv, Local, Remote
  <1>11. Ended(s)'
    BY <1>1, <1>2, <1>5 DEF StreamInv, Ended, Closed
  <1> QED BY <1>7, <1>8, <1>9, <1>10, <1>11 DEF StreamInv

LEMMA StartedStep ==
  ASSUME TypeOK, Started, Next
  PROVE  Started'
  <1> SUFFICES ASSUME NEW x \in Streams, request'[x] = "none"
               PROVE  relay'[x] = Unborn /\ pump'[x] = Unborn
    BY DEF Started
  <1>1. request[x] = "none"
    BY DEF Next, Client, Serves, Works, Subscribe, Leave, Read, ReadEnd, Drop, Register, SendId, LeaveLocks,
           Unsubscribe, Take, Forward, CloseRelay, PumpTake, PumpWrite, PumpEnds, BeginStep, ClockChanged,
           BeginInvoke, GetSubscriptions, Send, NextEvent, Answer, QueryFails, Ends, TypeOK
  <1>2. relay[x] = Unborn /\ pump[x] = Unborn
    BY <1>1 DEF Started
  <1>3. Unborn.pc = "none" /\ Unborn.holds = <<>>
    BY DEF Unborn
  <1>4. ASSUME NEW s \in Streams, Client(s) \/ Serves(s) PROVE relay'[x] = relay[x] /\ pump'[x] = pump[x]
    <2>1. CASE s # x
      BY <1>4, <2>1 DEF Client, Serves, Subscribe, Leave, Read, ReadEnd, Drop, Register, SendId, LeaveLocks,
           Unsubscribe, Take, Forward, CloseRelay, PumpTake, PumpWrite, PumpEnds, TypeOK
    <2>2. CASE s = x
      BY <1>1, <1>2, <1>3, <1>4, <2>2 DEF Client, Serves, Subscribe, Leave, Read, ReadEnd, Drop, Register, SendId,
           LeaveLocks, Unsubscribe, Take, Forward, CloseRelay, PumpTake, PumpWrite, PumpEnds, TypeOK
    <2> QED BY <2>1, <2>2
  <1>5. ASSUME Handles PROVE relay' = relay /\ pump' = pump
    BY <1>5 DEF Handles, Works, BeginStep, ClockChanged,
           BeginInvoke, GetSubscriptions, Send, NextEvent, Answer, QueryFails, Ends
  <1> QED BY <1>2, <1>4, <1>5 DEF Next, Handles

\* What the handlers leave alone when they send nothing.
LEMMA NothingSent ==
  ASSUME NEW x \in Streams, StreamInv(x),
         UNCHANGED <<setup, subs, request, chan, relay, stream, pump, wire, reader, got, leaving, span>>
  PROVE  Flow(x)' = Flow(x) /\ Local(x)' /\ Stands(x)' /\ Ended(x)' /\ \A h, y : Wanted(h, y)' <=> Wanted(h, y)
  <1>1. Flow(x)' = Flow(x)
    BY DEF Flow
  <1>2. Local(x)' /\ Ended(x)'
    BY DEF StreamInv, Local, Remote, Ended, Closed
  <1>3. Stands(x)'
    BY <1>1 DEF StreamInv, Stands
  <1>4. \A h, y : Wanted(h, y)' <=> Wanted(h, y)
    BY DEF Wanted
  <1> QED BY <1>1, <1>2, <1>3, <1>4

LEMMA BeginsSafe ==
  ASSUME TypeOK, HandlersRight, NEW x \in Streams, StreamInv(x),
         BeginStep \/ \E locks \in BOOLEAN, events \in 1..setup.events : BeginInvoke(locks, events)
  PROVE  StreamInv(x)'
  <1>0. /\ UNCHANGED <<setup, subs, request, chan, relay, stream, pump, wire, reader, got, leaving, span>>
        /\ handler \in [Handlers -> Work] /\ begun \in [Handlers -> Nat]
        /\ "step" \in Handlers /\ "invoke" \in Handlers /\ \A h \in Handlers : h = "step" \/ h = "invoke"
    BY DEF BeginStep, BeginInvoke, TypeOK, Handlers
  <1>1. Flow(x)' = Flow(x) /\ Local(x)' /\ Stands(x)' /\ Ended(x)' /\ \A h, y : Wanted(h, y)' <=> Wanted(h, y)
    BY <1>0, NothingSent
  <1>2. PICK g \in Handlers :
          /\ begun' = [begun EXCEPT ![g] = @ + 1]
          /\ handler'[g].rest = <<>> /\ handler'[g].pc # "subs"
          /\ \A h \in Handlers : h # g => handler'[h] = handler[h]
    <2>1. CASE BeginStep
      <3> DEFINE w == [Off EXCEPT !.pc = "server"]
      <3>1. w.rest = <<>> /\ w.pc = "server"
        BY DEF Off
      <3>2. handler' = [handler EXCEPT !["step"] = w]
        BY <2>1 DEF BeginStep
      <3> HIDE DEF w
      <3>3. begun' = [begun EXCEPT !["step"] = @ + 1]
        BY <2>1 DEF BeginStep
      <3> QED BY <1>0, <3>1, <3>2, <3>3
    <2>2. ASSUME NEW locks \in BOOLEAN, NEW events \in 1..setup.events, BeginInvoke(locks, events)
          PROVE  /\ begun' = [begun EXCEPT !["invoke"] = @ + 1]
                 /\ handler'["invoke"].rest = <<>> /\ handler'["invoke"].pc # "subs"
                 /\ \A h \in Handlers : h # "invoke" => handler'[h] = handler[h]
      <3> DEFINE w == [Off EXCEPT !.pc = "event", !.events = events, !.locks = locks]
      <3>1. w.rest = <<>> /\ w.pc = "event"
        BY DEF Off
      <3>2. handler' = [handler EXCEPT !["invoke"] = w]
        BY <2>2 DEF BeginInvoke
      <3> HIDE DEF w
      <3>3. begun' = [begun EXCEPT !["invoke"] = @ + 1]
        BY <2>2 DEF BeginInvoke
      <3> QED BY <1>0, <3>1, <3>2, <3>3
    <2> QED BY <1>0, <2>1, <2>2
  <1>3. \A h \in Handlers : begun[h] \in Nat /\ begun'[h] = IF h = g THEN begun[h] + 1 ELSE begun[h]
    BY <1>0, <1>2
  <1>4. \A m \in ToSet(Flow(x)) : IsProduct(m) => m.by \in Handlers /\ m.n \in Nat /\ m.n <= begun[m.by]
    BY FlowIs, MessageType DEF StreamInv, Sent
  <1>5. Sent(x)'
    <2>1. \A m \in ToSet(Flow(x)) : IsProduct(m) => m.n <= begun'[m.by]
      BY <1>3, <1>4
    <2> QED BY <1>0, <1>1, <2>1 DEF StreamInv, Sent
  <1>6. ToSet(<<>>) = {}
    BY DEF ToSet
  <1>7. ToSend(x)'
    <2>1. ASSUME NEW h \in Handlers, x \in ToSet(handler'[h].rest), leaving'[x] = "done"
          PROVE  begun'[h] <= span'[x][2][h]
      BY <2>1, <1>0, <1>2, <1>3, <1>6 DEF StreamInv, ToSend
    <2>2. ASSUME handler'["step"].pc \in {"server", "event"} \/ x \in ToSet(handler'["step"].rest)
          PROVE  Product("step", begun'["step"]) \notin ToSet(Flow(x))
      <3>1. CASE g = "step"
        <4>1. IsProduct(Product("step", begun'["step"])) /\ Product("step", begun'["step"]).by = "step"
              /\ Product("step", begun'["step"]).n = begun["step"] + 1
          BY <3>1, <1>0, <1>3, MessageType
        <4> QED BY <4>1, <1>0, <1>3, <1>4
      <3>2. CASE g # "step"
        BY <2>2, <3>2, <1>0, <1>2, <1>3 DEF StreamInv, ToSend, This
      <3> QED BY <3>1, <3>2
    <2> QED BY <1>1, <2>1, <2>2 DEF ToSend, This
  <1>8. Served(x)'
    <2>1. CASE g = "step"
      BY <2>1, <1>2 DEF Served
    <2>2. CASE g # "step"
      BY <2>2, <1>0, <1>1, <1>2, <1>3 DEF StreamInv, Served, This
    <2> QED BY <2>1, <2>2
  <1> QED BY <1>1, <1>5, <1>7, <1>8 DEF StreamInv

\* The handlers that go on, and send nothing.
LEMMA MovesSafe ==
  ASSUME TypeOK, HandlersRight, NEW x \in Streams, StreamInv(x), NEW h \in Handlers,
         (h = "step" /\ ClockChanged) \/ GetSubscriptions(h) \/ NextEvent(h) \/ Answer(h) \/ QueryFails(h)
  PROVE  StreamInv(x)'
  <1>0. /\ UNCHANGED <<setup, subs, request, chan, relay, stream, pump, wire, reader, got, leaving, span, begun>>
        /\ handler \in [Handlers -> Work] /\ subs \in Seq(Streams)
    BY DEF ClockChanged, GetSubscriptions, NextEvent, Answer, QueryFails, Ends, TypeOK
  <1>1. Flow(x)' = Flow(x) /\ Local(x)' /\ Stands(x)' /\ Ended(x)' /\ \A g, y : Wanted(g, y)' <=> Wanted(g, y)
    BY <1>0, NothingSent
  <1>2. Sent(x)'
    BY <1>0, <1>1 DEF StreamInv, Sent
  <1>6. ToSet(<<>>) = {}
    BY DEF ToSet
  <1>3. /\ \A g \in Handlers : g # h => handler'[g] = handler[g]
        /\ \/ handler'[h].pc \in {"off", "event"} /\ handler'[h].rest = <<>>
           \/ /\ handler'[h].pc = "subs" /\ handler'[h].rest = Pending(h, subs)
              /\ handler[h].pc = "event"
        /\ h = "step" /\ handler'[h].pc = "event" => handler[h].pc = "server"
    <2>1. CASE h = "step" /\ ClockChanged
      <3>1. Moves("step", "event", <<>>, 1)
        BY <1>0, <2>1, HandlerMoves DEF ClockChanged, TypeOK
      <3>2. <<>> \in Seq(Streams) /\ 1 \in Nat /\ "event" \in {"off", "server", "event", "subs"}
        BY EmptySeq
      <3>3. /\ handler'["step"].pc = "event" /\ handler'["step"].rest = <<>>
            /\ \A g \in Handlers : g # "step" => handler'[g] = handler[g]
        BY <1>0, <2>1, <3>1, <3>2, MovesType
      <3>4. handler["step"].pc = "server"
        BY <2>1 DEF ClockChanged
      <3> QED BY <2>1, <3>3, <3>4
    <2>2. CASE GetSubscriptions(h)
      <3>1. Moves(h, "subs", Pending(h, subs), handler[h].events - 1)
        BY <1>0, <2>2, HandlerMoves
      <3>2. /\ Pending(h, subs) \in Seq(Streams) /\ handler[h].events - 1 \in Nat
            /\ "subs" \in {"off", "server", "event", "subs"} /\ handler[h].pc = "event"
        BY <1>0, <2>2, PendingRight DEF GetSubscriptions, Work
      <3> QED BY <1>0, <3>1, <3>2, MovesType
    <2>3. CASE NextEvent(h)
      <3>0. h # "step"
        <4>1. handler[h].pc = "subs" /\ handler[h].events > 0
          BY <2>3 DEF NextEvent
        <4>2. handler["step"].pc = "subs" => handler["step"].events = 0
          BY DEF HandlersRight
        <4> QED BY <4>1, <4>2
      <3>1. Moves(h, "event", <<>>, handler[h].events) /\ h # "step"
        <4>1. Moves(h, "event", handler[h].rest, handler[h].events)
          BY <1>0, <2>3, HandlerMoves
        <4>2. handler[h].rest = <<>>
          BY <2>3 DEF NextEvent
        <4> QED BY <3>0, <4>1, <4>2
      <3>2. <<>> \in Seq(Streams) /\ handler[h].events \in Nat /\ "event" \in {"off", "server", "event", "subs"}
        BY <1>0, EmptySeq DEF Work
      <3> QED BY <1>0, <3>1, <3>2, MovesType
    <2>4. CASE Answer(h) \/ QueryFails(h)
      <3>1. Becomes(h, "off", 0, FALSE, "ok") \/ Becomes(h, "off", 0, FALSE, "failed")
        BY <1>0, <2>4, HandlerMoves
      <3>2. /\ 0 \in Nat /\ FALSE \in BOOLEAN /\ "off" \in {"off", "server", "event", "subs"}
            /\ "ok" \in {"none", "ok", "failed"} /\ "failed" \in {"none", "ok", "failed"}
        OBVIOUS
      <3> QED BY <1>0, <3>1, <3>2, BecomesType
    <2> QED BY <2>1, <2>2, <2>3, <2>4
  <1>4. /\ ToSet(Pending(h, subs)) \subseteq ToSet(subs)
        /\ x \in ToSet(subs) /\ Wanted(h, x) => x \in ToSet(Pending(h, subs))
    BY <1>0, PendingRight
  <1>5. x \in ToSet(subs) => leaving[x] # "done"
    BY DEF StreamInv, Stands
  <1>7. ToSend(x)'
    <2>1. ASSUME NEW g \in Handlers, x \in ToSet(handler'[g].rest), leaving'[x] = "done"
          PROVE  begun'[g] <= span'[x][2][g]
      BY <2>1, <1>0, <1>3, <1>4, <1>5, <1>6 DEF StreamInv, ToSend
    <2>2. ASSUME handler'["step"].pc \in {"server", "event"} \/ x \in ToSet(handler'["step"].rest)
          PROVE  This \notin ToSet(Flow(x))
      <3>1. "step" \in Handlers
        BY DEF Handlers
      <3>2. handler["step"].pc \in {"server", "event"} \/ x \in ToSet(handler["step"].rest)
        BY <2>2, <3>1, <1>3, <1>6
      <3> QED BY <3>2 DEF StreamInv, ToSend
    <2> QED BY <1>0, <1>1, <2>1, <2>2 DEF ToSend, This
  <1>8. Served(x)'
    <2>1. CASE h # "step"
      <3>1. handler'["step"] = handler["step"]
        BY <2>1, <1>3 DEF Handlers
      <3> QED BY <3>1, <1>0, <1>1 DEF StreamInv, Served, This
    <2>2. CASE h = "step" /\ handler'[h].pc # "subs"
      BY <2>2 DEF Served
    <2>3. CASE h = "step" /\ handler'[h].pc = "subs"
      <3>1. handler'["step"].rest = Pending("step", subs)
        BY <2>3, <1>3
      <3>2. "step" \in setup.sub[x].triggers => Wanted("step", x)
        BY DEF Wanted
      <3> QED BY <2>3, <3>1, <3>2, <1>0, <1>4 DEF Served
    <2> QED BY <2>1, <2>2, <2>3
  <1> QED BY <1>1, <1>2, <1>7, <1>8 DEF StreamInv

\* A product is sent to the client whose copy is next, unless its relay ended.
LEMMA SendSafe ==
  ASSUME TypeOK, HandlersRight, NEW x \in Streams, StreamInv(x), NEW h \in Handlers, Send(h)
  PROVE  StreamInv(x)'
  <1> DEFINE q == handler[h].rest
             n == begun[h]
  <1>0. /\ UNCHANGED <<setup, subs, request, relay, stream, pump, wire, reader, got, leaving, span, begun>>
        /\ handler \in [Handlers -> Work] /\ q \in Seq(Streams) /\ q # <<>> /\ n \in Nat
        /\ handler[h].pc = "subs" /\ IsInjective(q) /\ Wanted(h, Head(q)) /\ "step" \in Handlers
    BY DEF Send, TypeOK, HandlersRight, Work, Handlers
  <1>1. /\ handler'[h].pc = "subs" /\ handler'[h].rest = Pending(h, Tail(q))
        /\ \A g \in Handlers : g # h => handler'[g] = handler[g]
    <2>1. Moves(h, "subs", Pending(h, Tail(q)), handler[h].events)
      BY <1>0, HandlerMoves
    <2>2. /\ Pending(h, Tail(q)) \in Seq(Streams) /\ handler[h].events \in Nat
          /\ "subs" \in {"off", "server", "event", "subs"}
      BY <1>0, TailRight, PendingRight DEF Work
    <2> QED BY <1>0, <2>1, <2>2, MovesType
  <1>2. /\ Tail(q) \in Seq(Streams) /\ ToSet(q) = {Head(q)} \cup ToSet(Tail(q)) /\ Head(q) \notin ToSet(Tail(q))
        /\ Head(q) \in Streams
    BY <1>0, TailRight
  <1>3. /\ ToSet(handler'[h].rest) \subseteq ToSet(Tail(q))
        /\ \A y \in ToSet(Tail(q)) : Wanted(h, y) => y \in ToSet(handler'[h].rest)
    BY <1>1, <1>2, PendingRight
  <1>4. /\ Closed(Head(q)) \/ chan[Head(q)] = <<>>
        /\ chan' = IF Closed(Head(q)) THEN chan ELSE [chan EXCEPT ![Head(q)] = <<Product(h, n)>>]
    BY DEF Send, Room
  <1>5. \A g, y : Wanted(g, y)' <=> Wanted(g, y)
    BY <1>0 DEF Wanted
  <1>6. ASSUME NEW g \in Handlers, x \in ToSet(handler'[g].rest)
        PROVE  x \in ToSet(handler[g].rest) /\ (g = h => x # Head(q))
    BY <1>1, <1>2, <1>3, <1>6
  <1> HIDE DEF q, n
  <1>7. Local(x)'
    BY <1>0 DEF StreamInv, Local, Remote
  <1>8. \A g \in Handlers : x \in ToSet(handler'[g].rest) /\ leaving'[x] = "done" => begun'[g] <= span'[x][2][g]
    BY <1>0, <1>6 DEF StreamInv, ToSend
  <1>9. handler'["step"].pc \in {"server", "event"} \/ x \in ToSet(handler'["step"].rest) =>
          This \notin ToSet(Flow(x)) /\ (h = "step" => x # Head(q))
    <2>1. handler'["step"].pc \in {"server", "event"} => h # "step" /\ handler'["step"] = handler["step"]
      BY <1>0, <1>1
    <2> QED BY <2>1, <1>0, <1>6 DEF StreamInv, ToSend
  <1>10. CASE x # Head(q) \/ Closed(x)
    <2>1. chan'[x] = chan[x]
      BY <1>4, <1>10
    <2>2. Flow(x)' = Flow(x)
      BY <1>0, <2>1, FlowSame
    <2>3. Sent(x)'
      BY <1>0, <1>5, <2>2 DEF StreamInv, Sent
    <2>4. ToSend(x)'
      BY <1>0, <1>8, <1>9, <2>2 DEF ToSend, This
    <2>5. Stands(x)' /\ Ended(x)'
      BY <1>0, <2>1, <2>2 DEF StreamInv, Stands, Ended, Closed
    <2>6. Served(x)'
      <3>1. CASE h = "step"
        <4>1. Closed(x) => reader[x] # "open" \/ x \notin ToSet(subs)
          BY DEF StreamInv, Ended
        <4>2. x \in ToSet(q) /\ x # Head(q) /\ "step" \in setup.sub[x].triggers => x \in ToSet(handler'["step"].rest)
          BY <3>1, <1>2, <1>3 DEF Wanted
        <4> QED BY <3>1, <4>1, <4>2, <1>0, <1>10, <2>2 DEF StreamInv, Served, This, q
      <3>2. CASE h # "step"
        <4>1. handler'["step"] = handler["step"]
          BY <3>2, <1>0, <1>1
        <4> QED BY <4>1, <1>0, <2>2 DEF StreamInv, Served, This
      <3> QED BY <3>1, <3>2
    <2> QED BY <1>7, <2>3, <2>4, <2>5, <2>6 DEF StreamInv
  <1>11. CASE x = Head(q) /\ ~Closed(x)
    <2> DEFINE m == Product(h, n)
    <2>1. m \in Message /\ IsProduct(m) /\ m.by = h /\ m.n = n
      BY <1>0, MessageType
    <2>2. chan[x] = <<>> /\ chan'[x] = <<m>>
      BY <1>4, <1>11 DEF TypeOK
    <2>m. h = "step" => m = This
      BY DEF This, n
    <2> HIDE DEF m
    <2>3. /\ ToSet(Flow(x)') = ToSet(Flow(x)) \cup {m}
          /\ Sorted(Flow(x)') <=> Sorted(Flow(x)) /\ \A a \in ToSet(Flow(x)) : Before(a, m)
      BY <1>0, <2>1, <2>2, FlowGrows
    <2>4. x \in ToSet(q)
      BY <1>2, <1>11
    <2>5. \A a \in ToSet(Flow(x)) : IsProduct(a) =>
            /\ a.by \in Handlers /\ a.n \in Nat /\ a = Product(a.by, a.n)
            /\ a.n <= begun[a.by]
      BY FlowIs, MessageType DEF StreamInv, Sent
    <2>6. ASSUME NEW a \in ToSet(Flow(x)) PROVE Before(a, m)
      <3> SUFFICES ASSUME IsProduct(a), a.by = h PROVE a.n < n \/ (a.by = "invoke" /\ a.n = n)
        BY <2>1 DEF Before
      <3>1. a.n \in Nat /\ a.n <= n /\ a = Product(h, a.n)
        BY <2>5 DEF n
      <3>2. CASE h = "step"
        <4>1. This \notin ToSet(Flow(x))
          BY <3>2, <2>4 DEF StreamInv, ToSend, q
        <4>2. a.n # n
          BY <3>1, <3>2, <4>1 DEF This, n
        <4> QED BY <3>1, <4>2, <1>0
      <3>3. CASE h = "invoke"
        BY <3>1, <3>3, <1>0
      <3> QED BY <3>2, <3>3 DEF Handlers
    <2>7. Sorted(Flow(x)')
      BY <2>3, <2>6 DEF StreamInv, Sent
    <2>8. /\ m.n <= begun'[m.by]
          /\ m.by = "step" => "step" \in setup'.sub[x].triggers
          /\ leaving'[x] = "done" => m.n <= span'[x][2][m.by]
      <3>1. h = "step" => "step" \in setup'.sub[x].triggers
        BY <1>0, <1>11 DEF Wanted, q
      <3>2. begun'[h] = n /\ n <= n
        BY <1>0 DEF n
      <3>3. leaving[x] = "done" => n <= span[x][2][h]
        BY <2>4 DEF StreamInv, ToSend, q, n
      <3> QED BY <1>0, <2>1, <3>1, <3>2, <3>3
    <2>9. Sent(x)'
      <3>1. ASSUME NEW a \in ToSet(Flow(x)), IsProduct(a)
            PROVE  /\ a.n <= begun'[a.by]
                   /\ a.by = "step" => "step" \in setup'.sub[x].triggers
                   /\ leaving'[x] = "done" => a.n <= span'[x][2][a.by]
        BY <1>0, <3>1 DEF StreamInv, Sent, Wanted
      <3> QED BY <2>3, <2>7, <2>8, <3>1 DEF Sent, Wanted
    <2>10. ToSend(x)'
      <3>1. ASSUME handler'["step"].pc \in {"server", "event"} \/ x \in ToSet(handler'["step"].rest)
            PROVE  Product("step", begun'["step"]) \notin ToSet(Flow(x)')
        <4>1. This \notin ToSet(Flow(x)) /\ h # "step"
          BY <3>1, <1>9, <1>11
        <4>2. This # m
          BY <4>1, <2>1, MessageType DEF This
        <4> QED BY <4>1, <4>2, <1>0, <2>3 DEF This
      <3> QED BY <1>8, <3>1 DEF ToSend, This
    <2>11. Stands(x)'
      <3>1. m # Id
        BY <2>1, MessageType
      <3> QED BY <1>0, <2>3, <3>1 DEF StreamInv, Stands
    <2>12. Ended(x)'
      BY <1>0, <1>11 DEF StreamInv, Ended, Closed
    <2>13. Served(x)'
      <3>1. CASE h = "step"
        <4>1. This' \in ToSet(Flow(x)')
          BY <3>1, <1>0, <2>m, <2>3 DEF This
        <4> QED BY <4>1 DEF Served
      <3>2. CASE h # "step"
        <4>1. handler'["step"] = handler["step"]
          BY <3>2, <1>0, <1>1
        <4> QED BY <4>1, <1>0, <2>3 DEF StreamInv, Served, This
      <3> QED BY <3>1, <3>2
    <2> QED BY <1>7, <2>9, <2>10, <2>11, <2>12, <2>13 DEF StreamInv
  <1> QED BY <1>10, <1>11

-----------------------------------------------------------------------------
(* The theorems                                                            *)

LEMMA InvInit == Init => SubscriptionsInv
  <1> SUFFICES ASSUME Init PROVE SubscriptionsInv
    OBVIOUS
  <1>0. ToSet(<<>>) = {} /\ IsInjective(<<>>) /\ Sorted(<<>>)
    BY DEF ToSet, IsInjective, Sorted
  <1>1. \A h \in Handlers : handler[h] = Off /\ Off.pc = "off" /\ Off.rest = <<>>
    BY DEF Init, Off
  <1>2. HandlersRight
    BY <1>0, <1>1 DEF HandlersRight, Handlers
  <1>3. Started
    BY DEF Init, Started, Unborn
  <1>4. ASSUME NEW s \in Streams PROVE StreamInv(s)
    <2>1. /\ got[s] = <<>> /\ wire[s] = <<>> /\ pump[s].holds = <<>> /\ stream[s] = <<>> /\ relay[s].holds = <<>>
          /\ chan[s] = <<>> /\ subs = <<>> /\ request[s] = "none" /\ leaving[s] = "no" /\ span[s] = <<>>
          /\ relay[s].pc = "none" /\ pump[s].pc = "none"
      BY DEF Init
    <2>2. Flow(s) = <<>>
      <3>1. <<>> \o <<>> \o <<>> \o <<>> \o <<>> \o <<>> = <<>>
        <4>1. <<>> \o <<>> = <<>>
          BY EmptySeq, ConcatEmptySeq
        <4> QED BY <4>1
      <3> QED BY <2>1, <3>1 DEF Flow
    <2>3. handler["step"].pc = "off" /\ handler["step"].rest = <<>> /\ \A h \in Handlers : handler[h].rest = <<>>
      BY <1>1 DEF Handlers
    <2>4. Local(s) /\ Stands(s)
      BY <1>0, <2>1, <2>2 DEF Local, Stands
    <2>5. Sent(s) /\ ToSend(s)
      BY <1>0, <2>1, <2>2, <2>3 DEF Sent, ToSend
    <2>6. Ended(s) /\ Served(s)
      BY <2>1, <2>3 DEF Ended, Served, Closed
    <2> QED BY <2>4, <2>5, <2>6 DEF StreamInv
  <1> QED BY <1>2, <1>3, <1>4 DEF SubscriptionsInv

LEMMA InvStep ==
  ASSUME TypeOK, SubscriptionsInv, [Next]_vars
  PROVE  TypeOK' /\ SubscriptionsInv'
  <1>0. Registered /\ Started /\ HandlersRight /\ \A s \in Streams : StreamInv(s)
    <2>1. ToSet(subs) \subseteq Streams
      BY InSet DEF TypeOK
    <2> QED BY <2>1 DEF SubscriptionsInv, StreamInv, Stands, Registered
  <1>1. ASSUME NEW s \in Streams, Client(s) \/ Serves(s) PROVE TypeOK' /\ SubscriptionsInv'
    <2>1. TypeOK'
      BY <1>0, <1>1, TypeClient, TypeServes
    <2>2. Started'
      BY <1>0, <1>1, StartedStep DEF Next
    <2>3. HandlersRight'
      <3>1. UNCHANGED <<setup, handler>>
        BY <1>1 DEF Client, Serves, Subscribe, Leave, Read, ReadEnd, Drop, Register, SendId, LeaveLocks,
           Unsubscribe, Take, Forward, CloseRelay, PumpTake, PumpWrite, PumpEnds
      <3> QED BY <1>0, <3>1 DEF HandlersRight, Wanted
    <2>4. StreamInv(s)'
      <3>1. StreamInv(s)
        BY <1>0
      <3>2. CASE Take(s) \/ (Forward(s) /\ ~Gone(s)) \/ PumpTake(s) \/ PumpWrite(s) \/ Read(s)
        BY <3>1, <3>2, PassesSafe
      <3>3. CASE (Forward(s) /\ Gone(s)) \/ PumpEnds(s) \/ Drop(s)
        BY <3>1, <3>3, ThrowsSafe
      <3>4. CASE Subscribe(s) \/ Leave(s) \/ LeaveLocks(s) \/ CloseRelay(s) \/ ReadEnd(s)
        BY <1>0, <3>1, <3>4, QuietSafe
      <3>5. CASE SendId(s)
        BY <3>1, <3>5, SendIdSafe
      <3>6. CASE Register(s)
        BY <1>0, <3>1, <3>6, RegisterSafe
      <3>7. CASE Unsubscribe(s)
        BY <3>1, <3>7, UnsubscribeSafe
      <3> QED BY <1>1, <3>2, <3>3, <3>4, <3>5, <3>6, <3>7 DEF Client, Serves
    <2>5. ASSUME NEW x \in Streams, x # s PROVE StreamInv(x)'
      BY <1>0, <1>1, <2>5, OthersKept
    <2> QED BY <2>1, <2>2, <2>3, <2>4, <2>5 DEF SubscriptionsInv
  <1>2. ASSUME Handles PROVE TypeOK' /\ SubscriptionsInv'
    <2>1. TypeOK' /\ HandlersRight'
      BY <1>0, <1>2, TypeHandles
    <2>2. Started'
      BY <1>0, <1>2, StartedStep DEF Next, Handles
    <2>3. ASSUME NEW x \in Streams PROVE StreamInv(x)'
      <3>1. StreamInv(x)
        BY <1>0
      <3>2. CASE BeginStep \/ \E locks \in BOOLEAN, events \in 1..setup.events : BeginInvoke(locks, events)
        BY <1>0, <3>1, <3>2, BeginsSafe
      <3>3. CASE ClockChanged
        <4>1. "step" \in Handlers
          BY DEF Handlers
        <4> QED BY <1>0, <3>1, <3>3, <4>1, MovesSafe
      <3>4. ASSUME NEW h \in Handlers, Works(h) PROVE StreamInv(x)'
        <4>1. CASE Send(h)
          BY <1>0, <3>1, <4>1, SendSafe
        <4>2. CASE GetSubscriptions(h) \/ NextEvent(h) \/ Answer(h) \/ QueryFails(h)
          BY <1>0, <3>1, <4>2, MovesSafe
        <4> QED BY <3>4, <4>1, <4>2 DEF Works
      <3> QED BY <1>2, <3>2, <3>3, <3>4 DEF Handles
    <2> QED BY <2>1, <2>2, <2>3 DEF SubscriptionsInv
  <1>3. CASE UNCHANGED vars
    <2>1. TypeOK' /\ Started' /\ HandlersRight'
      BY <1>0, <1>3 DEF vars, TypeOK, Started, HandlersRight, Wanted
    <2>2. ASSUME NEW x \in Streams PROVE StreamInv(x)'
      <3>1. StreamInv(x)
        BY <1>0
      <3> QED BY <1>3, <3>1, Elsewhere DEF vars
    <2> QED BY <2>1, <2>2 DEF SubscriptionsInv
  <1> QED BY <1>1, <1>2, <1>3 DEF Next, Handles

\* The types of the subscriptions' state (worker/manager.rs:505): the list holds
\* no subscription twice, no channel more than its one message, a connection no
\* more than it takes, and only a handler at its list holds copies of it.
THEOREM TypeCorrect == Spec => []TypeOK
  <1>1. Init => TypeOK /\ SubscriptionsInv
    BY TypeInit, InvInit
  <1>2. TypeOK /\ SubscriptionsInv /\ [Next]_vars => TypeOK' /\ SubscriptionsInv'
    BY InvStep
  <1> QED BY <1>1, <1>2, PTL DEF Spec

LEMMA Invariance == Spec => [](TypeOK /\ SubscriptionsInv)
  <1>1. Init => TypeOK /\ SubscriptionsInv
    BY TypeInit, InvInit
  <1>2. TypeOK /\ SubscriptionsInv /\ [Next]_vars => TypeOK' /\ SubscriptionsInv'
    BY InvStep
  <1> QED BY <1>1, <1>2, PTL DEF Spec

\* Whatever a client reads, and whenever (worker/mod.rs:957, worker/manager.rs:519):
\* the products of each handler are in order and of a step at most once, those of steps
\* are there only if it subscribed to steps (those of events whatever it subscribed
\* to), and none is of a handler that began after it had unsubscribed.
THEOREM StreamsRight == Spec => []StreamRight
  <1>1. TypeOK /\ SubscriptionsInv => StreamRight
    <2> SUFFICES ASSUME TypeOK, SubscriptionsInv PROVE StreamRight
      OBVIOUS
    <2>1. \A s \in Streams : Sent(s)
      BY DEF SubscriptionsInv, StreamInv
    <2>2. InOrder /\ NothingAfter
      BY <2>1 DEF InOrder, NothingAfter, Sent
    <2>3. StepsIfSubscribed
      BY <2>1 DEF StepsIfSubscribed, Sent, Wanted
    <2> QED BY <2>2, <2>3 DEF StreamRight
  <1> QED BY <1>1, Invariance, PTL

\* A step that is answered without an error has sent its product to everybody who
\* had subscribed to steps before it began and still listens (worker/mod.rs:957).
THEOREM NobodyLeftOut == Spec => NoneLeftOut
  <1> DEFINE Told == \A s \in ToSet(subs) :
               /\ "step" \in setup.sub[s].triggers /\ span[s][1]["step"] < begun["step"]
               /\ reader[s] = "open"
               => Product("step", begun["step"]) \in ToSet(Flow(s))
  <1>1. TypeOK /\ SubscriptionsInv /\ [Next]_vars =>
          [handler["step"].pc # "off" /\ handler'["step"].result = "ok" => Told]_vars
    <2> SUFFICES ASSUME TypeOK, SubscriptionsInv, Next,
                        handler["step"].pc # "off", handler'["step"].result = "ok"
                 PROVE  Told
      OBVIOUS
    <2>0. /\ handler \in [Handlers -> Work] /\ handler["step"].result = "none" /\ "step" \in Handlers
          /\ HandlersRight
      BY DEF SubscriptionsInv, HandlersRight, TypeOK, Handlers
    <2>1. handler["step"].pc = "subs" /\ handler["step"].rest = <<>>
      <3>1. Answer("step")
        <4>1. CASE \E s \in Streams : Client(s) \/ Serves(s)
          <5>1. handler' = handler
            BY <4>1 DEF Client, Serves, Subscribe, Leave, Read, ReadEnd, Drop, Register, SendId, LeaveLocks,
               Unsubscribe, Take, Forward, CloseRelay, PumpTake, PumpWrite, PumpEnds
          <5> QED BY <2>0, <5>1
        <4>2. CASE BeginStep
          BY <4>2 DEF BeginStep
        <4>3. CASE ClockChanged
          <5>1. handler'["step"].result = handler["step"].result
            BY <2>0, <4>3 DEF ClockChanged, Work
          <5> QED BY <2>0, <5>1
        <4>4. CASE \E locks \in BOOLEAN, events \in 1..setup.events : BeginInvoke(locks, events)
          <5>1. handler'["step"] = handler["step"]
            BY <2>0, <4>4 DEF BeginInvoke
          <5> QED BY <2>0, <5>1
        <4>5. ASSUME NEW h \in Handlers, Works(h), ~Answer("step") PROVE FALSE
          <5>1. CASE h # "step"
            <6>1. handler'["step"] = handler["step"]
              BY <2>0, <4>5, <5>1 DEF Works, GetSubscriptions, Send, NextEvent, Answer, QueryFails, Ends
            <6> QED BY <2>0, <6>1
          <5>2. CASE QueryFails("step")
            <6>1. Becomes("step", "off", 0, FALSE, "failed")
              BY <2>0, <5>2, HandlerMoves
            <6>2. [pc |-> "off", rest |-> <<>>, events |-> 0, locks |-> FALSE, result |-> "failed"].result = "failed"
              OBVIOUS
            <6> QED BY <2>0, <6>1, <6>2 DEF Becomes
          <5>3. CASE GetSubscriptions("step") \/ Send("step") \/ NextEvent("step")
            <6>1. handler'["step"].result = handler["step"].result
              BY <2>0, <5>3 DEF GetSubscriptions, Send, NextEvent, Work
            <6> QED BY <2>0, <6>1
          <5> QED BY <4>5, <5>1, <5>2, <5>3 DEF Works
        <4> QED BY <4>1, <4>2, <4>3, <4>4, <4>5 DEF Next
      <3> QED BY <3>1 DEF Answer
    <2>2. ToSet(subs) \subseteq Streams /\ ToSet(<<>>) = {}
      BY InSet DEF TypeOK, ToSet
    <2>3. \A s \in Streams : Served(s)
      BY DEF SubscriptionsInv, StreamInv
    <2> QED BY <2>1, <2>2, <2>3 DEF Served, This
  <1>2. Spec => [][handler["step"].pc # "off" /\ handler'["step"].result = "ok" => Told]_vars
    BY <1>1, Invariance, PTL DEF Spec
  <1> QED BY <1>2 DEF NoneLeftOut
==============================================================================
