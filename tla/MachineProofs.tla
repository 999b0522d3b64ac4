--------------------------- MODULE MachineProofs ---------------------------
(***************************************************************************)
(* Proofs about the interpreter, for any scripts, names and depth of the   *)
(* call stack.                                                             *)
(***************************************************************************)
EXTENDS Machine, Integers, FiniteSetTheorems, SequenceTheorems, WellFoundedInduction, TLAPS

-----------------------------------------------------------------------------
(* Numbers *)

\* A set of numbers that is not empty has a least one.
LEMMA Least ==
  ASSUME NEW T, T \subseteq Nat, T # {}
  PROVE  \E i \in T : \A j \in T : i <= j
  <1>1. PICK i \in T : \A j \in T : <<j, i>> \notin OpToRel(<, Nat)
    BY WFMin, NatLessThanWellFounded, Zenon
  <1>2. \A j \in T : ~(j < i)
    BY <1>1, Zenon DEF OpToRel
  <1> QED BY <1>2

\* One that is bounded has a greatest.
LEMMA Greatest ==
  ASSUME NEW n \in Nat, NEW T, T \subseteq 0..n, T # {}
  PROVE  \E i \in T : \A j \in T : j <= i
  <1> DEFINE U == {n - i : i \in T}
  <1>1. U \subseteq Nat /\ U # {}
    <2>1. PICK i : i \in T
      OBVIOUS
    <2>2. n - i \in U
      BY <2>1
    <2>3. \A j \in T : n - j \in Nat
      OBVIOUS
    <2> QED BY <2>2, <2>3
  <1>2. PICK u \in U : \A v \in U : u <= v
    BY <1>1, Least
  <1>3. PICK i \in T : u = n - i
    BY <1>2
  <1>4. ASSUME NEW j \in T PROVE j <= i
    <2>1. n - j \in U
      OBVIOUS
    <2> QED BY <1>2, <1>3, <2>1
  <1> QED BY <1>4

\* What holds at the beginning and goes on from each number to the next holds to the end.
LEMMA Upwards ==
  ASSUME NEW a \in Nat, NEW b \in Nat, NEW T, a \in T, \A i \in a + 1..b : i - 1 \in T => i \in T
  PROVE  a..b \subseteq T
  <1> DEFINE bad == a..b \ T
  <1>1. ASSUME bad # {} PROVE FALSE
    <2>1. bad \subseteq Nat
      OBVIOUS
    <2>2. PICK i \in bad : \A j \in bad : i <= j
      BY <1>1, <2>1, Least
    <2>3. i \in a + 1..b /\ i - 1 \in a..b /\ ~(i <= i - 1)
      BY <2>2
    <2>4. i - 1 \in T
      BY <2>2, <2>3
    <2> QED BY <2>2, <2>3, <2>4
  <1> QED BY <1>1

\* The same from the end to the beginning, if each number needs all behind it.
LEMMA Downwards ==
  ASSUME NEW a \in Nat, NEW b \in Nat, NEW T,
         \A i \in a..b : (\A j \in i + 1..b : j \in T) => i \in T
  PROVE  a..b \subseteq T
  <1> DEFINE bad == a..b \ T
  <1>1. ASSUME bad # {} PROVE FALSE
    <2>1. bad \subseteq 0..b
      OBVIOUS
    <2>2. PICK i \in bad : \A j \in bad : j <= i
      BY <1>1, <2>1, Greatest
    <2>3. \A j \in i + 1..b : j \in T
      BY <2>2
    <2> QED BY <2>2, <2>3
  <1> QED BY <1>1

-----------------------------------------------------------------------------
(* Blocks *)

Closers == {"end"}
Count(p, i, j, ops) == Meaning!Count(p, i, j, ops)

\* How many blocks are open behind line j that were not before line i.
Level(p, i, j) == Count(p, i, j, Openers) - Count(p, i, j, Closers)

One(op, ops) == IF op \in ops THEN 1 ELSE 0

\* A line more.
LEMMA CountStep ==
  ASSUME NEW p, NEW i \in Nat, NEW ops
  PROVE  /\ \A j \in Nat : Count(p, i, j, ops) \in Nat
         /\ \A j \in Nat : j < i => Count(p, i, j, ops) = 0
         /\ \A j \in Nat : i <= j + 1 =>
              Count(p, i, j + 1, ops) = Count(p, i, j, ops) + One(p[j + 1].op, ops)
  <1> DEFINE Lines(j) == {l \in i..j : p[l].op \in ops}
  <1>1. \A j : Count(p, i, j, ops) = Cardinality(Lines(j))
    <2>1. \A S : Meaning!Cardinality(S) = Cardinality(S)
      BY DEF Meaning!Cardinality, Cardinality
    <2> QED BY <2>1 DEF Count, Meaning!Count
  <1>2. ASSUME NEW j \in Nat PROVE IsFiniteSet(Lines(j)) /\ Cardinality(Lines(j)) \in Nat
    <2>1. IsFiniteSet(i..j)
      BY FS_Interval
    <2>2. Lines(j) \subseteq i..j
      OBVIOUS
    <2>3. IsFiniteSet(Lines(j))
      BY <2>1, <2>2, FS_Subset
    <2> QED BY <2>3, FS_CardinalityType
  <1>3. ASSUME NEW j \in Nat, j < i PROVE Cardinality(Lines(j)) = 0
    <2>1. Lines(j) = {}
      BY <1>3
    <2> QED BY <2>1, FS_EmptySet
  <1>4. ASSUME NEW j \in Nat, i <= j + 1
        PROVE  Cardinality(Lines(j + 1)) = Cardinality(Lines(j)) + One(p[j + 1].op, ops)
    <2>1. IsFiniteSet(Lines(j)) /\ j + 1 \notin Lines(j) /\ Cardinality(Lines(j)) \in Nat
      BY <1>2
    <2>2. CASE p[j + 1].op \in ops
      <3>1. Lines(j + 1) = Lines(j) \cup {j + 1}
        BY <1>4, <2>2
      <3>2. Cardinality(Lines(j) \cup {j + 1}) = Cardinality(Lines(j)) + 1
        <4> HIDE DEF Lines
        <4> QED BY <2>1, FS_AddElement
      <3> QED BY <2>1, <2>2, <3>1, <3>2 DEF One
    <2>3. CASE p[j + 1].op \notin ops
      <3>1. Lines(j + 1) = Lines(j)
        BY <1>4, <2>3
      <3> HIDE DEF Lines
      <3> QED BY <2>1, <2>3, <3>1 DEF One
    <2> QED BY <2>2, <2>3
  <1> QED BY <1>1, <1>2, <1>3, <1>4

\* What a command does to the level.
Turn(op) == IF op \in Openers THEN 1 ELSE IF op = "end" THEN -1 ELSE 0

LEMMA LevelStep ==
  ASSUME NEW p, NEW i \in Nat
  PROVE  /\ \A j \in Nat : Level(p, i, j) \in Int
         /\ \A j \in Nat : j < i => Level(p, i, j) = 0
         /\ \A j \in Nat : i <= j + 1 => Level(p, i, j + 1) = Level(p, i, j) + Turn(p[j + 1].op)
  <1>1. /\ \A j \in Nat : Count(p, i, j, Openers) \in Nat /\ Count(p, i, j, Closers) \in Nat
        /\ \A j \in Nat : j < i => Count(p, i, j, Openers) = 0 /\ Count(p, i, j, Closers) = 0
        /\ \A j \in Nat : i <= j + 1 =>
             /\ Count(p, i, j + 1, Openers) = Count(p, i, j, Openers) + One(p[j + 1].op, Openers)
             /\ Count(p, i, j + 1, Closers) = Count(p, i, j, Closers) + One(p[j + 1].op, Closers)
    <2>1. ASSUME NEW ops
          PROVE  /\ \A j \in Nat : Count(p, i, j, ops) \in Nat
                 /\ \A j \in Nat : j < i => Count(p, i, j, ops) = 0
                 /\ \A j \in Nat : i <= j + 1 =>
                      Count(p, i, j + 1, ops) = Count(p, i, j, ops) + One(p[j + 1].op, ops)
      BY CountStep
    <2> QED BY <2>1
  <1>2. ASSUME NEW j \in Nat, i <= j + 1 PROVE Level(p, i, j + 1) = Level(p, i, j) + Turn(p[j + 1].op)
    <2>1. Turn(p[j + 1].op) = One(p[j + 1].op, Openers) - One(p[j + 1].op, Closers)
      BY DEF Turn, Openers, Closers, One
    <2>2. /\ j + 1 \in Nat
          /\ Count(p, i, j + 1, Openers) = Count(p, i, j, Openers) + One(p[j + 1].op, Openers)
          /\ Count(p, i, j + 1, Closers) = Count(p, i, j, Closers) + One(p[j + 1].op, Closers)
      BY <1>1, <1>2
    <2>3. One(p[j + 1].op, Openers) \in Int /\ One(p[j + 1].op, Closers) \in Int
      BY DEF One
    <2> QED BY <1>1, <2>1, <2>2, <2>3 DEF Level
  <1> QED BY <1>1, <1>2 DEF Level

\* Levels add up.
LEMMA LevelSplit ==
  ASSUME NEW p, NEW i \in Nat, NEW k \in Nat, NEW j \in Nat, i <= k + 1, k <= j
  PROVE  Level(p, i, j) = Level(p, i, k) + Level(p, k + 1, j)
  <1> DEFINE T == {m \in Nat : Level(p, i, m) = Level(p, i, k) + Level(p, k + 1, m)}
  <1>0. /\ \A m \in Nat : Level(p, i, m) \in Int /\ Level(p, k + 1, m) \in Int
        /\ Level(p, k + 1, k) = 0
        /\ \A m \in Nat : i <= m + 1 => Level(p, i, m + 1) = Level(p, i, m) + Turn(p[m + 1].op)
        /\ \A m \in Nat : k + 1 <= m + 1 => Level(p, k + 1, m + 1) = Level(p, k + 1, m) + Turn(p[m + 1].op)
    <2>1. k + 1 \in Nat /\ k < k + 1
      OBVIOUS
    <2> QED BY <2>1, LevelStep, Zenon
  <1>1. k \in T
    BY <1>0
  <1>2. ASSUME NEW m \in k + 1..j, m - 1 \in T PROVE m \in T
    <2> DEFINE d == m - 1
    <2>1. d \in Nat /\ m = d + 1 /\ i <= d + 1 /\ k + 1 <= d + 1
      OBVIOUS
    <2>2. Level(p, i, d) = Level(p, i, k) + Level(p, k + 1, d)
      BY <1>2
    <2> HIDE DEF d
    <2>3. /\ Level(p, i, m) = Level(p, i, d) + Turn(p[m].op)
          /\ Level(p, k + 1, m) = Level(p, k + 1, d) + Turn(p[m].op)
      BY <1>0, <2>1
    <2>4. Turn(p[m].op) \in Int
      BY DEF Turn
    <2>5. Level(p, i, m) = Level(p, i, k) + Level(p, k + 1, m)
      BY <1>0, <2>1, <2>2, <2>3, <2>4
    <2> QED BY <2>1, <2>5
  <1>3. k..j \subseteq T
    <2> HIDE DEF T
    <2> QED BY <1>1, <1>2, Upwards
  <1> QED BY <1>3

Partner(p, i) == Meaning!Partner(p, i)
Ends(p, i) == {j \in i..Len(p) : Level(p, i, j) = 0}

\* Where the levels are even, the block is closed first.
LEMMA PartnerDef ==
  ASSUME NEW p \in Seq(Command), NEW i \in Nat
  PROVE  /\ Ends(p, i) = {} => Partner(p, i) = 0
         /\ Ends(p, i) # {} => Partner(p, i) \in Ends(p, i) /\ \A k \in Ends(p, i) : Partner(p, i) <= k
  <1> DEFINE ends == {j \in i..Len(p) : Count(p, i, j, Openers) = Count(p, i, j, Closers)}
  <1>1. Len(p) \in Nat
    BY LenProperties
  <1>2. ends = Ends(p, i)
    <2>1. \A j \in Nat : Count(p, i, j, Openers) \in Nat /\ Count(p, i, j, Closers) \in Nat
      BY CountStep
    <2>2. \A j \in i..Len(p) : j \in Nat
      BY <1>1
    <2>3. \A j \in i..Len(p) : Count(p, i, j, Openers) = Count(p, i, j, Closers) <=> Level(p, i, j) = 0
      <3> SUFFICES ASSUME NEW j \in i..Len(p)
                   PROVE  Count(p, i, j, Openers) = Count(p, i, j, Closers) <=> Level(p, i, j) = 0
        OBVIOUS
      <3>1. Count(p, i, j, Openers) \in Nat /\ Count(p, i, j, Closers) \in Nat
        BY <2>1, <2>2
      <3> QED BY <3>1 DEF Level
    <2> QED BY <2>3 DEF Ends
  <1>3. Partner(p, i) = IF ends = {} THEN 0 ELSE CHOOSE j \in ends : \A k \in ends : j <= k
    <2>1. Meaning!Openers = Openers
      BY DEF Meaning!Openers, Openers
    <2> QED BY <2>1 DEF Partner, Meaning!Partner, Count, Closers
  <1>4. Ends(p, i) \subseteq Nat
    BY <1>1 DEF Ends
  <1>5. CASE Ends(p, i) # {}
    <2>1. \E j \in Ends(p, i) : \A k \in Ends(p, i) : j <= k
      BY <1>4, <1>5, Least
    <2> HIDE DEF ends
    <2> QED BY <1>2, <1>3, <1>5, <2>1
  <1> HIDE DEF ends
  <1> QED BY <1>2, <1>3, <1>5

\* A block is closed, at the latest, where its level is not positive any more.
LEMMA ClosedBy ==
  ASSUME NEW p \in Seq(Command), NEW i \in Blocks(p), NEW j \in i..Len(p), Level(p, i, j) <= 0
  PROVE  Partner(p, i) # 0 /\ Partner(p, i) <= j
  <1> DEFINE T == {k \in i..j : Level(p, i, k) <= 0}
  <1>1. /\ Len(p) \in Nat /\ i \in 1..Len(p) /\ i \in Nat /\ j \in Nat /\ p[i].op \in Openers
    BY LenProperties DEF Blocks
  <1>2. PICK k \in T : \A l \in T : k <= l
    <2>1. T \subseteq Nat /\ j \in T
      BY <1>1
    <2> HIDE DEF T
    <2> QED BY <2>1, Least
  <1>3. k \in i..j /\ Level(p, i, k) <= 0
    OBVIOUS
  <1>4. \A l \in Nat : Level(p, i, l) \in Int
    BY <1>1, LevelStep
  <1>5. Level(p, i, k) = 0
    <2> DEFINE d == k - 1
    <2>1. d \in Nat /\ k = d + 1 /\ i <= d + 1
      BY <1>1, <1>3
    <2>2. d \notin T
      BY <1>1, <1>2, <1>3
    <2>3. CASE k = i
      <3>1. d < i /\ Level(p, i, d) = 0
        BY <1>1, <2>1, <2>3, LevelStep
      <3>2. Level(p, i, k) = Level(p, i, d) + Turn(p[k].op)
        <4> HIDE DEF d
        <4> QED BY <1>1, <2>1, LevelStep
      <3>3. Turn(p[k].op) = 1
        BY <1>1, <2>3 DEF Turn
      <3> QED BY <1>3, <3>1, <3>2, <3>3
    <2>4. CASE k # i
      <3>1. Level(p, i, d) >= 1
        <4>1. d \in i..j
          BY <1>1, <1>3, <2>4
        <4> QED BY <1>4, <2>1, <2>2, <4>1
      <3>2. Level(p, i, k) = Level(p, i, d) + Turn(p[k].op)
        <4> HIDE DEF d
        <4> QED BY <1>1, <2>1, LevelStep
      <3>3. Turn(p[k].op) \in {-1, 0, 1}
        BY DEF Turn
      <3>4. Level(p, i, k) \in Int /\ Level(p, i, d) \in Int
        BY <1>1, <1>3, <1>4, <2>1
      <3> HIDE DEF d
      <3> QED BY <1>3, <3>1, <3>2, <3>3, <3>4
    <2> QED BY <2>3, <2>4
  <1>6. k \in Ends(p, i)
    BY <1>1, <1>3, <1>5 DEF Ends
  <1> HIDE DEF T
  <1>7. Partner(p, i) \in Ends(p, i) /\ Partner(p, i) <= k
    BY <1>1, <1>6, PartnerDef
  <1> QED BY <1>1, <1>3, <1>7 DEF Ends

\* A block that is closed: by an end, and not before.
LEMMA PartnerIs ==
  ASSUME NEW p \in Seq(Command), NEW i \in Blocks(p), Partner(p, i) # 0
  PROVE  /\ Partner(p, i) \in i + 1..Len(p) /\ p[Partner(p, i)].op = "end" /\ Level(p, i, Partner(p, i)) = 0
         /\ \A k \in i..Partner(p, i) - 1 : Level(p, i, k) >= 1
  <1> DEFINE e == Partner(p, i)
             d == e - 1
  <1>1. /\ Len(p) \in Nat /\ i \in 1..Len(p) /\ i \in Nat /\ p[i].op \in Openers
    BY LenProperties DEF Blocks
  <1>2. e \in i..Len(p) /\ Level(p, i, e) = 0
    BY <1>1, PartnerDef DEF Ends
  <1> HIDE DEF e
  <1>3. \A l \in Nat : Level(p, i, l) \in Int
    BY <1>1, LevelStep
  <1>4. \A k \in i..e - 1 : Level(p, i, k) >= 1
    <2> SUFFICES ASSUME NEW k \in i..e - 1, ~(Level(p, i, k) >= 1) PROVE FALSE
      OBVIOUS
    <2>1. k \in i..Len(p) /\ k \in Nat
      BY <1>1, <1>2
    <2>2. Level(p, i, k) <= 0
      BY <1>3, <2>1
    <2>3. e <= k
      BY <2>1, <2>2, ClosedBy DEF e
    <2> QED BY <1>1, <1>2, <2>3
  <1>5. d \in Nat /\ e = d + 1 /\ i <= d + 1
    BY <1>1, <1>2
  <1>6. Level(p, i, e) = Level(p, i, d) + Turn(p[e].op)
    <2> HIDE DEF d
    <2> QED BY <1>1, <1>5, LevelStep
  <1>7. Turn(p[e].op) \in {-1, 0, 1} /\ (Turn(p[e].op) = -1 => p[e].op = "end") /\ (p[e].op \in Openers => Turn(p[e].op) = 1)
    BY DEF Turn, Openers
  <1>8. e # i
    <2> SUFFICES ASSUME e = i PROVE FALSE
      OBVIOUS
    <2>1. d < i
      BY <1>1
    <2>2. Level(p, i, d) = 0
      <3> HIDE DEF d
      <3> QED BY <1>1, <1>5, <2>1, LevelStep
    <2> HIDE DEF d
    <2> QED BY <1>1, <1>2, <1>6, <1>7, <2>2
  <1>9. Level(p, i, d) >= 1
    BY <1>1, <1>2, <1>4, <1>8
  <1>10. p[e].op = "end"
    <2>1. Level(p, i, d) \in Int
      BY <1>3, <1>5
    <2> HIDE DEF d
    <2> QED BY <1>2, <1>6, <1>7, <1>9, <2>1
  <1>11. e \in i + 1..Len(p)
    BY <1>1, <1>2, <1>8
  <1> QED BY <1>2, <1>4, <1>10, <1>11 DEF e

\* Two blocks do not overlap: the one that begins later ends first.
LEMMA Nested ==
  ASSUME NEW p \in Seq(Command), NEW i \in Blocks(p), NEW k \in Blocks(p), i < k, k <= Partner(p, i)
  PROVE  Partner(p, k) # 0 /\ k < Partner(p, k) /\ Partner(p, k) < Partner(p, i)
  <1> DEFINE e == Partner(p, i)
             d == k - 1
  <1>1. /\ Len(p) \in Nat /\ i \in 1..Len(p) /\ i \in Nat /\ k \in 1..Len(p) /\ k \in Nat
        /\ p[k].op \in Openers
    BY LenProperties DEF Blocks
  <1>2. e # 0
    <2>1. CASE Ends(p, i) = {}
      <3>1. e = 0
        BY <1>1, <2>1, PartnerDef
      <3> QED BY <1>1, <3>1
    <2>2. CASE Ends(p, i) # {}
      <3>1. e \in i..Len(p)
        BY <1>1, <2>2, PartnerDef DEF Ends
      <3> QED BY <1>1, <3>1
    <2> QED BY <2>1, <2>2
  <1>3. /\ e \in i + 1..Len(p) /\ p[e].op = "end" /\ Level(p, i, e) = 0
        /\ \A l \in i..e - 1 : Level(p, i, l) >= 1
    BY <1>2, PartnerIs
  <1>4. k # e
    BY <1>1, <1>3 DEF Openers
  <1> HIDE DEF e
  <1>5. d \in Nat /\ k = d + 1 /\ i <= d + 1 /\ d <= e /\ e \in Nat /\ d \in i..e - 1
    BY <1>1, <1>3, <1>4 DEF e
  <1> HIDE DEF d
  <1>6. Level(p, i, e) = Level(p, i, d) + Level(p, k, e)
    BY <1>1, <1>5, LevelSplit
  <1>7. Level(p, i, d) >= 1 /\ Level(p, i, d) \in Int /\ Level(p, k, e) \in Int
    BY <1>1, <1>3, <1>5, LevelStep
  <1>8. Level(p, k, e) <= -1
    BY <1>3, <1>6, <1>7
  <1>9. e \in k..Len(p) /\ Level(p, k, e) <= 0
    BY <1>1, <1>3, <1>5, <1>7, <1>8
  <1>10. Partner(p, k) # 0 /\ Partner(p, k) <= e
    BY <1>9, ClosedBy
  <1>11. Partner(p, k) \in k + 1..Len(p) /\ Level(p, k, Partner(p, k)) = 0
    BY <1>10, PartnerIs
  <1>12. Partner(p, k) # e
    BY <1>8, <1>11
  <1> QED BY <1>1, <1>3, <1>10, <1>11, <1>12 DEF e

Around(p, l) == Meaning!Around(p, l)

\* Block k is around line l; its own end is in it, its first line is not.
Has(p, k, l) == k \in Blocks(p) /\ k < l /\ l <= Partner(p, k)

\* The innermost block around a line, 0 if there is none.
LEMMA AroundIs ==
  ASSUME NEW p \in Seq(Command), NEW l \in Nat, l <= Len(p) + 1
  PROVE  /\ Around(p, l) = 0 => \A k \in Blocks(p) : ~Has(p, k, l)
         /\ Around(p, l) # 0 => Has(p, Around(p, l), l) /\ \A k \in Blocks(p) : Has(p, k, l) => k <= Around(p, l)
  <1> DEFINE blocks == {k \in 1..(l - 1) : p[k].op \in Openers /\ Partner(p, k) >= l}
  <1>1. Len(p) \in Nat /\ Blocks(p) \subseteq 1..Len(p)
    BY LenProperties DEF Blocks
  <1>2. Around(p, l) = IF blocks = {} THEN 0 ELSE CHOOSE k \in blocks : \A m \in blocks : m <= k
    <2>1. Meaning!Openers = Openers
      BY DEF Meaning!Openers, Openers
    <2> QED BY <2>1 DEF Around, Meaning!Around, Partner
  <1>3. ASSUME NEW k \in 1..(l - 1), p[k].op \in Openers
        PROVE  k \in Blocks(p) /\ Partner(p, k) \in Nat /\ (Partner(p, k) >= l <=> Has(p, k, l))
    <2>1. k \in Blocks(p)
      BY <1>1, <1>3, LenProperties DEF Blocks
    <2>2. Partner(p, k) # 0 => Partner(p, k) \in k + 1..Len(p)
      BY <2>1, PartnerIs
    <2>3. Partner(p, k) \in Nat
      BY <1>1, <1>3, <2>2
    <2> QED BY <1>3, <2>1, <2>3 DEF Has
  <1>4. \A k : Has(p, k, l) <=> k \in blocks
    <2>1. ASSUME NEW k, Has(p, k, l) PROVE k \in blocks
      <3>1. k \in 1..(l - 1) /\ p[k].op \in Openers
        BY <1>1, <2>1 DEF Has, Blocks
      <3> QED BY <1>3, <2>1, <3>1
    <2>2. ASSUME NEW k \in blocks PROVE Has(p, k, l)
      BY <1>3
    <2> QED BY <2>1, <2>2
  <1>5. blocks # {} => \E k \in blocks : \A m \in blocks : m <= k
    <2>1. blocks \subseteq 0..l
      OBVIOUS
    <2> HIDE DEF blocks
    <2> QED BY <2>1, Greatest
  <1>6. 0 \notin blocks
    OBVIOUS
  <1> HIDE DEF blocks
  <1>7. CASE blocks = {}
    BY <1>2, <1>4, <1>7
  <1>8. CASE blocks # {}
    <2>1. Around(p, l) \in blocks /\ \A m \in blocks : m <= Around(p, l)
      BY <1>2, <1>5, <1>8
    <2> QED BY <1>4, <1>6, <2>1
  <1> QED BY <1>7, <1>8

\* What block is the innermost.
LEMMA AroundBy ==
  ASSUME NEW p \in Seq(Command), NEW l \in Nat, l <= Len(p) + 1
  PROVE  /\ (\A k \in Blocks(p) : ~Has(p, k, l)) => Around(p, l) = 0
         /\ \A a : Has(p, a, l) /\ (\A k \in Blocks(p) : Has(p, k, l) => k <= a) => Around(p, l) = a
         /\ Around(p, l) # 0 => Around(p, l) \in Blocks(p)
  <1>1. Len(p) \in Nat /\ Blocks(p) \subseteq 1..Len(p)
    BY LenProperties DEF Blocks
  <1>2. /\ Around(p, l) = 0 => \A k \in Blocks(p) : ~Has(p, k, l)
        /\ Around(p, l) # 0 => Has(p, Around(p, l), l) /\ \A k \in Blocks(p) : Has(p, k, l) => k <= Around(p, l)
    BY AroundIs
  <1>3. \A k : Has(p, k, l) => k \in Blocks(p)
    BY DEF Has
  <1>4. ASSUME NEW a, Has(p, a, l), \A k \in Blocks(p) : Has(p, k, l) => k <= a PROVE Around(p, l) = a
    <2>1. Around(p, l) # 0
      BY <1>2, <1>3, <1>4
    <2>2. Around(p, l) <= a /\ a <= Around(p, l) /\ a \in Nat /\ Around(p, l) \in Nat
      BY <1>1, <1>2, <1>3, <1>4, <2>1
    <2> QED BY <2>2
  <1> QED BY <1>2, <1>3, <1>4

\* Two lines in the same blocks.
LEMMA SameAround ==
  ASSUME NEW p \in Seq(Command), NEW l \in Nat, l <= Len(p) + 1, NEW m \in Nat, m <= Len(p) + 1,
         \A k \in Blocks(p) : Has(p, k, l) <=> Has(p, k, m)
  PROVE  Around(p, m) = Around(p, l)
  <1>1. CASE Around(p, l) = 0
    <2>1. \A k \in Blocks(p) : ~Has(p, k, m)
      BY <1>1, AroundIs
    <2> QED BY <1>1, <2>1, AroundBy
  <1>2. CASE Around(p, l) # 0
    <2>1. Has(p, Around(p, l), l) /\ \A k \in Blocks(p) : Has(p, k, l) => k <= Around(p, l)
      BY <1>2, AroundIs
    <2>2. Around(p, l) \in Blocks(p)
      BY <2>1 DEF Has
    <2>3. Has(p, Around(p, l), m) /\ \A k \in Blocks(p) : Has(p, k, m) => k <= Around(p, l)
      BY <2>1, <2>2
    <2> QED BY <2>3, AroundBy
  <1> QED BY <1>1, <1>2

\* Where a line leads: a plain command to the next line, in the same block, one that opens
\* a block into it, or behind it, and an end behind the block.
LEMMA PlainLeads ==
  ASSUME NEW p \in Seq(Command), NEW l \in 1..Len(p), p[l].op \notin Openers, p[l].op # "end"
  PROVE  Around(p, l + 1) = Around(p, l)
  <1>1. /\ Len(p) \in Nat /\ Blocks(p) \subseteq 1..Len(p) /\ l \in Nat /\ l + 1 \in Nat
        /\ l <= Len(p) + 1 /\ l + 1 <= Len(p) + 1
    BY LenProperties DEF Blocks
  <1>2. ASSUME NEW k \in Blocks(p) PROVE Has(p, k, l) <=> Has(p, k, l + 1)
    <2>1. k # l
      BY DEF Blocks
    <2>2. Partner(p, k) # 0 => Partner(p, k) \in k + 1..Len(p) /\ p[Partner(p, k)].op = "end"
      BY PartnerIs
    <2>3. k \in Nat /\ Partner(p, k) \in Nat /\ Partner(p, k) # l
      BY <1>1, <2>2
    <2> QED BY <1>1, <2>1, <2>3 DEF Has
  <1> QED BY <1>1, <1>2, SameAround

LEMMA BlockLeads ==
  ASSUME NEW p \in Seq(Command), NEW l \in Blocks(p), Partner(p, l) # 0
  PROVE  Around(p, l + 1) = l /\ Around(p, Partner(p, l) + 1) = Around(p, l)
  <1> DEFINE e == Partner(p, l)
  <1>1. /\ Len(p) \in Nat /\ Blocks(p) \subseteq 1..Len(p) /\ l \in 1..Len(p)
        /\ l \in Nat /\ l + 1 \in Nat /\ l <= Len(p) + 1 /\ l + 1 <= Len(p) + 1
    BY LenProperties DEF Blocks
  <1>2. e \in l + 1..Len(p) /\ e \in Nat /\ e + 1 \in Nat /\ e + 1 <= Len(p) + 1 /\ p[e].op = "end"
    BY <1>1, PartnerIs
  <1>3. ASSUME NEW k \in Blocks(p) PROVE k \in Nat /\ Partner(p, k) \in Nat
    <2>2. Partner(p, k) # 0 => Partner(p, k) \in k + 1..Len(p)
      BY PartnerIs
    <2> QED BY <1>1, <2>2
  <1>4. Around(p, l + 1) = l
    <2>1. Has(p, l, l + 1)
      BY <1>1, <1>2 DEF Has
    <2>2. \A k \in Blocks(p) : Has(p, k, l + 1) => k <= l
      BY <1>1, <1>3 DEF Has
    <2> QED BY <1>1, <2>1, <2>2, AroundBy
  <1>5. ASSUME NEW k \in Blocks(p) PROVE Has(p, k, l) <=> Has(p, k, e + 1)
    <2>1. CASE k < l
      <3>1. l <= Partner(p, k) => e < Partner(p, k)
        BY <1>1, <2>1, Nested
      <3> HIDE DEF e
      <3> QED BY <1>1, <1>2, <1>3, <2>1, <3>1 DEF Has
    <2>2. CASE k = l
      BY <1>1, <1>2, <2>2 DEF Has
    <2>3. CASE l < k
      <3>1. k <= e => Partner(p, k) < e
        BY <1>1, <2>3, Nested
      <3> HIDE DEF e
      <3> QED BY <1>1, <1>2, <1>3, <2>3, <3>1 DEF Has
    <2> QED BY <1>1, <1>3, <2>1, <2>2, <2>3
  <1> HIDE DEF e
  <1>6. Around(p, e + 1) = Around(p, l)
    BY <1>1, <1>2, <1>5, SameAround
  <1> QED BY <1>4, <1>6 DEF e

LEMMA EndLeads ==
  ASSUME NEW p \in Seq(Command), NEW k \in Blocks(p), Partner(p, k) # 0
  PROVE  Around(p, Partner(p, k)) = k
  <1> DEFINE e == Partner(p, k)
  <1>1. Len(p) \in Nat /\ Blocks(p) \subseteq 1..Len(p) /\ k \in 1..Len(p)
    BY LenProperties DEF Blocks
  <1>2. e \in k + 1..Len(p) /\ e \in Nat /\ e <= Len(p) + 1
    BY <1>1, PartnerIs
  <1>3. Has(p, k, e)
    BY <1>1, <1>2 DEF Has
  <1>4. ASSUME NEW m \in Blocks(p), Has(p, m, e) PROVE m <= k
    <2>1. m \in Nat /\ (k < m => Partner(p, m) < e)
      BY <1>1, <1>2, <1>4, Nested DEF Has
    <2>2. e <= Partner(p, m)
      BY <1>4 DEF Has
    <2>3. Partner(p, m) \in Nat
      <3>1. Partner(p, m) # 0 => Partner(p, m) \in m + 1..Len(p)
        BY PartnerIs
      <3> QED BY <1>1, <2>1, <3>1
    <2> HIDE DEF e
    <2> QED BY <1>1, <1>2, <2>1, <2>2, <2>3
  <1> HIDE DEF e
  <1>5. Around(p, e) = k
    BY <1>2, <1>3, <1>4, AroundBy
  <1> QED BY <1>5 DEF e

-----------------------------------------------------------------------------
(* The search *)

\* What a search may find from line l of a script of n lines on.
Finds(l, n) == [end : {0} \cup l..n, elses : SUBSET (l..n)]

Agree(f, g, l, n) == \A j \in Nat : j > l => f[j] = g[j] /\ g[j][0] \in Finds(j, n)

\* A line looks only at the lines behind it.
LEMMA ScanSame ==
  ASSUME NEW p, NEW n \in Nat, NEW kind, NEW f, NEW g, NEW l \in Nat, NEW diff \in Nat, Agree(f, g, l, n)
  PROVE  Scan(p, kind, f, l, diff) = Scan(p, kind, g, l, diff)
  <1>1. f[l + 1] = g[l + 1] /\ g[l + 1][0] \in Finds(l + 1, n)
    BY l + 1 \in Nat, l + 1 > l DEF Agree
  <1>2. g[l + 1][0].end # 0 => f[g[l + 1][0].end + 1] = g[g[l + 1][0].end + 1]
    <2>1. g[l + 1][0].end \in {0} \cup (l + 1)..n
      BY <1>1 DEF Finds
    <2> QED BY <2>1 DEF Agree
  <1> QED BY <1>1, <1>2 DEF Scan

LEMMA ScanFinds ==
  ASSUME NEW p, Len(p) \in Nat, NEW kind, NEW g, NEW l \in Nat, NEW diff \in Nat,
         \A j \in Nat, d \in Nat : j > l => g[j][d] \in Finds(j, Len(p))
  PROVE  Scan(p, kind, g, l, diff) \in Finds(l, Len(p))
  <1> DEFINE n == Len(p)
             next == l + 1
  <1>1. next \in Nat /\ next > l /\ diff + 1 \in Nat /\ (diff > 0 => diff - 1 \in Nat)
    OBVIOUS
  <1>2. \A d \in Nat : g[next][d] \in Finds(next, n)
    BY <1>1
  <1>3. \A x : x \in Finds(next, n) => x \in Finds(l, n)
    BY DEF Finds
  <1>4. NotFound \in Finds(l, n)
    BY DEF NotFound, Finds
  <1>5. ASSUME l <= n PROVE \A x : x \in Finds(next, n) => Else(l, x) \in Finds(l, n)
    BY <1>5 DEF Else, Finds
  <1>6. l <= n => [end |-> l, elses |-> {}] \in Finds(l, n)
    BY DEF Finds
  <1>7. \A d \in Nat : g[next][0].end # 0 => g[g[next][0].end + 1][d] \in Finds(l, n)
    <2> SUFFICES ASSUME NEW d \in Nat, g[next][0].end # 0 PROVE g[g[next][0].end + 1][d] \in Finds(l, n)
      OBVIOUS
    <2> DEFINE e == g[next][0].end
    <2>1. e \in next..n
      BY <1>2 DEF Finds
    <2> HIDE DEF e
    <2>2. e + 1 \in Nat /\ e + 1 > l
      BY <2>1
    <2>3. g[e + 1][d] \in Finds(e + 1, n)
      BY <2>2
    <2>4. g[e + 1][d] \in Finds(l, n)
      BY <2>2, <2>3 DEF Finds
    <2> QED BY <2>4 DEF e
  <1> HIDE DEF n
  <1>8. CASE l > Len(p)
    BY <1>4, <1>8 DEF Scan, n
  <1>9. CASE ~(l > Len(p))
    <2>1. l <= n
      BY <1>9 DEF n
    <2>2. /\ g[next][diff + 1] \in Finds(l, n) /\ g[next][diff] \in Finds(l, n)
          /\ diff > 0 => g[next][diff - 1] \in Finds(l, n)
          /\ Else(l, g[next][diff]) \in Finds(l, n)
      BY <1>1, <1>2, <1>3, <1>5, <2>1
    <2> QED BY <1>4, <1>6, <1>7, <1>9, <2>1, <2>2 DEF Scan, n
  <1> QED BY <1>8, <1>9

\* A search's table.
Scans(p, kind, at) ==
  \A l \in Nat, d \in Nat : at[l][d] = Scan(p, kind, at, l, d) /\ at[l][d] \in Finds(l, Len(p))
Reads(p, kind, at) == \A from : Search(p, kind, from) = at[from][0]

\* The search's table exists, and has in it what the lines say.
LEMMA SearchTable ==
  ASSUME NEW p \in Seq(Command), NEW kind
  PROVE  \E at : Scans(p, kind, at) /\ Reads(p, kind, at)
  <1> DEFINE n == Len(p)
             Row(f, l) == [d \in Nat |-> Scan(p, kind, f, l, d)]
             Table(f) == f = [l \in Nat |-> Row(f, l)]
             Right(f, l) == f[l] = Row(f, l) /\ \A d \in Nat : f[l][d] \in Finds(l, n)
             T == {k \in 0..n + 1 : \E f : f = [l \in Nat |-> f[l]] /\ \A l \in Nat : l > n - k => Right(f, l)}
  <1>1. n \in Nat
    BY LenProperties
  <1>2. 0 \in T
    <2> DEFINE f == [l \in Nat |-> [d \in Nat |-> NotFound]]
    <2>1. \A l \in Nat : l > n => \A d \in Nat : Scan(p, kind, f, l, d) = NotFound
      BY DEF Scan
    <2>2. \A l \in Nat : NotFound \in Finds(l, n)
      BY DEF NotFound, Finds
    <2>3. \A l \in Nat : f[l] = [d \in Nat |-> NotFound]
      OBVIOUS
    <2>4. f = [l \in Nat |-> f[l]]
      OBVIOUS
    <2> HIDE DEF f
    <2>5. \A l \in Nat : l > n => Right(f, l)
      BY <2>1, <2>2, <2>3
    <2> HIDE DEF Right
    <2>6. \A l \in Nat : l > n - 0 => Right(f, l)
      BY <1>1, <2>5
    <2> QED BY <1>1, <2>4, <2>6
  <1>3. ASSUME NEW k \in 1..n + 1, k - 1 \in T PROVE k \in T
    <2> DEFINE m == n - k + 1
    <2>1. PICK g : g = [l \in Nat |-> g[l]] /\ \A l \in Nat : l > n - (k - 1) => Right(g, l)
      BY <1>3
    <2>2. m \in Nat /\ \A l \in Nat : (l > n - (k - 1) <=> l > m) /\ (l > n - k <=> l = m \/ l > m)
      BY <1>1
    <2>3. \A l \in Nat : l > m => Right(g, l)
      BY <2>1, <2>2
    <2> HIDE DEF m
    <2> DEFINE f == [l \in Nat |-> IF l = m THEN Row(g, m) ELSE g[l]]
    <2>4. f[m] = Row(g, m) /\ \A l \in Nat : l > m => f[l] = g[l]
      BY <2>2
    <2>5. f = [l \in Nat |-> f[l]]
      OBVIOUS
    <2> HIDE DEF f
    <2>6. \A l \in Nat : l > m => \A d \in Nat : g[l][d] \in Finds(l, n)
      BY <2>3
    <2>7. ASSUME NEW l \in Nat, l = m \/ l > m
          PROVE  Row(f, l) = Row(g, l)
      <3>1. \A j \in Nat : j > l => f[j] = g[j] /\ g[j][0] \in Finds(j, n)
        BY <2>2, <2>4, <2>6, <2>7
      <3>2. \A d \in Nat : Scan(p, kind, f, l, d) = Scan(p, kind, g, l, d)
        <4> HIDE DEF n
        <4>1. Agree(f, g, l, n)
          BY <3>1 DEF Agree
        <4> QED BY <1>1, <4>1, ScanSame
      <3> QED BY <3>2
    <2>8. Right(f, m)
      <3>1. \A d \in Nat : Scan(p, kind, g, m, d) \in Finds(m, n)
        <4>1. \A j \in Nat, d \in Nat : j > m => g[j][d] \in Finds(j, n)
          BY <2>6
        <4> QED BY <1>1, <2>2, <4>1, ScanFinds
      <3>2. f[m] = Row(f, m)
        <4> HIDE DEF Row
        <4> QED BY <2>2, <2>4, <2>7
      <3>3. \A d \in Nat : f[m][d] \in Finds(m, n)
        BY <2>4, <3>1
      <3> QED BY <3>2, <3>3
    <2>9. \A l \in Nat : l > m => Right(f, l)
      <3> SUFFICES ASSUME NEW l \in Nat, l > m PROVE Right(f, l)
        OBVIOUS
      <3> HIDE DEF Row
      <3> QED BY <2>3, <2>4, <2>7
    <2> HIDE DEF Right
    <2>10. \A l \in Nat : l > n - k => Right(f, l)
      BY <2>2, <2>8, <2>9
    <2> QED BY <1>1, <2>5, <2>10
  <1>4. n + 1 \in T
    <2> HIDE DEF T
    <2>1. 0..n + 1 \subseteq T
      <3>1. \A i \in 0 + 1..n + 1 : i - 1 \in T => i \in T
        BY <1>3
      <3>2. n + 1 \in Nat
        BY <1>1
      <3> QED BY <1>2, <3>1, <3>2, Upwards
    <2> QED BY <1>1, <2>1
  <1>5. PICK f : f = [l \in Nat |-> f[l]] /\ \A l \in Nat : l > n - (n + 1) => Right(f, l)
    BY <1>4
  <1>6. \A l \in Nat : Right(f, l)
    <2>1. \A l \in Nat : l > n - (n + 1)
      BY <1>1
    <2> HIDE DEF Right
    <2> QED BY <1>5, <2>1
  <1>7. Table(f)
    <2> HIDE DEF Row
    <2> QED BY <1>5, <1>6
  <1> DEFINE at == CHOOSE h : Table(h)
  <1>8. Table(at)
    <2> HIDE DEF Table
    <2> QED BY <1>7
  <1>9. \A from : Search(p, kind, from) = at[from][0]
    BY DEF Search
  <1> HIDE DEF at
  <1>10. \A l \in Nat : \A d \in Nat : at[l][d] = Scan(p, kind, at, l, d)
    <2>1. \A l \in Nat : at[l] = Row(at, l)
      <3> HIDE DEF Row
      <3> QED BY <1>8
    <2> QED BY <2>1
  \* The rows of the table, from the last line to the first.
  <1>11. \A l \in Nat, d \in Nat : at[l][d] \in Finds(l, n)
    <2> DEFINE U == {l \in Nat : \A d \in Nat : at[l][d] \in Finds(l, n)}
    <2>1. ASSUME NEW l \in Nat, \A j \in Nat : j > l => j \in U PROVE l \in U
      <3>1. \A j \in Nat, d \in Nat : j > l => at[j][d] \in Finds(j, n)
        BY <2>1
      <3>2. \A d \in Nat : Scan(p, kind, at, l, d) \in Finds(l, n)
        BY <1>1, <3>1, ScanFinds
      <3> QED BY <1>10, <3>2
    <2>2. \A l \in Nat : l > n => l \in U
      <3> SUFFICES ASSUME NEW l \in Nat, l > n PROVE l \in U
        OBVIOUS
      <3>1. \A d \in Nat : Scan(p, kind, at, l, d) = NotFound
        BY DEF Scan
      <3>2. NotFound \in Finds(l, n)
        BY DEF NotFound, Finds
      <3> QED BY <1>10, <3>1, <3>2
    <2> HIDE DEF U
    <2>3. \A i \in 0..n : (\A j \in i + 1..n : j \in U) => i \in U
      <3> SUFFICES ASSUME NEW i \in 0..n, \A j \in i + 1..n : j \in U PROVE i \in U
        OBVIOUS
      <3>1. i \in Nat /\ \A j \in Nat : j > i => j \in i + 1..n \/ j > n
        BY <1>1
      <3> QED BY <2>1, <2>2, <3>1
    <2>4. 0..n \subseteq U
      BY <1>1, <2>3, Downwards
    <2>5. \A l \in Nat : l \in 0..n \/ l > n
      BY <1>1
    <2>6. \A l \in Nat : l \in U
      BY <2>2, <2>4, <2>5
    <2> QED BY <2>6 DEF U
  <1>12. Scans(p, kind, at) /\ Reads(p, kind, at)
    BY <1>9, <1>10, <1>11 DEF Scans, Reads
  <1> QED BY <1>12

LEMMA SearchIs ==
  ASSUME NEW p \in Seq(Command), NEW kind, NEW l \in Nat
  PROVE  Search(p, kind, l) \in Finds(l, Len(p))
  <1>1. PICK at : Scans(p, kind, at) /\ Reads(p, kind, at)
    BY SearchTable
  <1> QED BY <1>1 DEF Scans, Reads

\* The kinds of blocks that a search counts.
LEMMA OthersAre ==
  ASSUME NEW kind \in Openers
  PROVE  /\ Others[kind] \subseteq Openers \cup {"else"} /\ "end" \notin Others[kind]
         /\ Middles(kind) \subseteq {"else"}
         /\ kind = "if" => "if" \notin Others[kind] /\ "else" \notin Others[kind] /\ Middles(kind) = {"else"}
  <1>1. Others = [if |-> IfOthers, loop |-> LoopOthers, proc |-> ProcedureOthers,
                  for |-> ForInOthers, state |-> StateOthers,
                  component |-> ComponentOthers, machine |-> MachineOthers]
    BY DEF Others
  <1>2. Middles(kind) \subseteq {"else"} /\ (kind = "if" => Middles(kind) = {"else"})
    BY DEF Middles
  <1>3. Others[kind] \in {IfOthers, LoopOthers, ProcedureOthers, ForInOthers, StateOthers, ComponentOthers, MachineOthers}
        /\ (kind = "if" => Others[kind] = IfOthers)
    BY <1>1 DEF Openers
  <1>4. \A S \in {IfOthers, LoopOthers, ProcedureOthers, ForInOthers, StateOthers, ComponentOthers, MachineOthers} :
          S \subseteq Openers \cup {"else"} /\ "end" \notin S
    BY DEF IfOthers, LoopOthers, ProcedureOthers, ForInOthers, StateOthers, ComponentOthers, MachineOthers, Openers
  <1>5. "if" \notin IfOthers /\ "else" \notin IfOthers
    BY DEF IfOthers
  <1> QED BY <1>2, <1>3, <1>4, <1>5

\* What a line does to a search, case by case.
ByCases(p, kind, at, l, d) ==
  /\ p[l].op \in Others[kind] => Scan(p, kind, at, l, d) = at[l + 1][d + 1]
  /\ p[l].op \in Middles(kind) => Scan(p, kind, at, l, d) = Else(l, at[l + 1][d])
  /\ p[l].op = "end" /\ d > 0 => Scan(p, kind, at, l, d) = at[l + 1][d - 1]
  /\ p[l].op = "end" /\ d = 0 => Scan(p, kind, at, l, d) = [end |-> l, elses |-> {}]
  /\ p[l].op \in {kind} \ Others[kind] /\ at[l + 1][0].end # 0 =>
       Scan(p, kind, at, l, d) = at[at[l + 1][0].end + 1][d]
  /\ p[l].op \notin Others[kind] \cup {"else", "end", kind} => Scan(p, kind, at, l, d) = at[l + 1][d]

LEMMA ScanCases ==
  ASSUME NEW p, NEW kind \in Openers, NEW at, NEW l, ~(l > Len(p)), NEW d \in Nat
  PROVE  ByCases(p, kind, at, l, d)
  <1> DEFINE op == p[l].op
  <1>1. /\ "end" \notin Others[kind] /\ Middles(kind) \subseteq {"else"}
        /\ kind = "if" => "else" \notin Others[kind]
        /\ kind # "if" => Middles(kind) = {}
        /\ kind # "else" /\ kind # "end"
    BY OthersAre DEF Middles, Openers
  <1>2. ~(op \in Others[kind] /\ op \in Middles(kind))
    BY <1>1
  <1>3. ~(op \in Others[kind] /\ op = "end")
        /\ ~(op \in Middles(kind) /\ op = "end") /\ ~(op \in Middles(kind) /\ op = kind)
        /\ ~(op = "end" /\ op = kind)
    BY <1>1
  <1>4. op \in {kind} \ Others[kind] <=> op = kind /\ op \notin Others[kind]
    BY <1>1
  <1>5. op \in Middles(kind) => op = "else"
    BY <1>1
  <1> HIDE DEF op
  <1> QED BY <1>2, <1>3, <1>4, <1>5, SMTT(30) DEF ByCases, Scan, op

\* The elses behind line l that are in block i and in no block of its kind within.
Elses(p, i, l) ==
  {k \in l..Partner(p, i) - 1 : p[k].op = "else" /\ \A j \in l..k - 1 : p[j].op = p[i].op => Partner(p, j) < k}

\* The search for block i is right from line l on.
Gets(p, i, at, l) ==
  LET found == at[l][Level(p, i, l - 1) - 1]
  IN  found.end = Partner(p, i) /\ found.elses = Elses(p, i, l)

\* It is on a line if it is on those behind.
LEMMA SearchLine ==
  ASSUME NEW p \in Seq(Command), NEW i \in Blocks(p), Known(p, i), NEW at, Scans(p, p[i].op, at),
         NEW l \in i + 1..Partner(p, i),
         \A m \in l + 1..Partner(p, i) : Gets(p, i, at, m),
         p[l].op = p[i].op => at[l + 1][0].end = Partner(p, l)
  PROVE  Gets(p, i, at, l)
  <1> DEFINE e == Partner(p, i)
             K == p[i].op
             op == p[l].op
             d == Level(p, i, l - 1) - 1
             next == at[l + 1]
  <1>1. /\ Len(p) \in Nat /\ i \in 1..Len(p) /\ i \in Nat /\ K \in Openers /\ Blocks(p) \subseteq 1..Len(p)
    BY LenProperties DEF Blocks
  <1>2. /\ e # 0 /\ e \in i + 1..Len(p) /\ p[e].op = "end" /\ Level(p, i, e) = 0
        /\ \A k \in i..e - 1 : Level(p, i, k) >= 1
    <2>1. e # 0
      BY DEF Known, Partner
    <2> QED BY <2>1, PartnerIs
  <1>3. \A k \in i + 1..e - 1 : /\ p[k].op \in Openers => p[k].op \in Others[K] \cup {K}
                                /\ p[k].op = "else" => K = "if"
    BY DEF Known, Inside, Partner
  <1>4. l \in Nat /\ l - 1 \in i..e - 1 /\ l - 1 \in Nat /\ l <= e /\ l <= Len(p) /\ l + 1 \in Nat
    BY <1>1, <1>2
  <1>5. d \in Nat /\ d + 1 = Level(p, i, l - 1)
    <2>1. Level(p, i, l - 1) \in Int
      BY <1>1, <1>4, LevelStep
    <2> QED BY <1>2, <1>4, <2>1
  <1>6. Level(p, i, l) \in Int /\ Level(p, i, l) = d + 1 + Turn(op)
    <2> DEFINE b == l - 1
    <2>1. b \in Nat /\ l = b + 1 /\ i <= b + 1 /\ Level(p, i, b) = d + 1
      <3>1. b \in Nat /\ l = b + 1 /\ i <= b + 1
        BY <1>1, <1>4
      <3>2. Level(p, i, b) = d + 1
        BY <1>5
      <3> QED BY <3>1, <3>2
    <2> HIDE DEF b, d
    <2> QED BY <1>1, <1>4, <2>1, LevelStep
  <1>7. at[l][d] = Scan(p, K, at, l, d)
    BY <1>4, <1>5 DEF Scans
  <1>8. Gets(p, i, at, l) <=> at[l][d].end = e /\ at[l][d].elses = Elses(p, i, l)
    BY DEF Gets
  <1>9. ASSUME l < e PROVE /\ next[Level(p, i, l) - 1].end = e
                           /\ next[Level(p, i, l) - 1].elses = Elses(p, i, l + 1)
    <2>1. l + 1 \in l + 1..e /\ l + 1 - 1 = l
      BY <1>1, <1>2, <1>4, <1>9
    <2> QED BY <2>1 DEF Gets
  <1>10. /\ Others[K] \subseteq Openers \cup {"else"} /\ "end" \notin Others[K]
         /\ Middles(K) \subseteq {"else"}
         /\ K = "if" => "if" \notin Others[K] /\ "else" \notin Others[K] /\ Middles(K) = {"else"}
    BY <1>1, OthersAre, Zenon
  <1>11. ~(l > Len(p))
    BY <1>1, <1>4
  \* A line that is no block of this kind and no else hides no else.
  <1>12. ASSUME l < e, op # K \/ K # "if", op # "else" PROVE Elses(p, i, l) = Elses(p, i, l + 1)
    <2>1. ASSUME NEW k \in l..e - 1, p[k].op = "else"
          PROVE  /\ k \in l + 1..e - 1
                 /\ (\A j \in l..k - 1 : p[j].op = K => Partner(p, j) < k)
                    <=> (\A j \in l + 1..k - 1 : p[j].op = K => Partner(p, j) < k)
      <3>1. k # l
        BY <1>12, <2>1
      <3>2. k \in l + 1..e - 1
        BY <1>1, <1>2, <1>4, <2>1, <3>1
      <3>3. \A j \in l..k - 1 : j = l \/ j \in l + 1..k - 1
        BY <1>4
      <3>4. \A j \in l + 1..k - 1 : j \in l..k - 1
        BY <1>4
      <3>5. CASE op # K
        BY <1>12, <3>2, <3>3, <3>4, <3>5
      <3>6. CASE K # "if"
        BY <1>1, <1>3, <1>4, <2>1, <3>6
      <3> QED BY <1>12, <3>2, <3>5, <3>6
    <2>2. l + 1..e - 1 \subseteq l..e - 1
      BY <1>4
    <2> HIDE DEF e, K, op
    <2> QED BY <2>1, <2>2 DEF Elses, e, K
  <1> HIDE DEF e, K, d, op, next
  <1>20. /\ op \in Others[K] => Scan(p, K, at, l, d) = at[l + 1][d + 1]
         /\ op \in Middles(K) => Scan(p, K, at, l, d) = Else(l, at[l + 1][d])
         /\ op = "end" /\ d > 0 => Scan(p, K, at, l, d) = at[l + 1][d - 1]
         /\ op = "end" /\ d = 0 => Scan(p, K, at, l, d) = [end |-> l, elses |-> {}]
         /\ op \in {K} \ Others[K] /\ at[l + 1][0].end # 0 =>
              Scan(p, K, at, l, d) = at[at[l + 1][0].end + 1][d]
         /\ op \notin Others[K] \cup {"else", "end", K} => Scan(p, K, at, l, d) = at[l + 1][d]
    <2>1. K \in Openers /\ ~(l > Len(p)) /\ d \in Nat
      BY <1>1, <1>5, <1>11
    <2>2. ByCases(p, K, at, l, d)
      BY <2>1, ScanCases, Zenon
    <2> QED BY <2>2 DEF ByCases, op
  <1>13. CASE l = e
    <2>1. op = "end"
      BY <1>2, <1>13 DEF op
    <2>2. d = 0
      BY <1>2, <1>5, <1>6, <1>13, <2>1 DEF Turn, Openers
    <2>3. at[l][d] = [end |-> l, elses |-> {}]
      BY <1>7, <1>20, <2>1, <2>2
    <2>4. Elses(p, i, l) = {}
      BY <1>2, <1>4, <1>13 DEF Elses, e
    <2> QED BY <1>8, <1>13, <2>3, <2>4
  <1>14. CASE l < e /\ op \in Others[K]
    <2>1. l \in i + 1..e - 1
      BY <1>1, <1>2, <1>4, <1>14
    <2>2. op # "else"
      BY <1>3, <1>10, <1>14, <2>1 DEF op
    <2>3. op \in Openers /\ Turn(op) = 1
      BY <1>10, <1>14, <2>2 DEF Turn
    <2>4. at[l][d] = next[d + 1]
      BY <1>7, <1>14, <1>20 DEF next
    <2>5. d + 1 = Level(p, i, l) - 1
      BY <1>5, <1>6, <2>3
    <2>6. op # K \/ K # "if"
      BY <1>10, <1>14
    <2> QED BY <1>8, <1>9, <1>12, <1>14, <2>2, <2>4, <2>5, <2>6
  <1>15. CASE l < e /\ op = "else"
    <2>1. l \in i + 1..e - 1
      BY <1>1, <1>2, <1>4, <1>15
    <2>2. K = "if" /\ op \in Middles(K)
      BY <1>3, <1>10, <1>15, <2>1 DEF op
    <2>3. at[l][d] = Else(l, next[d])
      BY <1>7, <1>20, <2>2 DEF next
    <2>4. d = Level(p, i, l) - 1
      BY <1>5, <1>6, <1>15 DEF Turn, Openers
    <2>5. next[d] \in Finds(l + 1, Len(p))
      BY <1>4, <1>5 DEF Scans, next
    <2>6. at[l][d].end = e /\ at[l][d].elses = Elses(p, i, l + 1) \cup {l}
      BY <1>9, <1>15, <2>3, <2>4, <2>5 DEF Else, Finds
    <2>7. Elses(p, i, l) = Elses(p, i, l + 1) \cup {l}
      <3>1. op # K
        BY <1>15, <2>2
      <3>2. ASSUME NEW k \in l + 1..e - 1
            PROVE  (\A j \in l..k - 1 : p[j].op = K => Partner(p, j) < k)
                    <=> (\A j \in l + 1..k - 1 : p[j].op = K => Partner(p, j) < k)
        <4>1. \A j \in l..k - 1 : j = l \/ j \in l + 1..k - 1
          BY <1>4
        <4>2. \A j \in l + 1..k - 1 : j \in l..k - 1
          BY <1>4
        <4> QED BY <3>1, <4>1, <4>2 DEF op
      <3>3. l..e - 1 = {l} \cup l + 1..e - 1
        BY <1>1, <1>2, <1>4, <1>15
      <3>4. l..l - 1 = {}
        BY <1>4
      <3>5. l \in Elses(p, i, l)
        BY <1>15, <3>3, <3>4 DEF Elses, e, op
      <3>6. \A k \in l + 1..e - 1 : k \in Elses(p, i, l) <=> k \in Elses(p, i, l + 1)
        BY <3>2, <3>3 DEF Elses, e, K
      <3>7. Elses(p, i, l) \subseteq l..e - 1 /\ Elses(p, i, l + 1) \subseteq l + 1..e - 1
        BY DEF Elses, e
      <3> QED BY <3>3, <3>5, <3>6, <3>7
    <2> QED BY <1>8, <2>6, <2>7
  <1>16. CASE l < e /\ op = "end"
    <2>1. d > 0 /\ d - 1 = Level(p, i, l) - 1
      <3>1. Level(p, i, l) >= 1
        BY <1>1, <1>2, <1>4, <1>16
      <3>2. Turn(op) = -1
        BY <1>16 DEF Turn, Openers
      <3> QED BY <1>5, <1>6, <3>1, <3>2
    <2>2. at[l][d] = next[d - 1]
      BY <1>7, <1>16, <1>20, <2>1 DEF next
    <2>3. op # K
      BY <1>1, <1>16 DEF Openers
    <2>4. op # "else" /\ (op # K \/ K # "if")
      BY <1>16, <2>3
    <2> QED BY <1>8, <1>9, <1>12, <1>16, <2>1, <2>2, <2>3, <2>4
  \* A block of the same kind is skipped, with the elses in it.
  <1>17. CASE l < e /\ op = K /\ K \notin Others[K]
    <2> DEFINE f == Partner(p, l)
    <2>1. l \in Blocks(p)
      BY <1>1, <1>4, <1>17 DEF Blocks, op
    <2>2. f # 0 /\ l < f /\ f < e
      BY <1>1, <1>4, <1>17, <2>1, Nested DEF e
    <2>3. f \in l + 1..Len(p) /\ Level(p, l, f) = 0
      BY <2>1, <2>2, PartnerIs
    <2>4. next[0].end = f
      BY <1>17 DEF op, K, next
    <2> HIDE DEF f
    <2>5. at[l][d] = at[f + 1][d]
      BY <1>1, <1>7, <1>17, <1>20, <2>2, <2>3, <2>4 DEF next
    <2>6. Level(p, i, f) - 1 = d
      <3> DEFINE b == l - 1
      <3>1. b \in Nat /\ l = b + 1 /\ i <= b + 1 /\ Level(p, i, b) = d + 1 /\ f \in Nat /\ b <= f
        BY <1>1, <1>4, <1>5, <2>3
      <3> HIDE DEF b
      <3>2. Level(p, i, f) = Level(p, i, b) + Level(p, l, f)
        BY <1>1, <3>1, LevelSplit
      <3> QED BY <1>5, <2>3, <3>1, <3>2
    <2>7. at[f + 1][d].end = e /\ at[f + 1][d].elses = Elses(p, i, f + 1)
      <3> DEFINE g == f + 1
      <3>1. g \in l + 1..e /\ g - 1 = f
        BY <1>1, <1>2, <1>4, <2>2, <2>3
      <3> HIDE DEF g
      <3>2. at[g][d].end = e /\ at[g][d].elses = Elses(p, i, g)
        BY <2>6, <3>1 DEF Gets, e
      <3> QED BY <3>2 DEF g
    <2>8. Elses(p, i, l) = Elses(p, i, f + 1)
      <3>1. ASSUME NEW k \in Elses(p, i, l) PROVE k \in Elses(p, i, f + 1)
        <4>1. k \in l..e - 1 /\ p[k].op = "else" /\ \A j \in l..k - 1 : p[j].op = K => Partner(p, j) < k
          BY DEF Elses, e, K
        <4>2. k # l
          <5>1. op # "else"
            BY <1>1, <1>17 DEF Openers
          <5> QED BY <4>1, <5>1 DEF op
        <4>3. l \in l..k - 1
          BY <1>4, <4>1, <4>2
        <4>4. f < k
          BY <1>17, <4>1, <4>3 DEF op, f
        <4>5. k \in f + 1..e - 1
          BY <1>1, <1>2, <1>4, <2>3, <4>1, <4>4
        <4>6. \A j \in f + 1..k - 1 : j \in l..k - 1
          BY <1>4, <2>3
        <4> QED BY <4>1, <4>5, <4>6 DEF Elses, e, K
      <3>2. ASSUME NEW k \in Elses(p, i, f + 1) PROVE k \in Elses(p, i, l)
        <4>1. k \in f + 1..e - 1 /\ p[k].op = "else" /\ \A j \in f + 1..k - 1 : p[j].op = K => Partner(p, j) < k
          BY DEF Elses, e, K
        <4>2. ASSUME NEW j \in l..k - 1, p[j].op = K PROVE Partner(p, j) < k
          <5>1. CASE j = l
            BY <1>2, <2>3, <4>1, <5>1 DEF f
          <5>2. CASE l < j /\ j <= f
            <6>1. j \in Blocks(p)
              BY <1>1, <1>2, <1>4, <2>3, <4>2, <5>2 DEF Blocks
            <6>2. Partner(p, j) # 0 /\ j < Partner(p, j) /\ Partner(p, j) < f
              BY <2>1, <5>2, <6>1, Nested DEF f
            <6>3. Partner(p, j) \in Nat
              BY <1>1, <6>1, <6>2, PartnerIs
            <6> QED BY <1>2, <2>3, <4>1, <6>2, <6>3
          <5>3. CASE j > f
            <6>1. j \in f + 1..k - 1
              BY <1>4, <2>3, <4>1, <5>3
            <6> QED BY <4>1, <4>2, <6>1
          <5> QED BY <1>4, <2>3, <5>1, <5>2, <5>3
        <4>3. k \in l..e - 1
          BY <1>2, <1>4, <2>3, <4>1
        <4> QED BY <4>1, <4>2, <4>3 DEF Elses, e, K
      <3> QED BY <3>1, <3>2
    <2> QED BY <1>8, <2>5, <2>7, <2>8
  <1>18. CASE l < e /\ op \notin Others[K] /\ op \notin {"else", "end", K}
    <2>1. l \in i + 1..e - 1
      BY <1>1, <1>2, <1>4, <1>18
    <2>2. op \notin Openers
      BY <1>3, <1>18, <2>1 DEF op
    <2>3. d = Level(p, i, l) - 1
      BY <1>5, <1>6, <1>18, <2>2 DEF Turn
    <2>4. at[l][d] = next[d]
      BY <1>7, <1>18, <1>20 DEF next
    <2> QED BY <1>8, <1>9, <1>12, <1>18, <2>3, <2>4
  <1>19. l = e \/ l < e
    BY <1>1, <1>2, <1>4
  <1> QED BY <1>13, <1>14, <1>15, <1>16, <1>17, <1>18, <1>19

\* What is known of a block is known of the blocks of its kind in it.
LEMMA KnownWithin ==
  ASSUME NEW p \in Seq(Command), NEW i \in Blocks(p), Known(p, i),
         NEW l \in Blocks(p), l \in i + 1..Partner(p, i), p[l].op = p[i].op
  PROVE  Known(p, l) /\ Partner(p, l) < Partner(p, i)
  <1>1. i \in 1..Len(p) /\ l \in 1..Len(p) /\ Len(p) \in Nat
    BY LenProperties DEF Blocks
  <1>2. Partner(p, i) # 0
    BY DEF Known, Partner
  <1>3. Partner(p, i) \in i + 1..Len(p)
    BY <1>2, PartnerIs
  <1>4. Partner(p, l) # 0 /\ l < Partner(p, l) /\ Partner(p, l) < Partner(p, i)
    BY <1>1, <1>3, Nested
  <1>5. Partner(p, l) \in l + 1..Len(p)
    BY <1>4, PartnerIs
  <1>6. \A k \in l + 1..Partner(p, l) - 1 : k \in i + 1..Partner(p, i) - 1
    BY <1>1, <1>3, <1>4, <1>5
  <1>7. Inside(p, l) \subseteq Inside(p, i)
    BY <1>6 DEF Inside, Partner
  <1> QED BY <1>4, <1>7 DEF Known, Partner

\* The search of a block finds its end, and the elses that are in it and in no block of its
\* kind within.
LEMMA SearchRight ==
  ASSUME NEW p \in Seq(Command), NEW i \in Blocks(p), Known(p, i)
  PROVE  EndOf(p, i) = Partner(p, i) /\ Block(p, i).elses = Elses(p, i, i + 1)
  <1> DEFINE n == Len(p)
             K == p[i].op
  <1>1. PICK at : Scans(p, K, at) /\ Reads(p, K, at)
    BY SearchTable
  <1>2. n \in Nat /\ Blocks(p) \subseteq 1..n
    BY LenProperties DEF Blocks
  <1> DEFINE Right(b) == at[b + 1][0].end = Partner(p, b) /\ at[b + 1][0].elses = Elses(p, b, b + 1)
             U == {b \in 1..n : b \in Blocks(p) /\ p[b].op = K /\ Known(p, b) => Right(b)}
  <1>3. ASSUME NEW b \in 1..n, \A j \in b + 1..n : j \in U PROVE b \in U
    <2> SUFFICES ASSUME b \in Blocks(p), p[b].op = K, Known(p, b) PROVE Right(b)
      OBVIOUS
    <2> DEFINE e == Partner(p, b)
    <2>1. e # 0
      BY DEF Known, Partner
    <2>2. e \in b + 1..n /\ p[e].op = "end"
      BY <2>1, PartnerIs
    <2> DEFINE V == {l \in b + 1..e : Gets(p, b, at, l)}
    <2>3. ASSUME NEW l \in b + 1..e, \A m \in l + 1..e : m \in V PROVE l \in V
      <3>1. p[l].op = p[b].op => at[l + 1][0].end = Partner(p, l)
        <4> SUFFICES ASSUME p[l].op = K PROVE at[l + 1][0].end = Partner(p, l)
          OBVIOUS
        <4>1. l \in b + 1..n /\ l \in Blocks(p)
          BY <1>2, <2>2 DEF Blocks
        <4>2. Known(p, l)
          BY <4>1, KnownWithin
        <4>3. l \in U
          BY <1>3, <4>1
        <4> QED BY <4>1, <4>2, <4>3
      <3>2. \A m \in l + 1..e : Gets(p, b, at, m)
        BY <2>3
      <3>3. Scans(p, p[b].op, at)
        BY <1>1
      <3>4. Gets(p, b, at, l)
        BY <3>1, <3>2, <3>3, SearchLine
      <3> QED BY <3>4
    <2>4. b + 1 \in V
      <3> HIDE DEF V, e
      <3>1. e \in Nat /\ b + 1 \in Nat /\ b + 1 \in b + 1..e
        BY <1>2, <2>2
      <3>2. b + 1..e \subseteq V
        BY <2>3, <3>1, Downwards
      <3> QED BY <3>1, <3>2
    <2>5. Gets(p, b, at, b + 1)
      BY <2>4
    <2>6. Level(p, b, b + 1 - 1) - 1 = 0
      <3> DEFINE d == b - 1
      <3>1. b \in Nat /\ d \in Nat /\ b = d + 1 /\ b <= d + 1 /\ d < b
        OBVIOUS
      <3> HIDE DEF d
      <3>2. Level(p, b, d) = 0 /\ Level(p, b, b) = Level(p, b, d) + Turn(p[b].op)
        BY <3>1, LevelStep
      <3>3. Turn(p[b].op) = 1
        BY DEF Turn, Blocks
      <3>4. b + 1 - 1 = b
        OBVIOUS
      <3> QED BY <3>2, <3>3, <3>4
    <2>7. Gets(p, b, at, b + 1) => Right(b)
      <3> DEFINE x == Level(p, b, b + 1 - 1) - 1
      <3>1. Gets(p, b, at, b + 1) => at[b + 1][x].end = Partner(p, b) /\ at[b + 1][x].elses = Elses(p, b, b + 1)
        BY DEF Gets
      <3>2. x = 0
        BY <2>6
      <3> HIDE DEF x
      <3> QED BY <3>1, <3>2
    <2> QED BY <2>5, <2>7
  <1>4. i \in 1..n
    BY <1>2
  <1>5. i \in U
    <2> HIDE DEF U
    <2>1. 1..n \subseteq U
      BY <1>2, <1>3, Downwards
    <2> QED BY <1>4, <2>1
  <1>6. Right(i)
    BY <1>5
  <1>7. Block(p, i) = at[i + 1][0]
    BY <1>1 DEF Block, Reads
  <1> QED BY <1>6, <1>7 DEF EndOf

\* Of an if these are its own.
LEMMA ElsesAre ==
  ASSUME NEW p \in Seq(Command), NEW i \in Blocks(p), Known(p, i), p[i].op = "if"
  PROVE  Elses(p, i, i + 1) = {k \in Inside(p, i) : p[k].op = "else" /\ Around(p, k) = i}
  <1> DEFINE e == Partner(p, i)
  <1>1. /\ Len(p) \in Nat /\ Blocks(p) \subseteq 1..Len(p) /\ i \in 1..Len(p)
    BY LenProperties DEF Blocks
  <1>2. e \in i + 1..Len(p)
    <2>1. e # 0
      BY DEF Known, Partner
    <2> QED BY <2>1, PartnerIs
  <1>3. Inside(p, i) = i + 1..e - 1
    BY DEF Inside, Partner
  <1>4. ASSUME NEW k \in i + 1..e - 1, p[k].op = "else"
        PROVE  (\A j \in i + 1..k - 1 : p[j].op = "if" => Partner(p, j) < k) <=> Around(p, k) = i
    <2>1. k \in Nat /\ k <= Len(p) + 1 /\ Has(p, i, k)
      BY <1>1, <1>2 DEF Has
    <2>2. Around(p, k) # 0
      BY <1>1, <2>1, AroundIs
    <2> DEFINE a == Around(p, k)
    <2>3. Has(p, a, k) /\ i <= a /\ \A m \in Blocks(p) : Has(p, m, k) => m <= a
      BY <2>1, <2>2, AroundIs
    <2>4. a \in Blocks(p) /\ p[a].op = "if"
      BY <1>3, <1>4, <2>3 DEF Known, Around, Has
    <2> HIDE DEF a
    <2>5. ASSUME a = i, NEW j \in i + 1..k - 1, p[j].op = "if" PROVE Partner(p, j) < k
      <3>1. j \in Blocks(p)
        BY <1>1, <1>2, <2>5 DEF Blocks, Openers
      <3>2. ~Has(p, j, k)
        BY <1>1, <2>3, <2>5, <3>1
      <3>3. Partner(p, j) \in Nat
        <4>1. Partner(p, j) # 0 => Partner(p, j) \in j + 1..Len(p)
          BY <3>1, PartnerIs
        <4> QED BY <1>1, <4>1
      <3> QED BY <2>1, <3>1, <3>2, <3>3 DEF Has
    <2>6. ASSUME a # i, \A j \in i + 1..k - 1 : p[j].op = "if" => Partner(p, j) < k PROVE FALSE
      <3>1. a \in i + 1..k - 1
        BY <1>1, <2>1, <2>3, <2>4, <2>6 DEF Has
      <3>2. Partner(p, a) < k /\ k <= Partner(p, a)
        BY <2>3, <2>4, <2>6, <3>1 DEF Has
      <3>3. Partner(p, a) \in Nat
        <4>1. Partner(p, a) # 0 => Partner(p, a) \in a + 1..Len(p)
          BY <2>4, PartnerIs
        <4> QED BY <1>1, <3>1, <4>1
      <3> QED BY <2>1, <3>2, <3>3
    <2> QED BY <2>5, <2>6 DEF a
  <1>5. \A k \in i + 1..e - 1 : k \in Elses(p, i, i + 1) <=> p[k].op = "else" /\ Around(p, k) = i
    BY <1>4 DEF Elses
  <1>6. Elses(p, i, i + 1) \subseteq i + 1..e - 1
    BY DEF Elses
  <1> HIDE DEF e
  <1> QED BY <1>3, <1>5, <1>6

-----------------------------------------------------------------------------
(* Types *)

\* Every command is a record of its kind and its name.
LEMMA CommandIs ==
  ASSUME NEW c \in Command
  PROVE  /\ c = [op |-> c.op, name |-> c.name]
         /\ c.op \in {"state", "goto"} => c.name \in StateNames
         /\ c.op \in {"proc", "call"} => c.name \in ProcNames
         /\ c.op = "component" => c.name \in CompNames
         /\ c.op = "var" => c.name \in VarNames
         /\ c.op \in Unnamed \cup {"state", "goto", "proc", "call", "component", "var"}
  BY DEF Command, Unnamed

\* What is declared last is declared.
LEMMA DeclarationIs ==
  ASSUME NEW p \in Seq(Command), NEW op, NEW name
  PROVE  LET l == Declaration(p, op, name)
             ls == {k \in 1..Len(p) : p[k] = [op |-> op, name |-> name]}
         IN  IF ls = {} THEN l = 0 ELSE l \in ls /\ \A k \in ls : k <= l
  <1> DEFINE ls == {k \in 1..Len(p) : p[k] = [op |-> op, name |-> name]}
  <1>1. Declaration(p, op, name) = IF ls = {} THEN 0 ELSE CHOOSE l \in ls : \A k \in ls : k <= l
    BY DEF Declaration
  <1>2. Len(p) \in Nat /\ ls \subseteq 0..Len(p)
    BY LenProperties
  <1> HIDE DEF ls
  <1>3. ls # {} => \E l \in ls : \A k \in ls : k <= l
    BY <1>2, Greatest
  <1> QED BY <1>1, <1>3 DEF ls

LEMMA DeclaredAt ==
  ASSUME NEW p \in Seq(Command), NEW op, NEW name, Declaration(p, op, name) # 0
  PROVE  LET l == Declaration(p, op, name) IN l \in 1..Len(p) /\ p[l].op = op /\ p[l].name = name
  <1> DEFINE l == Declaration(p, op, name)
             ls == {k \in 1..Len(p) : p[k] = [op |-> op, name |-> name]}
  <1>1. IF ls = {} THEN l = 0 ELSE l \in ls
    BY DeclarationIs
  <1>2. l # 0
    OBVIOUS
  <1> HIDE DEF l
  <1> QED BY <1>1, <1>2 DEF l

\* The end a search finds is a line of the script, and so are the elses.
LEMMA BlockRange ==
  ASSUME NEW p \in Seq(Command), NEW l \in Nat
  PROVE  /\ EndOf(p, l) \in 0..Len(p) /\ Block(p, l).end = EndOf(p, l)
         /\ Block(p, l).elses \subseteq l + 1..Len(p)
  <1>1. Len(p) \in Nat
    BY LenProperties
  <1>2. Search(p, p[l].op, l + 1) \in Finds(l + 1, Len(p))
    BY SearchIs
  <1> QED BY <1>1, <1>2 DEF Block, EndOf, Finds

LEMMA PoppedIs ==
  ASSUME NEW S, NEW s \in Seq(S), s # <<>>
  PROVE  LET t == SubSeq(s, 1, Len(s) - 1)
         IN  /\ Len(s) \in Nat \ {0} /\ t \in Seq(S) /\ Len(t) = Len(s) - 1
             /\ \A i \in 1..Len(s) - 1 : t[i] = s[i]
             /\ s[Len(s)] \in S /\ s = Append(t, s[Len(s)])
  <1> DEFINE t == SubSeq(s, 1, Len(s) - 1)
             n == Len(s) - 1
  <1>1. Len(s) \in Nat \ {0} /\ s[Len(s)] \in S
    BY LenProperties, EmptySeq, ElementOfSeq
  <1>2. n \in Nat /\ n + 1 = Len(s)
    BY <1>1
  <1>3. t \in Seq(S) /\ Len(t) = n /\ \A i \in 1..n : t[i] = s[i]
    <2>1. \A i \in 1..n : s[i] \in S
      BY <1>1, ElementOfSeq
    <2>2. t = [i \in 1..n |-> s[i]]
      BY <1>1
    <2> HIDE DEF t, n
    <2>3. t \in Seq(S)
      BY <1>2, <2>1, <2>2
    <2>4. Len(t) = n
      BY <1>2, <2>2
    <2> QED BY <2>2, <2>3, <2>4
  <1>4. s = Append(t, s[Len(s)])
    <2> HIDE DEF t
    <2>1. Append(t, s[Len(s)]) \in Seq(S) /\ Len(Append(t, s[Len(s)])) = n + 1
      BY <1>1, <1>3, AppendProperties
    <2>2. \A i \in 1..Len(s) : Append(t, s[Len(s)])[i] = s[i]
      BY <1>1, <1>2, <1>3
    <2> DEFINE u == Append(t, s[Len(s)])
    <2>3. u \in Seq(S) /\ Len(u) = Len(s) /\ \A i \in 1..Len(s) : u[i] = s[i]
      BY <1>2, <2>1, <2>2
    <2> HIDE DEF u
    <2>4. s = u
      BY <2>3, SeqEqual
    <2> QED BY <2>4 DEF u
  <1> QED BY <1>1, <1>3, <1>4

Ranges ==
  \A i \in DOMAIN stack : /\ stack[i].kind = "loop" => stack[i].start \in 1..Len(program)
                          /\ stack[i].kind = "proc" => stack[i].call \in 1..Len(program)
IInv == TypeOK /\ Ranges

LEMMA TypesAre ==
  ASSUME IInv
  PROVE  /\ program \in Seq(Command) /\ Len(program) \in Nat /\ DOMAIN program = 1..Len(program)
         /\ line \in Nat /\ Len(stack) \in Nat /\ DOMAIN stack = 1..Len(stack)
         /\ \A op : Cmd(op) => line \in 1..Len(program) /\ program[line] \in Command /\ program[line].op = op
  <1>1. program \in Seq(Command)
    BY MachineAssumption DEF IInv, TypeOK
  <1>2. Len(program) \in Nat /\ DOMAIN program = 1..Len(program) /\ Len(stack) \in Nat /\ DOMAIN stack = 1..Len(stack)
    BY <1>1, LenProperties DEF IInv, TypeOK
  <1>3. line \in Nat
    BY <1>2 DEF IInv, TypeOK
  <1>4. ASSUME NEW op, Cmd(op) PROVE line \in 1..Len(program) /\ program[line].op = op
    BY <1>2, <1>3, <1>4 DEF Cmd, Done
  <1> QED BY <1>1, <1>2, <1>3, <1>4, ElementOfSeq

LEMMA GoTypes ==
  ASSUME IInv, NEW l \in 0..Len(program) + 1, Go(l)
  PROVE  IInv'
  BY DEF IInv, TypeOK, Ranges, Go

LEMMA DieTypes ==
  ASSUME IInv, Die
  PROVE  IInv'
  <1>1. Len(program) \in Nat
    BY TypesAre
  <1>2. stack' = <<>> /\ <<>> \in Seq(Frame) /\ Len(<<>>) = 0 /\ DOMAIN <<>> = {}
    BY DEF Die
  <1>3. Depth \in Nat
    BY MachineAssumption
  <1>4. Ranges'
    BY <1>2 DEF Ranges
  <1>5. Len(stack') <= Depth /\ stack' \in Seq(Frame)
    BY <1>2, <1>3
  <1>6. program' = program /\ state' = state /\ merged' = merged /\ line' = 0 /\ until' = 0 /\ alive' = FALSE
        /\ stopped' = stopped
    BY DEF Die
  <1>7. TypeOK'
    <2>1. alive' \in BOOLEAN /\ stopped' \in BOOLEAN
      BY <1>6 DEF IInv, TypeOK
    <2>2. program' \in Programs /\ state' \in StateNames
          /\ merged' \subseteq [name : CompNames, vars : SUBSET VarNames]
      BY <1>6 DEF IInv, TypeOK
    <2>3. line' \in 0..Len(program') + 1 /\ until' \in 0..Len(program') + 1
      BY <1>1, <1>6
    <2> QED BY <1>5, <2>1, <2>2, <2>3 DEF TypeOK
  <1> QED BY <1>4, <1>7 DEF IInv

LEMMA PushTypes ==
  ASSUME IInv, NEW l \in 0..Len(program) + 1, NEW frame \in Frame, Push(frame, l),
         frame.kind = "loop" => frame.start \in 1..Len(program),
         frame.kind = "proc" => frame.call \in 1..Len(program)
  PROVE  IInv'
  <1>1. CASE Len(stack) = Depth /\ Die
    BY <1>1, DieTypes
  <1>2. CASE /\ Len(stack) < Depth
             /\ stack' = Append(stack, frame) /\ line' = l
             /\ UNCHANGED <<program, state, until, merged, alive, stopped>>
    <2>1. stack \in Seq(Frame) /\ Len(stack) \in Nat /\ Depth \in Nat
      BY MachineAssumption, TypesAre DEF IInv, TypeOK
    <2>2. /\ stack' \in Seq(Frame) /\ Len(stack') = Len(stack) + 1 /\ DOMAIN stack' = 1..Len(stack) + 1
          /\ \A i \in 1..Len(stack) : stack'[i] = stack[i]
          /\ stack'[Len(stack) + 1] = frame
      BY <1>2, <2>1, AppendProperties, LenProperties
    <2>3. Len(stack') <= Depth
      BY <1>2, <2>1, <2>2
    <2>4. Ranges'
      <3>1. \A i \in 1..Len(stack) + 1 : i = Len(stack) + 1 \/ i \in DOMAIN stack
        BY <2>1, LenProperties
      <3>2. \A i \in DOMAIN stack : i \in 1..Len(stack)
        BY <2>1, LenProperties
      <3> QED BY <1>2, <2>2, <3>1, <3>2 DEF IInv, Ranges
    <2> QED BY <1>2, <2>2, <2>3, <2>4 DEF IInv, TypeOK
  <1> QED BY <1>1, <1>2 DEF Push

LEMMA PopTypes ==
  ASSUME IInv, stack # <<>>, stack' = Popped, line' \in 0..Len(program) + 1,
         merged' \subseteq [name : CompNames, vars : SUBSET VarNames],
         UNCHANGED <<program, state, until, alive, stopped>>
  PROVE  IInv'
  <1>1. stack \in Seq(Frame) /\ Len(stack) <= Depth /\ Depth \in Nat
    BY MachineAssumption DEF IInv, TypeOK
  <1>2. /\ Len(stack) \in Nat \ {0} /\ stack' \in Seq(Frame) /\ Len(stack') = Len(stack) - 1
        /\ \A i \in 1..Len(stack) - 1 : stack'[i] = stack[i]
    BY <1>1, PoppedIs DEF Popped
  <1>3. DOMAIN stack' = 1..Len(stack) - 1 /\ DOMAIN stack = 1..Len(stack)
    BY <1>1, <1>2, LenProperties
  <1>4. Ranges'
    <2>1. \A i \in 1..Len(stack) - 1 : i \in DOMAIN stack
      BY <1>2, <1>3
    <2> QED BY <1>2, <1>3, <2>1 DEF IInv, Ranges
  <1>5. Len(stack') <= Depth
    BY <1>1, <1>2
  <1> QED BY <1>2, <1>4, <1>5 DEF IInv, TypeOK

\* Each step keeps the types.
LEMMA TypeStep ==
  ASSUME IInv, [Next]_vars
  PROVE  IInv'
  <1> DEFINE n == Len(program)
  <1>1. /\ program \in Seq(Command) /\ n \in Nat /\ DOMAIN program = 1..n
        /\ line \in Nat /\ Len(stack) \in Nat /\ DOMAIN stack = 1..Len(stack)
        /\ \A op : Cmd(op) => line \in 1..n /\ program[line] \in Command /\ program[line].op = op
    BY TypesAre
  <1>2. /\ program \in Programs /\ state \in StateNames /\ line \in 0..n + 1 /\ until \in 0..n + 1
        /\ stack \in Seq(Frame) /\ merged \subseteq [name : CompNames, vars : SUBSET VarNames]
        /\ alive \in BOOLEAN /\ stopped \in BOOLEAN /\ Ranges /\ Len(stack) <= Depth
    BY DEF IInv, TypeOK
  <1>3. \A l \in 1..n : l + 1 \in 0..n + 1 /\ EndOf(program, l) + 1 \in 0..n + 1
    <2>1. \A l \in 1..n : EndOf(program, l) \in 0..n
      BY <1>1, BlockRange
    <2> QED BY <1>1, <2>1
  <1>4. \A op, name : /\ Declaration(program, op, name) \in 0..n
                      /\ Declaration(program, op, name) + 1 \in 0..n + 1
    <2> SUFFICES ASSUME NEW op, NEW name
                 PROVE  /\ Declaration(program, op, name) \in 0..n
                        /\ Declaration(program, op, name) + 1 \in 0..n + 1
      OBVIOUS
    <2>1. Declaration(program, op, name) = 0 \/ Declaration(program, op, name) \in 1..n
      BY <1>1, DeclarationIs
    <2> QED BY <1>1, <2>1
  <1> HIDE DEF n
  <1>5. ASSUME NEW l \in 0..n + 1, Go(l) PROVE IInv'
    BY <1>5, GoTypes DEF n
  <1>6. ASSUME Die PROVE IInv'
    BY <1>6, DieTypes
  <1>7. ASSUME NEW frame \in Frame, NEW l \in 0..n + 1, Push(frame, l),
               frame.kind = "loop" => frame.start \in 1..n, frame.kind = "proc" => frame.call \in 1..n
        PROVE  IInv'
    BY <1>7, PushTypes DEF n
  \* Unless it is one that ends the machine, a run begins in a state that the logic has.
  <1>8. ASSUME NEW s \in StateNames, Begin(s) PROVE IInv'
    <2>1. CASE s \notin DeclaredStates(program) /\ Die
      BY <2>1, <1>6
    <2>2. CASE /\ line' = First(program, s) /\ until' = Until(program, s) /\ state' = s
               /\ UNCHANGED <<program, stack, merged, alive, stopped>>
      <3>1. First(program, s) \in 0..n + 1
        <4>1. 1 \in 0..n + 1
          BY <1>1
        <4> QED BY <1>4, <4>1 DEF First
      <3>2. Until(program, s) \in 0..n + 1
        <4>1. Declaration(program, "state", s) \in Nat
          BY <1>1, <1>4
        <4>2. EndOf(program, Declaration(program, "state", s)) \in 0..n
          BY <1>1, <4>1, BlockRange DEF n
        <4>3. n + 1 \in 0..n + 1 /\ 0..n \subseteq 0..n + 1
          BY <1>1
        <4> QED BY <4>2, <4>3 DEF Until, n
      <3>3. Ranges'
        BY <1>2, <2>2 DEF Ranges
      <3> QED BY <1>2, <2>2, <3>1, <3>2, <3>3 DEF IInv, TypeOK, n
    <2> QED BY <1>8, <2>1, <2>2 DEF Begin
  <1>9. \A kind : Top(kind) => Len(stack) \in 1..Len(stack) /\ stack # <<>> /\ stack[Len(stack)] \in Frame /\ stack[Len(stack)].kind = kind
    BY <1>1, <1>2, EmptySeq, ElementOfSeq DEF Top
  <1>10. \A kind : Top(kind) =>
           /\ kind = "loop" => stack[Len(stack)].start \in 1..n
           /\ kind = "proc" => stack[Len(stack)].call \in 1..n
    BY <1>1, <1>2, <1>9 DEF Ranges, n
  <1>11. CASE BeginEvent \/ BeginStep
    <2>1. "_main" \in StateNames
      BY MachineAssumption
    <2> QED BY <1>2, <1>8, <1>11, <2>1 DEF BeginEvent, BeginStep
  <1>12. CASE FetchFails \/ Shutdown
    <2>1. alive' = FALSE /\ stopped' = TRUE /\ UNCHANGED <<program, state, line, until, stack, merged>>
      BY <1>12 DEF FetchFails, Shutdown, Stop
    <2> QED BY <1>2, <2>1 DEF IInv, TypeOK, Ranges, n
  <1>13. CASE \E s \in StateNames : Redirect(s)
    BY <1>13 DEF IInv, TypeOK, Ranges, Redirect
  <1>14. CASE Finish
    <2>1. stack' = <<>> /\ <<>> \in Seq(Frame) /\ Len(<<>>) = 0 /\ DOMAIN <<>> = {}
      BY <1>14 DEF Finish
    <2>2. Len(stack') <= Depth /\ 0 \in 0..n + 1 /\ Ranges'
      BY <1>1, <2>1, MachineAssumption DEF Ranges
    <2> QED BY <1>2, <1>14, <2>1, <2>2 DEF IInv, TypeOK, Finish, n
  <1>15. CASE Log
    BY <1>1, <1>3, <1>5, <1>15 DEF Log
  <1>16. CASE Act
    BY <1>1, <1>3, <1>5, <1>6, <1>16 DEF Act
  <1>17. CASE Unexecuted
    BY <1>1, <1>3, <1>5, <1>17 DEF Unexecuted
  <1>18. CASE IfTrue
    <2>1. [kind |-> "if"] \in Frame /\ [kind |-> "if"].kind = "if"
      BY DEF Frame
    <2> QED BY <1>1, <1>3, <1>7, <1>18, <2>1 DEF IfTrue
  <1>19. CASE IfFalse
    <2>1. [kind |-> "if"] \in Frame /\ [kind |-> "if"].kind = "if"
      BY DEF Frame
    <2>2. line \in 1..n
      BY <1>1, <1>19 DEF IfFalse
    <2> DEFINE block == Block(program, line)
               first == CHOOSE l \in block.elses : \A k \in block.elses : l <= k
    <2>3. block.elses \subseteq line + 1..n /\ block.end + 1 \in 0..n + 1
      BY <1>1, <1>3, <2>2, BlockRange DEF n
    <2>4. block.elses # {} => first \in 0..n + 1
      <3> HIDE DEF block
      <3>1. block.elses # {} => \E l \in block.elses : \A k \in block.elses : l <= k
        <4>1. block.elses \subseteq Nat
          BY <1>1, <2>3
        <4> QED BY <4>1, Least
      <3>2. block.elses # {} => first \in block.elses
        BY <3>1
      <3> HIDE DEF first
      <3>3. \A l \in block.elses : l \in 0..n + 1
        BY <1>1, <2>2, <2>3
      <3> QED BY <3>2, <3>3
    <2>5. \/ block.elses # {} /\ Push([kind |-> "if"], first)
          \/ Go(block.end + 1)
      BY <1>19 DEF IfFalse
    <2> HIDE DEF block, first
    <2> QED BY <1>5, <1>7, <2>1, <2>3, <2>4, <2>5
  <1>20. CASE IfFails
    BY <1>6, <1>20 DEF IfFails
  <1>21. CASE Loop
    <2>1. line \in 1..n /\ line \in Nat /\ Push([kind |-> "loop", start |-> line], line + 1)
      BY <1>1, <1>21 DEF Loop
    <2> DEFINE frame == [kind |-> "loop", start |-> line]
    <2>2. frame \in Frame /\ frame.kind = "loop" /\ frame.start = line
      BY <2>1 DEF Frame
    <2> HIDE DEF frame
    <2>3. Push(frame, line + 1)
      BY <2>1 DEF frame
    <2> QED BY <1>3, <1>7, <2>1, <2>2, <2>3
  <1>22. CASE Procedure
    BY <1>1, <1>3, <1>5, <1>22 DEF Procedure
  <1>23. CASE State
    BY <1>1, <1>3, <1>5, <1>23 DEF State
  <1>24. CASE Call
    <2> DEFINE l == Declaration(program, "proc", Name)
               frame == [kind |-> "proc", call |-> line, end |-> EndOf(program, l)]
    <2>1. line \in 1..n /\ line \in Nat /\ (Push(frame, l + 1) \/ Die)
      BY <1>1, <1>24 DEF Call
    <2>2. l \in Nat /\ l + 1 \in 0..n + 1
      BY <1>1, <1>4
    <2> HIDE DEF l
    <2>3. EndOf(program, l) \in Nat
      BY <1>1, <2>2, BlockRange
    <2>4. frame \in Frame /\ frame.kind = "proc" /\ frame.call = line
      BY <2>1, <2>3 DEF Frame
    <2> HIDE DEF frame
    <2> QED BY <1>6, <1>7, <2>1, <2>2, <2>4
  <1>25. CASE Goto
    <2>1. line \in 1..n /\ Name \in StateNames
      BY <1>1, <1>25, CommandIs DEF Goto, Name
    <2>2. line + 1 \in 0..n + 1
      BY <1>3, <2>1
    <2>3. Ranges'
      BY <1>2, <1>25 DEF Ranges, Goto
    <2> QED BY <1>2, <1>25, <2>1, <2>2, <2>3 DEF IInv, TypeOK, Goto, n
  <1>26. CASE ComponentBlock
    <2> DEFINE frame == [kind |-> "component", name |-> Name, vars |-> {}]
    <2>1. line \in 1..n /\ Name \in CompNames /\ Push(frame, line + 1)
      BY <1>1, <1>26, CommandIs DEF ComponentBlock, Name
    <2>2. frame \in Frame /\ frame.kind = "component"
      BY <2>1 DEF Frame
    <2> HIDE DEF frame
    <2> QED BY <1>3, <1>7, <2>1, <2>2
  <1>27. CASE RegisterVar
    <2>1. line \in 1..n /\ line + 1 \in 0..n + 1 /\ Name \in VarNames
      BY <1>1, <1>3, <1>27, CommandIs DEF RegisterVar, Name
    <2>2. CASE ~Top("component")
      <3>1. stack' = stack /\ Ranges'
        BY <1>2, <1>27, <2>2 DEF Ranges, RegisterVar
      <3> QED BY <1>2, <1>27, <2>1, <3>1 DEF IInv, TypeOK, RegisterVar, n
    <2>3. CASE Top("component")
      <3> DEFINE frame == stack[Len(stack)]
                 new == [frame EXCEPT !.vars = frame.vars \cup {Name}]
      <3>1. frame \in [kind : {"component"}, name : CompNames, vars : SUBSET VarNames]
        BY <1>9, <2>3 DEF Frame
      <3>2. new \in Frame /\ new.kind = "component"
        <4> HIDE DEF frame
        <4> QED BY <2>1, <3>1 DEF Frame
      <3>3. stack' = [stack EXCEPT ![Len(stack)] = new]
        BY <1>27, <2>3 DEF RegisterVar
      <3> HIDE DEF frame, new
      <3>4. /\ stack' \in Seq(Frame) /\ Len(stack') = Len(stack)
            /\ \A i \in 1..Len(stack) : stack'[i] = IF i = Len(stack) THEN new ELSE stack[i]
        <4>1. Len(stack) \in 1..Len(stack)
          BY <1>9, <2>3
        <4> QED BY <1>1, <1>2, <3>2, <3>3, <4>1, ExceptSeq
      <3>5. DOMAIN stack' = 1..Len(stack)
        BY <1>1, <3>3
      <3>6. Ranges'
        BY <1>1, <1>2, <1>27, <3>2, <3>4, <3>5 DEF Ranges, RegisterVar
      <3> QED BY <1>2, <1>27, <2>1, <3>4, <3>6 DEF IInv, TypeOK, RegisterVar, n
    <2> QED BY <2>2, <2>3
  <1>28. CASE EndPlain
    BY <1>1, <1>3, <1>5, <1>28 DEF EndPlain
  <1>29. CASE EndLoop
    BY <1>3, <1>5, <1>10, <1>29 DEF EndLoop
  <1>30. CASE EndProcedure
    <2>1. stack # <<>> /\ stack' = Popped /\ UNCHANGED <<program, state, until, merged, alive, stopped>>
      BY <1>9, <1>30 DEF EndProcedure
    <2>2. line' \in 0..n + 1
      <3>1. line \in 1..n /\ stack[Len(stack)].call \in 1..n
        BY <1>1, <1>10, <1>30 DEF EndProcedure
      <3>2. line' = stack[Len(stack)].call + 1 \/ line' = line + 1
        BY <1>30 DEF EndProcedure
      <3> QED BY <1>3, <3>1, <3>2
    <2> QED BY <1>2, <2>1, <2>2, PopTypes DEF n
  <1>31. CASE EndComponent
    <2> DEFINE frame == stack[Len(stack)]
    <2>1. /\ stack # <<>> /\ stack' = Popped /\ line' = line + 1 /\ Cmd("end") /\ Top("component")
          /\ merged' = merged \cup {[name |-> frame.name, vars |-> frame.vars]} \/ merged' = merged
          /\ UNCHANGED <<program, state, until, alive, stopped>>
      BY <1>9, <1>31 DEF EndComponent
    <2>2. line' \in 0..n + 1
      BY <1>1, <1>3, <2>1
    <2>3. frame \in [kind : {"component"}, name : CompNames, vars : SUBSET VarNames]
      BY <1>9, <2>1 DEF Frame
    <2> HIDE DEF frame
    <2>4. merged' \subseteq [name : CompNames, vars : SUBSET VarNames]
      BY <1>2, <2>1, <2>3
    <2> QED BY <2>1, <2>2, <2>4, PopTypes DEF n
  <1>32. CASE UNCHANGED vars
    BY <1>2, <1>32 DEF IInv, TypeOK, Ranges, vars, n
  <1> QED BY <1>11, <1>12, <1>13, <1>14, <1>15, <1>16, <1>17, <1>18, <1>19, <1>20, <1>21, <1>22, <1>23,
             <1>24, <1>25, <1>26, <1>27, <1>28, <1>29, <1>30, <1>31, <1>32 DEF Next, Run

LEMMA Typed == Spec => []IInv
  <1>1. Init => IInv
    <2>1. \A p \in Programs : Len(p) \in Nat
      BY MachineAssumption, LenProperties
    <2>2. <<>> \in Seq(Frame) /\ Len(<<>>) = 0 /\ DOMAIN <<>> = {} /\ Depth \in Nat /\ "start" \in StateNames
      BY MachineAssumption
    <2> SUFFICES ASSUME Init PROVE IInv
      OBVIOUS
    <2>3. alive \in BOOLEAN /\ stopped \in BOOLEAN
      BY DEF Init
    <2>4. /\ program \in Programs /\ state \in StateNames /\ stack \in Seq(Frame) /\ Len(stack) <= Depth
          /\ line \in 0..Len(program) + 1 /\ until \in 0..Len(program) + 1 /\ merged = {} /\ DOMAIN stack = {}
      BY <2>1, <2>2 DEF Init
    <2> QED BY <2>3, <2>4 DEF IInv, TypeOK, Ranges
  <1>2. IInv /\ [Next]_vars => IInv'
    BY TypeStep
  <1> QED BY <1>1, <1>2, PTL DEF Spec

\* The interpreter's variables are well typed, its line is in the script or behind it, and
\* its stack never exceeds its capacity, whatever the script.
THEOREM TypeCorrect == Spec => []TypeOK
  <1>1. IInv => TypeOK
    BY DEF IInv
  <1> QED BY <1>1, Typed, PTL

\* The interpreter's search finds the end that closes a block, and an if its own elses, in
\* every script and for every block that contains only what its search knows.
THEOREM BlocksFound == Spec => []EndsFound
  <1>1. IInv => EndsFound
    <2> SUFFICES ASSUME IInv PROVE EndsFound
      OBVIOUS
    <2>1. program \in Seq(Command)
      BY TypesAre
    <2>2. ASSUME NEW l \in Blocks(program), Known(program, l)
          PROVE  /\ EndOf(program, l) = Meaning!Partner(program, l)
                 /\ program[l].op = "if" =>
                      Block(program, l).elses =
                        {k \in Inside(program, l) : program[k].op = "else"
                                                     /\ Meaning!Around(program, k) = l}
      <3>1. EndOf(program, l) = Partner(program, l) /\ Block(program, l).elses = Elses(program, l, l + 1)
        BY <2>1, <2>2, SearchRight
      <3>2. program[l].op = "if" =>
              Elses(program, l, l + 1) = {k \in Inside(program, l) : program[k].op = "else" /\ Around(program, k) = l}
        BY <2>1, <2>2, ElsesAre
      <3> QED BY <3>1, <3>2 DEF Partner, Around
    <2> QED BY <2>2 DEF EndsFound
  <1> QED BY <1>1, Typed, PTL

-----------------------------------------------------------------------------
(* The stack's meaning *)

Return == [call : Nat, end : Nat]

Below(f, frames) ==
  f = [i \in 0..Len(frames) |->
        IF i = 0 THEN <<>>
        ELSE IF frames[i].kind = "proc"
             THEN Append(f[i - 1], [call |-> frames[i].call, end |-> frames[i].end])
             ELSE f[i - 1]]

\* The frames counted from below: a frame more.
LEMMA BelowMore ==
  ASSUME NEW S, NEW s \in Seq(S), NEW frame \in S, NEW g, Below(g, s)
  PROVE  LET t == Append(s, frame)
             f == [i \in 0..Len(t) |->
                    IF i <= Len(s) THEN g[i]
                    ELSE IF frame.kind = "proc"
                         THEN Append(g[Len(s)], [call |-> frame.call, end |-> frame.end])
                         ELSE g[Len(s)]]
         IN  Below(f, t)
  <1> DEFINE t == Append(s, frame)
             n == Len(s)
             top == IF frame.kind = "proc" THEN Append(g[n], [call |-> frame.call, end |-> frame.end]) ELSE g[n]
             f == [i \in 0..Len(t) |-> IF i <= n THEN g[i] ELSE top]
             Row(h, r, i) == IF i = 0 THEN <<>>
                             ELSE IF r[i].kind = "proc"
                                  THEN Append(h[i - 1], [call |-> r[i].call, end |-> r[i].end])
                                  ELSE h[i - 1]
  <1>1. n \in Nat /\ Len(t) = n + 1 /\ t[n + 1] = frame /\ \A i \in 1..n : t[i] = s[i]
    BY LenProperties, AppendProperties
  <1>2. \A i \in 0..n : g[i] = Row(g, s, i)
    BY DEF Below
  <1> HIDE DEF t, n
  <1>3. f[n + 1] = top /\ \A i \in 0..n : f[i] = g[i]
    BY <1>1
  <1>4. ASSUME NEW i \in 0..n + 1 PROVE f[i] = Row(f, t, i)
    <2>1. CASE i = n + 1
      <3>1. i # 0 /\ i - 1 = n /\ f[n] = g[n] /\ t[i] = frame
        BY <1>1, <1>3, <2>1
      <3> HIDE DEF f
      <3> QED BY <1>3, <2>1, <3>1
    <2>2. CASE i # n + 1
      <3>1. i \in 0..n /\ f[i] = g[i] /\ (i # 0 => i \in 1..n /\ f[i - 1] = g[i - 1] /\ t[i] = s[i])
        BY <1>1, <1>3, <2>2
      <3> HIDE DEF f
      <3> QED BY <1>2, <3>1
    <2> QED BY <2>1, <2>2
  <1>5. f = [i \in 0..n + 1 |-> f[i]]
    BY <1>1
  <1> HIDE DEF f
  <1>6. f = [i \in 0..n + 1 |-> Row(f, t, i)]
    <2> HIDE DEF Row
    <2> QED BY <1>4, <1>5
  <1>7. Below(f, t)
    BY <1>1, <1>6 DEF Below
  <1> QED BY <1>7 DEF f, t, n

LEMMA BelowSame ==
  ASSUME NEW S, NEW s \in Seq(S), NEW f, NEW g, Below(f, s), Below(g, s)
  PROVE  f = g
  <1> DEFINE T == {i \in 0..Len(s) : f[i] = g[i]}
  <1>1. Len(s) \in Nat
    BY LenProperties
  <1>2. 0 \in T
    BY <1>1 DEF Below
  <1>3. ASSUME NEW i \in 0 + 1..Len(s), i - 1 \in T PROVE i \in T
    <2>1. i \in 0..Len(s) /\ i # 0
      BY <1>1
    <2> DEFINE Row(h) == IF s[i].kind = "proc"
                         THEN Append(h[i - 1], [call |-> s[i].call, end |-> s[i].end])
                         ELSE h[i - 1]
    <2>2. f[i] = Row(f) /\ g[i] = Row(g)
      BY <2>1 DEF Below
    <2>3. f[i - 1] = g[i - 1]
      BY <1>3
    <2>4. Row(f) = Row(g)
      BY <2>3
    <2> HIDE DEF Row
    <2> QED BY <2>1, <2>2, <2>4
  <1>4. 0..Len(s) \subseteq T
    <2> HIDE DEF T
    <2> QED BY <1>1, <1>2, <1>3, Upwards
  <1>5. f = [i \in 0..Len(s) |-> f[i]] /\ g = [i \in 0..Len(s) |-> g[i]]
    BY DEF Below
  <1> QED BY <1>4, <1>5

LEMMA BelowIs ==
  ASSUME NEW S, NEW s \in Seq(S)
  PROVE  \E f : Below(f, s) /\ ReturnsOf(s) = f[Len(s)]
  <1> DEFINE Cut(k) == SubSeq(s, 1, k)
             T == {k \in 0..Len(s) : \E f : Below(f, Cut(k))}
  <1>1. Len(s) \in Nat
    BY LenProperties
  <1>2. 0 \in T
    <2> DEFINE f == [i \in 0..0 |-> <<>>]
    <2>1. Cut(0) = <<>> /\ Len(<<>>) = 0
      OBVIOUS
    <2>2. \A i \in 0..0 : i = 0
      OBVIOUS
    <2>3. Below(f, <<>>)
      BY <2>1, <2>2 DEF Below
    <2> HIDE DEF f, Cut
    <2>4. Below(f, Cut(0)) /\ 0 \in 0..Len(s)
      BY <1>1, <2>1, <2>3
    <2> QED BY <2>4
  <1>3. ASSUME NEW k \in 0 + 1..Len(s), k - 1 \in T PROVE k \in T
    <2> DEFINE d == k - 1
    <2>1. d \in Nat /\ k = d + 1 /\ k \in 1..Len(s)
      BY <1>1
    <2>2. PICK g : Below(g, Cut(d))
      BY <1>3
    <2>3. s[k] \in S /\ \A i \in 1..k : s[i] \in S
      BY <1>1, <2>1, ElementOfSeq
    <2>4. Cut(d) = [i \in 1..d |-> s[i]] /\ Cut(k) = [i \in 1..k |-> s[i]]
      BY <1>1
    <2> HIDE DEF d
    <2>5. Cut(d) \in Seq(S) /\ Len(Cut(d)) = d
      BY <1>1, <2>1, <2>3, <2>4
    <2>6. Cut(k) = Append(Cut(d), s[k])
      BY <1>1, <2>1, <2>3, <2>4, <2>5
    <2> HIDE DEF Cut
    <2>7. \E f : Below(f, Cut(k))
      BY <2>2, <2>3, <2>5, <2>6, BelowMore
    <2> QED BY <1>1, <2>1, <2>7
  <1>4. Len(s) \in T
    <2> HIDE DEF T
    <2>1. 0..Len(s) \subseteq T
      BY <1>1, <1>2, <1>3, Upwards
    <2> QED BY <1>1, <2>1
  <1>5. Cut(Len(s)) = s
    <2>1. \A i \in 1..Len(s) : s[i] \in S
      BY ElementOfSeq
    <2>2. s = [i \in 1..Len(s) |-> s[i]]
      BY LenProperties
    <2> QED BY <1>1, <2>1, <2>2
  <1>6. \E f : Below(f, s)
    <2> HIDE DEF Cut
    <2> QED BY <1>4, <1>5
  <1> DEFINE m == CHOOSE f : Below(f, s)
  <1>7. Below(m, s)
    BY <1>6
  <1>8. ReturnsOf(s) = m[Len(s)]
    BY DEF ReturnsOf, Below
  <1> HIDE DEF m
  <1> QED BY <1>7, <1>8

\* A frame more returns where the others return, or is a procedure's.
LEMMA ReturnsAppend ==
  ASSUME NEW S, NEW s \in Seq(S), NEW frame \in S
  PROVE  ReturnsOf(Append(s, frame)) =
           IF frame.kind = "proc" THEN Append(ReturnsOf(s), [call |-> frame.call, end |-> frame.end])
           ELSE ReturnsOf(s)
  <1> DEFINE t == Append(s, frame)
             n == Len(s)
  <1>1. PICK g : Below(g, s) /\ ReturnsOf(s) = g[n]
    BY BelowIs
  <1>2. t \in Seq(S) /\ n \in Nat /\ Len(t) = n + 1
    BY LenProperties, AppendProperties
  <1>3. PICK h : Below(h, t) /\ ReturnsOf(t) = h[n + 1]
    BY <1>2, BelowIs
  <1> DEFINE f == [i \in 0..Len(t) |->
                    IF i <= n THEN g[i]
                    ELSE IF frame.kind = "proc"
                         THEN Append(g[n], [call |-> frame.call, end |-> frame.end])
                         ELSE g[n]]
  <1>4. Below(f, t)
    BY <1>1, BelowMore
  <1>5. h = f
    <2> HIDE DEF f, t
    <2> QED BY <1>2, <1>3, <1>4, BelowSame
  <1>6. f[n + 1] = IF frame.kind = "proc" THEN Append(g[n], [call |-> frame.call, end |-> frame.end]) ELSE g[n]
    BY <1>2
  <1> QED BY <1>1, <1>3, <1>5, <1>6

LEMMA ReturnsEmpty == ReturnsOf(<<>>) = <<>>
  <1>1. <<>> \in Seq(Frame) /\ Len(<<>>) = 0
    OBVIOUS
  <1>2. PICK f : Below(f, <<>>) /\ ReturnsOf(<<>>) = f[0]
    BY <1>1, BelowIs
  <1> QED BY <1>1, <1>2 DEF Below

\* Returns are where the calls were, and there are some if a frame is a procedure's.
LEMMA ReturnsAre ==
  ASSUME NEW s \in Seq(Frame)
  PROVE  ReturnsOf(s) \in Seq(Return) /\ (ReturnsOf(s) = <<>> <=> \A i \in 1..Len(s) : s[i].kind # "proc")
  <1>1. PICK f : Below(f, s) /\ ReturnsOf(s) = f[Len(s)]
    BY BelowIs
  <1>2. Len(s) \in Nat /\ \A i \in 1..Len(s) : s[i] \in Frame
    BY LenProperties, ElementOfSeq
  <1> DEFINE Right(i) == f[i] \in Seq(Return) /\ (f[i] = <<>> <=> \A j \in 1..i : s[j].kind # "proc")
             T == {i \in 0..Len(s) : Right(i)}
  <1>3. 0 \in T
    <2>1. f[0] = <<>>
      BY <1>1, <1>2 DEF Below
    <2>2. <<>> \in Seq(Return) /\ 1..0 = {}
      OBVIOUS
    <2>3. Right(0)
      BY <2>1, <2>2
    <2> HIDE DEF Right
    <2> QED BY <1>2, <2>3
  <1>4. ASSUME NEW i \in 0 + 1..Len(s), i - 1 \in T PROVE i \in T
    <2> DEFINE d == i - 1
    <2>1. i \in 1..Len(s) /\ i # 0 /\ d \in Nat /\ Right(d) /\ i \in 0..Len(s)
      BY <1>2, <1>4
    <2>2. f[i] = IF s[i].kind = "proc" THEN Append(f[d], [call |-> s[i].call, end |-> s[i].end]) ELSE f[d]
      BY <1>1, <2>1 DEF Below
    <2>3. \A j : j \in 1..i <=> j \in 1..d \/ j = i
      BY <2>1
    <2> HIDE DEF d
    <2>4. CASE s[i].kind = "proc"
      <3> DEFINE r == [call |-> s[i].call, end |-> s[i].end]
      <3>1. r \in Return
        BY <1>2, <2>1, <2>4 DEF Frame, Return
      <3> HIDE DEF r
      <3>2. f[i] = Append(f[d], r)
        BY <2>2, <2>4 DEF r
      <3>3. f[i] \in Seq(Return) /\ f[i] # <<>>
        BY <2>1, <3>1, <3>2, AppendProperties
      <3>4. Right(i)
        BY <2>3, <2>4, <3>3
      <3> HIDE DEF Right
      <3> QED BY <2>1, <3>4
    <2>5. CASE s[i].kind # "proc"
      <3>1. Right(i)
        BY <2>1, <2>2, <2>3, <2>5
      <3> HIDE DEF Right
      <3> QED BY <2>1, <3>1
    <2> QED BY <2>4, <2>5
  <1>5. Len(s) \in T
    <2> HIDE DEF T
    <2>1. 0..Len(s) \subseteq T
      BY <1>2, <1>3, <1>4, Upwards
    <2> QED BY <1>2, <2>1
  <1> QED BY <1>1, <1>5

\* The component that is open is the last one's on the stack.
LEMMA OpenIs ==
  ASSUME NEW s \in Seq(Frame)
  PROVE  /\ (\A i \in 1..Len(s) : s[i].kind # "component") => OpenOf(s) = None
         /\ s # <<>> /\ s[Len(s)].kind = "component" =>
              OpenOf(s) = [name |-> s[Len(s)].name, vars |-> s[Len(s)].vars]
  <1> DEFINE components == {i \in DOMAIN s : s[i].kind = "component"}
             top == CHOOSE i \in components : \A j \in components : j <= i
  <1>1. OpenOf(s) = IF components = {} THEN None ELSE [name |-> s[top].name, vars |-> s[top].vars]
    BY DEF OpenOf
  <1>2. DOMAIN s = 1..Len(s) /\ Len(s) \in Nat
    BY LenProperties
  <1>3. ASSUME s # <<>>, s[Len(s)].kind = "component" PROVE components # {} /\ top = Len(s)
    <2>1. Len(s) \in components /\ \A j \in components : j <= Len(s) /\ j \in Nat
      BY <1>2, <1>3, EmptySeq
    <2> HIDE DEF components
    <2>2. \A i \in components : (\A j \in components : j <= i) => i = Len(s)
      BY <1>2, <2>1
    <2> QED BY <2>1, <2>2
  <1>4. (\A i \in 1..Len(s) : s[i].kind # "component") => components = {}
    BY <1>2
  <1> HIDE DEF components, top
  <1> QED BY <1>1, <1>3, <1>4

-----------------------------------------------------------------------------
(* Scripts of the fragment *)

LEMMA SupportedIs ==
  ASSUME NEW p \in SupportedPrograms
  PROVE  /\ p \in Seq(Command) /\ Len(p) \in Nat /\ Blocks(p) \subseteq 1..Len(p)
         /\ \A l \in 1..Len(p) : p[l].op \notin {"else", "loop", "break", "for"}
         /\ \A l \in 1..Len(p) : p[l].op = "end" => Around(p, l) \in Blocks(p) /\ Partner(p, Around(p, l)) = l
         /\ \A b \in Blocks(p) : Partner(p, b) \in b + 1..Len(p) /\ EndOf(p, b) = Partner(p, b)
         /\ \A b \in Blocks(p) : Block(p, b).elses = {}
  <1>1. /\ p \in Seq(Command) /\ Len(p) \in Nat /\ DOMAIN p = 1..Len(p) /\ Blocks(p) \subseteq 1..Len(p)
        /\ Supported(p)
    BY MachineAssumption, LenProperties DEF SupportedPrograms, Blocks
  <1>2. \A l \in 1..Len(p) : p[l].op \notin {"else", "loop", "break", "for"}
    BY <1>1 DEF Supported
  <1>3. ASSUME NEW b \in Blocks(p)
        PROVE  Partner(p, b) \in b + 1..Len(p) /\ EndOf(p, b) = Partner(p, b) /\ Block(p, b).elses = {}
    <2>1. Known(p, b)
      BY <1>1 DEF Supported
    <2>2. Partner(p, b) # 0
      BY <2>1 DEF Known, Partner
    <2>3. Partner(p, b) \in b + 1..Len(p)
      BY <1>1, <2>2, PartnerIs
    <2>4. EndOf(p, b) = Partner(p, b) /\ Block(p, b).elses = Elses(p, b, b + 1)
      BY <1>1, <2>1, SearchRight
    <2>5. Elses(p, b, b + 1) = {}
      <3>1. \A k \in b + 1..Partner(p, b) - 1 : k \in 1..Len(p)
        BY <1>1, <2>3
      <3> QED BY <1>2, <3>1 DEF Elses
    <2> QED BY <2>3, <2>4, <2>5
  <1>4. ASSUME NEW l \in 1..Len(p), p[l].op = "end"
        PROVE  Around(p, l) \in Blocks(p) /\ Partner(p, Around(p, l)) = l
    <2>1. PICK k \in Blocks(p) : Partner(p, k) = l
      BY <1>1, <1>4 DEF Supported, Partner
    <2>2. Partner(p, k) # 0
      BY <2>1
    <2>3. Around(p, l) = k
      BY <1>1, <2>1, <2>2, EndLeads
    <2> QED BY <2>1, <2>3
  <1> QED BY <1>1, <1>2, <1>3, <1>4

\* What may be in which block.
LEMMA SupportedIn ==
  ASSUME NEW p \in SupportedPrograms, NEW l \in 1..Len(p), p[l].op # "end", Around(p, l) # 0
  PROVE  /\ Around(p, l) \in Blocks(p)
         /\ p[l].op = "if" => p[Around(p, l)].op \in {"if", "machine"}
         /\ p[l].op = "machine" => p[Around(p, l)].op = "machine"
         /\ p[l].op = "component" => p[Around(p, l)].op = "state"
         /\ p[Around(p, l)].op = "component" => p[l].op \in {"var", "act", "log", "goto"}
  <1> DEFINE a == Around(p, l)
  <1>1. p \in Seq(Command) /\ Len(p) \in Nat /\ DOMAIN p = 1..Len(p) /\ Blocks(p) \subseteq 1..Len(p)
    BY SupportedIs, LenProperties
  <1>2. a \in Blocks(p) /\ Has(p, a, l)
    BY <1>1, AroundIs, AroundBy
  <1>3. Partner(p, a) \in a + 1..Len(p) /\ p[Partner(p, a)].op = "end"
    <2>1. Partner(p, a) \in a + 1..Len(p)
      BY <1>2, SupportedIs
    <2>2. Partner(p, a) # 0
      BY <1>1, <1>2, <2>1
    <2> QED BY <1>1, <1>2, <2>1, <2>2, PartnerIs
  <1> HIDE DEF a
  <1>4. l \in Inside(p, a)
    <2>1. a < l /\ l <= Partner(p, a) /\ l # Partner(p, a)
      BY <1>2, <1>3 DEF Has
    <2>2. l \in a + 1..Partner(p, a) - 1
      BY <1>1, <1>2, <1>3, <2>1
    <2> QED BY <2>2 DEF Inside, Partner
  <1>5. /\ p[l].op \in Openers => p[l].op \in Others[p[a].op] \cup {p[a].op}
        /\ p[l].op = "if" => p[a].op \in {"if", "machine"}
        /\ p[a].op = "component" => p[l].op \in {"var", "act", "log", "goto"}
    BY <1>1, <1>2, <1>4 DEF SupportedPrograms, Supported, Known
  <1>6. p[a].op \in Openers \ {"loop", "for"}
    BY <1>1, <1>2, SupportedIs DEF Blocks
  <1>7. \A kind \in Openers : "machine" \notin Others[kind] /\ ("component" \in Others[kind] => kind = "state")
    BY DEF Openers, Others, IfOthers, LoopOthers, ProcedureOthers, ForInOthers, StateOthers, ComponentOthers, MachineOthers
  <1>8. p[l].op = "machine" => p[a].op = "machine"
    BY <1>5, <1>6, <1>7 DEF Openers
  <1>9. p[l].op = "component" => p[a].op = "state"
    BY <1>5, <1>6, <1>7 DEF Openers
  <1> QED BY <1>2, <1>5, <1>8, <1>9 DEF a

-----------------------------------------------------------------------------
(* Where a run is *)

\* The line is in the run's own body: behind until nothing but the rest of the script, or
\* in the state that ends at until; and possibly in a component there.
InBase(p, u, l) ==
  LET a  == Around(p, l)
      in == IF a # 0 /\ p[a].op = "component" THEN Around(p, a) ELSE a
  IN  IF u = Len(p) + 1 THEN in = 0 \/ (in = a /\ p[in].op \in {"if", "machine"})
      ELSE in # 0 /\ p[in].op = "state" /\ Partner(p, in) = u

\* The line is in the procedure whose end is that of the return.
InProc(p, l, r) ==
  Around(p, l) # 0 /\ p[Around(p, l)].op = "proc" /\ Partner(p, Around(p, l)) = r.end

\* The lines of the run and of the calls it returns to.
Place(rs, l, i) == IF i < Len(rs) THEN rs[i + 1].call ELSE l
Places(p, u, rs, l) ==
  /\ InBase(p, u, Place(rs, l, 0))
  /\ \A i \in 1..Len(rs) : /\ InProc(p, Place(rs, l, i), rs[i])
                           /\ rs[i].call \in 1..Len(p) /\ p[rs[i].call].op = "call"

LEMMA PlacesMove ==
  ASSUME NEW p, NEW u, NEW rs \in Seq(Return), NEW l, NEW m, Places(p, u, rs, l),
         rs = <<>> => InBase(p, u, m),
         \A r \in Return : rs # <<>> /\ InProc(p, l, r) => InProc(p, m, r)
  PROVE  Places(p, u, rs, m)
  <1>1. Len(rs) \in Nat /\ (rs = <<>> <=> Len(rs) = 0) /\ \A i \in 1..Len(rs) : rs[i] \in Return
    BY LenProperties, EmptySeq, ElementOfSeq
  <1>2. InBase(p, u, Place(rs, m, 0))
    BY <1>1 DEF Places, Place
  <1>3. ASSUME NEW i \in 1..Len(rs) PROVE InProc(p, Place(rs, m, i), rs[i])
    <2>1. InProc(p, Place(rs, l, i), rs[i]) /\ rs[i] \in Return /\ rs # <<>>
      BY <1>1 DEF Places
    <2>2. CASE i < Len(rs)
      BY <2>1, <2>2 DEF Place
    <2>3. CASE ~(i < Len(rs))
      BY <2>1, <2>3 DEF Place
    <2> QED BY <2>2, <2>3
  <1> QED BY <1>2, <1>3 DEF Places

LEMMA PlacesPush ==
  ASSUME NEW p, NEW u, NEW rs \in Seq(Return), NEW r \in Return, NEW m, Places(p, u, rs, r.call),
         r.call \in 1..Len(p), p[r.call].op = "call", InProc(p, m, r)
  PROVE  Places(p, u, Append(rs, r), m)
  <1> DEFINE t == Append(rs, r)
             n == Len(rs)
  <1>1. n \in Nat /\ Len(t) = n + 1 /\ t[n + 1] = r /\ \A i \in 1..n : t[i] = rs[i]
    BY LenProperties, AppendProperties
  <1> HIDE DEF t
  <1>2. \A i \in 0..n : Place(t, m, i) = Place(rs, r.call, i)
    <2> SUFFICES ASSUME NEW i \in 0..n PROVE Place(t, m, i) = Place(rs, r.call, i)
      OBVIOUS
    <2>1. Place(t, m, i) = t[i + 1].call
      BY <1>1 DEF Place
    <2>2. CASE i < n
      <3>1. i + 1 \in 1..n
        BY <1>1, <2>2
      <3> QED BY <1>1, <2>1, <2>2, <3>1 DEF Place
    <2>3. CASE i = n
      BY <1>1, <2>1, <2>3 DEF Place
    <2> QED BY <1>1, <2>2, <2>3
  <1>3. Place(t, m, n + 1) = m
    BY <1>1 DEF Place
  <1>4. InBase(p, u, Place(t, m, 0))
    BY <1>1, <1>2 DEF Places
  <1>5. ASSUME NEW i \in 1..n + 1
        PROVE  InProc(p, Place(t, m, i), t[i]) /\ t[i].call \in 1..Len(p) /\ p[t[i].call].op = "call"
    <2>1. CASE i = n + 1
      BY <1>1, <1>3, <2>1
    <2>2. CASE i # n + 1
      <3>1. i \in 1..n /\ i \in 0..n
        BY <1>1, <2>2
      <3> QED BY <1>1, <1>2, <3>1 DEF Places
    <2> QED BY <2>1, <2>2
  <1> QED BY <1>1, <1>4, <1>5 DEF Places, t

LEMMA PlacesPop ==
  ASSUME NEW p, NEW u, NEW rs \in Seq(Return), NEW r \in Return, NEW l, Places(p, u, Append(rs, r), l)
  PROVE  Places(p, u, rs, r.call) /\ InProc(p, l, r) /\ r.call \in 1..Len(p) /\ p[r.call].op = "call"
  <1> DEFINE t == Append(rs, r)
             n == Len(rs)
  <1>1. n \in Nat /\ Len(t) = n + 1 /\ t[n + 1] = r /\ \A i \in 1..n : t[i] = rs[i]
    BY LenProperties, AppendProperties
  <1>6. Places(p, u, t, l)
    OBVIOUS
  <1> HIDE DEF t
  <1>2. \A i \in 0..n : Place(t, l, i) = Place(rs, r.call, i)
    <2> SUFFICES ASSUME NEW i \in 0..n PROVE Place(t, l, i) = Place(rs, r.call, i)
      OBVIOUS
    <2>1. Place(t, l, i) = t[i + 1].call
      BY <1>1 DEF Place
    <2>2. CASE i < n
      <3>1. i + 1 \in 1..n
        BY <1>1, <2>2
      <3> QED BY <1>1, <2>1, <2>2, <3>1 DEF Place
    <2>3. CASE i = n
      BY <1>1, <2>1, <2>3 DEF Place
    <2> QED BY <1>1, <2>2, <2>3
  <1>3. Place(t, l, n + 1) = l
    BY <1>1 DEF Place
  <1>4. InBase(p, u, Place(rs, r.call, 0))
    BY <1>1, <1>2, <1>6 DEF Places
  <1>5. \A i \in 1..n + 1 : InProc(p, Place(t, l, i), t[i]) /\ t[i].call \in 1..Len(p) /\ p[t[i].call].op = "call"
    BY <1>1, <1>6 DEF Places
  <1>7. InProc(p, l, r) /\ r.call \in 1..Len(p) /\ p[r.call].op = "call"
    <2>1. n + 1 \in 1..n + 1
      BY <1>1
    <2> QED BY <1>1, <1>3, <1>5, <2>1
  <1>8. ASSUME NEW i \in 1..n
        PROVE  InProc(p, Place(rs, r.call, i), rs[i]) /\ rs[i].call \in 1..Len(p) /\ p[rs[i].call].op = "call"
    <2>1. i \in 1..n + 1 /\ i \in 0..n
      BY <1>1
    <2> QED BY <1>1, <1>2, <1>5, <2>1
  <1> QED BY <1>4, <1>7, <1>8 DEF Places

\* A line in a procedure is not in the run's own body, and the other way round.
LEMMA PlacesIn ==
  ASSUME NEW p, NEW u, NEW rs \in Seq(Return), NEW l, Places(p, u, rs, l)
  PROVE  /\ rs = <<>> => InBase(p, u, l)
         /\ rs # <<>> => Around(p, l) # 0 /\ p[Around(p, l)].op = "proc"
  <1>1. Len(rs) \in Nat /\ (rs = <<>> <=> Len(rs) = 0)
    BY LenProperties, EmptySeq
  <1>2. ASSUME rs # <<>> PROVE InProc(p, l, rs[Len(rs)])
    <2>1. Len(rs) \in 1..Len(rs)
      BY <1>1, <1>2
    <2>2. Place(rs, l, Len(rs)) = l
      BY <1>1 DEF Place
    <2> QED BY <2>1, <2>2 DEF Places
  <1>3. rs = <<>> => InBase(p, u, l)
    BY <1>1 DEF Places, Place
  <1> QED BY <1>2, <1>3 DEF InProc

Component(p, l) == Around(p, l) # 0 /\ p[Around(p, l)].op = "component"

Frames ==
  \A i \in DOMAIN stack :
    /\ stack[i].kind \in {"if", "proc", "component"}
    /\ stack[i].kind # "proc" => \A j \in 1..i - 1 : stack[j].kind = "if"
    /\ stack[i].kind = "component" => i = Len(stack)
    /\ stack[i].kind = "if" => until = Len(program) + 1

\* A run of a script of the fragment is where its frames say that it is.
Walk ==
  program \in SupportedPrograms =>
    IF line = 0 THEN stack = <<>> /\ until = 0
    ELSE /\ alive /\ until \in 1..Len(program) + 1
         /\ Frames /\ Places(program, until, Returns, line)
         /\ Top("component") <=> Component(program, line)

\* What a run's frames say of it.
LEMMA WalkIs ==
  ASSUME IInv, Walk, program \in SupportedPrograms, line # 0
  PROVE  /\ Returns \in Seq(Return) /\ Frames /\ Places(program, until, Returns, line)
         /\ Returns = <<>> <=> \A i \in 1..Len(stack) : stack[i].kind # "proc"
         /\ Returns = <<>> => InBase(program, until, line)
         /\ Returns # <<>> => Around(program, line) # 0 /\ program[Around(program, line)].op = "proc"
         /\ Top("component") <=> Component(program, line)
         /\ ~Top("component") => Open = None
         /\ Top("component") => Open = [name |-> stack[Len(stack)].name, vars |-> stack[Len(stack)].vars]
         /\ Top("component") => Open # None /\ Returns = <<>>
         /\ \A op : Cmd(op) => ~(Returns = <<>> /\ Open = None /\ line >= until)
  <1>1. /\ stack \in Seq(Frame) /\ Len(stack) \in Nat /\ DOMAIN stack = 1..Len(stack)
        /\ line \in Nat /\ Len(program) \in Nat /\ until \in 1..Len(program) + 1
    BY TypesAre DEF IInv, TypeOK, Walk
  <1>2. Frames /\ Places(program, until, Returns, line) /\ (Top("component") <=> Component(program, line))
    BY DEF Walk
  <1>3. Returns \in Seq(Return) /\ (Returns = <<>> <=> \A i \in 1..Len(stack) : stack[i].kind # "proc")
    BY <1>1, ReturnsAre DEF Returns
  <1>4. /\ Returns = <<>> => InBase(program, until, line)
        /\ Returns # <<>> => Around(program, line) # 0 /\ program[Around(program, line)].op = "proc"
    BY <1>2, <1>3, PlacesIn
  <1>5. /\ ~Top("component") => Open = None
        /\ Top("component") => Open = [name |-> stack[Len(stack)].name, vars |-> stack[Len(stack)].vars]
    <2>1. ASSUME ~Top("component") PROVE \A i \in 1..Len(stack) : stack[i].kind # "component"
      BY <1>1, <1>2, <2>1, EmptySeq DEF Frames, Top
    <2> QED BY <1>1, <2>1, OpenIs DEF Open, Top
  <1>6. Top("component") => Open # None
    <2> SUFFICES ASSUME Top("component") PROVE Open # None
      OBVIOUS
    <2> DEFINE f == stack[Len(stack)]
    <2>1. f \in Frame /\ f.kind = "component"
      BY <1>1, EmptySeq, ElementOfSeq DEF Top
    <2>2. f.name \in CompNames /\ f.vars \in SUBSET VarNames
      <3> HIDE DEF f
      <3> QED BY <2>1 DEF Frame
    <2> HIDE DEF f
    <2>3. None # [name |-> f.name, vars |-> f.vars]
      BY <2>2, MachineAssumption
    <2> QED BY <1>5, <2>3 DEF f
  <1>7. Top("component") => Returns = <<>>
    BY <1>2, <1>4 DEF Component
  <1>8. ASSUME NEW op, Cmd(op), Returns = <<>>, Open = None, line >= until PROVE FALSE
    <2>1. line \in 1..Len(program) /\ ~(stack = <<>> /\ line >= until)
      BY <1>8, TypesAre DEF Cmd, Done
    <2>2. stack # <<>> /\ until # Len(program) + 1
      BY <1>1, <1>8, <2>1
    <2>3. Len(stack) \in 1..Len(stack)
      BY <1>1, <2>2, EmptySeq
    <2>4. stack[Len(stack)].kind \in {"if", "proc", "component"} /\ stack[Len(stack)].kind # "if"
      BY <1>1, <1>2, <2>2, <2>3 DEF Frames
    <2>5. stack[Len(stack)].kind # "proc"
      BY <1>3, <1>8, <2>3
    <2> QED BY <1>6, <1>8, <2>2, <2>4, <2>5 DEF Top
  <1> QED BY <1>2, <1>3, <1>4, <1>5, <1>6, <1>7, <1>8

\* A machine that ends, or has run to the end.
LEMMA WalkStop ==
  ASSUME line' = 0, until' = 0, stack' = <<>>
  PROVE  Walk'
  BY DEF Walk

\* A run goes on elsewhere.
LEMMA WalkGo ==
  ASSUME IInv, Walk, program \in SupportedPrograms, line # 0, NEW m \in 1..Len(program) + 1, Go(m),
         Returns = <<>> => InBase(program, until, m),
         Returns # <<>> => Around(program, m) = Around(program, line),
         Component(program, m) <=> Component(program, line)
  PROVE  Walk'
  <1>1. program' = program /\ until' = until /\ stack' = stack /\ alive' = alive /\ line' = m
    BY DEF Go
  <1>2. Frames' /\ Returns' = Returns /\ (Top("component"))' = Top("component")
    BY <1>1, WalkIs DEF Frames, Returns, Top
  <1>3. Places(program, until, Returns, m)
    <2>1. Returns \in Seq(Return) /\ Places(program, until, Returns, line)
      BY WalkIs
    <2>2. \A r \in Return : Returns # <<>> /\ InProc(program, line, r) => InProc(program, m, r)
      BY DEF InProc
    <2> QED BY <2>1, <2>2, PlacesMove
  <1>4. Top("component") <=> Component(program, m)
    BY WalkIs
  <1>5. alive /\ until \in 1..Len(program) + 1
    BY DEF Walk
  <1>6. Places(program', until', Returns', line') /\ (Top("component")' <=> Component(program', line'))
    BY <1>1, <1>2, <1>3, <1>4
  <1> QED BY <1>1, <1>2, <1>5, <1>6 DEF Walk

\* A run enters a block that its frame is for.
LEMMA WalkPush ==
  ASSUME IInv, Walk, program \in SupportedPrograms, line # 0, NEW m \in 1..Len(program) + 1,
         NEW frame \in Frame, Push(frame, m), ~Top("component"),
         frame.kind \in {"if", "proc", "component"},
         frame.kind # "proc" => Returns = <<>>,
         frame.kind = "if" => until = Len(program) + 1,
         frame.kind = "component" <=> Component(program, m),
         LET rs == IF frame.kind = "proc" THEN Append(Returns, [call |-> frame.call, end |-> frame.end]) ELSE Returns
         IN  Places(program, until, rs, m)
  PROVE  Walk'
  <1>1. CASE Len(stack) = Depth /\ Die
    BY <1>1, WalkStop DEF Die
  <1>2. CASE /\ Len(stack) < Depth
             /\ stack' = Append(stack, frame) /\ line' = m
             /\ UNCHANGED <<program, state, until, merged, alive, stopped>>
    <2>1. stack \in Seq(Frame) /\ Len(stack) \in Nat /\ DOMAIN stack = 1..Len(stack)
      BY TypesAre DEF IInv, TypeOK
    <2>2. /\ stack' \in Seq(Frame) /\ Len(stack') = Len(stack) + 1 /\ DOMAIN stack' = 1..Len(stack) + 1
          /\ \A i \in 1..Len(stack) : stack'[i] = stack[i]
          /\ stack'[Len(stack) + 1] = frame
      BY <1>2, <2>1, AppendProperties, LenProperties
    <2>3. Frames /\ (Returns = <<>> <=> \A i \in 1..Len(stack) : stack[i].kind # "proc")
      BY WalkIs
    <2>4. \A i \in 1..Len(stack) : stack[i].kind # "component"
      BY <2>1, <2>3, EmptySeq DEF Frames, Top
    <2>5. Frames'
      <3> SUFFICES ASSUME NEW i \in 1..Len(stack) + 1
                   PROVE  /\ stack'[i].kind \in {"if", "proc", "component"}
                          /\ stack'[i].kind # "proc" => \A j \in 1..i - 1 : stack'[j].kind = "if"
                          /\ stack'[i].kind = "component" => i = Len(stack')
                          /\ stack'[i].kind = "if" => until' = Len(program') + 1
        BY <2>2 DEF Frames
      <3>1. CASE i = Len(stack) + 1
        <4>1. stack'[i].kind # "proc" => \A j \in 1..Len(stack) : stack[j].kind = "if"
          BY <2>1, <2>2, <2>3, <2>4, <3>1 DEF Frames
        <4>2. 1..i - 1 = 1..Len(stack)
          BY <2>1, <3>1
        <4> QED BY <1>2, <2>2, <3>1, <4>1, <4>2
      <3>2. CASE i # Len(stack) + 1
        <4>1. i \in 1..Len(stack) /\ \A j \in 1..i - 1 : j \in 1..Len(stack)
          BY <2>1, <3>2
        <4> QED BY <1>2, <2>1, <2>2, <2>3, <2>4, <4>1 DEF Frames
      <3> QED BY <3>1, <3>2
    <2>6. Returns' = IF frame.kind = "proc" THEN Append(Returns, [call |-> frame.call, end |-> frame.end]) ELSE Returns
      BY <1>2, <2>1, ReturnsAppend DEF Returns
    <2>7. Top("component")' <=> frame.kind = "component"
      BY <2>1, <2>2, EmptySeq DEF Top
    <2>8. alive /\ until \in 1..Len(program) + 1
      BY DEF Walk
    <2>9. Places(program', until', Returns', line') /\ (Top("component")' <=> Component(program', line'))
      BY <1>2, <2>6, <2>7
    <2> QED BY <1>2, <2>5, <2>8, <2>9 DEF Walk
  <1> QED BY <1>1, <1>2 DEF Push

-----------------------------------------------------------------------------
(* Steps of the specification *)

\* The two read a script the same way.
LEMMA Reading ==
  /\ \A p, i : Intended!Partner(p, i) = Partner(p, i)
  /\ \A p, op, n : Intended!Declared(p, op, n) = Declaration(p, op, n)
  /\ \A p \in SupportedPrograms : \A l \in 1..Len(p) : p[l].op = "end" => Intended!OpenerOf(p, l) = Around(p, l)
  <1>1. \A p, i, j, ops : Intended!Count(p, i, j, ops) = Meaning!Count(p, i, j, ops)
    <2>1. \A S : Intended!Cardinality(S) = Meaning!Cardinality(S)
      BY DEF Intended!Cardinality, Meaning!Cardinality
    <2> QED BY <2>1 DEF Intended!Count, Meaning!Count
  <1>2. Intended!Openers = Meaning!Openers /\ Meaning!Openers = Openers
    BY DEF Intended!Openers, Meaning!Openers, Openers
  <1>3. \A p, i : Intended!Partner(p, i) = Partner(p, i)
    <2> SUFFICES ASSUME NEW p, NEW i PROVE Intended!Partner(p, i) = Partner(p, i)
      OBVIOUS
    <2> DEFINE mine == {j \in i..Len(p) : Intended!Count(p, i, j, Intended!Openers) = Intended!Count(p, i, j, {"end"})}
               ends == {j \in i..Len(p) : Meaning!Count(p, i, j, Meaning!Openers) = Meaning!Count(p, i, j, {"end"})}
    <2>1. mine = ends
      BY <1>1, <1>2
    <2>2. Intended!Partner(p, i) = IF mine = {} THEN 0 ELSE CHOOSE j \in mine : \A k \in mine : j <= k
      BY DEF Intended!Partner
    <2>3. Partner(p, i) = IF ends = {} THEN 0 ELSE CHOOSE j \in ends : \A k \in ends : j <= k
      BY DEF Partner, Meaning!Partner
    <2> HIDE DEF mine, ends
    <2> QED BY <2>1, <2>2, <2>3
  <1>4. \A p, op, n : Intended!Declared(p, op, n) = Declaration(p, op, n)
    BY DEF Intended!Declared, Intended!Lines, Declaration
  <1>5. ASSUME NEW p \in SupportedPrograms, NEW l \in 1..Len(p), p[l].op = "end"
        PROVE  Intended!OpenerOf(p, l) = Around(p, l)
    <2>1. p \in Seq(Command) /\ Around(p, l) \in Blocks(p) /\ Partner(p, Around(p, l)) = l
      BY <1>5, SupportedIs
    <2>2. Around(p, l) \in 1..Len(p) /\ p[Around(p, l)].op \in Openers
      BY <2>1, SupportedIs DEF Blocks
    <2>3. ASSUME NEW k \in 1..Len(p), p[k].op \in Openers, Partner(p, k) = l PROVE k = Around(p, l)
      <3>1. k \in Blocks(p) /\ Partner(p, k) # 0
        BY <2>1, <2>3, LenProperties DEF Blocks
      <3> QED BY <2>1, <2>3, <3>1, EndLeads
    <2>4. Intended!OpenerOf(p, l) = CHOOSE k \in 1..Len(p) : p[k].op \in Openers /\ Partner(p, k) = l
      BY <1>2, <1>3 DEF Intended!OpenerOf, Intended!Lines
    <2> QED BY <2>1, <2>2, <2>3, <2>4
  <1> QED BY <1>3, <1>4, <1>5

LEMMA AtIs ==
  ASSUME IInv, Walk, program \in SupportedPrograms, NEW op, Cmd(op), NEW ops, op \in ops
  PROVE  Intended!At(ops)
  <1>1. line \in 1..Len(program) /\ program[line].op = op /\ alive /\ line # 0
    BY TypesAre DEF Cmd
  <1>2. ~(Returns = <<>> /\ Open = None /\ line >= until)
    BY <1>1, WalkIs
  <1> QED BY <1>1, <1>2 DEF Intended!At, Intended!Lines, Idle

LEMMA PassIs ==
  ASSUME program \in SupportedPrograms, NEW l, Go(l)
  PROVE  Intended!Pass(l)
  <1>1. Returns' = Returns /\ Open' = Open
    BY DEF Go, Returns, Open
  <1> QED BY <1>1 DEF Go, Intended!Pass, Idle

LEMMA DieIs ==
  ASSUME program \in SupportedPrograms, Die, Intended!NoState \/ Intended!At({"act", "if", "call", "component"})
  PROVE  Intended!Fails
  <1>1. <<>> \in Seq(Frame) /\ Len(<<>>) = 0 /\ stack' = <<>>
    BY DEF Die
  <1>2. Returns' = <<>>
    BY <1>1, ReturnsEmpty DEF Returns
  <1>3. Open' = None
    <2>1. \A i \in 1..Len(<<>>) : <<>>[i].kind # "component"
      BY <1>1
    <2>2. OpenOf(<<>>) = None
      BY <1>1, <2>1, OpenIs
    <2> QED BY <1>1, <2>2 DEF Open
  <1> QED BY <1>2, <1>3 DEF Die, Intended!Fails, Idle

\* A run begins where nothing is on the stack.
LEMMA WalkBegin ==
  ASSUME IInv, Walk, program \in SupportedPrograms, line = 0, alive, line' # 0, until' \in 1..Len(program) + 1,
         InBase(program, until', line'), ~Component(program, line'), UNCHANGED <<program, stack, alive, stopped>>
  PROVE  Walk' /\ Returns = <<>> /\ Open = None /\ Returns' = <<>> /\ Open' = None
  <1>1. stack = <<>> /\ stack' = <<>> /\ <<>> \in Seq(Frame) /\ Len(<<>>) = 0 /\ DOMAIN <<>> = {}
    BY DEF Walk
  <1>2. ReturnsOf(<<>>) = <<>> /\ OpenOf(<<>>) = None
    <2>1. \A i \in 1..Len(<<>>) : <<>>[i].kind # "component"
      BY <1>1
    <2> QED BY <1>1, <2>1, ReturnsEmpty, OpenIs
  <1>3. Returns = <<>> /\ Open = None /\ Returns' = <<>> /\ Open' = None
    BY <1>1, <1>2 DEF Returns, Open
  <1>4. Frames' /\ ~Top("component")'
    BY <1>1 DEF Frames, Top
  <1>5. Places(program, until', <<>>, line')
    BY <1>1 DEF Places, Place
  <1>6. Places(program', until', Returns', line') /\ (Top("component")' <=> Component(program', line'))
    BY <1>3, <1>4, <1>5
  <1> QED BY <1>3, <1>4, <1>6 DEF Walk

LEMMA FailsIs ==
  ASSUME IInv, Walk, program \in SupportedPrograms, Die,
         Intended!NoState \/ \E op \in {"act", "if", "call", "component"} : Cmd(op)
  PROVE  Walk' /\ Intended!Next
  <1>3. (\E op \in {"act", "if", "call", "component"} : Cmd(op)) => Intended!At({"act", "if", "call", "component"})
    BY AtIs
  <1>4. Intended!Fails
    BY <1>3, DieIs
  <1>5. Walk'
    BY WalkStop DEF Die
  <1> QED BY <1>4, <1>5 DEF Intended!Next

\* A script of the fragment has states.
LEMMA HasStates ==
  ASSUME program \in SupportedPrograms
  PROVE  ~Intended!Stateless(program) /\ DeclaredStates(program) # {"_main"}
  <1>1. ~Meaning!Stateless(program)
    BY DEF SupportedPrograms, Supported
  <1>2. ~Intended!Stateless(program)
    BY <1>1 DEF Meaning!Stateless, Meaning!Lines, Intended!Stateless, Intended!Lines
  <1>3. ASSUME DeclaredStates(program) = {"_main"} PROVE FALSE
    <2>1. PICK l \in 1..Len(program) : program[l].op = "state" /\ program[l].name # "_main"
      BY <1>2 DEF Intended!Stateless, Intended!Lines
    <2>2. program[l].name \in DeclaredStates(program)
      BY <2>1 DEF DeclaredStates
    <2> QED BY <1>3, <2>1, <2>2
  <1> QED BY <1>2, <1>3

LEMMA BeginMeant ==
  ASSUME IInv, Walk, program \in SupportedPrograms, Rest, NEW s \in StateNames, Begin(s), s = state
  PROVE  Walk' /\ Intended!Next
  <1> DEFINE n == Len(program)
  <1>1. /\ program \in Seq(Command) /\ n \in Nat /\ Blocks(program) \subseteq 1..n
        /\ \A l \in 1..n : program[l] \in Command
    BY SupportedIs, ElementOfSeq
  <1>2. line = 0 /\ alive
    BY DEF Rest
  <1>3. CASE s \notin DeclaredStates(program) /\ Die
    <2>1. s # "_main" /\ \A k \in 1..n : program[k] # [op |-> "state", name |-> s]
      BY <1>3 DEF DeclaredStates
    <2>2. Declaration(program, "state", s) = 0
      BY <1>1, <2>1, DeclarationIs
    <2>3. Intended!Declared(program, "state", s) = 0
      BY <2>2, Reading
    <2>4. Intended!NoState
      BY <1>2, <2>1, <2>3, HasStates DEF Intended!NoState, Intended!Rest, Idle
    <2> QED BY <1>3, <2>4, FailsIs
  <1>4. CASE /\ s \in DeclaredStates(program)
             /\ line' = First(program, s) /\ until' = Until(program, s) /\ state' = s
             /\ UNCHANGED <<program, stack, merged, alive, stopped>>
    <2>1. CASE s = "_main"
      <3>1. line' = 1 /\ until' = n + 1
        BY <1>4, <2>1 DEF First, Until
      <3>2. Around(program, 1) = 0
        <4>1. \A k \in Blocks(program) : ~Has(program, k, 1)
          BY <1>1 DEF Has
        <4> QED BY <1>1, <4>1, AroundBy
      <3>3. InBase(program, until', line') /\ ~Component(program, line') /\ line' # 0 /\ until' \in 1..n + 1
        BY <1>1, <3>1, <3>2 DEF InBase, Component
      <3>4. Walk' /\ Returns = <<>> /\ Open = None /\ Returns' = <<>> /\ Open' = None
        BY <1>2, <1>4, <3>3, WalkBegin
      <3>5. Intended!Begin("_main", 1, n + 1)
        BY <1>2, <1>4, <2>1, <3>1, <3>4 DEF Intended!Begin, Intended!Rest, Idle
      <3>7. Intended!BeginWhole
        BY <2>1, <3>5 DEF Intended!BeginWhole, Idle
      <3> QED BY <3>4, <3>7 DEF Intended!Next
    <2>2. CASE s # "_main"
      <3> DEFINE l == Declaration(program, "state", s)
      <3>1. l \in 1..n /\ program[l] = [op |-> "state", name |-> s]
        <4>1. PICK k \in 1..n : program[k].op = "state" /\ program[k].name = s
          BY <1>4, <2>2 DEF DeclaredStates
        <4>2. program[k] = [op |-> "state", name |-> s]
          BY <1>1, <4>1, CommandIs
        <4> QED BY <1>1, <4>2, DeclarationIs
      <3>2. line' = l + 1 /\ until' = EndOf(program, l)
        BY <1>4, <2>2 DEF First, Until
      <3> HIDE DEF l
      <3>3. l \in Blocks(program) /\ program[l].op = "state"
        BY <1>1, <3>1, LenProperties DEF Blocks, Openers
      <3>4. Partner(program, l) \in l + 1..n /\ EndOf(program, l) = Partner(program, l) /\ Around(program, l + 1) = l
        <4>1. Partner(program, l) \in l + 1..n /\ EndOf(program, l) = Partner(program, l)
          BY <3>3, SupportedIs
        <4>2. Partner(program, l) # 0
          BY <3>1, <4>1
        <4> QED BY <1>1, <3>3, <4>1, <4>2, BlockLeads
      <3>5. InBase(program, until', line') /\ ~Component(program, line') /\ line' # 0 /\ until' \in 1..n + 1
        <4>1. until' # n + 1 /\ l # 0 /\ line' # 0 /\ until' \in 1..n + 1
          BY <1>1, <3>1, <3>2, <3>4
        <4>2. program[l].op # "component"
          BY <3>3
        <4> QED BY <3>2, <3>3, <3>4, <4>1, <4>2 DEF InBase, Component
      <3>6. Walk' /\ Returns = <<>> /\ Open = None /\ Returns' = <<>> /\ Open' = None
        BY <1>2, <1>4, <3>5, WalkBegin
      <3>7. Intended!Begin(state, l + 1, Partner(program, l))
        BY <1>2, <1>4, <2>2, <3>2, <3>4, <3>6 DEF Intended!Begin, Intended!Rest, Idle
      <3>8. Intended!BeginState
        <4>1. Intended!Declared(program, "state", state) = l /\ Intended!Partner(program, l) = Partner(program, l) /\ l # 0
          BY <2>2, <3>1, Reading DEF l
        <4> QED BY <2>2, <3>7, <4>1 DEF Intended!BeginState, Idle
      <3> QED BY <3>6, <3>8 DEF Intended!Next
    <2> QED BY <2>1, <2>2
  <1> QED BY <1>3, <1>4 DEF Begin

\* Between runs.
LEMMA RestMeant ==
  ASSUME IInv, Walk, program \in SupportedPrograms,
         BeginEvent \/ BeginStep \/ FetchFails \/ Shutdown \/ \E s \in StateNames : Redirect(s)
  PROVE  Walk' /\ Intended!Next
  <1>1. state \in StateNames /\ "_main" \in StateNames
    BY MachineAssumption DEF IInv, TypeOK
  <1>2. CASE BeginEvent
    BY <1>1, <1>2, BeginMeant DEF BeginEvent
  <1>3. CASE BeginStep
    <2>1. Rest /\ Begin(state)
      BY <1>3, HasStates DEF BeginStep
    <2> QED BY <1>1, <2>1, BeginMeant
  <1>4. CASE FetchFails \/ Shutdown
    <2>1. /\ line = 0 /\ alive /\ alive' = FALSE /\ stopped' = TRUE
          /\ UNCHANGED <<program, state, line, until, stack, merged>>
      BY <1>4 DEF FetchFails, Shutdown, Stop, Rest
    <2>2. Returns' = Returns /\ Open' = Open
      BY <2>1 DEF Returns, Open
    <2>3. Intended!Stop
      BY <2>1, <2>2 DEF Intended!Stop, Intended!Rest, Idle
    <2>4. Walk'
      BY <2>1 DEF Walk
    <2> QED BY <2>3, <2>4 DEF Intended!Next
  <1>5. ASSUME NEW s \in StateNames, Redirect(s) PROVE Walk' /\ Intended!Next
    <2>1. line = 0 /\ alive /\ state' = s /\ UNCHANGED <<program, line, until, stack, merged, alive, stopped>>
      BY <1>5 DEF Redirect, Rest
    <2>2. Returns' = Returns /\ Open' = Open
      BY <2>1 DEF Returns, Open
    <2>3. Intended!Redirect(s)
      BY <2>1, <2>2 DEF Intended!Redirect, Intended!Rest, Idle
    <2>4. Walk'
      BY <2>1 DEF Walk
    <2> QED BY <2>3, <2>4 DEF Intended!Next
  <1> QED BY <1>2, <1>3, <1>4, <1>5

LEMMA LineIs ==
  ASSUME IInv, Walk, program \in SupportedPrograms, NEW op, Cmd(op)
  PROVE  /\ program \in Seq(Command) /\ Len(program) \in Nat /\ line \in 1..Len(program) /\ line \in Nat /\ line # 0
         /\ line + 1 \in 1..Len(program) + 1 /\ alive
         /\ program[line] \in Command /\ program[line].op = op /\ op \notin {"else", "loop", "break", "for"}
         /\ op \in Openers => line \in Blocks(program)
  <1>1. /\ program \in Seq(Command) /\ Len(program) \in Nat /\ line \in 1..Len(program)
        /\ program[line] \in Command /\ program[line].op = op /\ alive
    BY TypesAre DEF Cmd
  <1>2. op \notin {"else", "loop", "break", "for"}
    BY <1>1, SupportedIs
  <1>3. line # 0 /\ line \in Nat /\ line + 1 \in 1..Len(program) + 1
    BY <1>1
  <1> QED BY <1>1, <1>2, <1>3, LenProperties DEF Blocks

\* A run stays in the block that it is in.
LEMMA WalkAlong ==
  ASSUME IInv, Walk, program \in SupportedPrograms, line # 0, NEW m \in 1..Len(program) + 1, Go(m),
         Around(program, m) = Around(program, line)
  PROVE  Walk'
  <1>1. Returns = <<>> => InBase(program, until, m)
    BY WalkIs DEF InBase
  <1>2. Component(program, m) <=> Component(program, line)
    BY DEF Component
  <1> QED BY <1>1, <1>2, WalkGo

\* Where there is an if, or the machine's own block, the rest of the script is being run.
LEMMA AtTop ==
  ASSUME IInv, Walk, program \in SupportedPrograms, NEW op \in {"if", "machine"}, Cmd(op)
  PROVE  /\ Returns = <<>> /\ until = Len(program) + 1 /\ ~Top("component")
         /\ ~Component(program, line) /\ ~Component(program, line + 1)
         /\ InBase(program, until, line + 1) /\ Around(program, line + 1) = line
  <1>1. /\ program \in Seq(Command) /\ line \in 1..Len(program) /\ line # 0 /\ program[line].op = op
        /\ line \in Blocks(program)
    BY LineIs DEF Openers
  <1>2. Around(program, line + 1) = line
    <2>1. Partner(program, line) \in line + 1..Len(program)
      BY <1>1, SupportedIs
    <2>2. Partner(program, line) # 0
      BY <1>1, <2>1
    <2> QED BY <1>1, <2>2, BlockLeads
  <1>3. Around(program, line) # 0 => program[Around(program, line)].op \in {"if", "machine"}
    BY <1>1, SupportedIn
  <1>4. Returns = <<>> /\ InBase(program, until, line) /\ (Top("component") <=> Component(program, line))
    BY <1>1, <1>3, WalkIs
  <1>5. ~Component(program, line) /\ ~Component(program, line + 1)
    BY <1>1, <1>2, <1>3 DEF Component
  <1>6. until = Len(program) + 1
    BY <1>3, <1>4 DEF InBase
  <1>7. InBase(program, until, line + 1)
    BY <1>1, <1>2, <1>6 DEF InBase
  <1> QED BY <1>2, <1>4, <1>5, <1>6, <1>7

\* Plain commands, and the machine's own block.
LEMMA PlainMeant ==
  ASSUME IInv, Walk, program \in SupportedPrograms, Log \/ Act \/ Unexecuted
  PROVE  Walk' /\ Intended!Next
  <1>1. ASSUME NEW op \in {"log", "act"}, Cmd(op), Go(line + 1) PROVE Walk' /\ Intended!Next
    <2>1. Walk'
      <3>1. program \in Seq(Command) /\ line \in 1..Len(program) /\ line # 0 /\ program[line].op = op
            /\ line + 1 \in 1..Len(program) + 1
        BY <1>1, LineIs
      <3>2. Around(program, line + 1) = Around(program, line)
        BY <3>1, PlainLeads DEF Openers
      <3> QED BY <1>1, <3>1, <3>2, WalkAlong
    <2>2. Intended!At({"act", "log", "machine"})
      BY <1>1, AtIs
    <2>3. Intended!Pass(line + 1)
      BY <1>1, PassIs
    <2> QED BY <2>1, <2>2, <2>3 DEF Intended!Next, Intended!Ordinary, Idle
  <1>2. ASSUME Cmd("machine"), Go(line + 1) PROVE Walk' /\ Intended!Next
    <2>1. Walk'
      <3>1. line # 0 /\ line + 1 \in 1..Len(program) + 1
        BY <1>2, LineIs
      <3>2. /\ Returns = <<>> /\ InBase(program, until, line + 1)
            /\ ~Component(program, line) /\ ~Component(program, line + 1)
        BY <1>2, AtTop
      <3> QED BY <1>2, <3>1, <3>2, WalkGo
    <2>2. Intended!At({"act", "log", "machine"})
      BY <1>2, AtIs
    <2>3. Intended!Pass(line + 1)
      BY <1>2, PassIs
    <2> QED BY <2>1, <2>2, <2>3 DEF Intended!Next, Intended!Ordinary, Idle
  <1>3. CASE Log
    BY <1>1, <1>3 DEF Log
  <1>4. CASE Act
    BY <1>1, <1>4, FailsIs DEF Act
  <1>5. CASE Unexecuted
    <2>1. Cmd("machine") /\ Go(line + 1)
      BY <1>5, LineIs DEF Unexecuted
    <2> QED BY <1>2, <2>1
  <1> QED BY <1>3, <1>4, <1>5

\* The end of a run: in no procedure and no component.
LEMMA FinishMeant ==
  ASSUME IInv, Walk, program \in SupportedPrograms, Finish
  PROVE  Walk' /\ Intended!Next
  <1>1. /\ alive /\ line > 0 /\ line # 0 /\ line' = 0 /\ until' = 0 /\ stack' = <<>>
        /\ UNCHANGED <<program, state, merged, alive, stopped>>
        /\ line > Len(program) \/ (stack = <<>> /\ line >= until)
    BY TypesAre DEF Finish, Done
  <1>2. Walk'
    BY <1>1, WalkStop
  <1>3. /\ stack = <<>> => Returns = <<>> /\ Open = None
        /\ Returns' = <<>> /\ Open' = None
    <2>1. <<>> \in Seq(Frame) /\ Len(<<>>) = 0
      OBVIOUS
    <2>2. \A i \in 1..Len(<<>>) : <<>>[i].kind # "component"
      BY <2>1
    <2>3. ReturnsOf(<<>>) = <<>> /\ OpenOf(<<>>) = None
      BY <2>1, <2>2, ReturnsEmpty, OpenIs
    <2> QED BY <1>1, <2>3 DEF Returns, Open
  <1>4. line > Len(program) => Returns = <<>> /\ Open = None
    <2> SUFFICES ASSUME line > Len(program) PROVE Returns = <<>> /\ Open = None
      OBVIOUS
    <2>1. program \in Seq(Command) /\ Len(program) \in Nat /\ line \in Nat /\ line <= Len(program) + 1
      BY TypesAre DEF IInv, TypeOK
    <2>2. Around(program, line) = 0
      <3>1. ASSUME NEW k \in Blocks(program) PROVE ~Has(program, k, line)
        <4>1. Partner(program, k) \in k + 1..Len(program)
          BY SupportedIs
        <4> QED BY <2>1, <4>1 DEF Has
      <3> QED BY <2>1, <3>1, AroundBy
    <2> QED BY <1>1, <2>2, WalkIs DEF Component
  <1>5. Returns = <<>> /\ Open = None
    BY <1>1, <1>3, <1>4
  <1>6. Intended!Finish
    BY <1>1, <1>3, <1>4, <1>5 DEF Intended!Finish, Idle
  <1> QED BY <1>2, <1>6 DEF Intended!Next

\* An if, true or false.
LEMMA IfMeant ==
  ASSUME IInv, Walk, program \in SupportedPrograms, IfTrue \/ IfFalse \/ IfFails
  PROVE  Walk' /\ Intended!Next
  <1>1. Cmd("if")
    BY DEF IfTrue, IfFalse, IfFails
  <1>2. /\ program \in Seq(Command) /\ line \in 1..Len(program) /\ line # 0 /\ line \in Nat /\ Len(program) \in Nat
        /\ line \in Blocks(program) /\ line + 1 \in 1..Len(program) + 1
    BY <1>1, LineIs DEF Openers
  <1>3. /\ Returns = <<>> /\ until = Len(program) + 1 /\ ~Top("component")
        /\ ~Component(program, line + 1) /\ InBase(program, until, line + 1)
    BY <1>1, AtTop
  <1>4. /\ Partner(program, line) \in line + 1..Len(program) /\ EndOf(program, line) = Partner(program, line)
        /\ Block(program, line).elses = {}
    BY <1>2, SupportedIs
  <1>5. Intended!At({"if"})
    BY <1>1, AtIs
  <1>6. ASSUME Push([kind |-> "if"], line + 1) PROVE Walk' /\ Intended!Next
    <2> DEFINE frame == [kind |-> "if"]
    <2>1. frame \in Frame /\ frame.kind = "if"
      BY DEF Frame
    <2> HIDE DEF frame
    <2>2. Push(frame, line + 1)
      BY <1>6 DEF frame
    <2>3. Places(program, until, Returns, line + 1)
      <3>1. Len(<<>>) = 0
        OBVIOUS
      <3> QED BY <1>3, <3>1 DEF Places, Place
    <2>4. Walk'
      BY <1>2, <1>3, <2>1, <2>2, <2>3, WalkPush
    <2>5. CASE Len(stack) = Depth /\ Die
      BY <1>1, <2>5, FailsIs
    <2>6. CASE /\ stack' = Append(stack, frame) /\ line' = line + 1
               /\ UNCHANGED <<program, state, until, merged, alive, stopped>>
      <3>1. stack \in Seq(Frame)
        BY DEF IInv, TypeOK
      <3>2. Returns' = Returns
        BY <2>1, <2>6, <3>1, ReturnsAppend DEF Returns
      <3>3. Open' = Open
        <4>1. stack' \in Seq(Frame) /\ Len(stack') = Len(stack) + 1 /\ stack'[Len(stack) + 1] = frame
              /\ \A i \in 1..Len(stack) : stack'[i] = stack[i]
          BY <2>1, <2>6, <3>1, AppendProperties, LenProperties
        <4>2. \A i \in 1..Len(stack) : stack[i].kind # "component"
          <5>1. Frames /\ DOMAIN stack = 1..Len(stack) /\ Len(stack) \in Nat
            BY <1>2, <3>1, WalkIs, LenProperties
          <5> QED BY <1>3, <3>1, <5>1, EmptySeq DEF Frames, Top
        <4>3. \A i \in 1..Len(stack') : stack'[i].kind # "component"
          BY <2>1, <3>1, <4>1, <4>2, LenProperties
        <4>4. OpenOf(stack') = None /\ OpenOf(stack) = None
          BY <3>1, <4>1, <4>2, <4>3, OpenIs
        <4> QED BY <4>4 DEF Open
      <3>4. Intended!Pass(line + 1)
        BY <2>6, <3>2, <3>3 DEF Intended!Pass, Idle
      <3>5. Intended!If
        BY <1>5, <3>4 DEF Intended!If, Idle
      <3> QED BY <2>4, <3>5 DEF Intended!Next
    <2> QED BY <2>2, <2>5, <2>6 DEF Push
  <1>7. ASSUME Go(EndOf(program, line) + 1) PROVE Walk' /\ Intended!Next
    <2>1. Go(Partner(program, line) + 1) /\ Partner(program, line) + 1 \in 1..Len(program) + 1 /\ Partner(program, line) # 0
      BY <1>2, <1>4, <1>7
    <2>2. Around(program, Partner(program, line) + 1) = Around(program, line)
      BY <1>2, <2>1, BlockLeads
    <2>3. Walk'
      BY <1>2, <2>1, <2>2, WalkAlong
    <2>4. Intended!Pass(Intended!Partner(program, line) + 1)
      BY <2>1, PassIs, Reading
    <2>5. Intended!If
      BY <1>2, <1>5, <2>4 DEF Intended!If, Idle
    <2> QED BY <2>3, <2>5 DEF Intended!Next
  <1>8. CASE IfTrue
    BY <1>6, <1>8 DEF IfTrue
  <1>9. CASE IfFalse
    <2>1. Go(Block(program, line).end + 1)
      BY <1>4, <1>9 DEF IfFalse
    <2> QED BY <1>7, <2>1 DEF EndOf
  <1>10. CASE IfFails
    BY <1>10, FailsIs DEF IfFails
  <1> QED BY <1>8, <1>9, <1>10

\* Procedures and states are skipped.
LEMMA SkipMeant ==
  ASSUME IInv, Walk, program \in SupportedPrograms, Procedure \/ State
  PROVE  Walk' /\ Intended!Next
  <1>1. PICK op \in {"proc", "state"} : Cmd(op) /\ Go(EndOf(program, line) + 1)
    BY DEF Procedure, State
  <1>2. /\ program \in Seq(Command) /\ line \in 1..Len(program) /\ line # 0 /\ Len(program) \in Nat
        /\ line \in Blocks(program)
    BY <1>1, LineIs DEF Openers
  <1>3. Partner(program, line) \in line + 1..Len(program) /\ EndOf(program, line) = Partner(program, line)
    BY <1>2, SupportedIs
  <1>4. Go(Partner(program, line) + 1) /\ Partner(program, line) + 1 \in 1..Len(program) + 1 /\ Partner(program, line) # 0
    BY <1>1, <1>2, <1>3
  <1>5. Around(program, Partner(program, line) + 1) = Around(program, line)
    BY <1>2, <1>4, BlockLeads
  <1>6. Walk'
    BY <1>2, <1>4, <1>5, WalkAlong
  <1>7. Intended!At({"proc", "state"})
    BY <1>1, AtIs
  <1>8. Intended!Pass(Intended!Partner(program, line) + 1)
    BY <1>4, PassIs, Reading
  <1>9. Intended!Skip
    BY <1>7, <1>8 DEF Intended!Skip, Idle
  <1> QED BY <1>6, <1>9 DEF Intended!Next

\* goto changes the state of the next run and not the line of this one.
LEMMA GotoMeant ==
  ASSUME IInv, Walk, program \in SupportedPrograms, Goto
  PROVE  Walk' /\ Intended!Next
  <1>1. /\ Cmd("goto") /\ state' = Name /\ line' = line + 1
        /\ UNCHANGED <<program, until, stack, merged, alive, stopped>>
    BY DEF Goto
  <1>2. /\ program \in Seq(Command) /\ line \in 1..Len(program) /\ line # 0 /\ program[line].op = "goto"
        /\ line + 1 \in 1..Len(program) + 1
    BY <1>1, LineIs
  <1>3. Around(program, line + 1) = Around(program, line)
    BY <1>2, PlainLeads DEF Openers
  <1>4. Returns' = Returns /\ Open' = Open
    BY <1>1 DEF Returns, Open
  <1>5. Walk'
    <2>1. Frames' /\ Top("component")' = Top("component")
      BY <1>1, <1>2, WalkIs DEF Frames, Top
    <2>2. Places(program, until, Returns, line + 1)
      <3>1. Returns \in Seq(Return) /\ Places(program, until, Returns, line)
        BY <1>2, WalkIs
      <3>2. Returns = <<>> => InBase(program, until, line + 1)
        BY <1>2, <1>3, WalkIs DEF InBase
      <3>3. \A r \in Return : InProc(program, line, r) => InProc(program, line + 1, r)
        BY <1>3 DEF InProc
      <3> QED BY <3>1, <3>2, <3>3, PlacesMove
    <2>3. Top("component") <=> Component(program, line + 1)
      BY <1>2, <1>3, WalkIs DEF Component
    <2>4. alive /\ until \in 1..Len(program) + 1
      BY <1>2 DEF Walk
    <2>5. Places(program', until', Returns', line') /\ (Top("component")' <=> Component(program', line'))
      BY <1>1, <1>4, <2>1, <2>2, <2>3
    <2>6. line' # 0
      BY <1>1, <1>2
    <2> QED BY <1>1, <2>1, <2>4, <2>5, <2>6 DEF Walk
  <1>6. Intended!At({"goto"})
    BY <1>1, AtIs
  <1>7. Intended!Goto
    BY <1>1, <1>4, <1>6 DEF Intended!Goto, Idle, Name
  <1> QED BY <1>5, <1>7 DEF Intended!Next

\* A variable belongs to the component that is open, if there is one.
LEMMA VarMeant ==
  ASSUME IInv, Walk, program \in SupportedPrograms, RegisterVar
  PROVE  Walk' /\ Intended!Next
  <1>1. /\ Cmd("var") /\ line' = line + 1 /\ UNCHANGED <<program, state, until, merged, alive, stopped>>
        /\ ~Top("component") => stack' = stack
    BY DEF RegisterVar
  <1>2. /\ program \in Seq(Command) /\ line \in 1..Len(program) /\ line # 0 /\ program[line].op = "var"
        /\ line + 1 \in 1..Len(program) + 1 /\ Name \in VarNames /\ Name = program[line].name
    BY <1>1, LineIs, CommandIs DEF Name
  <1>3. Around(program, line + 1) = Around(program, line)
    BY <1>2, PlainLeads DEF Openers
  <1>4. stack \in Seq(Frame) /\ Len(stack) \in Nat /\ DOMAIN stack = 1..Len(stack)
    BY TypesAre DEF IInv, TypeOK
  <1>5. Frames /\ (Top("component") <=> Component(program, line))
    BY <1>2, WalkIs
  \* The frames are the same but for the variables.
  <1>6. /\ Frames' /\ Top("component")' = Top("component") /\ Returns' = Returns
        /\ Open' = IF Open = None THEN None ELSE [Open EXCEPT !.vars = Open.vars \cup {Name}]
    <2>1. CASE ~Top("component")
      <3>1. stack' = stack /\ Open = None
        BY <1>1, <1>2, <2>1, WalkIs
      <3> QED BY <1>1, <1>5, <2>1, <3>1 DEF Frames, Top, Returns, Open
    <2>2. CASE Top("component")
      <3> DEFINE n == Len(stack)
                 frame == stack[n]
                 new == [frame EXCEPT !.vars = frame.vars \cup {Name}]
                 below == SubSeq(stack, 1, n - 1)
      <3>1. stack # <<>> /\ frame.kind = "component" /\ stack' = [stack EXCEPT ![n] = new]
        BY <2>2 DEF RegisterVar, Top
      <3>2. n \in Nat \ {0} /\ n \in 1..n /\ below \in Seq(Frame) /\ frame \in Frame /\ stack = Append(below, frame) /\ Len(below) = n - 1
            /\ \A i \in 1..n - 1 : below[i] = stack[i]
        BY <1>4, <3>1, PoppedIs
      <3>3. frame \in [kind : {"component"}, name : CompNames, vars : SUBSET VarNames]
        <4> HIDE DEF frame
        <4> QED BY <3>1, <3>2 DEF Frame
      <3> HIDE DEF frame
      <3>4. /\ new \in Frame /\ new.kind = "component" /\ new.name = frame.name
            /\ new.vars = frame.vars \cup {Name}
        BY <1>2, <3>3 DEF Frame
      <3> HIDE DEF new
      <3>5. /\ stack' \in Seq(Frame) /\ Len(stack') = n /\ DOMAIN stack' = 1..n
            /\ \A i \in 1..n : stack'[i] = IF i = n THEN new ELSE stack[i]
        BY <1>4, <3>1, <3>2, <3>4, ExceptSeq, LenProperties
      <3> HIDE DEF n, below
      <3>6. stack' = Append(below, new)
        <4>1. Append(below, new) \in Seq(Frame) /\ Len(Append(below, new)) = n /\ Append(below, new)[n] = new
              /\ \A i \in 1..n - 1 : Append(below, new)[i] = stack[i]
          BY <3>2, <3>4, AppendProperties
        <4>2. \A i \in 1..n : Append(below, new)[i] = stack'[i]
          BY <3>2, <3>5, <4>1
        <4> DEFINE t == Append(below, new)
        <4>3. t \in Seq(Frame) /\ stack' \in Seq(Frame) /\ Len(t) = Len(stack') /\ \A i \in 1..Len(t) : t[i] = stack'[i]
          BY <3>5, <4>1, <4>2
        <4> HIDE DEF t
        <4>4. t = stack'
          BY <4>3, SeqEqual
        <4> QED BY <4>4 DEF t
      <3>7. Returns = ReturnsOf(below) /\ Returns' = ReturnsOf(below)
        <4>1. ReturnsOf(Append(below, frame)) = ReturnsOf(below) /\ ReturnsOf(Append(below, new)) = ReturnsOf(below)
          BY <3>1, <3>2, <3>4, ReturnsAppend DEF frame
        <4> QED BY <3>2, <3>6, <4>1 DEF Returns
      <3>8. Top("component")'
        BY <3>2, <3>4, <3>5, EmptySeq DEF Top
      <3>9. \A i \in 1..n : stack'[i].kind = stack[i].kind
        BY <3>1, <3>4, <3>5 DEF frame
      <3>10. Frames'
        <4> SUFFICES ASSUME NEW i \in 1..n
                     PROVE  /\ stack'[i].kind \in {"if", "proc", "component"}
                            /\ stack'[i].kind # "proc" => \A j \in 1..i - 1 : stack'[j].kind = "if"
                            /\ stack'[i].kind = "component" => i = Len(stack')
                            /\ stack'[i].kind = "if" => until' = Len(program') + 1
          BY <3>5 DEF Frames
        <4>1. \A j \in 1..i - 1 : j \in 1..n
          BY <3>2
        <4>2. i \in DOMAIN stack /\ Len(stack) = n
          BY <1>4 DEF n
        <4> QED BY <1>1, <1>5, <3>5, <3>9, <4>1, <4>2 DEF Frames
      <3>11. Open = [name |-> frame.name, vars |-> frame.vars] /\ Open # None
        BY <1>2, <2>2, WalkIs DEF frame, n
      <3>12. Open' = [name |-> frame.name, vars |-> frame.vars \cup {Name}]
        <4>1. OpenOf(stack') = [name |-> stack'[n].name, vars |-> stack'[n].vars]
          <5>1. stack' # <<>> /\ stack'[Len(stack')].kind = "component"
            BY <3>2, <3>4, <3>5, EmptySeq
          <5> QED BY <3>5, <5>1, OpenIs
        <4> QED BY <3>2, <3>4, <3>5, <4>1 DEF Open
      <3>13. [Open EXCEPT !.vars = Open.vars \cup {Name}] = [name |-> frame.name, vars |-> frame.vars \cup {Name}]
        BY <3>11
      <3> QED BY <2>2, <3>7, <3>8, <3>10, <3>11, <3>12, <3>13
    <2> QED BY <2>1, <2>2
  <1>7. Walk'
    <2>1. Places(program, until, Returns, line + 1)
      <3>1. Returns \in Seq(Return) /\ Places(program, until, Returns, line)
        BY <1>2, WalkIs
      <3>2. Returns = <<>> => InBase(program, until, line + 1)
        BY <1>2, <1>3, WalkIs DEF InBase
      <3>3. \A r \in Return : InProc(program, line, r) => InProc(program, line + 1, r)
        BY <1>3 DEF InProc
      <3> QED BY <3>1, <3>2, <3>3, PlacesMove
    <2>2. Top("component") <=> Component(program, line + 1)
      BY <1>3, <1>5 DEF Component
    <2>3. alive /\ until \in 1..Len(program) + 1
      BY <1>2 DEF Walk
    <2>4. Places(program', until', Returns', line') /\ (Top("component")' <=> Component(program', line'))
      BY <1>1, <1>6, <2>1, <2>2
    <2>5. line' # 0
      BY <1>1, <1>2
    <2> QED BY <1>1, <1>6, <2>3, <2>4, <2>5 DEF Walk
  <1>8. Intended!At({"var"})
    BY <1>1, AtIs
  <1>9. Intended!Var
    BY <1>1, <1>2, <1>6, <1>8 DEF Intended!Var, Idle
  <1> QED BY <1>7, <1>9 DEF Intended!Next

\* A call of a procedure that there is.
LEMMA CallMeant ==
  ASSUME IInv, Walk, program \in SupportedPrograms, Call
  PROVE  Walk' /\ Intended!Next
  <1> DEFINE l == Declaration(program, "proc", Name)
             frame == [kind |-> "proc", call |-> line, end |-> EndOf(program, l)]
             r == [call |-> frame.call, end |-> frame.end]
  <1>1. Cmd("call") /\ ((l # 0 /\ Push(frame, l + 1)) \/ Die)
    BY DEF Call
  <1>2. /\ program \in Seq(Command) /\ line \in 1..Len(program) /\ line # 0 /\ line \in Nat /\ Len(program) \in Nat
        /\ program[line].op = "call" /\ Name = program[line].name
    BY <1>1, LineIs DEF Name
  <1>3. CASE Die
    BY <1>1, <1>3, FailsIs
  <1>4. CASE l # 0 /\ Push(frame, l + 1)
    <2>1. l \in 1..Len(program) /\ program[l].op = "proc"
      <3>1. l # 0
        BY <1>4
      <3> QED BY <1>2, <3>1, DeclaredAt
    <2> HIDE DEF l
    <2>2. l \in Blocks(program)
      BY <1>2, <2>1, LenProperties DEF Blocks, Openers
    <2>3. Partner(program, l) \in l + 1..Len(program) /\ EndOf(program, l) = Partner(program, l) /\ Partner(program, l) \in Nat
      BY <1>2, <2>1, <2>2, SupportedIs
    <2>4. Around(program, l + 1) = l
      <3>1. Partner(program, l) # 0
        BY <2>1, <2>3
      <3> QED BY <1>2, <2>2, <3>1, BlockLeads
    <2>5. /\ frame \in Frame /\ frame.kind = "proc" /\ frame.call = line /\ frame.end = Partner(program, l)
          /\ r \in Return /\ r.call = line /\ r.end = Partner(program, l)
      BY <1>2, <2>3 DEF Frame, Return
    <2> HIDE DEF frame
    <2>6. ~Component(program, line)
      BY <1>2, SupportedIn DEF Component
    <2>7. ~Top("component")
      BY <1>2, <2>6, WalkIs
    <2>8. InProc(program, l + 1, r)
      BY <2>1, <2>4, <2>5 DEF InProc
    <2>9. ~Component(program, l + 1)
      BY <2>1, <2>4 DEF Component
    <2>10. Returns \in Seq(Return) /\ Places(program, until, Returns, line)
      BY <1>2, WalkIs
    <2> HIDE DEF r
    <2>11. Places(program, until, Append(Returns, r), l + 1)
      BY <1>2, <2>5, <2>8, <2>10, PlacesPush
    <2>12. Walk'
      <3>1. l + 1 \in 1..Len(program) + 1
        BY <1>2, <2>1
      <3> QED BY <1>2, <1>4, <2>5, <2>7, <2>9, <2>11, <3>1, WalkPush DEF r
    <2>13. CASE Len(stack) = Depth /\ Die
      BY <1>1, <2>13, FailsIs
    <2>14. CASE /\ stack' = Append(stack, frame) /\ line' = l + 1
                /\ UNCHANGED <<program, state, until, merged, alive, stopped>>
      <3>1. stack \in Seq(Frame)
        BY DEF IInv, TypeOK
      <3>2. Returns' = Append(Returns, r)
        BY <2>5, <2>14, <3>1, ReturnsAppend DEF Returns, r
      <3>3. Open' = Open
        <4>1. stack' \in Seq(Frame) /\ Len(stack') = Len(stack) + 1 /\ stack'[Len(stack) + 1] = frame
              /\ \A i \in 1..Len(stack) : stack'[i] = stack[i]
          BY <2>5, <2>14, <3>1, AppendProperties, LenProperties
        <4>2. \A i \in 1..Len(stack) : stack[i].kind # "component"
          <5>1. Frames /\ DOMAIN stack = 1..Len(stack) /\ Len(stack) \in Nat
            BY <1>2, <3>1, WalkIs, LenProperties
          <5> QED BY <2>7, <3>1, <5>1, EmptySeq DEF Frames, Top
        <4>3. \A i \in 1..Len(stack') : stack'[i].kind # "component"
          BY <2>5, <3>1, <4>1, <4>2, LenProperties
        <4>4. OpenOf(stack') = None /\ OpenOf(stack) = None
          BY <3>1, <4>1, <4>2, <4>3, OpenIs
        <4> QED BY <4>4 DEF Open
      <3>4. Intended!Declared(program, "proc", program[line].name) = l /\ Intended!Partner(program, l) = Partner(program, l)
        BY <1>2, Reading DEF l
      <3>5. Intended!At({"call"})
        BY <1>1, AtIs
      <3>6. r = [call |-> line, end |-> Partner(program, l)]
        BY <2>5 DEF r
      <3>7. Intended!Call
        BY <1>4, <2>14, <3>2, <3>3, <3>4, <3>5, <3>6 DEF Intended!Call, Idle
      <3> QED BY <2>12, <3>7 DEF Intended!Next
    <2> QED BY <1>4, <2>13, <2>14 DEF Push
  <1> QED BY <1>1, <1>3, <1>4

\* A component is entered from the run's own body.
LEMMA ComponentMeant ==
  ASSUME IInv, Walk, program \in SupportedPrograms, ComponentBlock
  PROVE  Walk' /\ Intended!Next
  <1> DEFINE frame == [kind |-> "component", name |-> Name, vars |-> {}]
             a == Around(program, line)
  <1>1. Cmd("component") /\ Push(frame, line + 1)
    BY DEF ComponentBlock
  <1>2. /\ program \in Seq(Command) /\ line \in 1..Len(program) /\ line # 0 /\ line \in Nat /\ Len(program) \in Nat
        /\ program[line].op = "component" /\ line \in Blocks(program) /\ line + 1 \in 1..Len(program) + 1
        /\ Name \in CompNames /\ Name = program[line].name
    BY <1>1, LineIs, CommandIs DEF Openers, Name
  <1>3. a # 0 => program[a].op = "state"
    BY <1>2, SupportedIn
  <1>4. /\ Returns = <<>> /\ ~Component(program, line) /\ ~Top("component") /\ InBase(program, until, line)
        /\ Frames
    <2>1. ~Component(program, line)
      BY <1>3 DEF Component
    <2>2. Returns = <<>>
      BY <1>2, <1>3, WalkIs
    <2> QED BY <1>2, <2>1, <2>2, WalkIs
  <1>5. Around(program, line + 1) = line
    <2>1. Partner(program, line) \in line + 1..Len(program)
      BY <1>2, SupportedIs
    <2>2. Partner(program, line) # 0
      BY <1>2, <2>1
    <2> QED BY <1>2, <2>2, BlockLeads
  <1>6. Component(program, line + 1)
    BY <1>2, <1>5 DEF Component
  <1>7. InBase(program, until, line + 1)
    <2>1. IF until = Len(program) + 1 THEN a = 0
          ELSE a # 0 /\ program[a].op = "state" /\ Partner(program, a) = until
      BY <1>3, <1>4 DEF InBase
    <2> HIDE DEF a
    <2> QED BY <1>2, <1>5, <2>1 DEF InBase, a
  <1>8. Places(program, until, Returns, line + 1)
    <2>1. Len(<<>>) = 0
      OBVIOUS
    <2> QED BY <1>4, <1>7, <2>1 DEF Places, Place
  <1>9. frame \in Frame /\ frame.kind = "component" /\ frame.name = Name /\ frame.vars = {}
    BY <1>2 DEF Frame
  <1> HIDE DEF frame, a
  <1>10. Walk'
    BY <1>1, <1>2, <1>4, <1>6, <1>8, <1>9, WalkPush
  <1>11. CASE Len(stack) = Depth /\ Die
    BY <1>1, <1>11, FailsIs
  <1>12. CASE /\ stack' = Append(stack, frame) /\ line' = line + 1
              /\ UNCHANGED <<program, state, until, merged, alive, stopped>>
    <2>1. stack \in Seq(Frame)
      BY DEF IInv, TypeOK
    <2>2. Returns' = Returns
      BY <1>9, <1>12, <2>1, ReturnsAppend DEF Returns
    <2>3. Open' = [name |-> program[line].name, vars |-> {}]
      <3>1. stack' \in Seq(Frame) /\ Len(stack') = Len(stack) + 1 /\ stack'[Len(stack) + 1] = frame /\ Len(stack) \in Nat
        BY <1>9, <1>12, <2>1, AppendProperties, LenProperties
      <3>2. stack' # <<>> /\ stack'[Len(stack')] = frame
        BY <3>1, EmptySeq
      <3>3. OpenOf(stack') = [name |-> frame.name, vars |-> frame.vars]
        BY <1>9, <3>1, <3>2, OpenIs
      <3> QED BY <1>2, <1>9, <3>3 DEF Open
    <2>4. Intended!At({"component"})
      BY <1>1, AtIs
    <2>5. Intended!Component
      BY <1>12, <2>2, <2>3, <2>4 DEF Intended!Component, Idle
    <2> QED BY <1>10, <2>5 DEF Intended!Next
  <1> QED BY <1>1, <1>11, <1>12 DEF Push

\* A run leaves the block that its top frame is for.
LEMMA WalkPop ==
  ASSUME IInv, Walk, program \in SupportedPrograms, line # 0, NEW m \in 1..Len(program) + 1,
         stack # <<>>, stack[Len(stack)].kind # "if", stack' = Popped, line' = m,
         UNCHANGED <<program, until, alive, stopped>>,
         ~Component(program, m), Places(program, until, ReturnsOf(Popped), m)
  PROVE  Walk' /\ Open' = None /\ Returns' = ReturnsOf(Popped)
  <1> DEFINE n == Len(stack)
             t == Popped
  <1>1. stack \in Seq(Frame) /\ n \in Nat /\ DOMAIN stack = 1..n /\ Len(stack) = n
    BY TypesAre DEF IInv, TypeOK
  <1>2. n \in Nat \ {0} /\ t \in Seq(Frame) /\ Len(t) = n - 1 /\ \A i \in 1..n - 1 : t[i] = stack[i]
    BY <1>1, PoppedIs DEF Popped
  <1>3. DOMAIN t = 1..n - 1
    BY <1>2, LenProperties
  <1>4. Frames
    BY WalkIs
  <1>5. stack' = t
    OBVIOUS
  <1> HIDE DEF n, t
  <1>6. ASSUME NEW i \in 1..n - 1
        PROVE  /\ t[i].kind \in {"if", "proc"}
               /\ t[i].kind # "proc" => \A j \in 1..i - 1 : t[j].kind = "if"
               /\ t[i].kind = "if" => until = Len(program) + 1
    <2>1. i \in 1..n /\ i # n /\ (\A j \in 1..i - 1 : j \in 1..n - 1) /\ t[i] = stack[i]
      BY <1>2
    <2>2. i \in DOMAIN stack /\ i # Len(stack)
      <3>1. i # Len(stack)
        BY <1>1, <2>1
      <3> QED BY <1>1, <2>1, <3>1
    <2>3. /\ stack[i].kind \in {"if", "proc", "component"} /\ stack[i].kind # "component"
          /\ stack[i].kind = "if" => until = Len(program) + 1
      BY <1>4, <2>2 DEF Frames
    <2>4. stack[i].kind # "proc" => \A j \in 1..i - 1 : t[j].kind = "if"
      <3> SUFFICES ASSUME stack[i].kind # "proc", NEW j \in 1..i - 1 PROVE t[j].kind = "if"
        OBVIOUS
      <3>1. stack[j].kind = "if"
        BY <1>4, <2>2 DEF Frames
      <3>2. j \in 1..n - 1
        BY <2>1
      <3> QED BY <1>2, <3>1, <3>2
    <2> QED BY <2>1, <2>3, <2>4
  <1>7. \A i \in 1..Len(t) : t[i].kind # "component"
    BY <1>2, <1>6
  <1>8. Open' = None
    <2>1. OpenOf(t) = None
      BY <1>2, <1>7, OpenIs
    <2> QED BY <1>5, <2>1 DEF Open
  <1>9. Returns' = ReturnsOf(Popped)
    BY <1>5 DEF Returns, t
  <1>10. Frames'
    <2> SUFFICES ASSUME NEW i \in 1..n - 1
                 PROVE  /\ t[i].kind \in {"if", "proc", "component"}
                        /\ t[i].kind # "proc" => \A j \in 1..i - 1 : t[j].kind = "if"
                        /\ t[i].kind = "component" => i = Len(t)
                        /\ t[i].kind = "if" => until' = Len(program') + 1
      BY <1>3, <1>5 DEF Frames
    <2> QED BY <1>6
  <1>11. ~Top("component")'
    <2>1. t # <<>> => Len(t) \in 1..Len(t)
      BY <1>2, EmptySeq
    <2> QED BY <1>5, <1>7, <2>1 DEF Top
  <1>12. alive /\ until \in 1..Len(program) + 1 /\ m # 0 /\ line' = m
    BY TypesAre DEF Walk
  <1>13. Places(program', until', Returns', line') /\ (Top("component")' <=> Component(program', line'))
    BY <1>9, <1>11, <1>12
  <1> QED BY <1>8, <1>9, <1>10, <1>12, <1>13 DEF Walk

LEMMA EndIs ==
  ASSUME IInv, Walk, program \in SupportedPrograms, Cmd("end")
  PROVE  LET k == Around(program, line)
         IN  /\ k \in Blocks(program) /\ k \in 1..Len(program) /\ k # 0 /\ Partner(program, k) = line
             /\ program[k].op # "end"
             /\ Around(program, line + 1) = Around(program, k)
             /\ Intended!OpenerOf(program, line) = k /\ Intended!At({"end"})
  <1> DEFINE k == Around(program, line)
  <1>1. /\ program \in Seq(Command) /\ line \in 1..Len(program) /\ line # 0 /\ program[line].op = "end"
        /\ DOMAIN program = 1..Len(program)
    BY LineIs, LenProperties
  <1>2. k \in Blocks(program) /\ Partner(program, k) = line /\ Intended!OpenerOf(program, line) = k
    BY <1>1, SupportedIs, Reading
  <1> HIDE DEF k
  <1>3. k \in 1..Len(program) /\ k # 0 /\ program[k].op # "end"
    BY <1>1, <1>2 DEF Blocks, Openers
  <1>4. Around(program, line + 1) = Around(program, k)
    <2>1. Partner(program, k) # 0
      BY <1>1, <1>2
    <2> QED BY <1>1, <1>2, <2>1, BlockLeads
  <1>5. Intended!At({"end"})
    BY AtIs
  <1> QED BY <1>2, <1>3, <1>4, <1>5 DEF k

\* The end of an if, or of the machine's own block: the frame of an if stays.
LEMMA EndPlainMeant ==
  ASSUME IInv, Walk, program \in SupportedPrograms, EndPlain
  PROVE  Walk' /\ Intended!Next
  <1> DEFINE k == Around(program, line)
             b == Around(program, k)
  <1>1. Cmd("end") /\ (stack = <<>> \/ Top("if")) /\ Go(line + 1)
    BY DEF EndPlain
  <1>2. /\ program \in Seq(Command) /\ line \in 1..Len(program) /\ line # 0 /\ line \in Nat /\ Len(program) \in Nat
        /\ line + 1 \in 1..Len(program) + 1 /\ ~(stack = <<>> /\ line >= until)
    BY <1>1, LineIs DEF Cmd, Done
  <1>3. /\ k \in Blocks(program) /\ k \in 1..Len(program) /\ k # 0 /\ Partner(program, k) = line
        /\ program[k].op # "end" /\ Around(program, line + 1) = b
        /\ Intended!OpenerOf(program, line) = k /\ Intended!At({"end"})
    BY <1>1, EndIs
  <1>4. stack \in Seq(Frame) /\ Len(stack) \in Nat /\ DOMAIN stack = 1..Len(stack) /\ Frames
    BY <1>2, TypesAre, WalkIs DEF IInv, TypeOK
  <1>5. ~Top("component") /\ Returns = <<>> /\ (stack # <<>> => until = Len(program) + 1)
    <2>1. CASE stack = <<>>
      <3>1. \A i \in 1..Len(stack) : stack[i].kind # "proc"
        BY <1>4, <2>1, EmptySeq
      <3> QED BY <1>2, <2>1, <3>1, WalkIs DEF Top
    <2>2. CASE stack # <<>> /\ Top("if")
      <3>1. Len(stack) \in 1..Len(stack) /\ stack[Len(stack)].kind = "if"
        BY <1>4, <2>2, EmptySeq DEF Top
      <3>2. until = Len(program) + 1 /\ \A j \in 1..Len(stack) - 1 : stack[j].kind = "if"
        BY <1>4, <3>1 DEF Frames
      <3>3. \A i \in 1..Len(stack) : stack[i].kind # "proc"
        BY <1>4, <3>1, <3>2
      <3> QED BY <1>2, <3>1, <3>2, <3>3, WalkIs DEF Top
    <2> QED BY <1>1, <2>1, <2>2
  <1>6. InBase(program, until, line) /\ program[k].op # "component"
    BY <1>2, <1>3, <1>5, WalkIs DEF Component
  <1>7. until = Len(program) + 1 /\ program[k].op \in {"if", "machine"}
    <2>1. IF until = Len(program) + 1 THEN program[k].op \in {"if", "machine"} ELSE Partner(program, k) = until
      BY <1>3, <1>6 DEF InBase
    <2>2. until # Len(program) + 1 => stack = <<>> /\ line >= until
      BY <1>2, <1>3, <1>5, <2>1
    <2> QED BY <1>2, <2>1, <2>2
  <1>8. b # 0 => program[b].op \in {"if", "machine"}
    <2> HIDE DEF k
    <2>1. b # 0 => (program[k].op = "if" => program[b].op \in {"if", "machine"})
                   /\ (program[k].op = "machine" => program[b].op = "machine")
      BY <1>3, SupportedIn
    <2> QED BY <1>7, <2>1
  <1> HIDE DEF k, b
  <1>9. InBase(program, until, line + 1) /\ ~Component(program, line + 1)
    BY <1>3, <1>7, <1>8 DEF InBase, Component
  <1>10. Component(program, line + 1) <=> Component(program, line)
    BY <1>3, <1>6, <1>9 DEF Component, k
  <1>11. Walk'
    BY <1>1, <1>2, <1>5, <1>9, <1>10, WalkGo
  <1>12. Intended!Pass(line + 1)
    BY <1>1, PassIs
  <1>13. Intended!EndOther
    BY <1>2, <1>3, <1>7, <1>12 DEF Intended!EndOther, Idle
  <1> QED BY <1>11, <1>13 DEF Intended!Next

\* The end of a procedure: its call is where the run goes on.
LEMMA EndProcMeant ==
  ASSUME IInv, Walk, program \in SupportedPrograms, EndProcedure
  PROVE  Walk' /\ Intended!Next
  <1> DEFINE k == Around(program, line)
             frame == stack[Len(stack)]
             t == Popped
             rs == ReturnsOf(t)
             r == [call |-> frame.call, end |-> frame.end]
  <1>1. /\ Cmd("end") /\ Top("proc") /\ stack' = Popped
        /\ line' = IF frame.end = line THEN frame.call + 1 ELSE line + 1
        /\ UNCHANGED <<program, state, until, merged, alive, stopped>>
    BY DEF EndProcedure
  <1>2. /\ program \in Seq(Command) /\ line \in 1..Len(program) /\ line # 0 /\ line \in Nat /\ Len(program) \in Nat
    BY <1>1, LineIs
  <1>3. /\ k \in Blocks(program) /\ k \in 1..Len(program) /\ k # 0 /\ Partner(program, k) = line
        /\ Intended!OpenerOf(program, line) = k /\ Intended!At({"end"})
    BY <1>1, EndIs
  <1>4. stack \in Seq(Frame) /\ stack # <<>> /\ frame.kind = "proc"
    BY <1>1 DEF IInv, TypeOK, Top
  <1>5. t \in Seq(Frame) /\ frame \in Frame /\ stack = Append(t, frame)
    BY <1>4, PoppedIs DEF Popped
  <1> HIDE DEF t, frame
  <1>6. r \in Return /\ r.call = frame.call /\ r.end = frame.end
    BY <1>4, <1>5 DEF Frame, Return
  <1>7. rs \in Seq(Return) /\ Returns = Append(rs, r)
    <2>1. rs \in Seq(Return)
      BY <1>5, ReturnsAre
    <2>2. ReturnsOf(Append(t, frame)) = Append(rs, r)
      BY <1>4, <1>5, ReturnsAppend
    <2> QED BY <1>5, <2>1, <2>2 DEF Returns
  <1> HIDE DEF r, rs, k
  <1>8. /\ Places(program, until, rs, r.call) /\ InProc(program, line, r)
        /\ r.call \in 1..Len(program) /\ program[r.call].op = "call"
    <2>1. Places(program, until, Append(rs, r), line)
      BY <1>2, <1>7, WalkIs
    <2> QED BY <1>6, <1>7, <2>1, PlacesPop
  <1>9. program[k].op = "proc" /\ r.end = line
    BY <1>3, <1>8 DEF InProc, k
  <1>10. line' = r.call + 1 /\ r.call + 1 \in 1..Len(program) + 1
    BY <1>1, <1>2, <1>6, <1>8, <1>9
  <1>11. Around(program, r.call + 1) = Around(program, r.call)
    BY <1>2, <1>8, PlainLeads DEF Openers
  <1>12. ~Component(program, r.call + 1)
    BY <1>8, <1>11, SupportedIn DEF Component
  <1>13. Places(program, until, rs, r.call + 1)
    <2>1. rs = <<>> => InBase(program, until, r.call + 1)
      <3>1. rs = <<>> => InBase(program, until, r.call)
        BY <1>7, <1>8, PlacesIn
      <3> QED BY <1>11, <3>1 DEF InBase
    <2>2. \A q \in Return : rs # <<>> /\ InProc(program, r.call, q) => InProc(program, r.call + 1, q)
      BY <1>11 DEF InProc
    <2> QED BY <1>7, <1>8, <2>1, <2>2, PlacesMove
  <1>14. Walk' /\ Open' = None /\ Returns' = rs
    <2>1. stack[Len(stack)].kind # "if"
      BY <1>4 DEF frame
    <2> QED BY <1>1, <1>2, <1>4, <1>10, <1>12, <1>13, <2>1, WalkPop DEF rs, t
  <1>15. Open = None
    BY <1>1, <1>2, WalkIs DEF Top
  <1>16. /\ Returns # <<>> /\ Returns[Len(Returns)] = r
         /\ SubSeq(Returns, 1, Len(Returns) - 1) = rs
    <2>1. /\ Returns \in Seq(Return) /\ Len(rs) \in Nat /\ Len(Returns) = Len(rs) + 1 /\ Returns[Len(rs) + 1] = r
          /\ \A i \in 1..Len(rs) : Returns[i] = rs[i]
      BY <1>6, <1>7, AppendProperties, LenProperties
    <2>2. Returns # <<>>
      BY <2>1, EmptySeq
    <2> DEFINE s == SubSeq(Returns, 1, Len(Returns) - 1)
    <2>3. s \in Seq(Return) /\ Len(s) = Len(Returns) - 1 /\ \A i \in 1..Len(Returns) - 1 : s[i] = Returns[i]
      BY <2>1, <2>2, PoppedIs
    <2> HIDE DEF s
    <2>4. Len(s) = Len(rs) /\ \A i \in 1..Len(s) : s[i] = rs[i]
      BY <2>1, <2>3
    <2>5. s = rs
      BY <1>7, <2>3, <2>4, SeqEqual
    <2> QED BY <2>1, <2>2, <2>5 DEF s
  <1>17. Intended!EndProc
    BY <1>1, <1>3, <1>9, <1>10, <1>14, <1>15, <1>16 DEF Intended!EndProc, Idle
  <1> QED BY <1>14, <1>17 DEF Intended!Next

\* The end of a component: it is merged, and the run goes on behind it.
LEMMA EndComponentMeant ==
  ASSUME IInv, Walk, program \in SupportedPrograms, EndComponent
  PROVE  Walk' /\ Intended!Next
  <1> DEFINE k == Around(program, line)
             b == Around(program, k)
             frame == stack[Len(stack)]
             t == Popped
  <1>1. /\ Cmd("end") /\ Top("component") /\ stack' = t /\ line' = line + 1
        /\ merged' = merged \cup {[name |-> frame.name, vars |-> frame.vars]} \/ merged' = merged
        /\ UNCHANGED <<program, state, until, alive, stopped>>
    BY DEF EndComponent
  <1>2. /\ program \in Seq(Command) /\ line \in 1..Len(program) /\ line # 0 /\ Len(program) \in Nat
        /\ line + 1 \in 1..Len(program) + 1
    BY <1>1, LineIs
  <1>3. /\ k \in Blocks(program) /\ k \in 1..Len(program) /\ k # 0 /\ Partner(program, k) = line
        /\ program[k].op # "end" /\ Around(program, line + 1) = b
        /\ Intended!OpenerOf(program, line) = k /\ Intended!At({"end"})
    BY <1>1, EndIs
  <1>4. stack \in Seq(Frame) /\ stack # <<>> /\ frame.kind = "component"
    BY <1>1 DEF IInv, TypeOK, Top
  <1>5. t \in Seq(Frame) /\ frame \in Frame /\ stack = Append(t, frame)
    BY <1>4, PoppedIs DEF Popped
  <1>6. /\ program[k].op = "component" /\ Returns = <<>> /\ InBase(program, until, line)
        /\ Open = [name |-> frame.name, vars |-> frame.vars] /\ Open # None
    BY <1>1, <1>2, WalkIs DEF Component
  <1>7. b # 0 => program[b].op = "state"
    <2> HIDE DEF k
    <2> QED BY <1>3, <1>6, SupportedIn
  <1>8. IF until = Len(program) + 1 THEN b = 0
        ELSE b # 0 /\ program[b].op = "state" /\ Partner(program, b) = until
    <2>1. IF until = Len(program) + 1 THEN b = 0 \/ (b = k /\ program[b].op \in {"if", "machine"})
          ELSE b # 0 /\ program[b].op = "state" /\ Partner(program, b) = until
      BY <1>3, <1>6 DEF InBase
    <2> HIDE DEF b
    <2> QED BY <1>7, <2>1
  <1> HIDE DEF k, b, frame, t
  <1>9. ~Component(program, line + 1) /\ InBase(program, until, line + 1)
    <2>1. b # 0 => program[b].op # "component"
      BY <1>7
    <2> QED BY <1>3, <1>8, <2>1 DEF Component, InBase
  <1>10. ReturnsOf(t) = <<>>
    <2>1. ReturnsOf(Append(t, frame)) = ReturnsOf(t)
      BY <1>4, <1>5, ReturnsAppend
    <2> QED BY <1>5, <1>6, <2>1 DEF Returns
  <1>11. Places(program, until, ReturnsOf(t), line + 1)
    <2>1. Len(<<>>) = 0
      OBVIOUS
    <2> QED BY <1>9, <1>10, <2>1 DEF Places, Place
  <1>12. Walk' /\ Open' = None /\ Returns' = <<>>
    <2>1. stack[Len(stack)].kind # "if"
      BY <1>4 DEF frame
    <2> QED BY <1>1, <1>2, <1>4, <1>9, <1>10, <1>11, <2>1, WalkPop DEF t
  <1>13. Intended!EndComponent
    BY <1>1, <1>3, <1>6, <1>12 DEF Intended!EndComponent, Idle
  <1> QED BY <1>12, <1>13 DEF Intended!Next

\* An end has no loop to start over.
LEMMA NoLoop ==
  ASSUME IInv, Walk, program \in SupportedPrograms
  PROVE  ~Loop /\ ~EndLoop
  <1>1. ~Loop
    BY LineIs DEF Loop
  <1>2. ASSUME EndLoop PROVE FALSE
    <2>1. Cmd("end") /\ stack # <<>> /\ stack[Len(stack)].kind = "loop"
      BY <1>2 DEF EndLoop, Top
    <2>2. stack \in Seq(Frame) /\ Len(stack) \in 1..Len(stack) /\ DOMAIN stack = 1..Len(stack)
      BY <2>1, EmptySeq, LenProperties DEF IInv, TypeOK
    <2>3. Frames
      BY <2>1, LineIs, WalkIs
    <2> QED BY <2>1, <2>2, <2>3 DEF Frames
  <1> QED BY <1>1, <1>2

\* Every step of a script of the fragment is one of its meaning.
LEMMA StepMeant ==
  ASSUME IInv, Walk, program \in SupportedPrograms, Next
  PROVE  Walk' /\ Intended!Next
  <1>1. CASE BeginEvent \/ BeginStep \/ FetchFails \/ Shutdown \/ \E s \in StateNames : Redirect(s)
    BY <1>1, RestMeant
  <1>2. CASE Finish
    BY <1>2, FinishMeant
  <1>3. CASE Log \/ Act \/ Unexecuted
    BY <1>3, PlainMeant
  <1>4. CASE IfTrue \/ IfFalse \/ IfFails
    BY <1>4, IfMeant
  <1>5. CASE Loop \/ EndLoop
    BY <1>5, NoLoop
  <1>6. CASE Procedure \/ State
    BY <1>6, SkipMeant
  <1>7. CASE Call
    BY <1>7, CallMeant
  <1>8. CASE Goto
    BY <1>8, GotoMeant
  <1>9. CASE ComponentBlock
    BY <1>9, ComponentMeant
  <1>10. CASE RegisterVar
    BY <1>10, VarMeant
  <1>11. CASE EndPlain
    BY <1>11, EndPlainMeant
  <1>12. CASE EndProcedure
    BY <1>12, EndProcMeant
  <1>13. CASE EndComponent
    BY <1>13, EndComponentMeant
  <1> QED
    BY <1>1, <1>2, <1>3, <1>4, <1>5, <1>6, <1>7, <1>8, <1>9, <1>10, <1>11, <1>12, <1>13 DEF Next, Run

\* No step changes the script.
LEMMA SameProgram ==
  ASSUME Next
  PROVE  program' = program
  <1>1. Die => program' = program
    BY DEF Die
  <1>2. \A l : Go(l) => program' = program
    BY DEF Go
  <1>3. \A frame, l : Push(frame, l) => program' = program
    BY <1>1 DEF Push
  <1>4. CASE BeginEvent \/ BeginStep \/ FetchFails \/ Shutdown \/ \E s \in StateNames : Redirect(s)
    BY <1>1, <1>4 DEF BeginEvent, BeginStep, Begin, FetchFails, Shutdown, Stop, Redirect
  <1>5. CASE Finish \/ Goto \/ RegisterVar \/ EndProcedure \/ EndComponent
    BY <1>5 DEF Finish, Goto, RegisterVar, EndProcedure, EndComponent
  <1>6. CASE Log \/ Act \/ Unexecuted \/ Procedure \/ State \/ EndPlain \/ EndLoop
    BY <1>1, <1>2, <1>6 DEF Log, Act, Unexecuted, Procedure, State, EndPlain, EndLoop
  <1>7. CASE IfTrue \/ IfFalse \/ IfFails
    BY <1>1, <1>2, <1>3, <1>7 DEF IfTrue, IfFalse, IfFails
  <1>8. CASE Loop \/ Call \/ ComponentBlock
    BY <1>1, <1>3, <1>8 DEF Loop, Call, ComponentBlock
  <1> QED BY <1>4, <1>5, <1>6, <1>7, <1>8 DEF Next, Run

\* In the fragment the interpreter implements the meaning of the script, whatever the
\* script and the capacity of the stack: what a run does, and what it registers and where
\* it comes back to, is what the script says, but for a machine dying where it pushes or
\* asks others, and for a component that the worker's leader did not take (end.rs:92).
THEOREM ScriptImplemented == Spec => ImplementsScript
  <1>1. Init => Walk
    BY DEF Init, Walk
  <1>2. Init => Intended!Init
    <2> SUFFICES ASSUME Init PROVE Intended!Init
      OBVIOUS
    <2>1. <<>> \in Seq(Frame) /\ Len(<<>>) = 0 /\ stack = <<>>
      BY DEF Init
    <2>2. \A i \in 1..Len(<<>>) : <<>>[i].kind # "component"
      BY <2>1
    <2>3. Returns = <<>> /\ Open = None
      BY <2>1, <2>2, ReturnsEmpty, OpenIs DEF Returns, Open
    <2>4. state = "start" /\ "start" \in StateNames
      BY MachineAssumption DEF Init
    <2> QED BY <2>3, <2>4 DEF Init, Intended!Init, Idle
  <1>3. IInv /\ Walk /\ [Next]_vars => Walk' /\ [Intended!Next]_(Intended!vars)
    <2> SUFFICES ASSUME IInv, Walk, [Next]_vars PROVE Walk' /\ [Intended!Next]_(Intended!vars)
      OBVIOUS
    <2>1. CASE Next /\ program \in SupportedPrograms
      BY <2>1, StepMeant
    <2>2. CASE Next /\ program \notin SupportedPrograms
      <3>1. program' = program
        BY <2>2, SameProgram
      <3>2. Walk'
        BY <2>2, <3>1 DEF Walk
      <3>3. UNCHANGED Intended!vars
        BY <2>2, <3>1 DEF Intended!vars, Idle
      <3> QED BY <3>2, <3>3
    <2>3. CASE UNCHANGED vars
      <3>1. Returns' = Returns /\ Open' = Open
        BY <2>3 DEF vars, Returns, Open
      <3>2. Walk'
        BY <2>3 DEF vars, Walk, Frames, Returns, Top
      <3>3. UNCHANGED Intended!vars
        BY <2>3, <3>1 DEF vars, Intended!vars, Idle
      <3> QED BY <3>2, <3>3
    <2> QED BY <2>1, <2>2, <2>3
  <1> QED BY <1>1, <1>2, <1>3, Typed, PTL DEF Spec, ImplementsScript, Intended!Spec
==============================================================================
