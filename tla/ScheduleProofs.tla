---------------------------- MODULE ScheduleProofs ----------------------------
(***************************************************************************)
(* Proofs about the fair queue: that fairGroupOrder lists the groups of a  *)
(* tick once each, and that projects of one priority take turns.  The      *)
(* second rests on how the rest of a tick's list stands to the cursor, and *)
(* on the projects between the cursor and the one that waits: each Task    *)
(* that goes ahead of it uses one of them up.                              *)
(***************************************************************************)
EXTENDS FairSchedule, FiniteSetTheorems, SequenceTheorems, WellFoundedInduction, TLAPS

Row == [group : DOMAIN Groups, age : 0..TopPriority, due : BOOLEAN]

PlanRow == [group : DOMAIN Groups, effective : 0..TopPriority, first : BOOLEAN]

----------------------------------------------------------------------------
(* Least numbers and places in a total order *)

\* A set of naturals has a least element.
LEMMA SmallestNumber ==
    ASSUME NEW S, S \subseteq Nat, S # {}
    PROVE  \E m \in S : \A k \in S : m <= k
<1> DEFINE R == OpToRel(<, Nat)
<1>1. IsWellFoundedOn(R, Nat)
    BY NatLessThanWellFounded
<1>2. PICK m \in S : \A y \in S : <<y, m>> \notin R
    <2> HIDE DEF R
    <2> QED BY <1>1, WFMin
<1>3. ASSUME NEW k \in S PROVE m <= k
    <2>1. SUFFICES ASSUME k < m PROVE FALSE
        OBVIOUS
    <2>2. <<k, m>> \in R
        BY <2>1 DEF OpToRel
    <2> QED BY <1>2, <2>2
<1> QED BY <1>3

\* R orders S strictly and totally.
Ordered(S, R) ==
    /\ \A x \in S : <<x, x>> \notin R
    /\ \A x, y, z \in S : <<x, y>> \in R /\ <<y, z>> \in R => <<x, z>> \in R
    /\ \A x, y \in S : x # y => <<x, y>> \in R \/ <<y, x>> \in R

\* How many members of S come before x.
Rank(S, R, x) == Cardinality({y \in S : <<y, x>> \in R})

LEMMA RankTyped ==
    ASSUME NEW S, IsFiniteSet(S), NEW R, Ordered(S, R), NEW x \in S
    PROVE  Rank(S, R, x) \in 0 .. Cardinality(S) - 1
<1> DEFINE B == {y \in S : <<y, x>> \in R}
<1>1. B \in SUBSET (S \ {x})
    BY DEF Ordered
<1>2. IsFiniteSet(S \ {x}) /\ Cardinality(S \ {x}) = Cardinality(S) - 1
    BY FS_RemoveElement
<1>3. IsFiniteSet(B) /\ Cardinality(B) <= Cardinality(S) - 1
    <2> HIDE DEF B
    <2>1. Cardinality(B) <= Cardinality(S \ {x}) /\ IsFiniteSet(B)
        BY <1>1, <1>2, FS_Subset
    <2> QED BY <2>1, <1>2
<1>4. Cardinality(B) \in Nat /\ Cardinality(S) \in Nat
    BY <1>3, FS_CardinalityType
<1> QED BY <1>3, <1>4 DEF Rank

LEMMA RankGrows ==
    ASSUME NEW S, IsFiniteSet(S), NEW R, Ordered(S, R), NEW x \in S, NEW z \in S, <<x, z>> \in R
    PROVE  Rank(S, R, x) < Rank(S, R, z)
<1> DEFINE B(u) == {y \in S : <<y, u>> \in R}
<1>1. B(x) \subseteq B(z) \ {x} /\ x \in B(z)
    BY DEF Ordered
<1>2. IsFiniteSet(B(z)) /\ IsFiniteSet(B(x))
    BY FS_Subset, B(z) \in SUBSET S, B(x) \in SUBSET S
<1>3. IsFiniteSet(B(z) \ {x}) /\ Cardinality(B(z) \ {x}) = Cardinality(B(z)) - 1
    BY <1>1, <1>2, FS_RemoveElement
<1>4. Cardinality(B(x)) <= Cardinality(B(z) \ {x})
    BY <1>1, <1>3, FS_Subset
<1>5. Cardinality(B(x)) \in Nat /\ Cardinality(B(z)) \in Nat
    BY <1>2, FS_CardinalityType
<1> QED BY <1>3, <1>4, <1>5 DEF Rank

\* Ranks tell the members apart, and every number below the size is one.
LEMMA RankOrders ==
    ASSUME NEW S, IsFiniteSet(S), NEW R, Ordered(S, R)
    PROVE  /\ \A x, z \in S : Rank(S, R, x) < Rank(S, R, z) <=> <<x, z>> \in R
           /\ \A x, z \in S : Rank(S, R, x) = Rank(S, R, z) => x = z
<1>1. \A x \in S : Rank(S, R, x) \in Int
    BY RankTyped
<1>2. \A x, z \in S : <<x, z>> \in R => Rank(S, R, x) < Rank(S, R, z)
    BY RankGrows
<1>3. \A x, z \in S : x # z => <<x, z>> \in R \/ <<z, x>> \in R
    BY DEF Ordered
<1>4. ASSUME NEW x \in S, NEW z \in S
      PROVE  /\ Rank(S, R, x) < Rank(S, R, z) <=> <<x, z>> \in R
             /\ Rank(S, R, x) = Rank(S, R, z) => x = z
    <2>1. Rank(S, R, x) \in Int /\ Rank(S, R, z) \in Int
        BY <1>1
    <2>2. <<x, x>> \notin R
        BY DEF Ordered
    <2>3. CASE x = z
        BY <2>1, <2>2, <2>3
    <2>4. CASE <<x, z>> \in R
        BY <2>1, <2>4, <1>2
    <2>5. CASE <<z, x>> \in R
        BY <2>1, <2>5, <1>2
    <2> QED BY <2>3, <2>4, <2>5, <1>3
<1> QED BY <1>4

LEMMA RankOnto ==
    ASSUME NEW S, IsFiniteSet(S), NEW R, Ordered(S, R), NEW k \in 0 .. Cardinality(S) - 1
    PROVE  \E x \in S : Rank(S, R, x) = k
<1> DEFINE n == Cardinality(S)
           f == [x \in S |-> Rank(S, R, x)]
<1>1. n \in Nat
    BY FS_CardinalityType
<1>2. IsFiniteSet(0 .. n - 1) /\ Cardinality(0 .. n - 1) = n
    <2>1. n - 1 \in Int /\ 0 \in Int
        BY <1>1
    <2> QED BY <1>1, <2>1, FS_Interval
<1>3. f \in [S -> 0 .. n - 1]
    BY RankTyped
<1>4. f \in Injection(S, 0 .. n - 1)
    BY <1>3, RankOrders DEF Injection, IsInjective
<1>5. f \in Surjection(S, 0 .. n - 1)
    <2> HIDE DEF f, n
    <2> QED BY <1>2, <1>4, FS_Injection, n = Cardinality(S) DEF n
<1> QED BY <1>5 DEF Surjection

----------------------------------------------------------------------------
(* The queue and the order of a tick *)

LEMMA OldestIs ==
    ASSUME FairTypeOK, NEW g \in Runnable
    PROVE  OldestTask(g) \in Due /\ fsQueue[OldestTask(g)].group = g
<1> DEFINE S == {i \in Due : fsQueue[i].group = g}
           Is(i) == fsQueue[i].group = g /\ \A k \in Due : fsQueue[k].group = g => i <= k
<1>1. DOMAIN fsQueue = 1..Len(fsQueue) /\ Len(fsQueue) \in Nat
    BY LenProperties DEF FairTypeOK
<1>2. S \subseteq Nat /\ S # {}
    BY <1>1 DEF Runnable, Due
<1>3. PICK m \in S : \A k \in S : m <= k
    <2> HIDE DEF S
    <2> QED BY <1>2, SmallestNumber
<1>4. m \in Due /\ Is(m)
    BY <1>3
<1>5. OldestTask(g) = CHOOSE i \in Due : Is(i)
    BY DEF OldestTask
<1>6. OldestTask(g) \in Due /\ Is(OldestTask(g))
    <2> HIDE DEF Is
    <2> QED BY <1>4, <1>5
<1> QED BY <1>6

LEMMA SoonerOrders ==
    ASSUME NEW i \in Int, NEW j \in Int, NEW k \in Int, NEW last \in Int
    PROVE  /\ ~Sooner(i, i, last)
           /\ Sooner(i, j, last) /\ Sooner(j, k, last) => Sooner(i, k, last)
           /\ i # j => Sooner(i, j, last) \/ Sooner(j, i, last)
           /\ ~(Sooner(i, j, last) /\ Sooner(j, i, last))
BY DEF Sooner

LEMMA QueuedTyped ==
    ASSUME FairTypeOK
    PROVE  /\ Queued \subseteq DOMAIN Groups /\ IsFiniteSet(Queued)
           /\ \A g \in Queued : /\ OldestTask(g) \in Nat /\ EffectivePriority(g) \in 0..TopPriority
                                /\ Groups[g].project \in Nat \ {0} /\ Groups[g].project \in Projects
           /\ \A g, h \in Queued : OldestTask(g) = OldestTask(h) => g = h
<1>1. /\ DOMAIN fsQueue = 1..Len(fsQueue) /\ Len(fsQueue) \in Nat
      /\ \A i \in DOMAIN fsQueue : fsQueue[i] \in Row
    BY LenProperties, ElementOfSeq DEF FairTypeOK, Row
<1>2. Queued \subseteq Runnable
    BY DEF Queued
<1>3. Queued \subseteq DOMAIN Groups
    BY <1>1, <1>2 DEF Runnable, Due, Row
<1>4. IsFiniteSet(Queued)
    BY <1>3, FairAssumption, FS_Subset
<1>5. ASSUME NEW g \in Queued
      PROVE  /\ OldestTask(g) \in Nat /\ EffectivePriority(g) \in 0..TopPriority
             /\ Groups[g].project \in Nat \ {0} /\ Groups[g].project \in Projects
    <2>1. OldestTask(g) \in DOMAIN fsQueue
        BY <1>2, OldestIs DEF Due
    <2>2. OldestTask(g) \in Nat /\ fsQueue[OldestTask(g)].age \in 0..TopPriority
        BY <1>1, <2>1 DEF Row
    <2>3. Groups[g].base \in 0..TopPriority /\ TopPriority \in Nat
        BY <1>3, FairAssumption
    <2>4. EffectivePriority(g) \in 0..TopPriority
        BY <2>2, <2>3, SMTT(30) DEF EffectivePriority
    <2>5. Groups[g].project \in Nat \ {0} /\ Groups[g].project \in Projects
        BY <1>3, FairAssumption DEF Projects
    <2> QED BY <2>2, <2>4, <2>5
<1>6. \A g, h \in Queued : OldestTask(g) = OldestTask(h) => g = h
    BY <1>2, OldestIs
<1> QED BY <1>3, <1>4, <1>5, <1>6

LEMMA PeersAgree ==
    ASSUME NEW g \in Queued, NEW h \in Peers(g)
    PROVE  g \in Peers(g) /\ Peers(h) = Peers(g) /\ LastPlace(h) = LastPlace(g)
<1>1. g \in Peers(g) /\ Peers(h) = Peers(g)
    BY DEF Peers
<1>2. Groups[h].project = Groups[g].project /\ EffectivePriority(h) = EffectivePriority(g)
    BY DEF Peers
<1> QED BY <1>1, <1>2 DEF LastPlace

LEMMA LastPlaceTyped ==
    ASSUME FairTypeOK, NEW g \in Queued PROVE LastPlace(g) \in Nat
<1>1. Peers(g) \subseteq Queued
    BY DEF Peers
<1>2. \A h \in Queued : OldestTask(h) \in Nat
    BY QueuedTyped
<1> QED BY <1>1, <1>2 DEF LastPlace

\* The rotated list of g's project at g's priority, as a relation.
Rotation(g) ==
    {r \in Peers(g) \X Peers(g) : Sooner(OldestTask(r[1]), OldestTask(r[2]), LastPlace(g))}

LEMMA RotationOrders ==
    ASSUME FairTypeOK, NEW g \in Queued
    PROVE  IsFiniteSet(Peers(g)) /\ Ordered(Peers(g), Rotation(g))
<1>1. Peers(g) \in SUBSET Queued
    BY DEF Peers
<1>2. IsFiniteSet(Peers(g))
    BY <1>1, QueuedTyped, FS_Subset
<1>3. LastPlace(g) \in Int
    BY LastPlaceTyped
<1>4. \A h \in Peers(g) : OldestTask(h) \in Int
    BY <1>1, QueuedTyped
<1>5. \A x, y \in Peers(g) : <<x, y>> \in Rotation(g) <=> Sooner(OldestTask(x), OldestTask(y), LastPlace(g))
    BY DEF Rotation
<1>6. \A x \in Peers(g) : <<x, x>> \notin Rotation(g)
    BY <1>3, <1>4, <1>5, SoonerOrders
<1>7. ASSUME NEW x \in Peers(g), NEW y \in Peers(g), NEW z \in Peers(g),
             <<x, y>> \in Rotation(g), <<y, z>> \in Rotation(g)
      PROVE  <<x, z>> \in Rotation(g)
    <2>1. Sooner(OldestTask(x), OldestTask(y), LastPlace(g)) /\ Sooner(OldestTask(y), OldestTask(z), LastPlace(g))
        BY <1>5, <1>7
    <2>2. Sooner(OldestTask(x), OldestTask(z), LastPlace(g))
        BY <1>3, <1>4, <2>1, SoonerOrders
    <2> QED BY <1>5, <2>2
<1>8. ASSUME NEW x \in Peers(g), NEW y \in Peers(g), x # y
      PROVE  <<x, y>> \in Rotation(g) \/ <<y, x>> \in Rotation(g)
    <2>1. OldestTask(x) # OldestTask(y)
        BY <1>1, <1>8, QueuedTyped
    <2>2. \/ Sooner(OldestTask(x), OldestTask(y), LastPlace(g))
          \/ Sooner(OldestTask(y), OldestTask(x), LastPlace(g))
        BY <1>3, <1>4, <2>1, SoonerOrders
    <2> QED BY <1>5, <2>2
<1> QED BY <1>2, <1>6, <1>7, <1>8 DEF Ordered

LEMMA TurnIsRank ==
    ASSUME FairTypeOK, NEW g \in Queued, NEW h \in Peers(g)
    PROVE  Turn(h) = Rank(Peers(g), Rotation(g), h)
<1>1. Peers(h) = Peers(g) /\ LastPlace(h) = LastPlace(g)
    BY PeersAgree
<1>2. {x \in Peers(h) : Sooner(OldestTask(x), OldestTask(h), LastPlace(h))} = {x \in Peers(g) : <<x, h>> \in Rotation(g)}
    BY <1>1 DEF Rotation
<1> QED BY <1>2 DEF Turn, Rank

\* What Turn says: the groups of a project get the rounds one by one.
LEMMA Turns ==
    ASSUME FairTypeOK, NEW g \in Queued
    PROVE  /\ Turn(g) \in Nat
           /\ \A h \in Peers(g) : /\ Turn(h) < Turn(g) <=> Sooner(OldestTask(h), OldestTask(g), LastPlace(g))
                                  /\ Turn(h) = Turn(g) => h = g
           /\ \A k \in 0..Turn(g) : \E h \in Peers(g) : Turn(h) = k
<1> DEFINE S == Peers(g)
           R == Rotation(g)
<1>1. IsFiniteSet(S) /\ Ordered(S, R) /\ g \in S
    BY RotationOrders, PeersAgree DEF Peers
<1>2. \A h \in S : Turn(h) = Rank(S, R, h)
    BY TurnIsRank
<1>3. \A h \in S : <<h, g>> \in R <=> Sooner(OldestTask(h), OldestTask(g), LastPlace(g))
    BY <1>1 DEF Rotation
<1> HIDE DEF S, R
<1>4. Cardinality(S) \in Nat
    BY <1>1, FS_CardinalityType
<1>5. Turn(g) \in 0..(Cardinality(S) - 1)
    BY <1>1, <1>2, RankTyped
<1>6. \A h \in S : Rank(S, R, h) < Rank(S, R, g) <=> <<h, g>> \in R
    BY <1>1, RankOrders
<1>7. \A h \in S : Rank(S, R, h) = Rank(S, R, g) => h = g
    BY <1>1, RankOrders
<1>8. ASSUME NEW k \in 0..Turn(g) PROVE \E h \in S : Turn(h) = k
    <2>1. k \in 0..(Cardinality(S) - 1)
        BY <1>4, <1>5
    <2> QED BY <1>1, <1>2, <2>1, RankOnto
<1>9. \A h \in S : /\ Turn(h) < Turn(g) <=> Sooner(OldestTask(h), OldestTask(g), LastPlace(g))
                   /\ Turn(h) = Turn(g) => h = g
    BY <1>1, <1>2, <1>3, <1>6, <1>7
<1> QED BY <1>4, <1>5, <1>8, <1>9 DEF S

\* fairGroupOrder compares the groups strictly and totally.
LEMMA BeforeOrders ==
    ASSUME FairTypeOK
    PROVE  /\ \A x \in Queued : ~Before(x, x)
           /\ \A x, y, z \in Queued : Before(x, y) /\ Before(y, z) => Before(x, z)
           /\ \A x, y \in Queued : x # y => Before(x, y) \/ Before(y, x)
<1> DEFINE E(x) == EffectivePriority(x)
           T(x) == Turn(x)
           H(x) == Groups[x].project
<1>1. \A x \in Queued : E(x) \in 0..TopPriority /\ T(x) \in Int /\ H(x) \in Int
    BY QueuedTyped, Turns
<1>2. \A x \in Queued : fsProjectCursor[E(x)] \in Int
    <2>1. Projects \subseteq Nat
        BY FairAssumption DEF Projects
    <2>2. \A e \in 0..TopPriority : fsProjectCursor[e] \in Projects \cup {0}
        BY DEF FairTypeOK
    <2>3. ASSUME NEW x \in Queued PROVE fsProjectCursor[E(x)] \in Int
        <3>1. E(x) \in 0..TopPriority
            BY <1>1
        <3> HIDE DEF E
        <3>2. fsProjectCursor[E(x)] \in Projects \cup {0}
            BY <2>2, <3>1
        <3>3. Projects \cup {0} \subseteq Int
            BY <2>1
        <3> QED BY <3>2, <3>3
    <2> QED BY <2>3
<1>3. TopPriority \in Nat
    BY FairAssumption
<1>4. \A x, y \in Queued : Before(x, y) <=>
          \/ E(x) > E(y)
          \/ E(x) = E(y) /\ T(x) < T(y)
          \/ E(x) = E(y) /\ T(x) = T(y) /\ Sooner(H(x), H(y), fsProjectCursor[E(x)])
    BY DEF Before, ProjectSooner
<1>5. \A x, y \in Queued : E(x) = E(y) /\ T(x) = T(y) /\ H(x) = H(y) => x = y
    <2> SUFFICES ASSUME NEW x \in Queued, NEW y \in Queued, E(x) = E(y), T(x) = T(y), H(x) = H(y)
                 PROVE  x = y
        OBVIOUS
    <2>1. y \in Peers(x)
        BY DEF Peers
    <2> QED BY <2>1, Turns
<1> HIDE DEF E, T, H
<1>6. \A x \in Queued : ~Before(x, x)
    BY <1>1, <1>2, <1>3, <1>4, SoonerOrders
<1>7. ASSUME NEW x \in Queued, NEW y \in Queued, NEW z \in Queued, Before(x, y), Before(y, z)
      PROVE  Before(x, z)
    <2>1. /\ E(x) \in Int /\ E(y) \in Int /\ E(z) \in Int
          /\ T(x) \in Int /\ T(y) \in Int /\ T(z) \in Int
          /\ H(x) \in Int /\ H(y) \in Int /\ H(z) \in Int
        BY <1>1, <1>3
    <2>2. CASE E(x) > E(y) \/ E(y) > E(z)
        <3>1. E(x) > E(z)
            BY <2>1, <2>2, <1>4, <1>7
        <3> QED BY <1>4, <3>1
    <2>3. CASE ~(E(x) > E(y) \/ E(y) > E(z))
        <3>1. E(x) = E(y) /\ E(y) = E(z) /\ T(x) <= T(y) /\ T(y) <= T(z)
            BY <1>4, <1>7, <2>1, <2>3
        <3>2. CASE T(x) < T(z)
            BY <1>4, <3>1, <3>2
        <3>3. CASE ~(T(x) < T(z))
            <4>1. T(x) = T(y) /\ T(y) = T(z)
                BY <2>1, <3>1, <3>3
            <4>2. Sooner(H(x), H(y), fsProjectCursor[E(x)]) /\ Sooner(H(y), H(z), fsProjectCursor[E(x)])
                BY <1>4, <1>7, <2>1, <3>1, <4>1
            <4>3. Sooner(H(x), H(z), fsProjectCursor[E(x)])
                BY <1>2, <2>1, <4>2, SoonerOrders
            <4> QED BY <1>4, <3>1, <4>1, <4>3
        <3> QED BY <3>2, <3>3
    <2> QED BY <2>2, <2>3
<1>8. ASSUME NEW x \in Queued, NEW y \in Queued, x # y
      PROVE  Before(x, y) \/ Before(y, x)
    <2>1. /\ E(x) \in Int /\ E(y) \in Int
          /\ T(x) \in Int /\ T(y) \in Int /\ H(x) \in Int /\ H(y) \in Int
        BY <1>1, <1>3
    <2>2. CASE E(x) # E(y) \/ T(x) # T(y)
        BY <1>4, <2>1, <2>2
    <2>3. CASE E(x) = E(y) /\ T(x) = T(y)
        <3>1. H(x) # H(y)
            BY <1>5, <1>8, <2>3
        <3>2. Sooner(H(x), H(y), fsProjectCursor[E(x)]) \/ Sooner(H(y), H(x), fsProjectCursor[E(x)])
            BY <1>2, <2>1, <3>1, SoonerOrders
        <3> QED BY <1>4, <2>3, <3>2
    <2> QED BY <2>2, <2>3
<1> QED BY <1>6, <1>7, <1>8

\* fairGroupOrder lists every group of the tick, in that order.
LEMMA OrderLists ==
    ASSUME FairTypeOK
    PROVE  /\ Cardinality(Queued) \in Nat
           /\ FairGroupOrder \in Seq(Queued) /\ Len(FairGroupOrder) = Cardinality(Queued)
           /\ \A g \in Queued : \E i \in 1..Cardinality(Queued) : FairGroupOrder[i] = g
           /\ \A i, k \in 1..Cardinality(Queued) :
                 i < k <=> Before(FairGroupOrder[i], FairGroupOrder[k])
<1> DEFINE R == {r \in Queued \X Queued : Before(r[1], r[2])}
           n == Cardinality(Queued)
<1>1. \A x, y \in Queued : <<x, y>> \in R <=> Before(x, y)
    OBVIOUS
<1>2. IsFiniteSet(Queued)
    BY QueuedTyped
<1>3. Ordered(Queued, R)
    <2> HIDE DEF R
    <2> QED BY <1>1, BeforeOrders DEF Ordered
<1>4. \A x \in Queued : Place(x) = 1 + Rank(Queued, R, x)
    BY DEF Place, Rank
<1>5. n \in Nat
    BY <1>2, FS_CardinalityType
<1> HIDE DEF R
<1>6. \A x \in Queued : Place(x) \in 1..n
    BY <1>2, <1>3, <1>4, <1>5, RankTyped
<1>7. \A i \in 1..n : \E x \in Queued : Place(x) = i
    <2> SUFFICES ASSUME NEW i \in 1..n PROVE \E x \in Queued : Place(x) = i
        OBVIOUS
    <2>1. i - 1 \in 0..(Cardinality(Queued) - 1)
        BY <1>5
    <2>2. PICK x \in Queued : Rank(Queued, R, x) = i - 1
        BY <1>2, <1>3, <2>1, RankOnto
    <2> QED BY <1>4, <2>2
<1>8. \A x, y \in Queued : /\ Place(x) < Place(y) <=> Before(x, y)
                           /\ Place(x) = Place(y) => x = y
    <2> SUFFICES ASSUME NEW x \in Queued, NEW y \in Queued
                 PROVE  /\ Place(x) < Place(y) <=> Before(x, y)
                        /\ Place(x) = Place(y) => x = y
        OBVIOUS
    <2>1. /\ Rank(Queued, R, x) < Rank(Queued, R, y) <=> <<x, y>> \in R
          /\ Rank(Queued, R, x) = Rank(Queued, R, y) => x = y
        BY <1>2, <1>3, RankOrders
    <2>2. Rank(Queued, R, x) \in Int /\ Rank(Queued, R, y) \in Int
        BY <1>2, <1>3, RankTyped
    <2> QED BY <1>1, <1>4, <2>1, <2>2
<1>9. \A i \in 1..n : FairGroupOrder[i] \in Queued /\ Place(FairGroupOrder[i]) = i
    <2> SUFFICES ASSUME NEW i \in 1..n PROVE FairGroupOrder[i] \in Queued /\ Place(FairGroupOrder[i]) = i
        OBVIOUS
    <2>1. FairGroupOrder[i] = CHOOSE g \in Queued : Place(g) = i
        BY DEF FairGroupOrder
    <2> QED BY <1>7, <2>1
<1>10. FairGroupOrder \in Seq(Queued) /\ Len(FairGroupOrder) = n
    <2>1. FairGroupOrder \in [1..n -> Queued]
        BY <1>9 DEF FairGroupOrder
    <2> HIDE DEF n
    <2> QED BY <1>5, <2>1
<1>11. ASSUME NEW g \in Queued PROVE \E i \in 1..n : FairGroupOrder[i] = g
    <2>1. Place(g) \in 1..n
        BY <1>6
    <2>2. FairGroupOrder[Place(g)] = g
        BY <1>8, <1>9, <2>1
    <2> QED BY <2>1, <2>2
<1>12. ASSUME NEW i \in 1..n, NEW k \in 1..n
       PROVE  i < k <=> Before(FairGroupOrder[i], FairGroupOrder[k])
    BY <1>8, <1>9
<1> QED BY <1>5, <1>10, <1>11, <1>12

----------------------------------------------------------------------------
(* Types *)

\* A Task is taken out of the queue.
LEMMA TakenOut ==
    ASSUME NEW q \in Seq(Row), NEW d \in 1..Len(q)
    PROVE  RemoveAt(q, d) \in Seq(Row)
<1>1. Len(q) \in Nat /\ \A i \in 1..Len(q) : q[i] \in Row
    BY LenProperties, ElementOfSeq
<1>2. SubSeq(q, 1, d - 1) \in Seq(Row)
    <2>1. 1 \in Int /\ d - 1 \in Int /\ \A i \in 1..(d - 1) : q[i] \in Row
        BY <1>1
    <2> QED BY <2>1, SubSeqProperties
<1>3. SubSeq(q, d + 1, Len(q)) \in Seq(Row)
    <2>1. d + 1 \in Int /\ Len(q) \in Int /\ \A i \in (d + 1)..Len(q) : q[i] \in Row
        BY <1>1
    <2> QED BY <2>1, SubSeqProperties
<1> QED BY <1>2, <1>3, ConcatProperties DEF RemoveAt

LEMMA QueueRows ==
    ASSUME FairTypeOK
    PROVE  /\ fsQueue \in Seq(Row) /\ Len(fsQueue) \in Nat /\ DOMAIN fsQueue = 1..Len(fsQueue)
           /\ \A i \in DOMAIN fsQueue : fsQueue[i] \in Row
           /\ Due \subseteq DOMAIN fsQueue
<1>1. fsQueue \in Seq(Row)
    BY DEF FairTypeOK, Row
<1> QED BY <1>1, LenProperties, ElementOfSeq DEF Due

LEMMA PlanRows ==
    ASSUME FairTypeOK
    PROVE  /\ fsPlan \in Seq(PlanRow) /\ Len(fsPlan) \in Nat /\ DOMAIN fsPlan = 1..Len(fsPlan)
           /\ \A i \in DOMAIN fsPlan : fsPlan[i] \in PlanRow
<1>1. fsPlan \in Seq(PlanRow)
    BY DEF FairTypeOK, PlanRow
<1> QED BY <1>1, LenProperties, ElementOfSeq

\* The queue keeps its type when a Task is added, ages, falls due or is taken out.
LEMMA QueueKept ==
    ASSUME FairTypeOK,
           \/ \E g \in DOMAIN Groups, n \in 1..2 : SubmitGroup(g, n)
           \/ \E g \in DOMAIN Groups, due \in BOOLEAN : RequeueTask(g, due)
           \/ \E i \in DOMAIN fsQueue : RetryDue(i)
           \/ AgingPasses
           \/ \E i \in DOMAIN fsQueue : fsQueue' = RemoveAt(fsQueue, i)
           \/ UNCHANGED fsQueue
    PROVE  fsQueue' \in Seq(Row)
<1>0. /\ fsQueue \in Seq(Row) /\ Len(fsQueue) \in Nat /\ DOMAIN fsQueue = 1..Len(fsQueue)
      /\ \A i \in DOMAIN fsQueue : fsQueue[i] \in Row
    BY QueueRows
<1>00. TopPriority \in Nat
    BY FairAssumption
<1>1. ASSUME NEW g \in DOMAIN Groups, NEW n \in 1..2, SubmitGroup(g, n) PROVE fsQueue' \in Seq(Row)
    <2> DEFINE t == [i \in 1..n |-> [group |-> g, age |-> 0, due |-> TRUE]]
    <2>1. t \in [1..n -> Row]
        BY <1>00 DEF Row
    <2>2. fsQueue' = fsQueue \o t
        BY <1>1 DEF SubmitGroup
    <2> HIDE DEF t
    <2>3. t \in Seq(Row)
        BY <2>1
    <2> QED BY <1>0, <2>2, <2>3, ConcatProperties
<1>2. ASSUME NEW g \in DOMAIN Groups, NEW due \in BOOLEAN, RequeueTask(g, due) PROVE fsQueue' \in Seq(Row)
    <2>1. [group |-> g, age |-> 0, due |-> due] \in Row
        BY <1>00 DEF Row
    <2>2. fsQueue' = Append(fsQueue, [group |-> g, age |-> 0, due |-> due])
        BY <1>2 DEF RequeueTask
    <2> QED BY <1>0, <2>1, <2>2, AppendProperties
<1>3. ASSUME NEW i \in DOMAIN fsQueue, RetryDue(i) PROVE fsQueue' \in Seq(Row)
    <2> DEFINE r == [fsQueue[i] EXCEPT !.due = TRUE]
    <2>1. r \in Row
        BY <1>0 DEF Row
    <2>2. fsQueue' = [fsQueue EXCEPT ![i] = r]
        BY <1>3 DEF RetryDue
    <2> HIDE DEF r
    <2> QED BY <1>0, <2>1, <2>2, ExceptSeq
<1>4. CASE AgingPasses
    <2> DEFINE r(i) == [fsQueue[i] EXCEPT !.age = IF @ < TopPriority THEN @ + 1 ELSE @]
    <2>1. \A i \in 1..Len(fsQueue) : r(i) \in Row
        BY <1>0, <1>00 DEF Row
    <2>2. fsQueue' = [i \in 1..Len(fsQueue) |-> r(i)]
        BY <1>0, <1>4 DEF AgingPasses
    <2> HIDE DEF r
    <2>3. fsQueue' \in [1..Len(fsQueue) -> Row]
        BY <2>1, <2>2
    <2> QED BY <1>0, <2>3
<1>5. ASSUME NEW i \in DOMAIN fsQueue, fsQueue' = RemoveAt(fsQueue, i) PROVE fsQueue' \in Seq(Row)
    BY <1>0, <1>5, TakenOut
<1>6. CASE UNCHANGED fsQueue
    BY <1>0, <1>6
<1> QED BY <1>1, <1>2, <1>3, <1>4, <1>5, <1>6

----------------------------------------------------------------------------

----------------------------------------------------------------------------
(* The rest of a tick *)

Home(g) == Groups[g].project

\* Before the first turn of a project at a priority, the others follow each
\* other from the cursor on, and the cursor comes after none of them.
TurnsBegin ==
    \A k \in DOMAIN fsPlan : \A i \in 1..(k - 1) :
        fsPlan[k].first /\ fsPlan[i].effective = fsPlan[k].effective =>
            Sooner(Home(fsPlan[i].group), Home(fsPlan[k].group), fsProjectCursor[fsPlan[k].effective])

TurnsFollow ==
    \A k \in DOMAIN fsPlan : \A i, j \in 1..(k - 1) :
        fsPlan[k].first /\ i < j /\ fsPlan[i].effective = fsPlan[k].effective
                        /\ fsPlan[j].effective = fsPlan[k].effective =>
            Sooner(Home(fsPlan[j].group), Home(fsPlan[k].group), Home(fsPlan[i].group))

\* The other projects that come between the cursor of a priority and project p.
Ahead(e, p) == {q \in Projects \ {p} : Sooner(q, p, fsProjectCursor[e])}

\* What passed a project and what still can are fewer than the projects.
Measured ==
    \A e \in 0..TopPriority, p \in Projects :
        fsBypass[<<e, p>>] + Cardinality(Ahead(e, p)) <= Cardinality(Projects) - 1

FairInv == FairTypeOK /\ TurnsBegin /\ TurnsFollow /\ Measured

LEMMA SoonerCycle ==
    ASSUME NEW x \in Int, NEW z \in Int, NEW p \in Int, NEW c \in Int,
           Sooner(x, z, c), Sooner(z, p, c)
    PROVE  Sooner(z, p, x)
BY DEF Sooner

LEMMA SoonerNests ==
    ASSUME NEW q \in Int, NEW r \in Int, NEW p \in Int, NEW c \in Int,
           Sooner(q, p, c), Sooner(r, p, q)
    PROVE  Sooner(r, p, c) /\ r # q
BY DEF Sooner

LEMMA CursorTyped ==
    ASSUME FairTypeOK, NEW e \in 0..TopPriority PROVE fsProjectCursor[e] \in Int
<1>1. Projects \cup {0} \subseteq Int
    BY FairAssumption DEF Projects
<1>2. fsProjectCursor[e] \in Projects \cup {0}
    BY DEF FairTypeOK
<1> QED BY <1>1, <1>2

LEMMA ProjectsFinite ==
    IsFiniteSet(Projects) /\ Projects \subseteq Int
<1>1. Projects \subseteq Int
    BY FairAssumption DEF Projects
<1>2. IsFiniteSet(Projects)
    <2> DEFINE f == [g \in DOMAIN Groups |-> Groups[g].project]
    <2>1. f \in Surjection(DOMAIN Groups, Projects)
        BY DEF Surjection, Projects
    <2>2. IsFiniteSet(DOMAIN Groups)
        BY FairAssumption
    <2> HIDE DEF f
    <2> QED BY <2>1, <2>2, FS_Surjection
<1> QED BY <1>1, <1>2

LEMMA AheadTyped ==
    ASSUME NEW e, NEW p \in Projects
    PROVE  /\ IsFiniteSet(Ahead(e, p)) /\ Cardinality(Ahead(e, p)) \in Nat
           /\ Cardinality(Ahead(e, p)) <= Cardinality(Projects) - 1
           /\ Cardinality(Ahead(e, p)') \in Nat
           /\ Cardinality(Ahead(e, p)') <= Cardinality(Projects) - 1
           /\ Cardinality(Projects) \in Nat
<1>1. IsFiniteSet(Projects \ {p}) /\ Cardinality(Projects \ {p}) = Cardinality(Projects) - 1
    BY ProjectsFinite, FS_RemoveElement
<1>2. Ahead(e, p) \in SUBSET (Projects \ {p}) /\ Ahead(e, p)' \in SUBSET (Projects \ {p})
    BY DEF Ahead
<1>3. \A S \in SUBSET (Projects \ {p}) : /\ IsFiniteSet(S) /\ Cardinality(S) \in Nat
                                         /\ Cardinality(S) <= Cardinality(Projects \ {p})
    BY <1>1, FS_Subset, FS_CardinalityType
<1>4. Cardinality(Projects) \in Nat
    BY ProjectsFinite, FS_CardinalityType
<1> QED BY <1>1, <1>2, <1>3, <1>4

\* The plan of a tick, entry by entry.
LEMMA TickPlan ==
    ASSUME FairTypeOK, StartTick
    PROVE  \E n \in Nat : \E order \in [1..n -> Queued] :
              /\ DOMAIN fsPlan' = 1..n /\ fsPlan' \in Seq(PlanRow)
              /\ \A i \in 1..n : /\ fsPlan'[i].group = order[i]
                                 /\ fsPlan'[i].effective = EffectivePriority(order[i])
                                 /\ fsPlan'[i].first <=> Turn(order[i]) = 0
              /\ \A i, k \in 1..n : i < k => Before(order[i], order[k])
<1> DEFINE n == Cardinality(Queued)
           row(i) == [group |-> FairGroupOrder[i], effective |-> EffectivePriority(FairGroupOrder[i]),
                      first |-> Turn(FairGroupOrder[i]) = 0]
<1>1. /\ n \in Nat /\ FairGroupOrder \in Seq(Queued) /\ Len(FairGroupOrder) = n
      /\ \A i, k \in 1..n : i < k => Before(FairGroupOrder[i], FairGroupOrder[k])
    BY OrderLists
<1>2. FairGroupOrder \in [1..n -> Queued]
    BY <1>1, LenProperties
<1>3. fsPlan' = [i \in 1..n |-> row(i)]
    BY <1>1 DEF StartTick
<1>4. \A i \in 1..n : row(i) \in PlanRow
    BY <1>2, QueuedTyped DEF PlanRow
<1>5. \A i \in 1..n : /\ fsPlan'[i] = row(i) /\ fsPlan'[i].group = FairGroupOrder[i]
                      /\ fsPlan'[i].effective = EffectivePriority(FairGroupOrder[i])
                      /\ fsPlan'[i].first <=> Turn(FairGroupOrder[i]) = 0
    BY <1>3
<1>6. fsPlan' \in Seq(PlanRow) /\ DOMAIN fsPlan' = 1..n
    <2>1. fsPlan' \in [1..n -> PlanRow]
        BY <1>3, <1>4
    <2> HIDE DEF n
    <2> QED BY <1>1, <2>1
<1> HIDE DEF n, row
<1> QED BY <1>1, <1>2, <1>5, <1>6

LEMMA PlanStarts ==
    ASSUME FairTypeOK, StartTick
    PROVE  TurnsBegin' /\ TurnsFollow'
<1>1. fsProjectCursor' = fsProjectCursor
    BY DEF StartTick
<1>2. PICK n \in Nat : \E order \in [1..n -> Queued] :
              /\ DOMAIN fsPlan' = 1..n
              /\ \A i \in 1..n : /\ fsPlan'[i].group = order[i]
                                 /\ fsPlan'[i].effective = EffectivePriority(order[i])
                                 /\ fsPlan'[i].first <=> Turn(order[i]) = 0
              /\ \A i, k \in 1..n : i < k => Before(order[i], order[k])
    BY TickPlan
<1>3. PICK order \in [1..n -> Queued] :
              /\ DOMAIN fsPlan' = 1..n
              /\ \A i \in 1..n : /\ fsPlan'[i].group = order[i]
                                 /\ fsPlan'[i].effective = EffectivePriority(order[i])
                                 /\ fsPlan'[i].first <=> Turn(order[i]) = 0
              /\ \A i, k \in 1..n : i < k => Before(order[i], order[k])
    BY <1>2
<1>4. ASSUME NEW x \in Queued, NEW y \in Queued, Before(x, y), Turn(y) = 0,
             EffectivePriority(x) = EffectivePriority(y)
      PROVE  Turn(x) = 0 /\ Sooner(Home(x), Home(y), fsProjectCursor[EffectivePriority(y)])
    <2>1. Turn(x) \in Nat /\ EffectivePriority(x) \in Int
        BY Turns, QueuedTyped
    <2> QED BY <1>4, <2>1 DEF Before, ProjectSooner, Home
<1>5. ASSUME NEW k \in 1..n, NEW i \in 1..(k - 1), fsPlan'[k].first,
             fsPlan'[i].effective = fsPlan'[k].effective
      PROVE  /\ Turn(order[i]) = 0
             /\ Sooner(Home(order[i]), Home(order[k]), fsProjectCursor[EffectivePriority(order[k])])
    <2>1. i \in 1..n /\ i < k
        BY <1>2
    <2>2. /\ Before(order[i], order[k]) /\ Turn(order[k]) = 0
          /\ EffectivePriority(order[i]) = EffectivePriority(order[k])
        BY <1>3, <1>5, <2>1
    <2>3. order[i] \in Queued /\ order[k] \in Queued
        BY <2>1
    <2> QED BY <1>4, <2>2, <2>3
<1>6. TurnsBegin'
    <2> SUFFICES ASSUME NEW k \in 1..n, NEW i \in 1..(k - 1), fsPlan'[k].first,
                        fsPlan'[i].effective = fsPlan'[k].effective
                 PROVE  Sooner(Home(fsPlan'[i].group), Home(fsPlan'[k].group), fsProjectCursor'[fsPlan'[k].effective])
        BY <1>3 DEF TurnsBegin, Home, Sooner
    <2>1. i \in 1..n
        BY <1>2
    <2> QED BY <1>1, <1>3, <1>5, <2>1
<1>7. TurnsFollow'
    <2> SUFFICES ASSUME NEW k \in 1..n, NEW i \in 1..(k - 1), NEW j \in 1..(k - 1), fsPlan'[k].first, i < j,
                        fsPlan'[i].effective = fsPlan'[k].effective, fsPlan'[j].effective = fsPlan'[k].effective
                 PROVE  Sooner(Home(fsPlan'[j].group), Home(fsPlan'[k].group), Home(fsPlan'[i].group))
        BY <1>3 DEF TurnsFollow, Home, Sooner
    <2>1. i \in 1..n /\ j \in 1..n /\ i \in 1..(j - 1)
        BY <1>2
    <2>2. PICK c : c = fsProjectCursor[EffectivePriority(order[k])]
        OBVIOUS
    <2>3. Turn(order[j]) = 0 /\ Sooner(Home(order[j]), Home(order[k]), c)
        BY <1>5, <2>2
    <2>4. EffectivePriority(order[j]) = EffectivePriority(order[k]) /\ fsPlan'[j].first
        BY <1>3, <2>1, <2>3
    <2>5. fsPlan'[i].effective = fsPlan'[j].effective
        OBVIOUS
    <2>6. Sooner(Home(order[i]), Home(order[j]), c)
        BY <1>5, <2>1, <2>2, <2>4, <2>5
    <2>7. order[i] \in Queued /\ order[j] \in Queued /\ order[k] \in Queued
        BY <2>1
    <2>8. Home(order[i]) \in Int /\ Home(order[j]) \in Int /\ Home(order[k]) \in Int /\ c \in Int
        <3>1. EffectivePriority(order[k]) \in 0..TopPriority
            BY <2>7, QueuedTyped
        <3>2. c \in Int
            BY <2>2, <3>1, CursorTyped
        <3>3. \A g \in Queued : Home(g) \in Int
            <4>1. ASSUME NEW g \in Queued PROVE Home(g) \in Int
                BY QueuedTyped DEF Home
            <4> QED BY <4>1
        <3> QED BY <2>7, <3>2, <3>3
    <2>9. Sooner(Home(order[j]), Home(order[k]), Home(order[i]))
        BY <2>3, <2>6, <2>8, SoonerCycle
    <2>10. fsPlan'[i].group = order[i] /\ fsPlan'[j].group = order[j] /\ fsPlan'[k].group = order[k]
        BY <1>3, <2>1
    <2> QED BY <2>9, <2>10
<1> QED BY <1>6, <1>7

\* The first entry of the list is served or passed over.
LEMMA PlanShifts ==
    ASSUME FairTypeOK, fsPlan # <<>>, fsPlan' = Tail(fsPlan)
    PROVE  /\ fsPlan' \in Seq(PlanRow) /\ DOMAIN fsPlan' = 1..(Len(fsPlan) - 1)
           /\ Len(fsPlan) \in Nat \ {0} /\ Head(fsPlan) = fsPlan[1] /\ Head(fsPlan) \in PlanRow
           /\ \A i \in DOMAIN fsPlan' : i + 1 \in DOMAIN fsPlan /\ fsPlan'[i] = fsPlan[i + 1]
<1>1. fsPlan \in Seq(PlanRow) /\ Len(fsPlan) \in Nat /\ DOMAIN fsPlan = 1..Len(fsPlan)
    BY PlanRows
<1>2. Len(fsPlan) # 0
    BY <1>1, EmptySeq
<1>3. /\ fsPlan' \in Seq(PlanRow) /\ Len(fsPlan') = Len(fsPlan) - 1
      /\ \A i \in 1..Len(fsPlan') : fsPlan'[i] = fsPlan[i + 1]
      /\ Head(fsPlan) = fsPlan[1] /\ Head(fsPlan) \in PlanRow
    BY <1>1, HeadTailProperties
<1>4. DOMAIN fsPlan' = 1..(Len(fsPlan) - 1)
    BY <1>3, LenProperties
<1> QED BY <1>1, <1>2, <1>3, <1>4

LEMMA TurnsStay ==
    ASSUME FairTypeOK, TurnsBegin, TurnsFollow, fsPlan # <<>>, fsPlan' = Tail(fsPlan)
    PROVE  /\ TurnsFollow'
           /\ UNCHANGED fsProjectCursor => TurnsBegin'
           /\ fsProjectCursor' = [fsProjectCursor EXCEPT ![Head(fsPlan).effective] = Home(Head(fsPlan).group)]
                => TurnsBegin'
<1>1. /\ DOMAIN fsPlan = 1..Len(fsPlan) /\ DOMAIN fsPlan' = 1..(Len(fsPlan) - 1) /\ Len(fsPlan) \in Nat \ {0}
      /\ Head(fsPlan) = fsPlan[1]
      /\ \A i \in DOMAIN fsPlan' : i + 1 \in DOMAIN fsPlan /\ fsPlan'[i] = fsPlan[i + 1]
    BY PlanShifts, PlanRows
<1>2. TurnsFollow'
    <2> SUFFICES ASSUME NEW k \in DOMAIN fsPlan', NEW i \in 1..(k - 1), NEW j \in 1..(k - 1), fsPlan'[k].first, i < j,
                        fsPlan'[i].effective = fsPlan'[k].effective, fsPlan'[j].effective = fsPlan'[k].effective
                 PROVE  Sooner(Home(fsPlan'[j].group), Home(fsPlan'[k].group), Home(fsPlan'[i].group))
        BY DEF TurnsFollow, Home, Sooner
    <2>1. i \in DOMAIN fsPlan' /\ j \in DOMAIN fsPlan'
        BY <1>1
    <2>2. k + 1 \in DOMAIN fsPlan /\ i + 1 \in 1..((k + 1) - 1) /\ j + 1 \in 1..((k + 1) - 1) /\ i + 1 < j + 1
        BY <1>1
    <2>3. fsPlan'[i] = fsPlan[i + 1] /\ fsPlan'[j] = fsPlan[j + 1] /\ fsPlan'[k] = fsPlan[k + 1]
        BY <1>1, <2>1
    <2> QED BY <2>2, <2>3 DEF TurnsFollow
<1>3. ASSUME NEW k \in DOMAIN fsPlan', NEW i \in 1..(k - 1), fsPlan'[k].first,
             fsPlan'[i].effective = fsPlan'[k].effective
      PROVE  /\ fsPlan'[i] = fsPlan[i + 1] /\ fsPlan'[k] = fsPlan[k + 1]
             /\ Sooner(Home(fsPlan'[i].group), Home(fsPlan'[k].group), fsProjectCursor[fsPlan'[k].effective])
             /\ fsPlan[1].effective = fsPlan'[k].effective =>
                    Sooner(Home(fsPlan'[i].group), Home(fsPlan'[k].group), Home(fsPlan[1].group))
    <2>1. i \in DOMAIN fsPlan'
        BY <1>1
    <2>2. k + 1 \in DOMAIN fsPlan /\ i + 1 \in 1..((k + 1) - 1) /\ 1 \in 1..((k + 1) - 1) /\ 1 < i + 1
        BY <1>1
    <2>3. fsPlan'[i] = fsPlan[i + 1] /\ fsPlan'[k] = fsPlan[k + 1]
        BY <1>1, <2>1
    <2>4. fsPlan[k + 1].first /\ fsPlan[i + 1].effective = fsPlan[k + 1].effective
        BY <1>3, <2>3
    <2>5. Sooner(Home(fsPlan[i + 1].group), Home(fsPlan[k + 1].group), fsProjectCursor[fsPlan[k + 1].effective])
        BY <2>2, <2>4 DEF TurnsBegin
    <2>6. fsPlan[1].effective = fsPlan[k + 1].effective =>
              Sooner(Home(fsPlan[i + 1].group), Home(fsPlan[k + 1].group), Home(fsPlan[1].group))
        BY <2>2, <2>4 DEF TurnsFollow
    <2> QED BY <2>3, <2>5, <2>6
<1>4. ASSUME UNCHANGED fsProjectCursor PROVE TurnsBegin'
    <2> SUFFICES ASSUME NEW k \in DOMAIN fsPlan', NEW i \in 1..(k - 1), fsPlan'[k].first,
                        fsPlan'[i].effective = fsPlan'[k].effective
                 PROVE  Sooner(Home(fsPlan'[i].group), Home(fsPlan'[k].group), fsProjectCursor'[fsPlan'[k].effective])
        BY DEF TurnsBegin, Home, Sooner
    <2> QED BY <1>3, <1>4
<1>5. ASSUME fsProjectCursor' = [fsProjectCursor EXCEPT ![Head(fsPlan).effective] = Home(Head(fsPlan).group)]
      PROVE  TurnsBegin'
    <2> SUFFICES ASSUME NEW k \in DOMAIN fsPlan', NEW i \in 1..(k - 1), fsPlan'[k].first,
                        fsPlan'[i].effective = fsPlan'[k].effective
                 PROVE  Sooner(Home(fsPlan'[i].group), Home(fsPlan'[k].group), fsProjectCursor'[fsPlan'[k].effective])
        BY DEF TurnsBegin, Home, Sooner
    <2>1. k + 1 \in DOMAIN fsPlan /\ fsPlan'[k] = fsPlan[k + 1]
        BY <1>1
    <2>2. fsPlan'[k].effective \in DOMAIN fsProjectCursor
        BY <2>1, PlanRows DEF PlanRow, FairTypeOK
    <2>3. fsProjectCursor'[fsPlan'[k].effective] =
              IF fsPlan'[k].effective = fsPlan[1].effective THEN Home(fsPlan[1].group)
              ELSE fsProjectCursor[fsPlan'[k].effective]
        BY <1>1, <1>5, <2>2
    <2>4. CASE fsPlan'[k].effective = fsPlan[1].effective
        BY <1>3, <2>3, <2>4
    <2>5. CASE fsPlan'[k].effective # fsPlan[1].effective
        BY <1>3, <2>3, <2>5
    <2> QED BY <2>4, <2>5
<1> QED BY <1>2, <1>4, <1>5

\* A Task that goes ahead of a waiting project uses up its own project's turn.
LEMMA DispatchMeasured ==
    ASSUME FairTypeOK, TurnsBegin, Measured, NEW i \in DOMAIN fsQueue, DispatchGroup(i)
    PROVE  Measured' /\ fsBypass' \in [Levels -> Nat]
<1> DEFINE h == Head(fsPlan)
           q == Home(h.group)
<1>1. /\ fsPlan # <<>> /\ fsPlan' = Tail(fsPlan)
      /\ fsProjectCursor' = [fsProjectCursor EXCEPT ![h.effective] = q]
      /\ fsBypass' = [l \in Levels |-> IF l[1] # h.effective THEN fsBypass[l]
                                       ELSE IF l \in Waiting THEN fsBypass[l] + 1 ELSE 0]
    BY DEF DispatchGroup, Home
<1>2. /\ DOMAIN fsPlan = 1..Len(fsPlan) /\ Len(fsPlan) \in Nat \ {0} /\ h = fsPlan[1] /\ h \in PlanRow
    BY <1>1, PlanShifts, PlanRows
<1>3. h.effective \in 0..TopPriority /\ q \in Int /\ q \in Projects
    BY <1>2, ProjectsFinite DEF PlanRow, Projects, Home
<1> HIDE DEF h, q
<1>4. fsBypass \in [Levels -> Nat] /\ fsProjectCursor \in [0..TopPriority -> Projects \cup {0}]
    BY DEF FairTypeOK
<1>5. fsBypass' \in [Levels -> Nat]
    BY <1>1, <1>4
<1>6. ASSUME NEW e \in 0..TopPriority, NEW p \in Projects
      PROVE  fsBypass'[<<e, p>>] + Cardinality(Ahead(e, p)') <= Cardinality(Projects) - 1
    <2>1. <<e, p>> \in Levels /\ <<e, p>>[1] = e
        BY DEF Levels
    <2>2. /\ fsBypass'[<<e, p>>] = IF e # h.effective THEN fsBypass[<<e, p>>]
                                   ELSE IF <<e, p>> \in Waiting THEN fsBypass[<<e, p>>] + 1 ELSE 0
          /\ fsBypass[<<e, p>>] \in Nat
        BY <1>1, <1>4, <2>1
    <2>3. /\ Cardinality(Ahead(e, p)) \in Nat /\ Cardinality(Ahead(e, p)') \in Nat
          /\ Cardinality(Ahead(e, p)') <= Cardinality(Projects) - 1 /\ Cardinality(Projects) \in Nat
          /\ IsFiniteSet(Ahead(e, p))
        BY AheadTyped
    <2>4. fsBypass[<<e, p>>] + Cardinality(Ahead(e, p)) <= Cardinality(Projects) - 1
        BY DEF Measured
    <2>5. CASE e # h.effective
        <3>1. fsProjectCursor'[e] = fsProjectCursor[e]
            BY <1>1, <1>4, <2>5
        <3>2. Ahead(e, p)' = Ahead(e, p)
            BY <3>1 DEF Ahead
        <3> QED BY <2>2, <2>4, <2>5, <3>2
    <2>6. CASE e = h.effective /\ <<e, p>> \notin Waiting
        BY <2>2, <2>3, <2>6
    <2>7. CASE e = h.effective /\ <<e, p>> \in Waiting
        <3>1. PICK k \in 2..Len(fsPlan) : fsPlan[k].first /\ LevelOf(fsPlan[k]) = <<e, p>>
            BY <2>7 DEF Waiting
        <3>2. fsPlan[k].effective = e /\ Home(fsPlan[k].group) = p
            BY <3>1 DEF LevelOf, Home
        <3>3. k \in DOMAIN fsPlan /\ 1 \in 1..(k - 1)
            BY <1>2
        <3>4. Sooner(q, p, fsProjectCursor[e])
            BY <1>2, <2>7, <3>1, <3>2, <3>3 DEF TurnsBegin, q
        <3>5. fsProjectCursor[e] \in Int /\ p \in Int
            BY CursorTyped, ProjectsFinite
        <3>6. q # p
            BY <1>3, <3>4, <3>5, SoonerOrders
        <3>7. q \in Ahead(e, p)
            BY <1>3, <3>4, <3>6 DEF Ahead
        <3>8. fsProjectCursor'[e] = q
            BY <1>1, <1>4, <2>7
        <3>9. Ahead(e, p)' \subseteq Ahead(e, p) \ {q}
            <4> SUFFICES ASSUME NEW r \in Projects \ {p}, Sooner(r, p, q)
                         PROVE  Sooner(r, p, fsProjectCursor[e]) /\ r # q
                BY <3>8 DEF Ahead
            <4>1. r \in Int
                BY ProjectsFinite
            <4> QED BY <1>3, <3>4, <3>5, <4>1, SoonerNests
        <3>10. IsFiniteSet(Ahead(e, p) \ {q}) /\ Cardinality(Ahead(e, p) \ {q}) = Cardinality(Ahead(e, p)) - 1
            BY <2>3, <3>7, FS_RemoveElement
        <3>11. Cardinality(Ahead(e, p)') <= Cardinality(Ahead(e, p) \ {q})
            BY <3>9, <3>10, FS_Subset
        <3> QED BY <2>2, <2>3, <2>4, <2>7, <3>10, <3>11
    <2> QED BY <2>5, <2>6, <2>7
<1>7. Measured'
    <2> SUFFICES ASSUME NEW e \in 0..TopPriority, NEW p \in Projects
                 PROVE  fsBypass'[<<e, p>>] + Cardinality(Ahead(e, p)') <= Cardinality(Projects) - 1
        BY DEF Measured
    <2> QED BY <1>6
<1> QED BY <1>5, <1>7

----------------------------------------------------------------------------
(* The theorems *)

LEMMA FairBegins == ASSUME FairInit PROVE FairInv
<1>1. TopPriority \in Nat
    BY FairAssumption
<1>2. FairTypeOK
    <2>1. fsQueue \in Seq([group : DOMAIN Groups, age : 0..TopPriority, due : BOOLEAN])
        BY EmptySeq DEF FairInit
    <2>2. fsPlan \in Seq([group : DOMAIN Groups, effective : 0..TopPriority, first : BOOLEAN])
        BY EmptySeq DEF FairInit
    <2>3. /\ fsProjectCursor \in [0..TopPriority -> Projects \cup {0}]
          /\ fsGroupCursor \in [Levels -> DOMAIN Groups \cup {0}] /\ fsBypass \in [Levels -> Nat]
        BY DEF FairInit
    <2> QED BY <2>1, <2>2, <2>3 DEF FairTypeOK
<1>3. DOMAIN fsPlan = {}
    BY DEF FairInit
<1>4. TurnsBegin /\ TurnsFollow
    BY <1>3 DEF TurnsBegin, TurnsFollow
<1>5. Measured
    <2> SUFFICES ASSUME NEW e \in 0..TopPriority, NEW p \in Projects
                 PROVE  fsBypass[<<e, p>>] + Cardinality(Ahead(e, p)) <= Cardinality(Projects) - 1
        BY DEF Measured
    <2>1. fsBypass[<<e, p>>] = 0
        BY DEF FairInit, Levels
    <2>2. /\ Cardinality(Ahead(e, p)) \in Nat
          /\ Cardinality(Ahead(e, p)) <= Cardinality(Projects) - 1
        BY AheadTyped
    <2> QED BY <2>1, <2>2
<1> QED BY <1>2, <1>4, <1>5 DEF FairInv

\* A step that leaves the cursors and the counts alone leaves the measure alone.
LEMMA MeasureStays ==
    ASSUME Measured, UNCHANGED <<fsProjectCursor, fsBypass>> PROVE Measured'
<1>1. \A e, p : Ahead(e, p)' = Ahead(e, p)
    BY DEF Ahead
<1> QED BY <1>1 DEF Measured

LEMMA FairSteps == ASSUME FairInv, [FairNext]_fsVars PROVE FairInv'
<1>1. FairTypeOK /\ TurnsBegin /\ TurnsFollow /\ Measured
    BY DEF FairInv
<1>2. ASSUME fsQueue' \in Seq(Row), UNCHANGED <<fsPlan, fsProjectCursor, fsGroupCursor, fsBypass>>
      PROVE  FairInv'
    <2>1. FairTypeOK'
        BY <1>1, <1>2 DEF FairTypeOK, Row
    <2>2. TurnsBegin' /\ TurnsFollow'
        BY <1>1, <1>2 DEF TurnsBegin, TurnsFollow, Home
    <2> QED BY <1>1, <1>2, <2>1, <2>2, MeasureStays DEF FairInv
<1>3. ASSUME NEW g \in DOMAIN Groups, NEW n \in 1..2, SubmitGroup(g, n) PROVE FairInv'
    <2>1. fsQueue' \in Seq(Row)
        BY <1>1, <1>3, QueueKept
    <2> QED BY <1>2, <1>3, <2>1 DEF SubmitGroup
<1>4. ASSUME NEW g \in DOMAIN Groups, NEW due \in BOOLEAN, RequeueTask(g, due) PROVE FairInv'
    <2>1. fsQueue' \in Seq(Row)
        BY <1>1, <1>4, QueueKept
    <2> QED BY <1>2, <1>4, <2>1 DEF RequeueTask
<1>5. ASSUME NEW i \in DOMAIN fsQueue, RetryDue(i) PROVE FairInv'
    <2>1. fsQueue' \in Seq(Row)
        BY <1>1, <1>5, QueueKept
    <2> QED BY <1>2, <1>5, <2>1 DEF RetryDue
<1>6. ASSUME NEW i \in DOMAIN fsQueue, TaskLeaves(i) PROVE FairInv'
    <2>1. fsQueue' \in Seq(Row)
        BY <1>1, <1>6, QueueKept DEF TaskLeaves
    <2> QED BY <1>2, <1>6, <2>1 DEF TaskLeaves
<1>7. CASE AgingPasses
    <2>1. fsQueue' \in Seq(Row)
        BY <1>1, <1>7, QueueKept
    <2> QED BY <1>2, <1>7, <2>1 DEF AgingPasses
<1>8. CASE StartTick
    <2>1. UNCHANGED <<fsQueue, fsProjectCursor, fsGroupCursor, fsBypass>>
        BY <1>8 DEF StartTick
    <2>2. fsPlan' \in Seq(PlanRow)
        BY <1>1, <1>8, TickPlan
    <2>3. FairTypeOK'
        BY <1>1, <2>1, <2>2 DEF FairTypeOK, PlanRow
    <2> QED BY <1>1, <1>8, <2>1, <2>3, PlanStarts, MeasureStays DEF FairInv
<1>9. ASSUME NEW i \in DOMAIN fsQueue, DispatchGroup(i) PROVE FairInv'
    <2>1. /\ fsPlan # <<>> /\ fsPlan' = Tail(fsPlan) /\ fsQueue' = RemoveAt(fsQueue, i)
          /\ fsGroupCursor' = [fsGroupCursor EXCEPT ![LevelOf(Head(fsPlan))] = Head(fsPlan).group]
          /\ fsProjectCursor' = [fsProjectCursor EXCEPT ![Head(fsPlan).effective] = Home(Head(fsPlan).group)]
        BY <1>9 DEF DispatchGroup, Home
    <2>2. fsQueue' \in Seq(Row)
        BY <1>1, <2>1, QueueKept
    <2>3. fsPlan' \in Seq(PlanRow) /\ Head(fsPlan) \in PlanRow
        BY <1>1, <2>1, PlanShifts
    <2>4. Measured' /\ fsBypass' \in [Levels -> Nat]
        BY <1>1, <1>9, DispatchMeasured
    <2>5. Home(Head(fsPlan).group) \in Projects /\ Head(fsPlan).group \in DOMAIN Groups
        BY <2>3 DEF PlanRow, Home, Projects
    <2>6. /\ fsProjectCursor' \in [0..TopPriority -> Projects \cup {0}]
          /\ fsGroupCursor' \in [Levels -> DOMAIN Groups \cup {0}]
        BY <1>1, <2>1, <2>5 DEF FairTypeOK
    <2>7. FairTypeOK'
        BY <2>2, <2>3, <2>4, <2>6 DEF FairTypeOK, Row, PlanRow
    <2>8. TurnsBegin' /\ TurnsFollow'
        BY <1>1, <2>1, TurnsStay
    <2> QED BY <2>4, <2>7, <2>8 DEF FairInv
<1>10. CASE SkipGroup
    <2>1. /\ fsPlan # <<>> /\ fsPlan' = Tail(fsPlan)
          /\ UNCHANGED <<fsQueue, fsProjectCursor, fsGroupCursor, fsBypass>>
        BY <1>10 DEF SkipGroup
    <2>2. fsPlan' \in Seq(PlanRow)
        BY <1>1, <2>1, PlanShifts
    <2>3. FairTypeOK'
        BY <1>1, <2>1, <2>2 DEF FairTypeOK, PlanRow
    <2>4. TurnsBegin' /\ TurnsFollow'
        BY <1>1, <2>1, TurnsStay
    <2> QED BY <1>1, <2>1, <2>3, <2>4, MeasureStays DEF FairInv
<1>11. ASSUME NEW i \in DOMAIN fsQueue \cup {0}, AbortTick(i) PROVE FairInv'
    <2>1. /\ fsPlan' = <<>> /\ UNCHANGED <<fsProjectCursor, fsGroupCursor, fsBypass>>
          /\ UNCHANGED fsQueue \/ (i \in DOMAIN fsQueue /\ fsQueue' = RemoveAt(fsQueue, i))
        BY <1>11 DEF AbortTick
    <2>2. fsQueue' \in Seq(Row)
        BY <1>1, <2>1, QueueKept
    <2>3. fsPlan' \in Seq(PlanRow) /\ DOMAIN fsPlan' = {}
        BY <2>1, EmptySeq
    <2>4. FairTypeOK'
        BY <1>1, <2>1, <2>2, <2>3 DEF FairTypeOK, Row, PlanRow
    <2>5. TurnsBegin' /\ TurnsFollow'
        BY <2>3 DEF TurnsBegin, TurnsFollow
    <2> QED BY <1>1, <2>1, <2>4, <2>5, MeasureStays DEF FairInv
<1>12. CASE UNCHANGED fsVars
    <2>1. fsQueue' \in Seq(Row)
        BY <1>1, <1>12, QueueRows DEF fsVars
    <2> QED BY <1>2, <1>12, <2>1 DEF fsVars
<1> QED BY <1>3, <1>4, <1>5, <1>6, <1>7, <1>8, <1>9, <1>10, <1>11, <1>12 DEF FairNext

\* Queue, list, cursors and counts keep their types (job_schedule.go).
THEOREM FairTyped == FairSpec => []FairTypeOK
<1>1. FairInit => FairInv
    BY FairBegins
<1>2. FairInv /\ [FairNext]_fsVars => FairInv'
    BY FairSteps
<1>3. FairInv => FairTypeOK
    BY DEF FairInv
<1> QED BY <1>1, <1>2, <1>3, PTL DEF FairSpec

\* What fairGroupOrder returns.
ListsOnce ==
    /\ \A g \in Queued : \E i \in DOMAIN FairGroupOrder : FairGroupOrder[i] = g
    /\ \A i, k \in DOMAIN FairGroupOrder :
          i < k => /\ FairGroupOrder[i] # FairGroupOrder[k]
                   /\ EffectivePriority(FairGroupOrder[i]) >= EffectivePriority(FairGroupOrder[k])

(* fairGroupOrder lists every group that queuedGroups returned once, the    *)
(* ones with a higher effective priority first: no rotation of the projects *)
(* and groups loses or repeats one.                                         *)
THEOREM FairOrderComplete == FairSpec => []ListsOnce
<1>1. FairTypeOK => ListsOnce
    <2> SUFFICES ASSUME FairTypeOK PROVE ListsOnce
        OBVIOUS
    <2>1. PICK n : n = Cardinality(Queued)
        OBVIOUS
    <2>2. /\ n \in Nat /\ FairGroupOrder \in Seq(Queued) /\ Len(FairGroupOrder) = n
          /\ \A g \in Queued : \E i \in 1..n : FairGroupOrder[i] = g
          /\ \A i, k \in 1..n : i < k <=> Before(FairGroupOrder[i], FairGroupOrder[k])
        BY <2>1, OrderLists
    <2>3. DOMAIN FairGroupOrder = 1..n /\ \A i \in 1..n : FairGroupOrder[i] \in Queued
        BY <2>2, LenProperties, ElementOfSeq
    <2>4. ASSUME NEW i \in 1..n, NEW k \in 1..n, i < k
          PROVE  /\ FairGroupOrder[i] # FairGroupOrder[k]
                 /\ EffectivePriority(FairGroupOrder[i]) >= EffectivePriority(FairGroupOrder[k])
        <3>1. PICK x, y : x = FairGroupOrder[i] /\ y = FairGroupOrder[k]
            OBVIOUS
        <3>2. Before(x, y) /\ x \in Queued /\ y \in Queued
            BY <2>2, <2>3, <2>4, <3>1
        <3>3. x # y
            BY <3>2, BeforeOrders
        <3>4. EffectivePriority(x) \in Int /\ EffectivePriority(y) \in Int
            BY <3>2, QueuedTyped
        <3>5. EffectivePriority(x) >= EffectivePriority(y)
            BY <3>2, <3>4 DEF Before
        <3> QED BY <3>1, <3>3, <3>5
    <2> QED BY <2>2, <2>3, <2>4 DEF ListsOnce
<1> QED BY <1>1, FairTyped, PTL

(* Projects of one priority take turns: for any number of projects, groups, *)
(* Tasks and priorities, the Tasks started there in a row, each while a     *)
(* project waits for its turn, are fewer than the projects, whatever is     *)
(* queued, refused by assign or broken off meanwhile.                       *)
THEOREM ProjectsTakeTurns == FairSpec => []BypassBounded
<1>1. FairInit => FairInv
    BY FairBegins
<1>2. FairInv /\ [FairNext]_fsVars => FairInv'
    BY FairSteps
<1>3. FairInv => BypassBounded
    <2> SUFFICES ASSUME FairInv, NEW e \in 0..TopPriority, NEW p \in Projects
                 PROVE  fsBypass[<<e, p>>] < Cardinality(Projects)
        BY DEF BypassBounded, Levels
    <2>1. fsBypass[<<e, p>>] \in Nat
        BY DEF FairInv, FairTypeOK, Levels
    <2>2. Cardinality(Ahead(e, p)) \in Nat /\ Cardinality(Projects) \in Nat
        BY AheadTyped
    <2>3. fsBypass[<<e, p>>] + Cardinality(Ahead(e, p)) <= Cardinality(Projects) - 1
        BY DEF FairInv, Measured
    <2> QED BY <2>1, <2>2, <2>3
<1> QED BY <1>1, <1>2, <1>3, PTL DEF FairSpec
=============================================================================
