---- MODULE Counting ----
(***************************************************************************)
(* How many of a finite set of goroutines are at a label of their control, *)
(* and how a step of one of them changes that.  The accounts of RWMutex,   *)
(* WaitGroup and the semaphores are stated with such numbers.              *)
(***************************************************************************)
EXTENDS Integers, FiniteSets, FiniteSetTheorems, TLAPS

AtLabel(D, f, x) == {d \in D : f[d] = x}
Count(D, f, x) == Cardinality(AtLabel(D, f, x))

\* A number of goroutines is a natural number, and 0 if there are none.
LEMMA CountType ==
    ASSUME NEW D, IsFiniteSet(D), NEW f, NEW x
    PROVE  /\ IsFiniteSet(AtLabel(D, f, x))
           /\ Count(D, f, x) \in Nat
           /\ Count(D, f, x) <= Cardinality(D)
           /\ Count(D, f, x) = 0 <=> \A d \in D : f[d] # x
<1>1. AtLabel(D, f, x) \in SUBSET D
  BY DEF AtLabel
<1>2. IsFiniteSet(AtLabel(D, f, x)) /\ Cardinality(AtLabel(D, f, x)) <= Cardinality(D)
  BY <1>1, FS_Subset
<1>3. Count(D, f, x) \in Nat
  BY <1>2, FS_CardinalityType DEF Count
<1>4. Count(D, f, x) = 0 <=> AtLabel(D, f, x) = {}
  BY <1>2, FS_EmptySet DEF Count
<1>5. QED
  BY <1>2, <1>3, <1>4 DEF AtLabel, Count

\* A set that gains or loses one element, or keeps it.
LEMMA CardinalityStep ==
    ASSUME NEW S, IsFiniteSet(S), NEW T, NEW g, T \ {g} = S \ {g}
    PROVE  /\ IsFiniteSet(T)
           /\ Cardinality(S) \in Nat /\ Cardinality(T) \in Nat
           /\ Cardinality(T) = Cardinality(S) + (IF g \in T THEN 1 ELSE 0)
                                              - (IF g \in S THEN 1 ELSE 0)
<1>1. Cardinality(S) \in Nat
  BY FS_CardinalityType
<1>2. CASE g \in T /\ g \notin S
  <2>1. T = S \cup {g}
    BY <1>2
  <2>2. IsFiniteSet(T) /\ Cardinality(T) = Cardinality(S) + 1
    BY <1>2, <2>1, FS_AddElement
  <2>3. QED
    BY <1>1, <1>2, <2>2
<1>3. CASE g \notin T /\ g \in S
  <2>1. T = S \ {g}
    BY <1>3
  <2>2. IsFiniteSet(T) /\ Cardinality(T) = Cardinality(S) - 1
    BY <1>3, <2>1, FS_RemoveElement
  <2>3. Cardinality(T) \in Nat
    BY <2>2, FS_CardinalityType
  <2>4. QED
    BY <1>1, <1>3, <2>2, <2>3
<1>4. CASE g \in T <=> g \in S
  <2>1. T = S
    BY <1>4
  <2>2. QED
    BY <1>1, <1>4, <2>1
<1>5. QED
  BY <1>2, <1>3, <1>4

\* A goroutine that goes from one label to another is counted there instead.
LEMMA CountMove ==
    ASSUME NEW D, IsFiniteSet(D), NEW f, NEW h, NEW g \in D, NEW x,
           \A d \in D \ {g} : h[d] = f[d]
    PROVE  Count(D, h, x) = Count(D, f, x) + (IF h[g] = x THEN 1 ELSE 0)
                                           - (IF f[g] = x THEN 1 ELSE 0)
<1> DEFINE S == AtLabel(D, f, x)  T == AtLabel(D, h, x)
<1>1. /\ IsFiniteSet(S) /\ T \ {g} = S \ {g}
      /\ g \in T <=> h[g] = x
      /\ g \in S <=> f[g] = x
  BY CountType DEF AtLabel
<1> HIDE DEF S, T
<1>2. Cardinality(T) = Cardinality(S) + (IF g \in T THEN 1 ELSE 0)
                                     - (IF g \in S THEN 1 ELSE 0)
  BY <1>1, CardinalityStep
<1>3. Cardinality(T) = Cardinality(S) + (IF h[g] = x THEN 1 ELSE 0)
                                     - (IF f[g] = x THEN 1 ELSE 0)
  BY <1>1, <1>2
<1>4. QED
  BY <1>3 DEF Count, S, T

\* Goroutines at different labels are different.
LEMMA CountTwo ==
    ASSUME NEW D, IsFiniteSet(D), NEW f, NEW x, NEW y, x # y
    PROVE  Cardinality({d \in D : f[d] \in {x, y}}) = Count(D, f, x) + Count(D, f, y)
<1> DEFINE S == AtLabel(D, f, x)  T == AtLabel(D, f, y)
<1>1. IsFiniteSet(S) /\ IsFiniteSet(T) /\ Cardinality(S) \in Nat /\ Cardinality(T) \in Nat
  BY CountType DEF Count
<1>2. S \cap T = {} /\ {d \in D : f[d] \in {x, y}} = S \cup T
  BY DEF AtLabel
<1>3. Cardinality(S \cup T) = Cardinality(S) + Cardinality(T)
  <2> HIDE DEF S, T
  <2>1. Cardinality(S \cup T) = Cardinality(S) + Cardinality(T) - Cardinality(S \cap T)
    BY <1>1, FS_Union
  <2>2. Cardinality(S \cap T) = 0
    BY <1>2, FS_EmptySet
  <2>3. QED
    BY <1>1, <2>1, <2>2
<1>4. QED
  BY <1>2, <1>3 DEF Count

\* Three labels hold no more goroutines than there are.
LEMMA CountThree ==
    ASSUME NEW D, IsFiniteSet(D), NEW f, NEW x, NEW y, NEW z, x # y, x # z, y # z
    PROVE  Count(D, f, x) + Count(D, f, y) + Count(D, f, z) <= Cardinality(D)
<1> DEFINE S == {d \in D : f[d] \in {x, y}}  T == AtLabel(D, f, z)
<1>1. S \in SUBSET D /\ S \cup T \in SUBSET D /\ S \cap T = {}
  BY DEF AtLabel
<1>2. IsFiniteSet(S) /\ IsFiniteSet(T) /\ Cardinality(S \cup T) <= Cardinality(D)
  BY <1>1, FS_Subset, CountType
<1>3. Cardinality(S \cup T) = Cardinality(S) + Cardinality(T)
  <2> HIDE DEF S, T
  <2>1. Cardinality(S \cup T) = Cardinality(S) + Cardinality(T) - Cardinality(S \cap T)
    BY <1>2, FS_Union
  <2>2. Cardinality(S \cap T) = 0
    BY <1>1, FS_EmptySet
  <2>3. Cardinality(S) \in Nat /\ Cardinality(T) \in Nat
    BY <1>2, FS_CardinalityType
  <2>4. QED
    BY <2>1, <2>2, <2>3
<1>4. QED
  BY <1>2, <1>3, CountTwo DEF Count
====
