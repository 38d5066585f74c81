---------------------------- MODULE StakingProofs ----------------------------
(***************************************************************************)
(* Theorems about Staking, for any nodes and tasks, any validators, rates, *)
(* epoch length and bounds: stakes cover what can be unbonded, settlement  *)
(* pays out what it takes in, the epoch follows the chain, and nobody      *)
(* leaves jail or the unbonding list early.                                *)
(*                                                                         *)
(* Two relations carry the proofs.  StOK says that a snapshot is good, and *)
(* every operation of StakingState keeps it.  Leads(a, b) says that the    *)
(* code may come from snapshot a to snapshot b; every operation leads on   *)
(* from what it is applied to.  The inductive invariant says that a copy   *)
(* nobody has overtaken is one the store leads to, so that storing it does *)
(* to the store what the operation did to the copy.                        *)
(***************************************************************************)
EXTENDS Staking, FiniteSetTheorems, SequenceTheorems, WellFoundedInduction, TLAPS

-----------------------------------------------------------------------------
(* Ordered sets and retained elements.                                     *)

\* A set of numbers that is not empty has a least one.
LEMMA LeastNumber ==
    ASSUME NEW S, S \subseteq Nat, S # {}
    PROVE  \E n \in S : \A m \in S : n <= m
<1> DEFINE R == OpToRel(<, Nat)
<1>1. IsWellFoundedOn(R, Nat)
  BY NatLessThanWellFounded, Zenon
<1>2. \A m, n \in Nat : m < n => <<m, n>> \in R
  BY DEF OpToRel
<1> HIDE DEF R
<1>3. PICK n \in S : \A m \in S : ~(<<m, n>> \in R)
  BY <1>1, WFMin
<1>4. \A m \in S : ~(m < n)
  BY <1>2, <1>3
<1> QED
  BY <1>4

Below(S, x) == {y \in S : y < x}

LEMMA OneMore ==
    ASSUME NEW S, IsFiniteSet(S), NEW x, x \notin S
    PROVE  IsFiniteSet(S \cup {x}) /\ Cardinality(S \cup {x}) = Cardinality(S) + 1
BY FS_AddElement, Zenon

\* Every rank below the size of a set is the rank of one of its numbers.
LEMMA RankExists ==
    ASSUME NEW S, S \subseteq Nat, IsFiniteSet(S), NEW k \in Nat, k < Cardinality(S)
    PROVE  \E x \in S : Cardinality(Below(S, x)) = k
<1> DEFINE Ranked(j) == \E x \in S : Cardinality(Below(S, x)) = j
           Bad == {j \in Nat : j < Cardinality(S) /\ ~Ranked(j)}
<1>1. Cardinality(S) \in Nat /\ \A T \in SUBSET S : IsFiniteSet(T)
  BY FS_CardinalityType, FS_Subset
<1>2. SUFFICES ASSUME Bad # {} PROVE FALSE
  OBVIOUS
<1>3. Bad \subseteq Nat
  OBVIOUS
<1> HIDE DEF Bad
<1>4. PICK j \in Bad : \A i \in Bad : j <= i
  BY <1>2, <1>3, LeastNumber
<1> USE DEF Bad
<1>5. j \in Nat /\ j < Cardinality(S) /\ ~Ranked(j)
  BY <1>4
<1>6. CASE j = 0
  <2>1. S # {}
    <3>1. S = {} => Cardinality(S) = 0
      BY FS_EmptySet
    <3> QED
      BY <1>5, <3>1
  <2>2. PICK x \in S : \A y \in S : x <= y
    BY <2>1, LeastNumber
  <2>3. Below(S, x) = {}
    <3>1. \A y \in S : ~(y < x)
      BY <2>2
    <3> QED
      BY <3>1 DEF Below
  <2> QED
    BY <1>5, <1>6, <2>3, FS_EmptySet
<1>7. CASE j # 0
  <2>1. j - 1 \in Nat /\ j - 1 < Cardinality(S) /\ j - 1 \notin Bad
    BY <1>1, <1>4, <1>5, <1>7
  <2>2. PICK x \in S : Cardinality(Below(S, x)) = j - 1
    BY <2>1
  <2> DEFINE upto == Below(S, x) \cup {x}
             T == S \ upto
  <2>3. Below(S, x) \in SUBSET S /\ x \notin Below(S, x)
    BY DEF Below
  <2>4. Cardinality(upto) = j
    <3>1. Cardinality(upto) = Cardinality(Below(S, x)) + 1
      BY <1>1, <2>3, OneMore
    <3> QED
      BY <1>5, <2>2, <3>1
  <2>5. T # {} /\ T \subseteq Nat
    <3>1. upto # S
      BY <1>5, <2>4
    <3> QED
      BY <2>3, <3>1
  <2> HIDE DEF T
  <2>6. PICK z \in T : \A y \in T : z <= y
    BY <2>5, LeastNumber
  <2> USE DEF T
  <2>7. Below(S, z) = upto
    <3>1. \A y \in S : y \in upto <=> y <= x
      BY DEF Below
    <3>2. x < z
      BY <2>6, <3>1
    <3>3. \A y \in S : y < z <=> y \in upto
      BY <2>6, <3>1, <3>2
    <3> QED
      BY <2>3, <3>3 DEF Below
  <2> QED
    BY <1>5, <2>4, <2>6, <2>7
<1> QED
  BY <1>6, <1>7

\* Different numbers of a set have different ranks.
LEMMA RankDiffers ==
    ASSUME NEW S, S \subseteq Nat, IsFiniteSet(S), NEW x \in S, NEW z \in S, x < z
    PROVE  Cardinality(Below(S, x)) < Cardinality(Below(S, z))
<1>1. Below(S, x) \in SUBSET S /\ Below(S, z) \in SUBSET S /\ x \notin Below(S, x)
  BY DEF Below
<1>2. IsFiniteSet(Below(S, x)) /\ IsFiniteSet(Below(S, z))
  BY <1>1, FS_Subset
<1>3. Below(S, x) \cup {x} \in SUBSET Below(S, z)
  <2>1. \A y \in S : y \in Nat
    OBVIOUS
  <2>2. \A y \in S : y < x => y < z
    BY <2>1
  <2> QED
    BY <2>2 DEF Below
<1>4. Cardinality(Below(S, x) \cup {x}) = Cardinality(Below(S, x)) + 1
  BY <1>1, <1>2, OneMore
<1>5. Cardinality(Below(S, x) \cup {x}) <= Cardinality(Below(S, z))
  BY <1>2, <1>3, FS_Subset
<1>6. Cardinality(Below(S, x)) \in Nat /\ Cardinality(Below(S, z)) \in Nat
  BY <1>2, FS_CardinalityType
<1> QED
  BY <1>4, <1>5, <1>6

\* Ascending lists the numbers of a finite set, and nothing else.
LEMMA AscendingLists ==
    ASSUME NEW S, S \subseteq Nat, IsFiniteSet(S)
    PROVE  /\ Ascending(S) \in Seq(S) /\ Len(Ascending(S)) = Cardinality(S)
           /\ \A x \in S : \E i \in DOMAIN Ascending(S) : Ascending(S)[i] = x
<1> DEFINE c == Cardinality(S)
           P(x, i) == Cardinality(Below(S, x)) = i - 1
           a == [i \in 1..c |-> CHOOSE x \in S : P(x, i)]
<1>1. c \in Nat
  BY FS_CardinalityType
<1>2. Ascending(S) = a
  BY DEF Ascending, Below
<1>3. \A i \in 1..c : \E x \in S : P(x, i)
  <2> SUFFICES ASSUME NEW i \in 1..c PROVE \E x \in S : P(x, i)
    OBVIOUS
  <2>1. i - 1 \in Nat /\ i - 1 < c
    BY <1>1
  <2> QED
    BY <2>1, RankExists
<1>4. \A i \in 1..c : a[i] \in S /\ P(a[i], i)
  <2> SUFFICES ASSUME NEW i \in 1..c PROVE a[i] \in S /\ P(a[i], i)
    OBVIOUS
  <2>1. \E x \in S : P(x, i)
    BY <1>3
  <2>2. a[i] = CHOOSE x \in S : P(x, i)
    OBVIOUS
  <2> HIDE DEF P, a
  <2> QED
    BY <2>1, <2>2
<1>5. DOMAIN a = 1..c
  OBVIOUS
<1> HIDE DEF a
<1>6. a \in Seq(S) /\ Len(a) = c
  BY <1>1, <1>2, <1>4, <1>5 DEF Ascending
<1>7. \A x \in S : \E i \in 1..c : a[i] = x
  <2> SUFFICES ASSUME NEW x \in S PROVE \E i \in 1..c : a[i] = x
    OBVIOUS
  <2> DEFINE r == Cardinality(Below(S, x))
  <2>1. Below(S, x) \in SUBSET S /\ Below(S, x) # S
    BY DEF Below
  <2>2. r \in Nat /\ r < c
    BY <1>1, <2>1, FS_Subset, FS_CardinalityType
  <2>3. r + 1 \in 1..c /\ (r + 1) - 1 = r
    BY <1>1, <2>2
  <2>4. a[r + 1] \in S /\ Cardinality(Below(S, a[r + 1])) = r
    BY <1>4, <2>3
  <2> DEFINE z == a[r + 1]
  <2> HIDE DEF z
  <2>5. z \in S /\ x \in Nat /\ z \in Nat /\ Cardinality(Below(S, z)) = r
    BY <2>4 DEF z
  <2>6. ~(z < x) /\ ~(x < z)
    <3>1. z < x => Cardinality(Below(S, z)) < Cardinality(Below(S, x))
      BY <2>5, RankDiffers
    <3>2. x < z => Cardinality(Below(S, x)) < Cardinality(Below(S, z))
      BY <2>5, RankDiffers
    <3> QED
      BY <2>2, <2>5, <3>1, <3>2
  <2>7. a[r + 1] = x
    BY <2>5, <2>6 DEF z
  <2> QED
    BY <2>3, <2>7
<1> QED
  BY <1>2, <1>5, <1>6, <1>7

\* Retain keeps exactly the elements it is told to.
LEMMA RetainKeeps ==
    ASSUME NEW X, NEW seq \in Seq(X), NEW kept, kept \subseteq DOMAIN seq
    PROVE  /\ Retain(seq, kept) \in Seq(X)
           /\ \A i \in kept : \E j \in DOMAIN Retain(seq, kept) : Retain(seq, kept)[j] = seq[i]
<1> DEFINE at == Ascending(kept)
           s == Retain(seq, kept)
<1>1. kept \subseteq Nat /\ IsFiniteSet(kept)
  <2>1. DOMAIN seq = 1..Len(seq) /\ Len(seq) \in Nat
    OBVIOUS
  <2> QED
    <3>1. IsFiniteSet(1..Len(seq))
      BY <2>1, FS_Interval
    <3> QED
      BY <2>1, <3>1, FS_Subset
<1>2. /\ at \in Seq(kept)
      /\ \A x \in kept : \E i \in DOMAIN at : at[i] = x
  BY <1>1, AscendingLists
<1>3. s = [i \in DOMAIN at |-> seq[at[i]]]
  BY DEF Retain
<1> HIDE DEF at, s
<1>4. DOMAIN at = 1..Len(at) /\ Len(at) \in Nat /\ \A i \in DOMAIN at : at[i] \in DOMAIN seq
  BY <1>2
<1>5. DOMAIN s = 1..Len(at) /\ \A i \in 1..Len(at) : s[i] = seq[at[i]] /\ s[i] \in X
  BY <1>3, <1>4
<1>6. s \in Seq(X)
  BY <1>3, <1>4, <1>5
<1> QED
  BY <1>2, <1>4, <1>5, <1>6 DEF s

-----------------------------------------------------------------------------
(* Sums over finite sets.                                                  *)

Chosen(s) == CHOOSE x \in s : TRUE

LEMMA OneLess ==
    ASSUME NEW s, IsFiniteSet(s), NEW x \in s
    PROVE  /\ IsFiniteSet(s \ {x}) /\ Cardinality(s) \in Nat
           /\ Cardinality(s) # 0 /\ Cardinality(s \ {x}) = Cardinality(s) - 1
<1>1. IsFiniteSet(s \ {x}) /\ Cardinality(s \ {x}) = Cardinality(s) - 1
  BY FS_RemoveElement, Zenon
<1>2. Cardinality(s) \in Nat /\ (Cardinality(s) = 0 <=> s = {})
  BY FS_CardinalityType, FS_EmptySet
<1> QED
  BY <1>1, <1>2

\* What holds of the empty set and is kept by adding an element holds of
\* every subset of a finite set.
LEMMA SubsetInduction ==
    ASSUME NEW D, IsFiniteSet(D), NEW P, {} \in P,
           \A s \in SUBSET D : \A x \in D \ s : s \in P => s \cup {x} \in P
    PROVE  \A s \in SUBSET D : s \in P
<1> DEFINE Bad == {k \in Nat : \E s \in SUBSET D : Cardinality(s) = k /\ s \notin P}
<1>1. \A s \in SUBSET D : IsFiniteSet(s) /\ Cardinality(s) \in Nat
  BY FS_Subset, FS_CardinalityType
<1>2. SUFFICES ASSUME Bad # {} PROVE FALSE
  BY <1>1
<1>3. Bad \subseteq Nat
  OBVIOUS
<1> HIDE DEF Bad
<1>4. PICK k \in Bad : \A j \in Bad : k <= j
  BY <1>2, <1>3, LeastNumber
<1> USE DEF Bad
<1>5. PICK s \in SUBSET D : Cardinality(s) = k /\ s \notin P
  BY <1>4
<1>6. PICK x : x \in s
  BY <1>5
<1> DEFINE r == s \ {x}
<1>7. Cardinality(r) = k - 1 /\ k \in Nat /\ k # 0
  BY <1>1, <1>5, <1>6, OneLess
<1>8. k - 1 \in Nat /\ ~(k <= k - 1)
  BY <1>7
<1>9. k - 1 \notin Bad
  BY <1>4, <1>8
<1>10. r \in SUBSET D /\ r \in P
  BY <1>7, <1>8, <1>9
<1>11. r \cup {x} = s /\ x \in D \ r
  BY <1>6
<1> QED
  BY <1>5, <1>10, <1>11

\* g is what the sum of f over D comes to on its subsets of up to k elements.
PartSum(g, f, D, k) ==
    g = [s \in {s \in SUBSET D : Cardinality(s) <= k} |->
            IF s = {} THEN 0 ELSE f[Chosen(s)] + g[s \ {Chosen(s)}]]

SumRun(g, f, D) ==
    g = [s \in SUBSET D |-> IF s = {} THEN 0 ELSE f[Chosen(s)] + g[s \ {Chosen(s)}]]

LEMMA SumIs ==
    ASSUME NEW f, NEW D
    PROVE  SumFunctionOnSet(f, D) = (CHOOSE g : SumRun(g, f, D))[D]
BY DEF SumFunctionOnSet, FoldFunctionOnSet, MapThenFoldSet, SumRun, Chosen

LEMMA SumRuns ==
    ASSUME NEW f, NEW D, IsFiniteSet(D)
    PROVE  \E g : SumRun(g, f, D)
<1> DEFINE Runs(g, k) == PartSum(g, f, D, k)
           Small(k) == {s \in SUBSET D : Cardinality(s) <= k}
           Bad == {k \in Nat : ~\E g : Runs(g, k)}
<1>1. \A s \in SUBSET D : IsFiniteSet(s) /\ Cardinality(s) \in Nat /\ Cardinality(s) <= Cardinality(D)
  BY FS_Subset, FS_CardinalityType
<1>2. Bad = {}
  <2>1. SUFFICES ASSUME Bad # {} PROVE FALSE
    OBVIOUS
  <2>2. Bad \subseteq Nat
    OBVIOUS
  <2> HIDE DEF Bad
  <2>3. PICK k \in Bad : \A j \in Bad : k <= j
    BY <2>1, <2>2, LeastNumber
  <2> USE DEF Bad
  <2>4. CASE k = 0
    <3> DEFINE g == [s \in Small(0) |-> 0]
    <3>1. \A s \in Small(0) : s = {}
      <4> SUFFICES ASSUME NEW s \in Small(0) PROVE s = {}
        OBVIOUS
      <4>1. Cardinality(s) = 0 /\ IsFiniteSet(s)
        BY <1>1
      <4> QED
        BY <4>1, FS_EmptySet
    <3>2. Runs(g, 0)
      BY <3>1 DEF PartSum
    <3> QED
      BY <2>3, <2>4, <3>2
  <2>5. CASE k # 0
    <3>1. k \in Nat /\ k - 1 \in Nat /\ k - 1 \notin Bad
      BY <2>3, <2>5
    <3>2. PICK g : Runs(g, k - 1)
      BY <3>1
    <3> DEFINE h == [s \in Small(k) |->
                        IF s = {} THEN 0 ELSE f[Chosen(s)] + g[s \ {Chosen(s)}]]
               H(s) == IF s = {} THEN 0 ELSE f[Chosen(s)] + h[s \ {Chosen(s)}]
    <3>3. \A s \in Small(k - 1) :
             g[s] = IF s = {} THEN 0 ELSE f[Chosen(s)] + g[s \ {Chosen(s)}]
      BY <3>2 DEF PartSum
    <3>4. \A s \in Small(k - 1) : s \in Small(k) /\ h[s] = g[s]
      <4>1. \A s \in Small(k - 1) : s \in Small(k)
        BY <1>1, <3>1
      <4> QED
        BY <3>3, <4>1
    <3>5. \A s \in Small(k) : s # {} => s \ {Chosen(s)} \in Small(k - 1)
      <4> SUFFICES ASSUME NEW s \in Small(k), s # {} PROVE s \ {Chosen(s)} \in Small(k - 1)
        OBVIOUS
      <4>1. Chosen(s) \in s
        BY DEF Chosen
      <4>2. Cardinality(s \ {Chosen(s)}) = Cardinality(s) - 1 /\ Cardinality(s) \in Nat
        BY <1>1, <4>1, OneLess
      <4> QED
        BY <3>1, <4>2
    <3>6. \A s \in Small(k) : h[s] = H(s)
      <4> SUFFICES ASSUME NEW s \in Small(k) PROVE h[s] = H(s)
        OBVIOUS
      <4>1. CASE s = {}
        BY <4>1
      <4>2. CASE s # {}
        <5>1. h[s] = f[Chosen(s)] + g[s \ {Chosen(s)}]
          BY <4>2
        <5>2. h[s \ {Chosen(s)}] = g[s \ {Chosen(s)}]
          BY <3>4, <3>5, <4>2
        <5> HIDE DEF h
        <5> QED
          BY <4>2, <5>1, <5>2
      <4> QED
        BY <4>1, <4>2
    <3>7. h = [s \in Small(k) |-> h[s]]
      OBVIOUS
    <3>8. Runs(h, k)
      <4> HIDE DEF h
      <4> QED
        BY <3>6, <3>7 DEF PartSum
    <3> QED
      BY <2>3, <3>8
  <2> QED
    BY <2>4, <2>5
<1> DEFINE c == Cardinality(D)
<1>3. c \in Nat
  BY FS_CardinalityType
<1>4. PICK g : Runs(g, c)
  BY <1>2, <1>3
<1>5. Small(c) = SUBSET D
  BY <1>1
<1>6. SumRun(g, f, D)
  BY <1>4, <1>5 DEF PartSum, SumRun
<1> QED
  BY <1>6

\* Sums over a set and over one of its subsets go together.
LEMMA RunsAgree ==
    ASSUME NEW f, NEW D, IsFiniteSet(D), NEW E \in SUBSET D, NEW g, NEW h,
           SumRun(g, f, D), SumRun(h, f, E)
    PROVE  \A s \in SUBSET E : g[s] = h[s]
<1> DEFINE Bad == {k \in Nat : \E s \in SUBSET E : Cardinality(s) = k /\ g[s] # h[s]}
<1>1. \A s \in SUBSET E : IsFiniteSet(s) /\ Cardinality(s) \in Nat
  BY FS_Subset, FS_CardinalityType
<1>2. SUFFICES ASSUME Bad # {} PROVE FALSE
  BY <1>1
<1>3. Bad \subseteq Nat
  OBVIOUS
<1> HIDE DEF Bad
<1>4. PICK k \in Bad : \A j \in Bad : k <= j
  BY <1>2, <1>3, LeastNumber
<1> USE DEF Bad
<1>5. PICK s \in SUBSET E : Cardinality(s) = k /\ g[s] # h[s]
  BY <1>4
<1>6. /\ g[s] = IF s = {} THEN 0 ELSE f[Chosen(s)] + g[s \ {Chosen(s)}]
      /\ h[s] = IF s = {} THEN 0 ELSE f[Chosen(s)] + h[s \ {Chosen(s)}]
  <2>1. s \in SUBSET D
    OBVIOUS
  <2> QED
    BY <2>1 DEF SumRun
<1>7. s # {}
  BY <1>5, <1>6
<1> DEFINE r == s \ {Chosen(s)}
<1>8. Cardinality(r) = k - 1 /\ k \in Nat /\ k # 0
  <2>1. Chosen(s) \in s
    BY <1>7 DEF Chosen
  <2> QED
    BY <1>1, <1>5, <2>1, OneLess
<1>9. k - 1 \in Nat /\ ~(k <= k - 1)
  BY <1>8
<1>10. k - 1 \notin Bad
  BY <1>4, <1>9
<1>11. g[r] = h[r]
  <2>1. r \in SUBSET E
    OBVIOUS
  <2> HIDE DEF r
  <2> QED
    BY <1>8, <1>9, <1>10, <2>1
<1> QED
  BY <1>5, <1>6, <1>7, <1>11

LEMMA SumStep ==
    ASSUME NEW f, NEW D, IsFiniteSet(D)
    PROVE  SumFunctionOnSet(f, D) =
             IF D = {} THEN 0 ELSE f[Chosen(D)] + SumFunctionOnSet(f, D \ {Chosen(D)})
<1> DEFINE E == D \ {Chosen(D)}
           P(g) == SumRun(g, f, D)
           Q(g) == SumRun(g, f, E)
           a == CHOOSE g : P(g)
           b == CHOOSE g : Q(g)
<1>1. IsFiniteSet(E)
  BY FS_Subset
<1>2. P(a)
  <2>1. \E g : P(g)
    BY SumRuns
  <2> HIDE DEF P
  <2> QED
    BY <2>1
<1> HIDE DEF E
<1>3. Q(b)
  <2>1. \E g : Q(g)
    BY <1>1, SumRuns
  <2> HIDE DEF Q
  <2> QED
    BY <2>1
<1>4. SumFunctionOnSet(f, D) = a[D] /\ SumFunctionOnSet(f, E) = b[E]
  BY SumIs
<1> HIDE DEF a, b
<1>5. E \in SUBSET D
  BY DEF E
<1>6. a[E] = b[E]
  BY <1>2, <1>3, <1>5, RunsAgree
<1>7. a[D] = IF D = {} THEN 0 ELSE f[Chosen(D)] + a[E]
  BY <1>2 DEF SumRun, E
<1> QED
  BY <1>4, <1>6, <1>7 DEF E

LEMMA SumTyped ==
    ASSUME NEW D, IsFiniteSet(D), NEW f, \A x \in D : f[x] \in Nat
    PROVE  \A s \in SUBSET D : SumFunctionOnSet(f, s) \in Nat
<1> DEFINE Bad == {k \in Nat : \E s \in SUBSET D :
                                  Cardinality(s) = k /\ SumFunctionOnSet(f, s) \notin Nat}
<1>1. \A s \in SUBSET D : IsFiniteSet(s) /\ Cardinality(s) \in Nat
  BY FS_Subset, FS_CardinalityType
<1>2. SUFFICES ASSUME Bad # {} PROVE FALSE
  BY <1>1
<1>3. Bad \subseteq Nat
  OBVIOUS
<1> HIDE DEF Bad
<1>4. PICK k \in Bad : \A j \in Bad : k <= j
  BY <1>2, <1>3, LeastNumber
<1> USE DEF Bad
<1>5. PICK s \in SUBSET D : Cardinality(s) = k /\ SumFunctionOnSet(f, s) \notin Nat
  BY <1>4
<1> DEFINE r == s \ {Chosen(s)}
<1>6. SumFunctionOnSet(f, s) = IF s = {} THEN 0 ELSE f[Chosen(s)] + SumFunctionOnSet(f, r)
  BY <1>1, SumStep
<1>7. s # {} /\ Chosen(s) \in s
  BY <1>5, <1>6 DEF Chosen
<1>8. Cardinality(r) = k - 1 /\ k \in Nat /\ k # 0
  BY <1>1, <1>5, <1>7, OneLess
<1>9. k - 1 \in Nat /\ ~(k <= k - 1)
  BY <1>8
<1>10. k - 1 \notin Bad
  BY <1>4, <1>9
<1>11. SumFunctionOnSet(f, r) \in Nat
  <2>1. r \in SUBSET D
    OBVIOUS
  <2> HIDE DEF r
  <2> QED
    BY <1>8, <1>9, <1>10, <2>1
<1>12. f[Chosen(s)] \in Nat
  BY <1>7
<1> QED
  BY <1>5, <1>6, <1>7, <1>11, <1>12

LEMMA SumAdd ==
    ASSUME NEW D, IsFiniteSet(D), NEW f, \A x \in D : f[x] \in Nat
    PROVE  \A s \in SUBSET D : \A x \in D \ s :
              SumFunctionOnSet(f, s \cup {x}) = SumFunctionOnSet(f, s) + f[x]
<1> DEFINE S(s) == SumFunctionOnSet(f, s)
           Adds(s) == \A x \in D \ s : S(s \cup {x}) = S(s) + f[x]
           Bad == {k \in Nat : \E s \in SUBSET D : Cardinality(s) = k /\ ~Adds(s)}
<1>1. \A s \in SUBSET D : IsFiniteSet(s) /\ Cardinality(s) \in Nat /\ S(s) \in Nat
  BY FS_Subset, FS_CardinalityType, SumTyped
<1>2. SUFFICES ASSUME Bad # {} PROVE FALSE
  BY <1>1
<1>3. Bad \subseteq Nat
  OBVIOUS
<1> HIDE DEF Bad
<1>4. PICK k \in Bad : \A j \in Bad : k <= j
  BY <1>2, <1>3, LeastNumber
<1> USE DEF Bad
<1>5. PICK s \in SUBSET D : Cardinality(s) = k /\ ~Adds(s)
  BY <1>4
<1>6. PICK x \in D \ s : S(s \cup {x}) # S(s) + f[x]
  BY <1>5
<1> DEFINE t == s \cup {x}
           y == Chosen(t)
           r == s \ {y}
<1>7. t \in SUBSET D /\ t # {} /\ y \in t
  BY DEF Chosen
<1>8. S(t) = f[y] + S(t \ {y})
  BY <1>1, <1>7, SumStep
<1> HIDE DEF y
<1>9. f[x] \in Nat /\ f[y] \in Nat /\ S(s) \in Nat
  BY <1>1, <1>7
<1>10. CASE y = x
  <2>1. t \ {y} = s
    BY <1>10
  <2> QED
    BY <1>6, <1>8, <1>9, <1>10, <2>1
<1>11. CASE y # x
  <2>1. y \in s /\ t \ {y} = r \cup {x} /\ r \cup {y} = s /\ r \in SUBSET D
    BY <1>7, <1>11
  <2>2. Cardinality(r) = k - 1 /\ k \in Nat /\ k # 0
    BY <1>1, <1>5, <2>1, OneLess
  <2>3. k - 1 \in Nat /\ ~(k <= k - 1)
    BY <2>2
  <2>4. k - 1 \notin Bad
    BY <1>4, <2>3
  <2>5. x \in D \ r /\ y \in D \ r
    BY <2>1
  <2> HIDE DEF r, S, t
  <2>6. Adds(r) /\ S(r) \in Nat
    BY <1>1, <2>1, <2>2, <2>3, <2>4
  <2>7. S(r \cup {x}) = S(r) + f[x] /\ S(r \cup {y}) = S(r) + f[y]
    BY <2>5, <2>6
  <2>8. S(t) = f[y] + (S(r) + f[x]) /\ S(s) = S(r) + f[y]
    BY <1>8, <2>1, <2>7
  <2>9. S(t) = S(s) + f[x]
    BY <1>9, <2>6, <2>8
  <2> QED
    BY <1>6, <2>9 DEF t
<1> QED
  BY <1>10, <1>11

LEMMA SumEmpty == ASSUME NEW f PROVE SumFunctionOnSet(f, {}) = 0
BY SumStep, FS_EmptySet

\* What adds nothing may be left out of a sum.
LEMMA SumSame ==
    ASSUME NEW A, IsFiniteSet(A), NEW f, \A x \in A : f[x] \in Nat, NEW D \in SUBSET A,
           \A x \in A \ D : f[x] = 0
    PROVE  SumFunctionOnSet(f, A) = SumFunctionOnSet(f, D)
<1> DEFINE S(s) == SumFunctionOnSet(f, s)
           P == {s \in SUBSET A : S(s) = S(s \cap D)}
<1>1. {} \in P
  <2>1. {} \cap D = {}
    OBVIOUS
  <2> QED
    BY <2>1
<1>2. ASSUME NEW s \in SUBSET A, NEW x \in A \ s, s \in P PROVE s \cup {x} \in P
  <2>1. S(s \cup {x}) = S(s) + f[x] /\ S(s) \in Nat /\ S(s) = S(s \cap D)
    BY <1>2, SumAdd, SumTyped
  <2>2. CASE x \in D
    <3>1. (s \cup {x}) \cap D = (s \cap D) \cup {x} /\ x \in A \ (s \cap D) /\ s \cap D \in SUBSET A
      BY <2>2
    <3>2. S((s \cap D) \cup {x}) = S(s \cap D) + f[x]
      BY <3>1, SumAdd
    <3> QED
      BY <2>1, <3>1, <3>2
  <2>3. CASE x \notin D
    <3>1. (s \cup {x}) \cap D = s \cap D /\ f[x] = 0
      BY <2>3
    <3>2. S(s \cup {x}) = S(s)
      BY <2>1, <3>1
    <3> QED
      BY <2>1, <3>1, <3>2
  <2> QED
    BY <2>2, <2>3
<1> HIDE DEF P
<1>3. A \in P
  BY <1>1, <1>2, SubsetInduction
<1>4. A \cap D = D
  OBVIOUS
<1> QED
  BY <1>3, <1>4 DEF P

\* Shares of a pool in proportion to f, rounded down, come to no more than
\* the pool, and to less by at most one unit each.
LEMMA SharesSum ==
    ASSUME NEW D, IsFiniteSet(D), NEW f, NEW r, \A x \in D : f[x] \in Nat /\ r[x] \in Nat,
           NEW total \in Nat, NEW pool \in Nat,
           \A x \in D : total * r[x] <= pool * f[x] /\ pool * f[x] + 1 <= total * r[x] + total
    PROVE  LET F == SumFunctionOnSet(f, D)
               R == SumFunctionOnSet(r, D)
               c == Cardinality(D)
           IN  total * R <= pool * F /\ pool * F + c <= total * R + total * c
<1> DEFINE F(s) == SumFunctionOnSet(f, s)
           R(s) == SumFunctionOnSet(r, s)
           Good(s) == /\ total * R(s) <= pool * F(s)
                      /\ pool * F(s) + Cardinality(s) <= total * R(s) + total * Cardinality(s)
           P == {s \in SUBSET D : Good(s)}
<1>1. \A s \in SUBSET D : IsFiniteSet(s) /\ Cardinality(s) \in Nat /\ F(s) \in Nat /\ R(s) \in Nat
  BY FS_Subset, FS_CardinalityType, SumTyped
<1>2. {} \in P
  <2>1. F({}) = 0 /\ R({}) = 0 /\ Cardinality({}) = 0
    BY SumEmpty, FS_EmptySet
  <2> HIDE DEF F, R
  <2>2. Good({})
    BY <2>1
  <2> QED
    BY <2>2
<1>3. ASSUME NEW s \in SUBSET D, NEW x \in D \ s, s \in P PROVE s \cup {x} \in P
  <2> DEFINE t == s \cup {x}
  <2>1. F(t) = F(s) + f[x] /\ R(t) = R(s) + r[x]
    BY SumAdd
  <2>2. Cardinality(t) = Cardinality(s) + 1
    BY <1>1, OneMore
  <2>3. /\ F(s) \in Nat /\ R(s) \in Nat /\ f[x] \in Nat /\ r[x] \in Nat /\ Cardinality(s) \in Nat
        /\ total * r[x] <= pool * f[x] /\ pool * f[x] + 1 <= total * r[x] + total
        /\ Good(s)
    BY <1>1, <1>3
  <2> DEFINE a == F(s)
             b == R(s)
             d == Cardinality(s)
             u == f[x]
             v == r[x]
  <2> HIDE DEF a, b, d, u, v
  <2>4. /\ a \in Nat /\ b \in Nat /\ d \in Nat /\ u \in Nat /\ v \in Nat
        /\ total * v <= pool * u /\ pool * u + 1 <= total * v + total
        /\ total * b <= pool * a /\ pool * a + d <= total * b + total * d
    BY <2>3 DEF a, b, d, u, v
  <2>5. /\ total * (b + v) = total * b + total * v /\ pool * (a + u) = pool * a + pool * u
        /\ total * (d + 1) = total * d + total
    BY <2>4
  <2>6. /\ total * b \in Nat /\ total * v \in Nat /\ pool * a \in Nat /\ pool * u \in Nat
        /\ total * d \in Nat
    BY <2>4
  <2>7. /\ total * (b + v) <= pool * (a + u)
        /\ pool * (a + u) + (d + 1) <= total * (b + v) + total * (d + 1)
    <3> DEFINE tb == total * b
               tv == total * v
               pa == pool * a
               pu == pool * u
               td == total * d
    <3> HIDE DEF tb, tv, pa, pu, td
    <3>1. /\ tb \in Nat /\ tv \in Nat /\ pa \in Nat /\ pu \in Nat /\ td \in Nat
          /\ tv <= pu /\ pu + 1 <= tv + total /\ tb <= pa /\ pa + d <= tb + td
      BY <2>4, <2>6 DEF tb, tv, pa, pu, td
    <3>2. tb + tv <= pa + pu /\ (pa + pu) + (d + 1) <= (tb + tv) + (td + total)
      BY <2>4, <3>1
    <3> QED
      BY <2>5, <3>2 DEF tb, tv, pa, pu, td
  <2>8. Good(t)
    <3>1. F(t) = a + u /\ R(t) = b + v /\ Cardinality(t) = d + 1
      BY <2>1, <2>2 DEF a, b, d, u, v
    <3> HIDE DEF F, R, t
    <3> QED
      BY <2>7, <3>1
  <2> QED
    BY <2>8
<1> HIDE DEF P
<1>4. D \in P
  BY <1>2, <1>3, SubsetInduction
<1> QED
  BY <1>4 DEF P

-----------------------------------------------------------------------------
(* Good snapshots.                                                         *)

Addresses == Genesis \cup Joiners

Stake ==
    [self_bond : Nat, total_stake : Nat, commission_bps : {0},
     status : {"Active", "Jailed"}, last_liveness_epoch : Nat]

Entry == [delegator : Nat, validator : Nat, amount : Nat, release_epoch : Nat]

Own(ds, v) == IF <<v, v>> \in DOMAIN ds THEN ds[<<v, v>>] ELSE 0

Covered(stake, own) == stake.total_stake >= stake.self_bond /\ stake.self_bond >= own

\* Validators and delegations: every delegation is a self-bond, and covered.
StakesOK(vs, ds) ==
    /\ DOMAIN vs \subseteq Addresses /\ vs \in [DOMAIN vs -> Stake]
    /\ DOMAIN ds \subseteq {<<v, v>> : v \in DOMAIN vs} /\ ds \in [DOMAIN ds -> Nat]
    /\ \A v \in DOMAIN vs : Covered(vs[v], Own(ds, v))

StOK(st) ==
    /\ st = [epoch |-> st.epoch, validators |-> st.validators, delegations |-> st.delegations,
             unbonding |-> st.unbonding, treasury_balance |-> st.treasury_balance,
             slashing_events |-> st.slashing_events]
    /\ st.epoch \in Nat
    /\ StakesOK(st.validators, st.delegations)
    /\ st.unbonding \in Seq(Entry) /\ st.treasury_balance \in Nat

\* Nobody is released from jail, and nothing from the unbonding list early.
JailKept(vs, ws) ==
    /\ DOMAIN vs \subseteq DOMAIN ws
    /\ \A v \in DOMAIN vs : vs[v].status # "Active" => ws[v].status # "Active"

Held(us, ws, epoch) ==
    \A i \in DOMAIN us : \/ \E j \in DOMAIN ws : ws[j] = us[i]
                         \/ us[i].release_epoch <= epoch

\* From snapshot a the code may come to snapshot b.
Leads(a, b) ==
    /\ StOK(b) /\ a.epoch <= b.epoch
    /\ JailKept(a.validators, b.validators)
    /\ Held(a.unbonding, b.unbonding, b.epoch)

LEMMA EconomicsTyped ==
    ASSUME NEW e \in EconomicsParams
    PROVE  /\ e.minimum_self_bond \in Nat /\ e.epoch_length \in Nat /\ e.unbonding_epochs \in Nat
           /\ e.treasury_bps \in Nat /\ e.downtime_slash_bps \in Nat
           /\ e.double_sign_slash_bps \in Nat
<1>1. U16 \subseteq Nat
  BY DEF U16
<1>2. /\ e.minimum_self_bond \in Nat /\ e.epoch_length \in Nat /\ e.unbonding_epochs \in Nat
      /\ e.treasury_bps \in U16 /\ e.downtime_slash_bps \in U16
      /\ e.double_sign_slash_bps \in U16
  BY DEF EconomicsParams
<1> QED
  BY <1>1, <1>2

LEMMA LeadsItself ==
    ASSUME NEW a, StOK(a) PROVE Leads(a, a)
BY DEF Leads, StOK, JailKept, Held

\* Operations one after the other.
LEMMA LeadsOn ==
    ASSUME NEW a, NEW b, NEW c, StOK(a), Leads(a, b), Leads(b, c)
    PROVE  Leads(a, c)
<1>1. a.epoch \in Nat /\ b.epoch \in Nat /\ c.epoch \in Nat
      /\ a.epoch <= b.epoch /\ b.epoch <= c.epoch
  BY DEF Leads, StOK
<1>2. JailKept(a.validators, c.validators)
  BY DEF Leads, JailKept
<1>3. Held(a.unbonding, c.unbonding, c.epoch)
  <2> SUFFICES ASSUME NEW i \in DOMAIN a.unbonding
               PROVE  \/ \E j \in DOMAIN c.unbonding : c.unbonding[j] = a.unbonding[i]
                      \/ a.unbonding[i].release_epoch <= c.epoch
    BY DEF Held
  <2>1. a.unbonding[i].release_epoch \in Nat
    <3>1. a.unbonding \in Seq(Entry)
      BY DEF StOK
    <3>2. a.unbonding[i] \in Entry
      BY <3>1
    <3> QED
      BY <3>2 DEF Entry
  <2>2. CASE a.unbonding[i].release_epoch <= b.epoch
    BY <1>1, <2>1, <2>2
  <2>3. CASE \E j \in DOMAIN b.unbonding : b.unbonding[j] = a.unbonding[i]
    BY <2>3 DEF Leads, Held
  <2> QED
    BY <2>2, <2>3 DEF Leads, Held
<1> QED
  BY <1>1, <1>2, <1>3 DEF Leads

\* A snapshot put together from its parts.
LEMMA FromParts ==
    ASSUME NEW e \in Nat, NEW vs, NEW ds, StakesOK(vs, ds), NEW us \in Seq(Entry),
           NEW tb \in Nat, NEW ev, NEW b,
           b = [epoch |-> e, validators |-> vs, delegations |-> ds, unbonding |-> us,
                treasury_balance |-> tb, slashing_events |-> ev]
    PROVE  /\ StOK(b) /\ b.epoch = e /\ b.validators = vs /\ b.delegations = ds
           /\ b.unbonding = us
<1>1. /\ b.epoch = e /\ b.validators = vs /\ b.delegations = ds
      /\ b.unbonding = us /\ b.treasury_balance = tb /\ b.slashing_events = ev
  OBVIOUS
<1> QED
  BY <1>1 DEF StOK

\* The same validators but for v.
LEMMA StakeChanged ==
    ASSUME NEW vs, NEW ds, NEW es, StakesOK(vs, ds), NEW v \in DOMAIN vs, NEW r \in Stake,
           DOMAIN es \subseteq DOMAIN ds \cup {<<v, v>>}, es \in [DOMAIN es -> Nat],
           \A u \in DOMAIN vs \ {v} : Own(es, u) = Own(ds, u),
           Covered(r, Own(es, v))
    PROVE  StakesOK([vs EXCEPT ![v] = r], es)
<1> DEFINE ws == [vs EXCEPT ![v] = r]
<1>1. DOMAIN ws = DOMAIN vs /\ ws \in [DOMAIN vs -> Stake]
  BY DEF StakesOK
<1>2. \A u \in DOMAIN vs : ws[u] = IF u = v THEN r ELSE vs[u]
  BY DEF StakesOK
<1> HIDE DEF ws
<1>3. \A u \in DOMAIN ws : Covered(ws[u], Own(es, u))
  BY <1>1, <1>2 DEF StakesOK
<1>4. DOMAIN es \subseteq {<<u, u>> : u \in DOMAIN ws}
  BY <1>1 DEF StakesOK
<1> QED
  BY <1>1, <1>3, <1>4 DEF StakesOK, ws

\* ensure_validators: newcomers start without stake.
LEMMA EnsureKeeps ==
    ASSUME NEW st, StOK(st), NEW g, g \subseteq Addresses
    PROVE  LET b == EnsureValidators(st, g)
           IN  /\ Leads(st, b) /\ b.epoch = st.epoch
               /\ DOMAIN b.validators = DOMAIN st.validators \cup g
               /\ b.delegations = st.delegations /\ b.unbonding = st.unbonding
<1> DEFINE vs == st.validators
           ws == [v \in DOMAIN vs \cup g |-> IF v \in DOMAIN vs THEN vs[v] ELSE NewStake(st.epoch)]
           b == EnsureValidators(st, g)
<1>1. b = [epoch |-> st.epoch, validators |-> ws, delegations |-> st.delegations,
           unbonding |-> st.unbonding, treasury_balance |-> st.treasury_balance,
           slashing_events |-> st.slashing_events]
  BY DEF EnsureValidators, StOK
<1>2. NewStake(st.epoch) \in Stake /\ Covered(NewStake(st.epoch), 0)
  BY DEF NewStake, Stake, StOK, Covered
<1>3. /\ DOMAIN ws = DOMAIN vs \cup g /\ ws \in [DOMAIN vs \cup g -> Stake]
      /\ \A v \in DOMAIN vs : ws[v] = vs[v]
      /\ \A v \in g \ DOMAIN vs : ws[v] = NewStake(st.epoch)
  BY <1>2 DEF StOK, StakesOK
<1> HIDE DEF ws, b
<1>4. \A v \in DOMAIN ws \ DOMAIN vs : Own(st.delegations, v) = 0
  <2> SUFFICES ASSUME NEW v, v \notin DOMAIN vs PROVE <<v, v>> \notin DOMAIN st.delegations
    BY DEF Own
  <2>1. \A k \in DOMAIN st.delegations : \E u \in DOMAIN vs : k = <<u, u>>
    BY DEF StOK, StakesOK
  <2> QED
    BY <2>1
<1>5. \A v \in DOMAIN ws : Covered(ws[v], Own(st.delegations, v))
  <2> SUFFICES ASSUME NEW v \in DOMAIN ws PROVE Covered(ws[v], Own(st.delegations, v))
    OBVIOUS
  <2>1. CASE v \in DOMAIN vs
    BY <1>3, <2>1 DEF StOK, StakesOK
  <2>2. CASE v \notin DOMAIN vs
    <3>1. ws[v] = NewStake(st.epoch) /\ Own(st.delegations, v) = 0
      <4>1. v \in g \ DOMAIN vs
        BY <1>3, <2>2, Zenon
      <4>2. ws[v] = NewStake(st.epoch)
        BY <1>3, <4>1, Zenon
      <4>3. Own(st.delegations, v) = 0
        BY <1>4, <2>2, Zenon
      <4> QED
        BY <4>2, <4>3
    <3> QED
      BY <1>2, <3>1
  <2> QED
    BY <2>1, <2>2
<1>6. StakesOK(ws, st.delegations)
  BY <1>3, <1>5 DEF StOK, StakesOK
<1>7. /\ StOK(b) /\ b.epoch = st.epoch /\ b.validators = ws /\ b.delegations = st.delegations
      /\ b.unbonding = st.unbonding
  BY <1>1, <1>6, FromParts DEF StOK
<1>8. JailKept(vs, ws)
  BY <1>3 DEF JailKept
<1>9. Held(st.unbonding, st.unbonding, st.epoch)
  BY DEF Held
<1> QED
  BY <1>3, <1>7, <1>8, <1>9 DEF Leads, StOK, b

\* delegate of a self-bond raises stake, self-bond and delegation alike.
LEMMA DelegateKeeps ==
    ASSUME NEW st, StOK(st), NEW v \in DOMAIN st.validators, NEW amount \in Nat
    PROVE  LET b == Delegate(st, v, v, amount, TRUE)
           IN  /\ Leads(st, b) /\ b.epoch = st.epoch
               /\ DOMAIN b.validators = DOMAIN st.validators
<1> DEFINE vs == st.validators
           ds == st.delegations
           k0 == <<v, v>>
           es == [k \in DOMAIN ds \cup {k0} |-> IF k = k0 THEN Own(ds, v) + amount ELSE ds[k]]
           total == vs[v].total_stake + amount
           bond == vs[v].self_bond + amount
           r == [vs[v] EXCEPT !.total_stake = total, !.self_bond = bond]
           b == Delegate(st, v, v, amount, TRUE)
<1>0. vs[v] \in Stake /\ Covered(vs[v], Own(ds, v)) /\ Own(ds, v) \in Nat
  BY DEF StOK, StakesOK, Own
<1>1. b = [epoch |-> st.epoch, validators |-> [vs EXCEPT ![v] = r], delegations |-> es,
           unbonding |-> st.unbonding, treasury_balance |-> st.treasury_balance,
           slashing_events |-> st.slashing_events]
  <2>1. b = [st EXCEPT !.delegations = es, !.validators = [vs EXCEPT ![v] = r]]
    BY DEF Delegate, Delegated, Own
  <2> HIDE DEF es, r, b
  <2> QED
    BY <2>1 DEF StOK
<1>2. /\ r \in Stake /\ r.total_stake = vs[v].total_stake + amount
      /\ r.self_bond = vs[v].self_bond + amount /\ r.status = vs[v].status
  <2>1. total \in Nat /\ bond \in Nat
    BY <1>0 DEF Stake
  <2> HIDE DEF total, bond
  <2>2. /\ r \in Stake /\ r.total_stake = total /\ r.self_bond = bond
        /\ r.status = vs[v].status
    BY <1>0, <2>1 DEF Stake
  <2> QED
    BY <2>2 DEF total, bond
<1>3. /\ DOMAIN es = DOMAIN ds \cup {k0} /\ es \in [DOMAIN ds \cup {k0} -> Nat]
      /\ es[k0] = Own(ds, v) + amount /\ \A k \in DOMAIN ds \ {k0} : es[k] = ds[k]
  BY <1>0 DEF StOK, StakesOK
<1> HIDE DEF es, r, b
<1>4. \A u \in DOMAIN vs \ {v} : Own(es, u) = Own(ds, u)
  BY <1>3 DEF Own
<1>5. Own(es, v) = Own(ds, v) + amount
  BY <1>3 DEF Own
<1>6. Covered(r, Own(es, v))
  BY <1>0, <1>2, <1>5 DEF Covered, Stake
<1>7. StakesOK([vs EXCEPT ![v] = r], es)
  BY <1>2, <1>3, <1>4, <1>6, StakeChanged DEF StOK
<1>8. /\ StOK(b) /\ b.epoch = st.epoch /\ b.validators = [vs EXCEPT ![v] = r]
      /\ b.unbonding = st.unbonding
  BY <1>1, <1>7, FromParts DEF StOK
<1>9. JailKept(vs, [vs EXCEPT ![v] = r])
  BY <1>2 DEF JailKept, StOK, StakesOK
<1>10. Held(st.unbonding, st.unbonding, st.epoch)
  BY DEF Held
<1>11. DOMAIN [vs EXCEPT ![v] = r] = DOMAIN vs
  OBVIOUS
<1>12. Leads(st, b)
  BY <1>8, <1>9, <1>10 DEF Leads, StOK
<1> QED
  BY <1>8, <1>11, <1>12 DEF b

\* note_validator_liveness touches no stake.
LEMMA NoteLivenessKeeps ==
    ASSUME NEW st, StOK(st), NEW v \in DOMAIN st.validators
    PROVE  Leads(st, NoteLiveness(st, v)) /\ NoteLiveness(st, v).epoch = st.epoch
<1> DEFINE vs == st.validators
           ds == st.delegations
           r == [vs[v] EXCEPT !.last_liveness_epoch = st.epoch]
           b == NoteLiveness(st, v)
<1>0. vs[v] \in Stake /\ Covered(vs[v], Own(ds, v)) /\ st.epoch \in Nat
  BY DEF StOK, StakesOK
<1>1. b = [epoch |-> st.epoch, validators |-> [vs EXCEPT ![v] = r], delegations |-> ds,
           unbonding |-> st.unbonding, treasury_balance |-> st.treasury_balance,
           slashing_events |-> st.slashing_events]
  <2>1. b = [st EXCEPT !.validators = [vs EXCEPT ![v] = r]]
    BY DEF NoteLiveness
  <2> HIDE DEF r, b
  <2> QED
    BY <2>1 DEF StOK
<1>2. r \in Stake /\ r.total_stake = vs[v].total_stake
      /\ r.self_bond = vs[v].self_bond /\ r.status = vs[v].status
  BY <1>0 DEF Stake
<1> HIDE DEF r, b
<1>3. Covered(r, Own(ds, v))
  BY <1>0, <1>2 DEF Covered
<1>4. StakesOK([vs EXCEPT ![v] = r], ds)
  BY <1>2, <1>3, StakeChanged DEF StOK, StakesOK
<1>5. /\ StOK(b) /\ b.epoch = st.epoch /\ b.validators = [vs EXCEPT ![v] = r]
      /\ b.unbonding = st.unbonding
  BY <1>1, <1>4, FromParts DEF StOK
<1>6. JailKept(vs, [vs EXCEPT ![v] = r])
  BY <1>2 DEF JailKept, StOK, StakesOK
<1>7. Held(st.unbonding, st.unbonding, st.epoch)
  BY DEF Held
<1> QED
  BY <1>5, <1>6, <1>7 DEF Leads, StOK, b

\* begin_unbonding takes from stake, self-bond and delegation alike: neither
\* subtraction goes below zero.
LEMMA BeginUnbondingKeeps ==
    ASSUME NEW st, StOK(st), NEW v, NEW amount \in Nat, CanUnbond(st, v, v, amount),
           NEW params \in EconomicsParams
    PROVE  LET b == BeginUnbonding(st, v, v, amount, params)
           IN  Leads(st, b) /\ b.epoch = st.epoch
<1> DEFINE vs == st.validators
           ds == st.delegations
           k0 == <<v, v>>
           es == [ds EXCEPT ![k0] = @ - amount]
           total == vs[v].total_stake - amount
           bond == Minus(vs[v].self_bond, amount)
           r == [vs[v] EXCEPT !.total_stake = total, !.self_bond = bond]
           u0 == [delegator |-> v, validator |-> v, amount |-> amount,
                  release_epoch |-> st.epoch + params.unbonding_epochs]
           us == Append(st.unbonding, u0)
           b == BeginUnbonding(st, v, v, amount, params)
<1>0. /\ v \in DOMAIN vs /\ k0 \in DOMAIN ds /\ ds[k0] >= amount /\ ds[k0] \in Nat
      /\ vs[v] \in Stake /\ Covered(vs[v], ds[k0]) /\ st.epoch \in Nat /\ v \in Nat
  BY AddressesAssumption DEF StOK, StakesOK, CanUnbond, Validators, Own, Addresses
<1>1. b = [epoch |-> st.epoch, validators |-> [vs EXCEPT ![v] = r], delegations |-> es,
           unbonding |-> us, treasury_balance |-> st.treasury_balance,
           slashing_events |-> st.slashing_events]
  <2>1. b = [st EXCEPT !.delegations = es, !.validators = [vs EXCEPT ![v] = r], !.unbonding = us]
    BY DEF BeginUnbonding
  <2> HIDE DEF es, r, us, b
  <2> QED
    BY <2>1 DEF StOK
<1>2. /\ r \in Stake /\ r.total_stake = vs[v].total_stake - amount
      /\ r.self_bond = vs[v].self_bond - amount /\ r.status = vs[v].status
  <2>1. total \in Nat /\ bond \in Nat /\ bond = vs[v].self_bond - amount
    BY <1>0 DEF Stake, Covered, Minus
  <2> HIDE DEF total, bond
  <2>2. /\ r \in Stake /\ r.total_stake = total /\ r.self_bond = bond
        /\ r.status = vs[v].status
    BY <1>0, <2>1 DEF Stake
  <2> QED
    BY <2>1, <2>2 DEF total
<1>3. /\ DOMAIN es = DOMAIN ds /\ es \in [DOMAIN ds -> Nat]
      /\ es[k0] = ds[k0] - amount /\ \A k \in DOMAIN ds \ {k0} : es[k] = ds[k]
  <2>1. ds \in [DOMAIN ds -> Nat] /\ ds[k0] - amount \in Nat
    BY <1>0 DEF StOK, StakesOK
  <2> QED
    BY <1>0, <2>1
<1>4. u0 \in Entry
  <2>1. st.epoch + params.unbonding_epochs \in Nat
    <3>1. params.unbonding_epochs \in Nat
      BY EconomicsTyped
    <3>2. st.epoch \in Nat
      BY DEF StOK
    <3> QED
      BY <3>1, <3>2
  <2> QED
    BY <1>0, <2>1 DEF Entry
<1>5. /\ us \in Seq(Entry)
      /\ \A i \in DOMAIN st.unbonding : i \in DOMAIN us /\ us[i] = st.unbonding[i]
  BY <1>4 DEF StOK
<1> HIDE DEF es, r, b, us
<1>6. \A u \in DOMAIN vs \ {v} : Own(es, u) = Own(ds, u)
  BY <1>3 DEF Own
<1>7. Covered(r, Own(es, v))
  BY <1>0, <1>2, <1>3 DEF Covered, Stake, Own
<1>8. StakesOK([vs EXCEPT ![v] = r], es)
  BY <1>0, <1>2, <1>3, <1>6, <1>7, StakeChanged DEF StOK
<1>9. /\ StOK(b) /\ b.epoch = st.epoch /\ b.validators = [vs EXCEPT ![v] = r]
      /\ b.unbonding = us
  BY <1>1, <1>5, <1>8, FromParts DEF StOK
<1>10. JailKept(vs, [vs EXCEPT ![v] = r])
  BY <1>0, <1>2 DEF JailKept, StOK, StakesOK
<1>11. Held(st.unbonding, us, st.epoch)
  BY <1>5 DEF Held
<1> QED
  BY <1>9, <1>10, <1>11 DEF Leads, StOK, b

LEMMA BpsTyped ==
    ASSUME NEW a \in Nat, NEW bps \in Nat
    PROVE  Bps(a, bps) \in Nat
<1>1. a * bps \in Nat
  OBVIOUS
<1> DEFINE p == a * bps
<1> HIDE DEF p
<1>2. p \in Nat => p \div 10000 \in Nat
  OBVIOUS
<1> QED
  BY <1>1, <1>2 DEF Bps, p

\* slash cuts the self-bond down to the stake and takes the delegation out.
LEMMA SlashKeeps ==
    ASSUME NEW st, StOK(st), NEW v \in DOMAIN st.validators, NEW bps \in Nat
    PROVE  LET b == Slash(st, v, bps, TRUE)
           IN  /\ Leads(st, b) /\ b.epoch = st.epoch
               /\ DOMAIN b.validators = DOMAIN st.validators
<1> DEFINE vs == st.validators
           ds == st.delegations
           total == Minus(vs[v].total_stake, Bps(vs[v].total_stake, bps))
           bond == IF vs[v].self_bond > total THEN total ELSE vs[v].self_bond
           frozen == {k \in DOMAIN ds : k[2] = v}
           delegators == Ascending({k[1] : k \in frozen})
           entries == [i \in DOMAIN delegators |->
                          [delegator |-> delegators[i], validator |-> v,
                           amount |-> ds[<<delegators[i], v>>],
                           release_epoch |-> st.epoch + 1]]
           r == [vs[v] EXCEPT !.total_stake = total, !.self_bond = bond, !.status = "Jailed"]
           es == [k \in DOMAIN ds |-> IF k \in frozen THEN 0 ELSE ds[k]]
           us == st.unbonding \o entries
           ev == Append(st.slashing_events, [validator |-> v, epoch |-> st.epoch, slash_bps |-> bps])
           b == Slash(st, v, bps, TRUE)
<1>0. /\ vs[v] \in Stake /\ Covered(vs[v], Own(ds, v)) /\ st.epoch \in Nat /\ v \in Nat
      /\ \A k \in DOMAIN ds : ds[k] \in Nat
      /\ \A k \in DOMAIN ds : \E u \in DOMAIN vs : k = <<u, u>>
  BY AddressesAssumption DEF StOK, StakesOK, Addresses
<1>1. b = [epoch |-> st.epoch, validators |-> [vs EXCEPT ![v] = r], delegations |-> es,
           unbonding |-> us, treasury_balance |-> st.treasury_balance, slashing_events |-> ev]
  <2>1. b = [st EXCEPT !.validators = [vs EXCEPT ![v] = r], !.delegations = es,
                       !.unbonding = us, !.slashing_events = ev]
    BY DEF Slash
  <2> HIDE DEF es, r, us, ev, b
  <2> QED
    BY <2>1 DEF StOK
<1>2. /\ r \in Stake /\ r.total_stake = total /\ r.self_bond = bond /\ r.status = "Jailed"
      /\ total \in Nat /\ bond \in Nat /\ bond <= total
  <2>1. vs[v].total_stake \in Nat /\ vs[v].self_bond \in Nat
    BY <1>0 DEF Stake
  <2>2. Bps(vs[v].total_stake, bps) \in Nat
    BY <2>1, BpsTyped
  <2>3. total \in Nat
    BY <2>1, <2>2 DEF Minus
  <2> HIDE DEF total
  <2>4. bond \in Nat /\ bond <= total
    BY <2>1, <2>3
  <2> HIDE DEF bond
  <2> QED
    BY <1>0, <2>3, <2>4 DEF Stake
<1>3. /\ DOMAIN es = DOMAIN ds /\ es \in [DOMAIN ds -> Nat]
      /\ \A k \in DOMAIN ds : es[k] = IF k[2] = v THEN 0 ELSE ds[k]
  BY <1>0
<1>4. entries \in Seq(Entry)
  <2> DEFINE D == {k[1] : k \in frozen}
  <2>1. D \subseteq {v} /\ \A d \in D : <<d, v>> \in DOMAIN ds
    BY <1>0
  <2>2. D \subseteq Nat /\ IsFiniteSet(D)
    BY <1>0, <2>1, FS_Singleton, FS_Subset
  <2>3. delegators \in Seq(D)
    BY <2>2, AscendingLists
  <2> HIDE DEF D, delegators
  <2>4. DOMAIN delegators = 1..Len(delegators) /\ Len(delegators) \in Nat
    BY <2>3
  <2>5. \A i \in DOMAIN delegators : entries[i] \in Entry
    <3> SUFFICES ASSUME NEW i \in DOMAIN delegators PROVE entries[i] \in Entry
      OBVIOUS
    <3>1. delegators[i] \in D /\ delegators[i] \in Nat
      <4>1. delegators[i] \in D
        BY <2>3, <2>4, ElementOfSeq
      <4> QED
        BY <2>2, <4>1
    <3>2. ds[<<delegators[i], v>>] \in Nat /\ st.epoch + 1 \in Nat
      BY <1>0, <2>1, <3>1
    <3> QED
      BY <1>0, <3>1, <3>2 DEF Entry
  <2>6. DOMAIN entries = DOMAIN delegators
    OBVIOUS
  <2> QED
    BY <2>4, <2>5, <2>6
<1>5. /\ us \in Seq(Entry)
      /\ \A i \in DOMAIN st.unbonding : i \in DOMAIN us /\ us[i] = st.unbonding[i]
  <2> HIDE DEF entries
  <2>1. st.unbonding \in Seq(Entry)
    BY DEF StOK
  <2> QED
    BY <1>4, <2>1
<1> HIDE DEF es, r, b, us, total, bond, ev
<1>6. \A u \in DOMAIN vs \ {v} : Own(es, u) = Own(ds, u)
  BY <1>3 DEF Own
<1>7. Covered(r, Own(es, v))
  <2>1. Own(es, v) = 0
    BY <1>3 DEF Own
  <2> QED
    BY <1>2, <2>1 DEF Covered
<1>8. StakesOK([vs EXCEPT ![v] = r], es)
  BY <1>0, <1>2, <1>3, <1>6, <1>7, StakeChanged DEF StOK
<1>9. /\ StOK(b) /\ b.epoch = st.epoch /\ b.validators = [vs EXCEPT ![v] = r]
      /\ b.unbonding = us
  BY <1>1, <1>5, <1>8, FromParts DEF StOK
<1>10. JailKept(vs, [vs EXCEPT ![v] = r])
  BY <1>0, <1>2 DEF JailKept, StOK, StakesOK
<1>11. Held(st.unbonding, us, st.epoch)
  BY <1>5 DEF Held
<1>12. DOMAIN [vs EXCEPT ![v] = r] = DOMAIN vs
  OBVIOUS
<1>13. Leads(st, b)
  BY <1>9, <1>10, <1>11 DEF Leads, StOK
<1> QED
  BY <1>9, <1>12, <1>13 DEF b

\* f is a run of the loop of slashes, up to its step k.
SlashRun(f, st, seq, bps, k) ==
    f = [i \in 0..k |-> IF i = 0 THEN st ELSE Slash(f[i - 1], seq[i], bps, TRUE)]

\* There is one: by induction on its steps.
LEMMA SlashesRun ==
    ASSUME NEW st, NEW seq, NEW bps, NEW n \in Nat
    PROVE  \E f : SlashRun(f, st, seq, bps, n)
<1> DEFINE Runs(g, k) == SlashRun(g, st, seq, bps, k)
           Bad == {k \in Nat : ~\E g : Runs(g, k)}
<1>1. SUFFICES ASSUME Bad # {} PROVE FALSE
  OBVIOUS
<1>2. Bad \subseteq Nat
  OBVIOUS
<1> HIDE DEF Bad
<1>3. PICK k \in Bad : \A j \in Bad : k <= j
  BY <1>1, <1>2, LeastNumber
<1> USE DEF Bad
<1>4. CASE k = 0
  <2> DEFINE g == [i \in 0..0 |-> st]
  <2>1. Runs(g, 0)
    <3>1. \A i \in 0..0 : i = 0
      OBVIOUS
    <3> QED
      BY <3>1 DEF SlashRun
  <2> QED
    BY <1>3, <1>4, <2>1
<1>5. CASE k # 0
  <2>1. k \in Nat /\ k - 1 \in Nat /\ k - 1 \notin Bad
    BY <1>3, <1>5
  <2>2. PICK g : Runs(g, k - 1)
    BY <2>1
  <2> DEFINE h == [i \in 0..k |-> IF i = k THEN Slash(g[k - 1], seq[k], bps, TRUE) ELSE g[i]]
             H(i) == IF i = 0 THEN st ELSE Slash(h[i - 1], seq[i], bps, TRUE)
  <2>3. \A i \in 0..(k - 1) : g[i] = IF i = 0 THEN st ELSE Slash(g[i - 1], seq[i], bps, TRUE)
    BY <2>2 DEF SlashRun
  <2>4. \A i \in 0..k : i # k => h[i] = g[i]
    OBVIOUS
  <2>5. \A i \in 0..k : h[i] = H(i)
    <3> SUFFICES ASSUME NEW i \in 0..k PROVE h[i] = H(i)
      OBVIOUS
    <3> HIDE DEF h
    <3>1. CASE i = 0
      <4>1. 0 \in 0..(k - 1) /\ 0 \in 0..k
        BY <2>1
      <4> QED
        BY <1>5, <2>3, <2>4, <3>1, <4>1
    <3>2. CASE i = k
      <4>1. h[k - 1] = g[k - 1]
        BY <2>1, <2>4
      <4> QED
        BY <1>5, <2>1, <3>2, <4>1 DEF h
    <3>3. CASE i # 0 /\ i # k
      <4>1. i \in 0..(k - 1) /\ i - 1 \in 0..k /\ i - 1 # k
        BY <2>1, <3>3
      <4> QED
        BY <2>3, <2>4, <3>3, <4>1
    <3> QED
      BY <3>1, <3>2, <3>3
  <2>6. h = [i \in 0..k |-> h[i]]
    OBVIOUS
  <2>7. Runs(h, k)
    <3> HIDE DEF h
    <3> QED
      BY <2>5, <2>6 DEF SlashRun
  <2> QED
    BY <1>3, <2>7
<1> QED
  BY <1>4, <1>5

\* The loop of slashes of apply_evidence and apply_downtime_slashing.
LEMMA SlashAllKeeps ==
    ASSUME NEW st, StOK(st), NEW seq \in Seq(DOMAIN st.validators), NEW bps \in Nat
    PROVE  Leads(st, SlashAll(st, seq, bps)) /\ SlashAll(st, seq, bps).epoch = st.epoch
<1> DEFINE n == Len(seq)
           P(f) == SlashRun(f, st, seq, bps, n)
           after == CHOOSE f : P(f)
           Good(b) == /\ Leads(st, b) /\ b.epoch = st.epoch
                      /\ DOMAIN b.validators = DOMAIN st.validators
           Bad == {k \in 0..n : ~Good(after[k])}
<1>1. n \in Nat
  OBVIOUS
<1>2. SlashAll(st, seq, bps) = after[n]
  BY DEF SlashAll, SlashRun
<1>3. P(after)
  <2>1. \E f : P(f)
    BY <1>1, SlashesRun
  <2> HIDE DEF P
  <2> QED
    BY <2>1
<1> HIDE DEF after
<1>4. /\ after[0] = st
      /\ \A i \in 1..n : after[i] = Slash(after[i - 1], seq[i], bps, TRUE)
  BY <1>1, <1>3 DEF SlashRun
<1>5. SUFFICES ASSUME Bad # {} PROVE FALSE
  BY <1>1, <1>2
<1>6. Bad \subseteq Nat
  BY <1>1
<1> HIDE DEF Bad
<1>7. PICK k \in Bad : \A j \in Bad : k <= j
  BY <1>5, <1>6, LeastNumber
<1> USE DEF Bad
<1>8. CASE k = 0
  BY <1>4, <1>7, <1>8, LeadsItself
<1>9. CASE k # 0
  <2>1. k \in 1..n /\ k - 1 \in 0..n /\ k - 1 \notin Bad
    BY <1>1, <1>7, <1>9
  <2> DEFINE a == after[k - 1]
             v == seq[k]
  <2>2. Good(a)
    BY <2>1
  <2>3. v \in DOMAIN a.validators /\ StOK(a)
    BY <2>1, <2>2 DEF Leads
  <2> HIDE DEF a, v
  <2>4. /\ Leads(a, Slash(a, v, bps, TRUE)) /\ Slash(a, v, bps, TRUE).epoch = a.epoch
        /\ DOMAIN Slash(a, v, bps, TRUE).validators = DOMAIN a.validators
    BY <2>3, SlashKeeps
  <2>5. after[k] = Slash(a, v, bps, TRUE)
    BY <1>4, <2>1 DEF a, v
  <2>6. Leads(st, Slash(a, v, bps, TRUE))
    BY <2>2, <2>4, LeadsOn
  <2> QED
    BY <1>7, <2>2, <2>4, <2>5, <2>6
<1> QED
  BY <1>8, <1>9

\* f is a run of bootstrap_genesis over order, up to its step k.
BootRun(f, st, order, k) ==
    f = [i \in 0..k |->
            IF i = 0 THEN EnsureValidators(st, Genesis)
            ELSE Delegate(f[i - 1], order[i], order[i], Economics.minimum_self_bond, TRUE)]

LEMMA BootstrapRuns ==
    ASSUME NEW st, NEW order, NEW n \in Nat
    PROVE  \E f : BootRun(f, st, order, n)
<1> DEFINE bond == Economics.minimum_self_bond
           Runs(g, k) == BootRun(g, st, order, k)
           Bad == {k \in Nat : ~\E g : Runs(g, k)}
<1>1. SUFFICES ASSUME Bad # {} PROVE FALSE
  OBVIOUS
<1>2. Bad \subseteq Nat
  OBVIOUS
<1> HIDE DEF Bad
<1>3. PICK k \in Bad : \A j \in Bad : k <= j
  BY <1>1, <1>2, LeastNumber
<1> USE DEF Bad
<1>4. CASE k = 0
  <2> DEFINE g == [i \in 0..0 |-> EnsureValidators(st, Genesis)]
  <2>1. Runs(g, 0)
    <3>1. \A i \in 0..0 : i = 0
      OBVIOUS
    <3> QED
      BY <3>1 DEF BootRun
  <2> QED
    BY <1>3, <1>4, <2>1
<1>5. CASE k # 0
  <2>1. k \in Nat /\ k - 1 \in Nat /\ k - 1 \notin Bad
    BY <1>3, <1>5
  <2>2. PICK g : Runs(g, k - 1)
    BY <2>1
  <2> DEFINE h == [i \in 0..k |->
                      IF i = k THEN Delegate(g[k - 1], order[k], order[k], bond, TRUE) ELSE g[i]]
             H(i) == IF i = 0 THEN EnsureValidators(st, Genesis)
                     ELSE Delegate(h[i - 1], order[i], order[i], bond, TRUE)
  <2>3. \A i \in 0..(k - 1) :
           g[i] = IF i = 0 THEN EnsureValidators(st, Genesis)
                  ELSE Delegate(g[i - 1], order[i], order[i], bond, TRUE)
    BY <2>2 DEF BootRun
  <2>4. \A i \in 0..k : i # k => h[i] = g[i]
    OBVIOUS
  <2>5. \A i \in 0..k : h[i] = H(i)
    <3> SUFFICES ASSUME NEW i \in 0..k PROVE h[i] = H(i)
      OBVIOUS
    <3> HIDE DEF h
    <3>1. CASE i = 0
      <4>1. 0 \in 0..(k - 1) /\ 0 \in 0..k
        BY <2>1
      <4> QED
        BY <1>5, <2>3, <2>4, <3>1, <4>1
    <3>2. CASE i = k
      <4>1. h[k - 1] = g[k - 1]
        BY <2>1, <2>4
      <4> QED
        BY <1>5, <2>1, <3>2, <4>1 DEF h
    <3>3. CASE i # 0 /\ i # k
      <4>1. i \in 0..(k - 1) /\ i - 1 \in 0..k /\ i - 1 # k
        BY <2>1, <3>3
      <4> QED
        BY <2>3, <2>4, <3>3, <4>1
    <3> QED
      BY <3>1, <3>2, <3>3
  <2>6. h = [i \in 0..k |-> h[i]]
    OBVIOUS
  <2>7. Runs(h, k)
    <3> HIDE DEF h
    <3> QED
      BY <2>5, <2>6 DEF BootRun
  <2> QED
    BY <1>3, <2>7
<1> QED
  BY <1>4, <1>5

\* bootstrap_genesis, however often the node starts.
LEMMA BootstrapKeeps ==
    ASSUME NEW st, StOK(st)
    PROVE  Leads(st, Bootstrap(st)) /\ Bootstrap(st).epoch = st.epoch
<1> DEFINE bond == Economics.minimum_self_bond
           order == Ascending(Genesis)
           n == Len(order)
           P(f) == BootRun(f, st, order, n)
           after == CHOOSE f : P(f)
           Good(b) == Leads(st, b) /\ b.epoch = st.epoch /\ Genesis \subseteq DOMAIN b.validators
           Bad == {k \in 0..n : ~Good(after[k])}
<1>0. Genesis \subseteq Nat /\ IsFiniteSet(Genesis) /\ Genesis \subseteq Addresses /\ bond \in Nat
  BY AddressesAssumption, EconomicsAssumption, EconomicsTyped DEF Addresses
<1>1. order \in Seq(Genesis) /\ n \in Nat
  <2>1. order \in Seq(Genesis)
    BY <1>0, AscendingLists
  <2> HIDE DEF order
  <2> QED
    BY <2>1
<1>2. Bootstrap(st) = after[n]
  BY DEF Bootstrap, BootRun
<1> HIDE DEF order
<1>3. P(after)
  <2>1. \E f : P(f)
    BY <1>1, BootstrapRuns
  <2> HIDE DEF P
  <2> QED
    BY <2>1
<1> HIDE DEF after, bond
<1>4. /\ after[0] = EnsureValidators(st, Genesis)
      /\ \A i \in 1..n : after[i] = Delegate(after[i - 1], order[i], order[i], bond, TRUE)
  BY <1>1, <1>3 DEF BootRun, bond
<1>5. SUFFICES ASSUME Bad # {} PROVE FALSE
  BY <1>1, <1>2
<1>6. Bad \subseteq Nat
  BY <1>1
<1> HIDE DEF Bad
<1>7. PICK k \in Bad : \A j \in Bad : k <= j
  BY <1>5, <1>6, LeastNumber
<1> USE DEF Bad
<1>8. CASE k = 0
  <2> DEFINE b == EnsureValidators(st, Genesis)
  <2>1. /\ Leads(st, b) /\ b.epoch = st.epoch
        /\ DOMAIN b.validators = DOMAIN st.validators \cup Genesis
    BY <1>0, EnsureKeeps
  <2> QED
    BY <1>4, <1>7, <1>8, <2>1
<1>9. CASE k # 0
  <2>1. k \in 1..n /\ k - 1 \in 0..n /\ k - 1 \notin Bad
    BY <1>1, <1>7, <1>9
  <2> DEFINE a == after[k - 1]
             v == order[k]
  <2>2. Good(a)
    BY <2>1
  <2>3. v \in DOMAIN a.validators /\ StOK(a)
    BY <1>1, <2>1, <2>2 DEF Leads
  <2> HIDE DEF a, v
  <2>4. /\ Leads(a, Delegate(a, v, v, bond, TRUE)) /\ Delegate(a, v, v, bond, TRUE).epoch = a.epoch
        /\ DOMAIN Delegate(a, v, v, bond, TRUE).validators = DOMAIN a.validators
    BY <1>0, <2>3, DelegateKeeps
  <2>5. after[k] = Delegate(a, v, v, bond, TRUE)
    BY <1>4, <2>1 DEF a, v
  <2>6. Leads(st, Delegate(a, v, v, bond, TRUE))
    BY <2>2, <2>4, LeadsOn
  <2> QED
    BY <1>7, <2>2, <2>4, <2>5, <2>6
<1> QED
  BY <1>8, <1>9

\* The addresses of a snapshot can be listed.
LEMMA ValidatorsFinite ==
    ASSUME NEW st, StOK(st), NEW S, S \subseteq DOMAIN st.validators
    PROVE  S \subseteq Nat /\ IsFiniteSet(S)
<1>1. IsFiniteSet(Addresses) /\ Addresses \subseteq Nat
  BY AddressesAssumption, FS_Union DEF Addresses
<1>2. S \subseteq Addresses
  BY DEF StOK, StakesOK
<1> QED
  BY <1>1, <1>2, FS_Subset

LEMMA ApplyDowntimeSlashingKeeps ==
    ASSUME NEW st, StOK(st), NEW params \in EconomicsParams
    PROVE  LET b == ApplyDowntimeSlashing(st, params)
           IN  Leads(st, b) /\ b.epoch = st.epoch
<1> DEFINE stale == {v \in Validators(st) :
                        /\ IsActive(st, v)
                        /\ st.validators[v].last_liveness_epoch + 1 < st.epoch + 1}
           bps == params.downtime_slash_bps
<1>1. stale \subseteq DOMAIN st.validators
  BY DEF Validators
<1>2. ApplyDowntimeSlashing(st, params) = SlashAll(st, Ascending(stale), bps)
  BY DEF ApplyDowntimeSlashing
<1> HIDE DEF stale
<1>3. Ascending(stale) \in Seq(stale)
  BY <1>1, ValidatorsFinite, AscendingLists
<1>4. Ascending(stale) \in Seq(DOMAIN st.validators)
  BY <1>1, <1>3
<1>5. bps \in Nat
  BY EconomicsTyped
<1> HIDE DEF bps
<1> QED
  BY <1>2, <1>4, <1>5, SlashAllKeeps

LEMMA ApplyEvidenceKeeps ==
    ASSUME NEW st, StOK(st), NEW accused \in Seq(DOMAIN st.validators),
           NEW params \in EconomicsParams
    PROVE  LET b == ApplyEvidence(st, accused, params)
           IN  Leads(st, b) /\ b.epoch = st.epoch
<1> DEFINE first == {i \in DOMAIN accused : \A j \in 1..(i - 1) : accused[j] # accused[i]}
           bps == params.double_sign_slash_bps
<1>1. ApplyEvidence(st, accused, params) = SlashAll(st, Retain(accused, first), bps)
  BY DEF ApplyEvidence
<1>2. first \subseteq DOMAIN accused
  OBVIOUS
<1> HIDE DEF first
<1>3. Retain(accused, first) \in Seq(DOMAIN st.validators)
  BY <1>2, RetainKeeps
<1>4. bps \in Nat
  BY EconomicsTyped
<1> HIDE DEF bps
<1> QED
  BY <1>1, <1>3, <1>4, SlashAllKeeps

LEMMA FundingKeeps ==
    ASSUME NEW st, StOK(st), NEW amount \in Nat
    PROVE  LET b == [st EXCEPT !.treasury_balance = @ + amount]
           IN  /\ Leads(st, b) /\ b.epoch = st.epoch
               /\ DOMAIN b.validators = DOMAIN st.validators
<1> DEFINE t == st.treasury_balance + amount
           b == [st EXCEPT !.treasury_balance = t]
<1>0. t \in Nat
  BY DEF StOK
<1> HIDE DEF t
<1>1. b = [epoch |-> st.epoch, validators |-> st.validators, delegations |-> st.delegations,
           unbonding |-> st.unbonding, treasury_balance |-> t,
           slashing_events |-> st.slashing_events]
  BY DEF StOK
<1> HIDE DEF b
<1>2. /\ StOK(b) /\ b.epoch = st.epoch /\ b.validators = st.validators
      /\ b.unbonding = st.unbonding
  BY <1>0, <1>1, FromParts DEF StOK
<1>3. Leads(st, b)
  BY <1>2 DEF Leads, JailKept, Held, StOK
<1> QED
  BY <1>2, <1>3 DEF b, t

LEMMA Cancel ==
    ASSUME NEW t \in Nat, t # 0, NEW a \in Nat, NEW b \in Nat
    PROVE  /\ t * a <= t * b => a <= b
           /\ t * a < t * b => a < b
<1>1. ASSUME NEW x \in Nat, NEW y \in Nat, x <= y PROVE t * x <= t * y
  <2>1. PICK d \in Nat : y = x + d
    <3>1. y - x \in Nat /\ y = x + (y - x)
      BY <1>1
    <3> QED
      BY <3>1
  <2>2. t * y = t * x + t * d /\ t * d \in Nat /\ t * x \in Nat
    BY <2>1
  <2> QED
    BY <2>2
<1>2. ASSUME b < a PROVE t * b < t * a
  <2>1. b + 1 <= a /\ b + 1 \in Nat
    BY <1>2
  <2>2. t * (b + 1) <= t * a
    BY <1>1, <2>1
  <2>3. t * (b + 1) = t * b + t /\ t * b \in Nat /\ t * a \in Nat
    OBVIOUS
  <2> QED
    BY <2>2, <2>3
<1>3. t * a \in Nat /\ t * b \in Nat
  OBVIOUS
<1>4. b <= a => t * b <= t * a
  BY <1>1
<1> QED
  BY <1>2, <1>3, <1>4

\* What settle_epoch_rewards pays out: the pool but for the rounding, and no
\* commission.
PaysOut(st, fees, budget, params) ==
    LET rewards == Rewards(st, fees, budget, params)
        pool == Minus(fees + budget, Bps(fees + budget, params.treasury_bps))
        commission == [v \in DOMAIN rewards |->
                          Bps(rewards[v], st.validators[v].commission_bps)]
    IN  /\ SumFunction(rewards) \in Nat /\ Cardinality(DOMAIN rewards) \in Nat
        /\ SumFunction(rewards) <= pool
        /\ pool < SumFunction(rewards) + Cardinality(DOMAIN rewards)
        /\ SumFunction(commission) = 0

LEMMA SettlementSums ==
    ASSUME NEW st, StOK(st), NEW fees \in Nat, NEW budget \in Nat, NEW params \in EconomicsParams,
           ActiveStake(st) # 0
    PROVE  PaysOut(st, fees, budget, params)
<1> DEFINE vs == st.validators
           rewards == Rewards(st, fees, budget, params)
           in == fees + budget
           cut == Bps(in, params.treasury_bps)
           pool == Minus(in, cut)
           commission == [v \in DOMAIN rewards |-> Bps(rewards[v], vs[v].commission_bps)]
           A == {v \in Validators(st) : IsActive(st, v)}
           D == {v \in Validators(st) : IsActive(st, v) /\ vs[v].total_stake > 0}
           f == [v \in A |-> vs[v].total_stake]
           T == ActiveStake(st)
           Share(v) == (pool * vs[v].total_stake) \div T
<1>1. pool \in Nat
  <2>1. in \in Nat /\ cut \in Nat
    <3>1. in \in Nat /\ params.treasury_bps \in Nat
      BY EconomicsTyped
    <3> HIDE DEF in
    <3> QED
      BY <3>1, BpsTyped
  <2> HIDE DEF in, cut
  <2> QED
    BY <2>1 DEF Minus
<1>2. A \in SUBSET DOMAIN vs /\ D \in SUBSET A
  BY DEF Validators
<1>3. IsFiniteSet(A) /\ IsFiniteSet(D)
  BY <1>2, ValidatorsFinite, FS_Subset
<1>4. \A v \in A : vs[v].total_stake \in Nat /\ vs[v].commission_bps = 0
  BY <1>2 DEF StOK, StakesOK, Stake
<1>5. T = SumFunctionOnSet(f, A)
  BY DEF ActiveStake, SumFunction
<1>6. rewards = [v \in D |-> Share(v)]
  BY DEF Rewards
<1>7. /\ \A v \in A : f[v] = vs[v].total_stake /\ f[v] \in Nat
      /\ \A v \in A \ D : f[v] = 0
  BY <1>4
<1> HIDE DEF A, D, f, pool, rewards
<1>8. T = SumFunctionOnSet(f, D) /\ T \in Nat
  BY <1>2, <1>3, <1>5, <1>7, SumSame, SumTyped
<1> HIDE DEF T
<1>9. T # 0
  BY DEF T
<1>10. DOMAIN rewards = D /\ \A v \in D : rewards[v] = (pool * f[v]) \div T
  BY <1>2, <1>6, <1>7
<1>11. ASSUME NEW v \in D
       PROVE  /\ rewards[v] \in Nat /\ T * rewards[v] <= pool * f[v]
              /\ pool * f[v] + 1 <= T * rewards[v] + T
  <2> DEFINE p == pool * f[v]
             q == p \div T
  <2>1. p \in Nat
    <3>1. f[v] \in Nat
      BY <1>2, <1>7
    <3> QED
      BY <1>1, <3>1
  <2> HIDE DEF p
  <2>2. q \in Nat /\ p % T \in Nat /\ p % T < T /\ p = T * q + (p % T)
    BY <1>8, <1>9, <2>1
  <2>3. rewards[v] = q
    BY <1>10 DEF p
  <2>4. T * q \in Nat
    BY <1>8, <2>2
  <2> HIDE DEF q
  <2>5. T * q <= p /\ p + 1 <= T * q + T
    BY <1>8, <2>1, <2>2, <2>4
  <2> QED
    BY <2>2, <2>3, <2>5 DEF p
<1> DEFINE R == SumFunctionOnSet(rewards, D)
           c == Cardinality(D)
<1>12. R \in Nat /\ c \in Nat /\ c # 0
  <2>1. R \in Nat
    BY <1>3, <1>11, SumTyped
  <2>2. c \in Nat /\ (c = 0 => D = {})
    BY <1>3, FS_CardinalityType, FS_EmptySet
  <2>3. D # {}
    BY <1>8, <1>9, SumEmpty
  <2> QED
    BY <2>1, <2>2, <2>3
<1>13. T * R <= pool * T /\ pool * T + c <= T * R + T * c
  <2>1. \A v \in D : f[v] \in Nat /\ rewards[v] \in Nat
    BY <1>2, <1>7, <1>11
  <2>2. \A v \in D : /\ T * rewards[v] <= pool * f[v]
                     /\ pool * f[v] + 1 <= T * rewards[v] + T
    BY <1>11
  <2> QED
    BY <1>1, <1>3, <1>8, <2>1, <2>2, SharesSum
<1> HIDE DEF R, c
<1>14. R <= pool /\ pool < R + c
  <2>1. pool * T = T * pool /\ T * R + T * c = T * (R + c)
    BY <1>1, <1>8, <1>12
  <2>2. T * pool \in Nat /\ T * (R + c) \in Nat /\ T * R \in Nat /\ R + c \in Nat
    BY <1>1, <1>8, <1>12
  <2>3. T * R <= T * pool /\ T * pool < T * (R + c)
    BY <1>12, <1>13, <2>1, <2>2
  <2> QED
    BY <1>1, <1>8, <1>9, <1>12, <2>2, <2>3, Cancel
<1>15. SumFunction(rewards) = R /\ Cardinality(DOMAIN rewards) = c
  BY <1>10 DEF SumFunction, R, c
<1>16. SumFunction(commission) = 0
  <2>1. DOMAIN commission = D
    BY <1>10
  <2>2. \A v \in D : commission[v] = 0
    <3> SUFFICES ASSUME NEW v \in D PROVE commission[v] = 0
      OBVIOUS
    <3>1. commission[v] = Bps(rewards[v], 0)
      BY <1>2, <1>4, <1>10
    <3>2. rewards[v] * 0 = 0 /\ 0 \div 10000 = 0
      BY <1>11
    <3> QED
      BY <3>1, <3>2 DEF Bps
  <2> HIDE DEF commission
  <2>3. SumFunctionOnSet(commission, D) = SumFunctionOnSet(commission, {})
    BY <1>3, <2>2, SumSame
  <2> QED
    BY <2>1, <2>3, SumEmpty DEF SumFunction
<1> QED
  BY <1>12, <1>14, <1>15, <1>16 DEF rewards, pool, PaysOut

\* settle_epoch_rewards ends one epoch and drops only what is due.
LEMMA SettleEpochRewardsKeeps ==
    ASSUME NEW st, StOK(st), NEW fees \in Nat, NEW budget \in Nat, NEW params \in EconomicsParams
    PROVE  LET b == SettleEpochRewards(st, fees, budget, params)
           IN  Leads(st, b) /\ b.epoch = st.epoch + 1
<1> DEFINE b == SettleEpochRewards(st, fees, budget, params)
           kept == {i \in DOMAIN st.unbonding : st.unbonding[i].release_epoch > st.epoch + 1}
           us == IF ActiveStake(st) = 0 THEN st.unbonding ELSE Retain(st.unbonding, kept)
<1>0. /\ st.epoch \in Nat /\ st.epoch + 1 \in Nat /\ st.epoch <= st.epoch + 1
      /\ st.unbonding \in Seq(Entry) /\ st.treasury_balance \in Nat
  BY DEF StOK
<1>1. \E t \in Nat : b = [st EXCEPT !.treasury_balance = t, !.epoch = st.epoch + 1, !.unbonding = us]
  <2>1. CASE ActiveStake(st) = 0
    <3> DEFINE t == st.treasury_balance + fees + budget
    <3>1. b = [st EXCEPT !.treasury_balance = t, !.epoch = st.epoch + 1]
      BY <2>1 DEF SettleEpochRewards
    <3>0. t \in Nat
      BY <1>0
    <3> HIDE DEF t, b
    <3>2. b = [st EXCEPT !.treasury_balance = t, !.epoch = st.epoch + 1, !.unbonding = st.unbonding]
      BY <3>1 DEF StOK
    <3> QED
      BY <2>1, <3>0, <3>2
  <2>2. CASE ActiveStake(st) # 0
    <3> DEFINE rewards == Rewards(st, fees, budget, params)
               commission == [v \in DOMAIN rewards |->
                                 Bps(rewards[v], st.validators[v].commission_bps)]
               t == st.treasury_balance + Bps(fees + budget, params.treasury_bps)
                      + SumFunction(commission)
               ws == Retain(st.unbonding, kept)
    <3>1. b = [st EXCEPT !.treasury_balance = t, !.epoch = st.epoch + 1, !.unbonding = ws]
      BY <2>2 DEF SettleEpochRewards
    <3>2. t \in Nat
      <4>1. SumFunction(commission) = 0
        <5>1. PaysOut(st, fees, budget, params)
          BY <2>2, SettlementSums
        <5> QED
          BY <5>1 DEF PaysOut
      <4>2. fees + budget \in Nat /\ params.treasury_bps \in Nat
        BY EconomicsTyped
      <4>3. Bps(fees + budget, params.treasury_bps) \in Nat
        BY <4>2, BpsTyped
      <4> HIDE DEF commission
      <4> QED
        BY <1>0, <4>1, <4>3
    <3> HIDE DEF t, b, ws
    <3> QED
      BY <2>2, <3>1, <3>2 DEF ws
  <2> QED
    BY <2>1, <2>2
<1>2. PICK t \in Nat : b = [st EXCEPT !.treasury_balance = t, !.epoch = st.epoch + 1, !.unbonding = us]
  BY <1>1
<1>3. us \in Seq(Entry) /\ Held(st.unbonding, us, st.epoch + 1)
  <2>1. CASE ActiveStake(st) = 0
    BY <1>0, <2>1 DEF Held
  <2>2. CASE ActiveStake(st) # 0
    <3>1. kept \subseteq DOMAIN st.unbonding
      OBVIOUS
    <3>2. \A i \in DOMAIN st.unbonding : i \in kept \/ st.unbonding[i].release_epoch <= st.epoch + 1
      <4> SUFFICES ASSUME NEW i \in DOMAIN st.unbonding
                   PROVE  i \in kept \/ st.unbonding[i].release_epoch <= st.epoch + 1
        OBVIOUS
      <4>1. st.unbonding[i] \in Entry
        BY <1>0
      <4>2. st.unbonding[i].release_epoch \in Nat
        BY <4>1 DEF Entry
      <4> QED
        BY <1>0, <4>2
    <3> HIDE DEF kept
    <3>3. /\ Retain(st.unbonding, kept) \in Seq(Entry)
          /\ \A i \in kept : \E j \in DOMAIN Retain(st.unbonding, kept) :
                Retain(st.unbonding, kept)[j] = st.unbonding[i]
      BY <1>0, <3>1, RetainKeeps
    <3> QED
      BY <2>2, <3>2, <3>3 DEF Held
  <2> QED
    BY <2>1, <2>2
<1> HIDE DEF us, b
<1> DEFINE e == st.epoch + 1
<1> HIDE DEF e
<1>4. b = [epoch |-> e, validators |-> st.validators, delegations |-> st.delegations,
           unbonding |-> us, treasury_balance |-> t, slashing_events |-> st.slashing_events]
  BY <1>2 DEF StOK, e
<1>5. e \in Nat
  BY <1>0 DEF e
<1>6. /\ StOK(b) /\ b.epoch = e /\ b.validators = st.validators /\ b.unbonding = us
  BY <1>3, <1>4, <1>5, FromParts DEF StOK
<1>7. JailKept(st.validators, st.validators)
  BY DEF JailKept
<1> QED
  BY <1>0, <1>3, <1>6, <1>7 DEF Leads, b, e

Proposal == [proposal_id : Nat, activation_epoch : Nat, update : EconomicsParams]

Governance == [economics : EconomicsParams, pending : Seq(Proposal), next_proposal_id : Nat]

LEMMA MaxChosen ==
    ASSUME NEW n \in Nat, NEW S, S \subseteq 1..n, S # {}
    PROVE  Max(S) \in S
<1> DEFINE T == {n - x : x \in S}
<1>1. T \subseteq Nat /\ T # {}
  <2>1. \A x \in S : x \in Nat /\ x <= n
    OBVIOUS
  <2>2. \A x \in S : n - x \in Nat
    BY <2>1
  <2> QED
    BY <2>2
<1> HIDE DEF T
<1>2. PICK t \in T : \A u \in T : t <= u
  BY <1>1, LeastNumber
<1> USE DEF T
<1>3. PICK x \in S : t = n - x
  BY <1>2
<1>4. \A y \in S : x >= y
  <2> SUFFICES ASSUME NEW y \in S PROVE x >= y
    OBVIOUS
  <2>1. n - x <= n - y
    BY <1>2, <1>3
  <2>2. x \in Int /\ y \in Int
    OBVIOUS
  <2> QED
    BY <2>1, <2>2
<1> DEFINE P(z) == \A y \in S : z >= y
<1>5. \E z \in S : P(z)
  BY <1>4
<1>6. Max(S) = CHOOSE z \in S : P(z)
  BY DEF Max
<1> HIDE DEF P
<1> QED
  BY <1>5, <1>6

\* activate_ready_updates puts proposed economics in force, no others.
LEMMA ActivateReadyUpdatesKeeps ==
    ASSUME NEW gov \in Governance, NEW epoch
    PROVE  ActivateReadyUpdates(gov, epoch) \in Governance
<1> DEFINE waiting == {i \in DOMAIN gov.pending : gov.pending[i].activation_epoch > epoch}
           ready == DOMAIN gov.pending \ waiting
           ec == IF ready = {} THEN gov.economics ELSE gov.pending[Max(ready)].update
           ps == Retain(gov.pending, waiting)
<1>1. gov.pending \in Seq(Proposal) /\ gov.economics \in EconomicsParams
  BY DEF Governance
<1>2. ActivateReadyUpdates(gov, epoch) = [gov EXCEPT !.economics = ec, !.pending = ps]
  BY DEF ActivateReadyUpdates
<1>3. waiting \subseteq DOMAIN gov.pending
  OBVIOUS
<1> HIDE DEF waiting
<1>4. ps \in Seq(Proposal)
  BY <1>1, <1>3, RetainKeeps
<1>5. ec \in EconomicsParams
  <2>1. CASE ready = {}
    BY <1>1, <2>1
  <2>2. CASE ready # {}
    <3>1. ready \subseteq 1..Len(gov.pending) /\ Len(gov.pending) \in Nat
      BY <1>1
    <3> HIDE DEF ready
    <3>2. Max(ready) \in ready
      BY <2>2, <3>1, MaxChosen
    <3> DEFINE m == Max(ready)
    <3>3. m \in DOMAIN gov.pending
      BY <3>2 DEF ready
    <3> HIDE DEF m
    <3>4. gov.pending[m] \in Proposal
      BY <1>1, <3>3
    <3> QED
      BY <2>2, <3>4 DEF Proposal, m
  <2> QED
    BY <2>1, <2>2
<1> HIDE DEF ec, ps
<1> QED
  BY <1>2, <1>4, <1>5 DEF Governance

LEMMA QueueParameterUpdateKeeps ==
    ASSUME NEW gov \in Governance, NEW activation \in Nat, NEW e \in EconomicsParams
    PROVE  QueueParameterUpdate(gov, activation, e) \in Governance
<1> DEFINE p == [proposal_id |-> gov.next_proposal_id, activation_epoch |-> activation, update |-> e]
           ps == Append(gov.pending, p)
           id == gov.next_proposal_id + 1
<1>1. p \in Proposal /\ gov.pending \in Seq(Proposal) /\ id \in Nat
  BY DEF Governance, Proposal
<1>2. QueueParameterUpdate(gov, activation, e) =
        [gov EXCEPT !.next_proposal_id = id, !.pending = ps]
  BY DEF QueueParameterUpdate
<1> HIDE DEF p, id
<1>3. ps \in Seq(Proposal)
  BY <1>1
<1> HIDE DEF ps
<1> QED
  BY <1>1, <1>2, <1>3 DEF Governance

\* A block begins an epoch at every multiple of the epoch length.
LEMMA EpochsCounted ==
    ASSUME NEW a \in Nat, NEW l \in Nat, l # 0
    PROVE  (a + 1) \div l = (a \div l) + IF (a + 1) % l = 0 THEN 1 ELSE 0
<1> DEFINE q == a \div l
           r == a % l
<1>1. q \in Nat /\ r \in Nat /\ r < l /\ a = l * q + r
  OBVIOUS
<1> HIDE DEF q, r
<1>2. CASE r + 1 = l
  <2>1. a + 1 = l * (q + 1) + 0
    BY <1>1, <1>2
  <2>2. (a + 1) \div l = q + 1 /\ (a + 1) % l = 0
    BY <1>1, <2>1
  <2> QED
    BY <2>2 DEF q
<1>3. CASE r + 1 < l
  <2>1. a + 1 = l * q + (r + 1)
    BY <1>1
  <2>2. (a + 1) \div l = q /\ (a + 1) % l = r + 1
    BY <1>1, <1>3, <2>1
  <2> QED
    BY <1>1, <2>2 DEF q
<1> QED
  BY <1>1, <1>2, <1>3

\* apply_block_accounting on the block of height h, after that of h - 1.
LEMMA AccountBlockKeeps ==
    ASSUME NEW st, StOK(st), NEW gov \in Governance, NEW h \in Nat
    PROVE  LET a == AccountBlock(st, gov, h + 1)
           IN  /\ Leads(st, a.staking) /\ a.gov \in Governance
               /\ st.epoch = EpochOf(h) => a.staking.epoch = EpochOf(h + 1)
<1> DEFINE l == Economics.epoch_length
           cut == Bps(Fees, Economics.treasury_bps)
           funded == [st EXCEPT !.treasury_balance = @ + cut]
           slashed == ApplyDowntimeSlashing(funded, gov.economics)
           settled == SettleEpochRewards(slashed, 0, 0, gov.economics)
           governed == ActivateReadyUpdates(gov, settled.epoch)
           a == AccountBlock(st, gov, h + 1)
<1>1. l \in Nat /\ gov.economics \in EconomicsParams /\ st.epoch \in Nat
  BY EconomicsAssumption, EconomicsTyped DEF Governance, StOK
<1>2. Leads(st, funded) /\ funded.epoch = st.epoch /\ StOK(funded)
  <2>1. cut \in Nat
    BY BoundsAssumption, EconomicsAssumption, EconomicsTyped, BpsTyped
  <2> HIDE DEF cut
  <2> QED
    BY <2>1, FundingKeeps DEF Leads
<1>3. a.staking = (IF l # 0 /\ (h + 1) % l = 0 THEN settled ELSE funded)
      /\ a.gov = (IF l # 0 /\ (h + 1) % l = 0 THEN governed ELSE gov)
  BY DEF AccountBlock
<1> HIDE DEF funded, a, cut
<1>4. Leads(funded, slashed) /\ slashed.epoch = funded.epoch /\ StOK(slashed)
  BY <1>1, <1>2, ApplyDowntimeSlashingKeeps DEF Leads
<1> HIDE DEF slashed
<1>5. Leads(slashed, settled) /\ settled.epoch = slashed.epoch + 1
  BY <1>1, <1>4, SettleEpochRewardsKeeps
<1> HIDE DEF settled
<1>6. governed \in Governance
  BY ActivateReadyUpdatesKeeps
<1> HIDE DEF governed
<1>7. Leads(st, settled) /\ settled.epoch = st.epoch + 1
  BY <1>2, <1>4, <1>5, LeadsOn
<1> HIDE DEF l
<1>8. CASE l # 0 /\ (h + 1) % l = 0
  <2>1. EpochOf(h + 1) = EpochOf(h) + 1
    BY <1>1, <1>8, EpochsCounted DEF EpochOf, l
  <2> QED
    BY <1>3, <1>6, <1>7, <1>8, <2>1 DEF a
<1>9. CASE ~(l # 0 /\ (h + 1) % l = 0)
  <2>1. EpochOf(h + 1) = EpochOf(h)
    <3>1. CASE l = 0
      BY <3>1 DEF EpochOf, l
    <3>2. CASE l # 0
      <4>1. (h + 1) \div l = (h \div l) + 0
        BY <1>1, <1>9, <3>2, EpochsCounted
      <4>2. h \div l \in Nat
        BY <1>1, <3>2
      <4> QED
        BY <3>2, <4>1, <4>2 DEF EpochOf, l
    <3> QED
      BY <3>1, <3>2
  <2> QED
    BY <1>2, <1>3, <1>9, <2>1 DEF a
<1> QED
  BY <1>8, <1>9

-----------------------------------------------------------------------------
(* The inductive invariant.                                                *)

\* What a job may still have to write.
Todos ==
    {<< >>, <<"staking">>, <<"governance">>, <<"evidence">>, <<"commit", "evidence">>,
     <<"staking", "commit", "evidence">>, <<"commit", "staking">>}

\* The jobs that will store their copy of the staking state.
Pending(j) == j.todo \in {<<"staking">>, <<"staking", "commit", "evidence">>, <<"commit", "staking">>}

JobOK(j) ==
    /\ j = [todo |-> j.todo, staking |-> j.staking, gov |-> j.gov, block |-> j.block,
            vote |-> j.vote, accused |-> j.accused, transition |-> j.transition,
            fresh |-> j.fresh]
    /\ j.todo \in Todos /\ StOK(j.staking) /\ j.gov \in Governance /\ j.block \in Nat
    /\ j.accused \in Seq(Genesis) /\ j.fresh \in BOOLEAN

StoreOK(s) ==
    /\ s = [staking |-> s.staking, gov |-> s.gov, height |-> s.height, accounted |-> s.accounted]
    /\ StOK(s.staking) /\ s.gov \in Governance /\ s.height \in Nat /\ s.accounted \in Nat

\* A copy nobody has overtaken is one step ahead of the store.
CopyOK(s, j) ==
    /\ Leads(s.staking, j.staking)
    /\ j.block = 0 => j.staking.epoch = s.staking.epoch
    /\ j.block # 0 => j.staking.epoch = EpochOf(j.block)

\* One node: store, whether it is up, jobs, evidence, whether it is clean.
NodeOK(s, u, js, ev, c, tasks) ==
    /\ StoreOK(s) /\ u \in BOOLEAN /\ c \in BOOLEAN /\ ev \in Seq(Genesis)
    /\ js = [t \in tasks |-> js[t]]
    /\ \A t \in tasks : JobOK(js[t])
    /\ ~u => \A t \in tasks : js[t].todo = << >>
    /\ c => s.staking.epoch = EpochOf(s.accounted)
    /\ c => \A t \in tasks : js[t].fresh /\ Pending(js[t]) => CopyOK(s, js[t])

StakingInv ==
    /\ store = [n \in Nodes |-> store[n]] /\ up = [n \in Nodes |-> up[n]]
    /\ job = [n \in Nodes |-> job[n]] /\ evidence = [n \in Nodes |-> evidence[n]]
    /\ clean = [n \in Nodes |-> clean[n]]
    /\ \A n \in Nodes : NodeOK(store[n], up[n], job[n], evidence[n], clean[n], TasksOf[n])

\* A step of node n.
At(n) == NodeOK(store[n], up[n], job[n], evidence[n], clean[n], TasksOf[n])

Same(f, g, n) == g = [m \in Nodes |-> IF m = n THEN g[n] ELSE f[m]]

LEMMA OneNode ==
    ASSUME StakingInv, NEW n \in Nodes,
           Same(store, store', n), Same(up, up', n), Same(job, job', n),
           Same(evidence, evidence', n), Same(clean, clean', n), At(n)'
    PROVE  StakingInv'
<1>1. /\ store' = [m \in Nodes |-> store'[m]] /\ up' = [m \in Nodes |-> up'[m]]
      /\ job' = [m \in Nodes |-> job'[m]] /\ evidence' = [m \in Nodes |-> evidence'[m]]
      /\ clean' = [m \in Nodes |-> clean'[m]]
  BY DEF Same
<1>2. \A m \in Nodes : m # n => /\ store'[m] = store[m] /\ up'[m] = up[m] /\ job'[m] = job[m]
                                /\ evidence'[m] = evidence[m] /\ clean'[m] = clean[m]
  BY DEF Same
<1>3. ASSUME NEW m \in Nodes
      PROVE NodeOK(store[m], up[m], job[m], evidence[m], clean[m], TasksOf[m])'
  <2>1. CASE m = n
    BY <2>1 DEF At
  <2>2. CASE m # n
    <3>1. NodeOK(store[m], up[m], job[m], evidence[m], clean[m], TasksOf[m])
      BY DEF StakingInv
    <3> QED
      BY <1>2, <2>2, <3>1
  <2> QED
    BY <2>1, <2>2
<1> QED
  BY <1>1, <1>3 DEF StakingInv

\* A function changed at n only, or not at all.
LEMMA SameKept ==
    ASSUME NEW f, f = [m \in Nodes |-> f[m]], NEW n \in Nodes
    PROVE  Same(f, f, n)
BY DEF Same

LEMMA SameExcept ==
    ASSUME NEW f, f = [m \in Nodes |-> f[m]], NEW n \in Nodes, NEW x
    PROVE  Same(f, [f EXCEPT ![n] = x], n) /\ [f EXCEPT ![n] = x][n] = x
BY DEF Same

LEMMA EmptyOK == StOK(EmptyStaking) /\ EmptyStaking.epoch = 0
<1> DEFINE nothing == << >>
<1>1. nothing \in Seq(Entry) /\ DOMAIN nothing = {}
  OBVIOUS
<1>2. StakesOK(nothing, nothing)
  BY <1>1 DEF StakesOK
<1>3. EmptyStaking = [epoch |-> 0, validators |-> nothing, delegations |-> nothing,
                      unbonding |-> nothing, treasury_balance |-> 0, slashing_events |-> nothing]
  BY DEF EmptyStaking
<1> HIDE DEF nothing
<1>4. /\ EmptyStaking.epoch = 0 /\ EmptyStaking.validators = nothing
      /\ EmptyStaking.delegations = nothing /\ EmptyStaking.unbonding = nothing
      /\ EmptyStaking.treasury_balance = 0 /\ EmptyStaking.slashing_events = nothing
  BY <1>3
<1> QED
  BY <1>1, <1>2, <1>3, <1>4 DEF StOK

LEMMA NewGovernanceOK == NewGovernance(Economics) \in Governance
BY EconomicsAssumption DEF NewGovernance, Governance

LEMMA NoJobOK == JobOK(NoJob) /\ NoJob.todo = << >> /\ ~Pending(NoJob) /\ NoJob.block = 0
<1>1. /\ NoJob.todo = << >> /\ NoJob.staking = EmptyStaking /\ NoJob.gov = NewGovernance(Economics)
      /\ NoJob.block = 0 /\ NoJob.vote = {} /\ NoJob.accused = << >> /\ NoJob.transition = {}
      /\ NoJob.fresh = TRUE
      /\ NoJob = [todo |-> << >>, staking |-> EmptyStaking, gov |-> NewGovernance(Economics),
                  block |-> 0, vote |-> {}, accused |-> << >>, transition |-> {}, fresh |-> TRUE]
  BY DEF NoJob
<1>2. << >> \in Todos /\ << >> \in Seq(Genesis)
  BY DEF Todos
<1>3. ~Pending(NoJob)
  BY <1>1 DEF Pending
<1> QED
  BY <1>1, <1>2, <1>3, EmptyOK, NewGovernanceOK DEF JobOK

\* The stores are empty at first.
LEMMA StakingInvInit == Init => StakingInv
<1> SUFFICES ASSUME Init PROVE StakingInv
  OBVIOUS
<1>1. /\ store = [n \in Nodes |-> store[n]] /\ up = [n \in Nodes |-> up[n]]
      /\ job = [n \in Nodes |-> job[n]] /\ evidence = [n \in Nodes |-> evidence[n]]
      /\ clean = [n \in Nodes |-> clean[n]]
  BY DEF Init
<1>2. ASSUME NEW n \in Nodes
      PROVE  NodeOK(store[n], up[n], job[n], evidence[n], clean[n], TasksOf[n])
  <2>1. /\ store[n] = [staking |-> EmptyStaking, gov |-> NewGovernance(Economics),
                       height |-> 0, accounted |-> 0]
        /\ up[n] = FALSE /\ evidence[n] = << >> /\ clean[n] = TRUE
        /\ job[n] = [t \in TasksOf[n] |-> NoJob]
    BY DEF Init
  <2>2. StoreOK(store[n]) /\ store[n].staking.epoch = 0 /\ store[n].accounted = 0
    BY <2>1, EmptyOK, NewGovernanceOK DEF StoreOK
  <2>3. EpochOf(0) = 0
    <3>1. Economics.epoch_length \in Nat
      BY EconomicsAssumption, EconomicsTyped
    <3> QED
      BY <3>1 DEF EpochOf
  <2>4. /\ job[n] = [t \in TasksOf[n] |-> job[n][t]]
        /\ \A t \in TasksOf[n] : job[n][t] = NoJob
    BY <2>1
  <2>5. \A t \in TasksOf[n] : JobOK(job[n][t]) /\ job[n][t].todo = << >> /\ ~Pending(job[n][t])
    BY <2>4, NoJobOK
  <2>6. /\ up[n] \in BOOLEAN /\ clean[n] \in BOOLEAN /\ evidence[n] \in Seq(Genesis)
        /\ store[n].staking.epoch = EpochOf(store[n].accounted)
    <3>1. << >> \in Seq(Genesis)
      OBVIOUS
    <3>2. evidence[n] \in Seq(Genesis)
      BY <2>1, <3>1, Zenon
    <3>3. up[n] \in BOOLEAN /\ clean[n] \in BOOLEAN
      BY <2>1, Zenon
    <3>4. store[n].staking.epoch = EpochOf(store[n].accounted)
      BY <2>2, <2>3, Zenon
    <3> QED
      BY <3>2, <3>3, <3>4
  <2> QED
    BY <2>2, <2>4, <2>5, <2>6, Zenon DEF NodeOK
<1> QED
  BY <1>1, <1>2 DEF StakingInv

-----------------------------------------------------------------------------
(* Steps that load: the copy a job has made is one step ahead of the store. *)

\* A task of n begins another job and nothing is stored.
LEMMA JobStep ==
    ASSUME StakingInv, NEW n \in Nodes, NEW t \in TasksOf[n], NEW j, Assign(n, t, j), JobOK(j),
           up[n], store' = store, up' = up,
           Same(evidence, evidence', n), evidence'[n] \in Seq(Genesis),
           Same(clean, clean', n), clean'[n] \in BOOLEAN, clean'[n] => clean[n],
           clean'[n] /\ Pending(j) => CopyOK(store[n], j)
    PROVE  StakingInv'
<1> DEFINE ks == [job[n] EXCEPT ![t] = j]
<1>1. /\ store = [m \in Nodes |-> store[m]] /\ up = [m \in Nodes |-> up[m]]
      /\ job = [m \in Nodes |-> job[m]]
  BY DEF StakingInv
<1>2. NodeOK(store[n], up[n], job[n], evidence[n], clean[n], TasksOf[n])
  BY DEF StakingInv
<1>3. job' = [job EXCEPT ![n] = ks]
  BY DEF Assign
<1>4. NodeOK(store[n], up[n], ks, evidence'[n], clean'[n], TasksOf[n])
  <2> DEFINE tasks == TasksOf[n]
  <2>1. /\ ks = [r \in tasks |-> ks[r]]
        /\ \A r \in tasks : ks[r] = IF r = t THEN j ELSE job[n][r]
    BY <1>2 DEF NodeOK
  <2> HIDE DEF ks, tasks
  <2>2. \A r \in tasks : JobOK(ks[r])
    BY <1>2, <2>1 DEF NodeOK, tasks
  <2>3. clean'[n] => \A r \in tasks : ks[r].fresh /\ Pending(ks[r]) => CopyOK(store[n], ks[r])
    BY <1>2, <2>1 DEF NodeOK, tasks
  <2>4. clean'[n] => store[n].staking.epoch = EpochOf(store[n].accounted)
    BY <1>2 DEF NodeOK
  <2>5. StoreOK(store[n]) /\ up[n] \in BOOLEAN
    BY <1>2 DEF NodeOK
  <2> QED
    BY <2>1, <2>2, <2>3, <2>4, <2>5 DEF NodeOK, tasks
<1> HIDE DEF ks
<1>5. Same(job, job', n) /\ job'[n] = ks
  BY <1>1, <1>3, SameExcept
<1>6. Same(store, store', n) /\ Same(up, up', n)
  BY <1>1, SameKept
<1>7. At(n)'
  BY <1>4, <1>5 DEF At
<1> QED
  BY <1>5, <1>6, <1>7, OneNode

LEMMA LoadKeeps ==
    ASSUME StakingInv, NEW n \in Nodes
    PROVE  /\ StOK(store[n].staking) /\ StOK(Load(n)) /\ store[n].gov \in Governance
           /\ store[n].height \in Nat
           /\ Leads(store[n].staking, Load(n)) /\ Load(n).epoch = store[n].staking.epoch
           /\ DOMAIN Load(n).validators = DOMAIN store[n].staking.validators \cup Genesis
<1>1. StOK(store[n].staking) /\ store[n].gov \in Governance /\ store[n].height \in Nat
  BY DEF StakingInv, NodeOK, StoreOK
<1>2. Genesis \subseteq Addresses
  BY DEF Addresses
<1> DEFINE st == store[n].staking
           b == EnsureValidators(st, Genesis)
<1>3. Leads(st, b) /\ b.epoch = st.epoch /\ DOMAIN b.validators = DOMAIN st.validators \cup Genesis
  BY <1>1, <1>2, EnsureKeeps
<1> QED
  BY <1>1, <1>3 DEF Load, Leads

\* A job that is only to store its copy.
CopyJob(x, w, acc) ==
    [NoJob EXCEPT !.todo = <<"staking">>, !.staking = x, !.vote = w, !.accused = acc]

\* A job that stores a snapshot the stored one leads to, of the same epoch.
LEMMA CopyMade ==
    ASSUME StakingInv, NEW n \in Nodes, NEW x, Leads(store[n].staking, x),
           x.epoch = store[n].staking.epoch, NEW w, NEW acc \in Seq(Genesis)
    PROVE  JobOK(CopyJob(x, w, acc)) /\ CopyOK(store[n], CopyJob(x, w, acc))
<1> DEFINE todo == <<"staking">>
           j == CopyJob(x, w, acc)
<1>1. todo \in Todos
  BY DEF Todos
<1> HIDE DEF todo
<1>2. j = [todo |-> todo, staking |-> x, gov |-> NoJob.gov, block |-> NoJob.block, vote |-> w,
           accused |-> acc, transition |-> NoJob.transition, fresh |-> NoJob.fresh]
  <2>1. NoJob = [todo |-> NoJob.todo, staking |-> NoJob.staking, gov |-> NoJob.gov,
                 block |-> NoJob.block, vote |-> NoJob.vote, accused |-> NoJob.accused,
                 transition |-> NoJob.transition, fresh |-> NoJob.fresh]
    BY NoJobOK DEF JobOK
  <2>2. j = [NoJob EXCEPT !.todo = todo, !.staking = x, !.vote = w, !.accused = acc]
    BY DEF CopyJob, todo
  <2> HIDE DEF j
  <2> QED
    BY <2>1, <2>2
<1> HIDE DEF j
<1>3. StOK(x) /\ NoJob.gov \in Governance /\ NoJob.block \in Nat /\ NoJob.fresh \in BOOLEAN
      /\ NoJob.block = 0
  BY NoJobOK DEF Leads, JobOK
<1>4. JobOK(j) /\ j.staking = x /\ j.block = 0
  <2>1. /\ j.todo = todo /\ j.staking = x /\ j.gov = NoJob.gov /\ j.block = NoJob.block
        /\ j.vote = w /\ j.accused = acc /\ j.transition = NoJob.transition
        /\ j.fresh = NoJob.fresh
    BY <1>2
  <2> QED
    BY <1>1, <1>2, <1>3, <2>1 DEF JobOK
<1>5. CopyOK(store[n], j)
  BY <1>4 DEF CopyOK
<1> QED
  BY <1>4, <1>5 DEF j

LEMMA NoteMade ==
    ASSUME StakingInv, NEW n \in Nodes, NEW v \in DOMAIN Load(n).validators, NEW w,
           NEW acc \in Seq(Genesis)
    PROVE  JobOK(NoteJob(n, v, w, acc)) /\ CopyOK(store[n], NoteJob(n, v, w, acc))
<1> DEFINE x == NoteLiveness(Load(n), v)
<1>1. /\ StOK(store[n].staking) /\ StOK(Load(n)) /\ Leads(store[n].staking, Load(n))
      /\ Load(n).epoch = store[n].staking.epoch
  BY LoadKeeps
<1>2. Leads(Load(n), x) /\ x.epoch = Load(n).epoch
  BY <1>1, NoteLivenessKeeps
<1>3. Leads(store[n].staking, x)
  BY <1>1, <1>2, LeadsOn
<1>4. NoteJob(n, v, w, acc) = CopyJob(x, w, acc)
  BY DEF NoteJob, CopyJob
<1> HIDE DEF x
<1> QED
  BY <1>1, <1>2, <1>3, <1>4, CopyMade

\* The variables a step leaves alone.
LEMMA Kept ==
    ASSUME StakingInv, NEW n \in Nodes
    PROVE  /\ Same(evidence, evidence, n) /\ Same(clean, clean, n) /\ Same(store, store, n)
           /\ Same(up, up, n) /\ evidence[n] \in Seq(Genesis) /\ clean[n] \in BOOLEAN
<1>1. /\ store = [m \in Nodes |-> store[m]] /\ up = [m \in Nodes |-> up[m]]
      /\ evidence = [m \in Nodes |-> evidence[m]] /\ clean = [m \in Nodes |-> clean[m]]
  BY DEF StakingInv
<1>2. evidence[n] \in Seq(Genesis) /\ clean[n] \in BOOLEAN
  BY DEF StakingInv, NodeOK
<1> QED
  BY <1>1, <1>2, SameKept

\* The job of a task begins and nothing else of the node changes.
LEMMA QuietStep ==
    ASSUME StakingInv, NEW n \in Nodes, NEW t \in TasksOf[n], NEW j, Assign(n, t, j), JobOK(j),
           up[n], store' = store, up' = up, evidence' = evidence, clean' = clean,
           Pending(j) => CopyOK(store[n], j)
    PROVE  StakingInv'
<1>1. /\ Same(evidence, evidence', n) /\ Same(clean, clean', n)
      /\ evidence'[n] \in Seq(Genesis) /\ clean'[n] \in BOOLEAN
  BY Kept
<1>2. clean'[n] => clean[n]
  OBVIOUS
<1> QED
  BY <1>1, <1>2, JobStep

LEMMA RecordVoteKeeps ==
    ASSUME StakingInv, NEW n \in Nodes, NEW v, RecordVote(n, v) PROVE StakingInv'
<1> DEFINE j == NoteJob(n, v, {v}, << >>)
<1>1. v \in DOMAIN Load(n).validators /\ << >> \in Seq(Genesis)
  BY DEF RecordVote, Validators
<1>2. JobOK(j) /\ CopyOK(store[n], j)
  BY <1>1, NoteMade
<1> HIDE DEF j
<1>3. /\ up[n] /\ "consensus" \in TasksOf[n] /\ Assign(n, "consensus", j)
      /\ store' = store /\ up' = up /\ evidence' = evidence /\ clean' = clean
  BY DEF RecordVote, Idle, j
<1> QED
  BY <1>2, <1>3, QuietStep

LEMMA RecordLateVoteKeeps ==
    ASSUME StakingInv, NEW n \in Nodes, NEW v, RecordLateVote(n, v) PROVE StakingInv'
<1> DEFINE j == NoteJob(n, v, {}, << >>)
<1>1. v \in DOMAIN Load(n).validators /\ << >> \in Seq(Genesis)
  BY DEF RecordLateVote, Validators
<1>2. JobOK(j) /\ CopyOK(store[n], j)
  BY <1>1, NoteMade
<1> HIDE DEF j
<1>3. /\ up[n] /\ "consensus" \in TasksOf[n] /\ Assign(n, "consensus", j)
      /\ store' = store /\ up' = up /\ evidence' = evidence /\ clean' = clean
  BY DEF RecordLateVote, Idle, j
<1> QED
  BY <1>2, <1>3, QuietStep

LEMMA RecordConflictingVoteKeeps ==
    ASSUME StakingInv, NEW n \in Nodes, NEW v \in Faulty, RecordConflictingVote(n, v)
    PROVE  StakingInv'
<1> DEFINE j == NoteJob(n, v, {}, <<v>>)
<1>1. v \in DOMAIN Load(n).validators /\ <<v>> \in Seq(Genesis)
  <2>1. DOMAIN Load(n).validators = DOMAIN store[n].staking.validators \cup Genesis
    BY LoadKeeps
  <2>2. v \in Genesis
    BY AddressesAssumption
  <2> QED
    BY <2>1, <2>2
<1>2. JobOK(j) /\ CopyOK(store[n], j)
  BY <1>1, NoteMade
<1> HIDE DEF j
<1>3. /\ up[n] /\ "consensus" \in TasksOf[n] /\ Assign(n, "consensus", j)
      /\ store' = store /\ up' = up /\ evidence' = evidence /\ clean' = clean
  BY DEF RecordConflictingVote, Idle, j
<1> QED
  BY <1>2, <1>3, QuietStep

LEMMA NoJobFields ==
    /\ NoJob = [todo |-> NoJob.todo, staking |-> NoJob.staking, gov |-> NoJob.gov,
                block |-> NoJob.block, vote |-> NoJob.vote, accused |-> NoJob.accused,
                transition |-> NoJob.transition, fresh |-> NoJob.fresh]
    /\ StOK(NoJob.staking) /\ NoJob.gov \in Governance /\ NoJob.block = 0
    /\ NoJob.accused \in Seq(Genesis) /\ NoJob.fresh \in BOOLEAN
BY NoJobOK DEF JobOK

LEMMA CopyIs ==
    ASSUME NEW x
    PROVE  [NoJob EXCEPT !.todo = <<"staking">>, !.staking = x] = CopyJob(x, {}, << >>)
<1> DEFINE todo == <<"staking">>
           none == << >>
           j == [NoJob EXCEPT !.todo = todo, !.staking = x]
           k == CopyJob(x, {}, none)
<1>1. NoJob.vote = {} /\ NoJob.accused = none
  BY DEF NoJob
<1>2. j = [NoJob EXCEPT !.todo = todo, !.staking = x]
  OBVIOUS
<1>3. k = [NoJob EXCEPT !.todo = todo, !.staking = x, !.vote = {}, !.accused = none]
  BY DEF CopyJob
<1> HIDE DEF todo, none, j, k
<1>4. j = [todo |-> todo, staking |-> x, gov |-> NoJob.gov, block |-> NoJob.block,
           vote |-> NoJob.vote, accused |-> NoJob.accused, transition |-> NoJob.transition,
           fresh |-> NoJob.fresh]
  BY <1>2, NoJobFields
<1>5. k = [todo |-> todo, staking |-> x, gov |-> NoJob.gov, block |-> NoJob.block,
           vote |-> {}, accused |-> none, transition |-> NoJob.transition,
           fresh |-> NoJob.fresh]
  BY <1>3, NoJobFields
<1>6. j = k
  BY <1>1, <1>4, <1>5, Zenon
<1> QED
  BY <1>6 DEF j, k, todo, none

\* A call of the RPC task.
LEMMA CallKeeps ==
    ASSUME StakingInv, NEW n \in Nodes, NEW j, Call(n, j), JobOK(j),
           Pending(j) => CopyOK(store[n], j)
    PROVE  StakingInv'
<1>1. /\ up[n] /\ "rpc" \in TasksOf[n] /\ Assign(n, "rpc", j)
      /\ store' = store /\ up' = up /\ evidence' = evidence /\ clean' = clean
  BY DEF Call, Idle
<1> QED
  BY <1>1, QuietStep

LEMMA RegisterValidatorKeeps ==
    ASSUME StakingInv, NEW n \in Nodes, NEW v \in Joiners, RegisterValidator(n, v)
    PROVE  StakingInv'
<1> DEFINE st == store[n].staking
           bond == Economics.minimum_self_bond
           a == EnsureValidators(st, {v})
           x == Delegate(a, v, v, bond, TRUE)
<1>1. StOK(st) /\ {v} \subseteq Addresses /\ bond \in Nat
  BY LoadKeeps, EconomicsAssumption, EconomicsTyped DEF Addresses
<1>2. Leads(st, a) /\ a.epoch = st.epoch /\ DOMAIN a.validators = DOMAIN st.validators \cup {v}
  BY <1>1, EnsureKeeps
<1>3. v \in DOMAIN a.validators /\ StOK(a)
  BY <1>2 DEF Leads
<1> HIDE DEF a
<1>4. Leads(a, x) /\ x.epoch = a.epoch
  BY <1>1, <1>3, DelegateKeeps
<1>5. Call(n, [NoJob EXCEPT !.todo = <<"staking">>, !.staking = x])
  BY DEF RegisterValidator, a
<1> HIDE DEF x
<1>6. Call(n, CopyJob(x, {}, << >>))
  BY <1>5, CopyIs
<1>7. Leads(st, x) /\ x.epoch = st.epoch
  BY <1>1, <1>2, <1>4, LeadsOn
<1>8. << >> \in Seq(Genesis)
  OBVIOUS
<1>9. JobOK(CopyJob(x, {}, << >>)) /\ CopyOK(store[n], CopyJob(x, {}, << >>))
  BY <1>7, <1>8, CopyMade
<1> QED
  BY <1>6, <1>9, CallKeeps

LEMMA UnbondKeeps ==
    ASSUME StakingInv, NEW n \in Nodes, NEW d, NEW amount \in Nat, Unbond(n, d, d, amount)
    PROVE  StakingInv'
<1> DEFINE st == store[n].staking
           params == store[n].gov.economics
           x == BeginUnbonding(st, d, d, amount, params)
<1>1. StOK(st) /\ params \in EconomicsParams
  BY LoadKeeps DEF Governance
<1>2. /\ CanUnbond(st, d, d, amount)
      /\ Call(n, [NoJob EXCEPT !.todo = <<"staking">>, !.staking = x])
  BY DEF Unbond
<1>3. Leads(st, x) /\ x.epoch = st.epoch
  BY <1>1, <1>2, BeginUnbondingKeeps
<1> HIDE DEF x
<1>4. Call(n, CopyJob(x, {}, << >>))
  BY <1>2, CopyIs
<1>5. << >> \in Seq(Genesis)
  OBVIOUS
<1>6. JobOK(CopyJob(x, {}, << >>)) /\ CopyOK(store[n], CopyJob(x, {}, << >>))
  BY <1>3, <1>5, CopyMade
<1> QED
  BY <1>4, <1>6, CallKeeps

LEMMA QueueUpdateKeeps ==
    ASSUME StakingInv, NEW n \in Nodes, NEW e \in Proposed, QueueUpdate(n, e)
    PROVE  StakingInv'
<1> DEFINE todo == <<"governance">>
           g == QueueParameterUpdate(store[n].gov, store[n].staking.epoch + 1, e)
           j == [NoJob EXCEPT !.todo = todo, !.gov = g]
<1>1. todo \in Todos /\ todo \notin {<<"staking">>, <<"staking", "commit", "evidence">>,
                                     <<"commit", "staking">>}
  BY DEF Todos
<1>2. g \in Governance
  <2> DEFINE activation == store[n].staking.epoch + 1
  <2>1. store[n].gov \in Governance /\ StOK(store[n].staking) /\ e \in EconomicsParams
    BY LoadKeeps, EconomicsAssumption
  <2>2. activation \in Nat
    <3>1. store[n].staking.epoch \in Nat
      BY <2>1 DEF StOK
    <3> QED
      BY <3>1
  <2> HIDE DEF activation
  <2>3. QueueParameterUpdate(store[n].gov, activation, e) \in Governance
    BY <2>1, <2>2, QueueParameterUpdateKeeps
  <2> QED
    BY <2>3 DEF activation
<1>3. Call(n, j) /\ j = [NoJob EXCEPT !.todo = todo, !.gov = g]
  BY DEF QueueUpdate
<1> HIDE DEF todo, g, j
<1>4. j = [todo |-> todo, staking |-> NoJob.staking, gov |-> g, block |-> NoJob.block,
           vote |-> NoJob.vote, accused |-> NoJob.accused, transition |-> NoJob.transition,
           fresh |-> NoJob.fresh]
  BY <1>3, NoJobFields
<1>5. /\ j.todo = todo /\ j.staking = NoJob.staking /\ j.gov = g /\ j.block = NoJob.block
      /\ j.vote = NoJob.vote /\ j.accused = NoJob.accused /\ j.transition = NoJob.transition
      /\ j.fresh = NoJob.fresh
  BY <1>4
<1>6. JobOK(j) /\ ~Pending(j)
  BY <1>1, <1>2, <1>4, <1>5, NoJobFields DEF JobOK, Pending
<1> QED
  BY <1>3, <1>6, CallKeeps

\* The job of a block: its copy is one step ahead of the store, and of the
\* block's epoch if the store accounts for the block before.
LEMMA BlockMade ==
    ASSUME StakingInv, NEW n \in Nodes, NEW todo \in Todos
    PROVE  /\ JobOK(BlockJob(n, todo))
           /\ clean[n] /\ InOrder(n) => CopyOK(store[n], BlockJob(n, todo))
<1> DEFINE s == store[n]
           h == s.height + 1
           a == AccountBlock(Load(n), s.gov, h)
           j == BlockJob(n, todo)
<1>1. /\ StOK(s.staking) /\ StOK(Load(n)) /\ s.gov \in Governance /\ s.height \in Nat
      /\ Leads(s.staking, Load(n)) /\ Load(n).epoch = s.staking.epoch
  BY LoadKeeps
<1>2. /\ Leads(Load(n), a.staking) /\ a.gov \in Governance
      /\ Load(n).epoch = EpochOf(s.height) => a.staking.epoch = EpochOf(h)
  BY <1>1, AccountBlockKeeps
<1>3. h \in Nat /\ h # 0
  BY <1>1
<1>4. j = [NoJob EXCEPT !.todo = todo, !.staking = a.staking, !.gov = a.gov,
                        !.block = h, !.transition = a.transition]
  BY DEF BlockJob
<1> HIDE DEF h, a, j
<1>5. j = [todo |-> todo, staking |-> a.staking, gov |-> a.gov, block |-> h,
           vote |-> NoJob.vote, accused |-> NoJob.accused, transition |-> a.transition,
           fresh |-> NoJob.fresh]
  BY <1>4, NoJobFields
<1>6. /\ j.todo = todo /\ j.staking = a.staking /\ j.gov = a.gov /\ j.block = h
      /\ j.vote = NoJob.vote /\ j.accused = NoJob.accused /\ j.transition = a.transition
      /\ j.fresh = NoJob.fresh
  BY <1>5
<1>7. StOK(a.staking) /\ Leads(s.staking, a.staking)
  BY <1>1, <1>2, LeadsOn DEF Leads
<1>8. JobOK(j)
  BY <1>2, <1>3, <1>5, <1>6, <1>7, NoJobFields DEF JobOK
<1>9. clean[n] /\ InOrder(n) => s.staking.epoch = EpochOf(s.height)
  BY DEF StakingInv, NodeOK, InOrder
<1>10. clean[n] /\ InOrder(n) => CopyOK(s, j)
  BY <1>1, <1>2, <1>3, <1>6, <1>7, <1>9 DEF CopyOK
<1> QED
  BY <1>8, <1>10 DEF j

\* The job of a block begins; the node stays clean if the block is in order.
LEMMA BlockStep ==
    ASSUME StakingInv, NEW n \in Nodes, NEW t \in TasksOf[n], NEW todo \in Todos,
           Assign(n, t, BlockJob(n, todo)), up[n], store' = store, up' = up,
           evidence' = evidence, clean' = [clean EXCEPT ![n] = @ /\ InOrder(n)]
    PROVE  StakingInv'
<1> DEFINE j == BlockJob(n, todo)
<1>1. JobOK(j) /\ (clean[n] /\ InOrder(n) => CopyOK(store[n], j))
  BY BlockMade
<1>2. Same(evidence, evidence', n) /\ evidence'[n] \in Seq(Genesis) /\ clean[n] \in BOOLEAN
  BY Kept
<1>3. Same(clean, clean', n) /\ clean'[n] = (clean[n] /\ InOrder(n))
  <2>1. clean = [m \in Nodes |-> clean[m]]
    BY DEF StakingInv
  <2> DEFINE c == clean[n] /\ InOrder(n)
  <2>2. clean' = [clean EXCEPT ![n] = c]
    OBVIOUS
  <2> HIDE DEF c
  <2>3. Same(clean, clean', n) /\ clean'[n] = c
    BY <2>1, <2>2, SameExcept
  <2> QED
    BY <2>3 DEF c
<1>4. clean'[n] \in BOOLEAN /\ (clean'[n] => clean[n])
      /\ (clean'[n] /\ Pending(j) => CopyOK(store[n], j))
  BY <1>1, <1>2, <1>3
<1> HIDE DEF j
<1>5. Assign(n, t, j)
  BY DEF j
<1> QED
  BY <1>1, <1>2, <1>3, <1>4, <1>5, JobStep

LEMMA FinalizeKeeps ==
    ASSUME StakingInv, NEW n \in Nodes, Finalize(n) PROVE StakingInv'
<1>1. <<"staking", "commit", "evidence">> \in Todos
  BY DEF Todos
<1>2. /\ up[n] /\ "consensus" \in TasksOf[n]
      /\ Assign(n, "consensus", BlockJob(n, <<"staking", "commit", "evidence">>))
      /\ clean' = [clean EXCEPT ![n] = @ /\ InOrder(n)]
      /\ store' = store /\ up' = up /\ evidence' = evidence
  BY DEF Finalize, Idle
<1> QED
  BY <1>1, <1>2, BlockStep

LEMMA ImportKeeps ==
    ASSUME StakingInv, NEW n \in Nodes, NEW t, NEW b, Import(n, t, b) PROVE StakingInv'
<1>1. <<"commit", "staking">> \in Todos
  BY DEF Todos
<1>2. /\ up[n] /\ t \in TasksOf[n]
      /\ Assign(n, t, BlockJob(n, <<"commit", "staking">>))
      /\ clean' = [clean EXCEPT ![n] = @ /\ InOrder(n)]
      /\ store' = store /\ up' = up /\ evidence' = evidence
  BY DEF Import, Idle
<1> QED
  BY <1>1, <1>2, BlockStep

LEMMA ApplyPendingEvidenceKeeps ==
    ASSUME StakingInv, NEW n \in Nodes, ApplyPendingEvidence(n) PROVE StakingInv'
<1> DEFINE x == ApplyEvidence(Load(n), evidence[n], Economics)
           none == << >>
           j == IF evidence[n] = none THEN NoJob ELSE CopyJob(x, {}, none)
<1>1. /\ StOK(store[n].staking) /\ StOK(Load(n)) /\ Leads(store[n].staking, Load(n))
      /\ Load(n).epoch = store[n].staking.epoch
      /\ DOMAIN Load(n).validators = DOMAIN store[n].staking.validators \cup Genesis
  BY LoadKeeps
<1>2. evidence[n] \in Seq(DOMAIN Load(n).validators)
  <2>1. evidence[n] \in Seq(Genesis)
    BY Kept
  <2> QED
    BY <1>1, <2>1
<1>3. Leads(Load(n), x) /\ x.epoch = Load(n).epoch
  BY <1>1, <1>2, EconomicsAssumption, ApplyEvidenceKeeps
<1>4. /\ up[n] /\ "consensus" \in TasksOf[n] /\ store' = store /\ up' = up /\ clean' = clean
      /\ evidence' = [evidence EXCEPT ![n] = none] /\ none \in Seq(Genesis)
  BY DEF ApplyPendingEvidence
<1>5. Assign(n, "consensus", j)
  BY CopyIs DEF ApplyPendingEvidence
<1> HIDE DEF x, none
<1>6. Leads(store[n].staking, x) /\ x.epoch = store[n].staking.epoch
  BY <1>1, <1>3, LeadsOn
<1>7. JobOK(j) /\ (Pending(j) => CopyOK(store[n], j))
  <2>1. JobOK(CopyJob(x, {}, none)) /\ CopyOK(store[n], CopyJob(x, {}, none))
    BY <1>4, <1>6, CopyMade
  <2> QED
    BY <2>1, NoJobOK
<1> HIDE DEF j
<1>8. Same(evidence, evidence', n) /\ evidence'[n] \in Seq(Genesis)
  <2>1. evidence = [m \in Nodes |-> evidence[m]]
    BY DEF StakingInv
  <2> QED
    BY <1>4, <2>1, SameExcept
<1>9. Same(clean, clean', n) /\ clean'[n] \in BOOLEAN /\ (clean'[n] => clean[n])
  BY <1>4, Kept
<1> QED
  BY <1>4, <1>5, <1>7, <1>8, <1>9, JobStep

-----------------------------------------------------------------------------
(* Steps that write.                                                       *)

LEMMA StaleJob ==
    ASSUME NEW j, JobOK(j)
    PROVE  /\ JobOK([j EXCEPT !.fresh = FALSE]) /\ [j EXCEPT !.fresh = FALSE].fresh = FALSE
<1> DEFINE no == FALSE
           k == [j EXCEPT !.fresh = no]
<1>1. no \in BOOLEAN
  OBVIOUS
<1>2. k = [j EXCEPT !.fresh = no]
  OBVIOUS
<1> HIDE DEF no, k
<1>3. j = [todo |-> j.todo, staking |-> j.staking, gov |-> j.gov, block |-> j.block,
           vote |-> j.vote, accused |-> j.accused, transition |-> j.transition,
           fresh |-> j.fresh]
  BY DEF JobOK
<1>4. k = [todo |-> j.todo, staking |-> j.staking, gov |-> j.gov, block |-> j.block,
           vote |-> j.vote, accused |-> j.accused, transition |-> j.transition,
           fresh |-> no]
  BY <1>2, <1>3
<1>5. /\ k.todo = j.todo /\ k.staking = j.staking /\ k.gov = j.gov /\ k.block = j.block
      /\ k.vote = j.vote /\ k.accused = j.accused /\ k.transition = j.transition
      /\ k.fresh = no
  BY <1>4
<1>6. JobOK(k)
  BY <1>1, <1>4, <1>5 DEF JobOK
<1> QED
  BY <1>5, <1>6 DEF k, no

LEMMA NextWrite ==
    ASSUME NEW j, JobOK(j), NEW todo \in Todos
    PROVE  LET k == [j EXCEPT !.todo = todo]
           IN  /\ JobOK(k) /\ k.todo = todo /\ k.staking = j.staking /\ k.block = j.block
               /\ k.fresh = j.fresh
<1> DEFINE k == [j EXCEPT !.todo = todo]
<1>2. k = [j EXCEPT !.todo = todo]
  OBVIOUS
<1> HIDE DEF k
<1>3. j = [todo |-> j.todo, staking |-> j.staking, gov |-> j.gov, block |-> j.block,
           vote |-> j.vote, accused |-> j.accused, transition |-> j.transition,
           fresh |-> j.fresh]
  BY DEF JobOK
<1>4. k = [todo |-> todo, staking |-> j.staking, gov |-> j.gov, block |-> j.block,
           vote |-> j.vote, accused |-> j.accused, transition |-> j.transition,
           fresh |-> j.fresh]
  BY <1>2, <1>3
<1>5. /\ k.todo = todo /\ k.staking = j.staking /\ k.gov = j.gov /\ k.block = j.block
      /\ k.vote = j.vote /\ k.accused = j.accused /\ k.transition = j.transition
      /\ k.fresh = j.fresh
  BY <1>4
<1>6. JobOK(k)
  BY <1>4, <1>5 DEF JobOK
<1> QED
  BY <1>5, <1>6 DEF k

\* After a write of task t no other task's copy is fresh.
LEMMA WrittenKeeps ==
    ASSUME StakingInv, NEW n \in Nodes, NEW t \in TasksOf[n], NEW k, JobOK(k), ~Pending(k),
           up[n], up' = up, job' = Written(n, t, k),
           Same(store, store', n), StoreOK(store'[n]),
           Same(evidence, evidence', n), evidence'[n] \in Seq(Genesis),
           Same(clean, clean', n), clean'[n] \in BOOLEAN,
           clean'[n] => store'[n].staking.epoch = EpochOf(store'[n].accounted)
    PROVE  StakingInv'
<1> DEFINE tasks == TasksOf[n]
           ks == [u \in tasks |-> IF u = t THEN k ELSE [job[n][u] EXCEPT !.fresh = FALSE]]
<1>1. job = [m \in Nodes |-> job[m]] /\ \A u \in tasks : JobOK(job[n][u])
  BY DEF StakingInv, NodeOK
<1>2. job' = [job EXCEPT ![n] = ks]
  BY DEF Written
<1>3. /\ ks = [u \in tasks |-> ks[u]]
      /\ \A u \in tasks : ks[u] = IF u = t THEN k ELSE [job[n][u] EXCEPT !.fresh = FALSE]
  OBVIOUS
<1> HIDE DEF ks
<1>4. ASSUME NEW u \in tasks
      PROVE  JobOK(ks[u]) /\ (Pending(ks[u]) => ks[u].fresh = FALSE)
  <2>1. CASE u = t
    BY <1>3, <2>1
  <2>2. CASE u # t
    <3> DEFINE j == job[n][u]
               stale == [j EXCEPT !.fresh = FALSE]
    <3>1. ks[u] = stale
      BY <1>3, <2>2
    <3>2. JobOK(j)
      BY <1>1
    <3> HIDE DEF j
    <3>3. JobOK(stale) /\ stale.fresh = FALSE
      BY <3>2, StaleJob
    <3> HIDE DEF stale
    <3> QED
      BY <3>1, <3>3
  <2> QED
    BY <2>1, <2>2
<1>5. Same(job, job', n) /\ job'[n] = ks
  BY <1>1, <1>2, SameExcept
<1>6. Same(up, up', n)
  BY Kept
<1>7. At(n)'
  <2>1. NodeOK(store'[n], up'[n], ks, evidence'[n], clean'[n], tasks)
    <3>1. up'[n] \in BOOLEAN /\ up'[n]
      BY DEF StakingInv, NodeOK
    <3> QED
      BY <1>3, <1>4, <3>1 DEF NodeOK
  <2> QED
    BY <1>5, <2>1 DEF At
<1> QED
  BY <1>5, <1>6, <1>7, OneNode

LEMMA StoreGovernanceKeeps ==
    ASSUME StakingInv, NEW n \in Nodes, NEW t \in TasksOf[n], StoreGovernance(n, t)
    PROVE  StakingInv'
<1> DEFINE j == job[n][t]
           s == [store[n] EXCEPT !.gov = j.gov]
           c == clean[n] /\ j.fresh
<1>1. /\ StoreOK(store[n]) /\ JobOK(j)
      /\ clean[n] => store[n].staking.epoch = EpochOf(store[n].accounted)
      /\ store = [m \in Nodes |-> store[m]] /\ clean = [m \in Nodes |-> clean[m]]
  BY DEF StakingInv, NodeOK
<1>2. clean[n] \in BOOLEAN /\ j.fresh \in BOOLEAN /\ j.gov \in Governance
  BY <1>1, Kept DEF JobOK
<1>3. /\ up[n] /\ up' = up /\ store' = [store EXCEPT ![n] = s] /\ job' = Written(n, t, NoJob)
      /\ clean' = [clean EXCEPT ![n] = c] /\ evidence' = evidence
  BY DEF StoreGovernance
<1>4. s = [store[n] EXCEPT !.gov = j.gov] /\ c \in BOOLEAN /\ (c => clean[n])
  BY <1>2
<1> HIDE DEF j, s, c
<1>5. s = [staking |-> store[n].staking, gov |-> j.gov, height |-> store[n].height,
           accounted |-> store[n].accounted]
  BY <1>1, <1>4 DEF StoreOK
<1>6. StoreOK(s) /\ s.staking = store[n].staking /\ s.accounted = store[n].accounted
  BY <1>1, <1>2, <1>5 DEF StoreOK
<1>7. Same(store, store', n) /\ store'[n] = s
  BY <1>1, <1>3, SameExcept
<1>8. Same(clean, clean', n) /\ clean'[n] = c
  BY <1>1, <1>3, SameExcept
<1>9. Same(evidence, evidence', n) /\ evidence'[n] \in Seq(Genesis)
  BY <1>3, Kept
<1>10. clean'[n] \in BOOLEAN
       /\ (clean'[n] => store'[n].staking.epoch = EpochOf(store'[n].accounted))
  BY <1>1, <1>4, <1>6, <1>7, <1>8
<1>11. StoreOK(store'[n])
  BY <1>6, <1>7
<1> QED
  BY <1>3, <1>7, <1>8, <1>9, <1>10, <1>11, NoJobOK, WrittenKeeps

LEMMA StoreStakingKeeps ==
    ASSUME StakingInv, NEW n \in Nodes, NEW t \in TasksOf[n], StoreStaking(n, t)
    PROVE  /\ StakingInv' /\ Same(store, store', n)
           /\ clean'[n] => Leads(store[n].staking, store'[n].staking)
<1> DEFINE j == job[n][t]
           old == store[n]
           s == IF j.block = 0 THEN [old EXCEPT !.staking = j.staking]
                ELSE [old EXCEPT !.staking = j.staking, !.gov = j.gov, !.accounted = j.block]
           c == clean[n] /\ j.fresh
           k == IF Len(j.todo) = 1 THEN NoJob ELSE [j EXCEPT !.todo = Tail(j.todo)]
           ev == evidence[n] \o j.accused
<1>1. /\ StoreOK(old) /\ JobOK(j)
      /\ clean[n] => old.staking.epoch = EpochOf(old.accounted)
      /\ clean[n] => (j.fresh /\ Pending(j) => CopyOK(old, j))
      /\ store = [m \in Nodes |-> store[m]] /\ clean = [m \in Nodes |-> clean[m]]
      /\ evidence = [m \in Nodes |-> evidence[m]]
  BY DEF StakingInv, NodeOK
<1>2. /\ clean[n] \in BOOLEAN /\ j.fresh \in BOOLEAN /\ j.gov \in Governance
      /\ evidence[n] \in Seq(Genesis) /\ j.accused \in Seq(Genesis)
  BY <1>1, Kept DEF JobOK
<1>3. /\ up[n] /\ up' = up /\ store' = [store EXCEPT ![n] = s] /\ job' = Written(n, t, k)
      /\ clean' = [clean EXCEPT ![n] = c] /\ evidence' = [evidence EXCEPT ![n] = ev]
      /\ j.todo # << >> /\ Head(j.todo) = "staking"
  BY DEF StoreStaking
<1>4. j.todo = <<"staking">> \/ j.todo = <<"staking", "commit", "evidence">>
  BY <1>1, <1>3 DEF JobOK, Todos
<1>5. Pending(j)
  BY <1>4 DEF Pending
<1>6. JobOK(k) /\ ~Pending(k)
  <2>1. CASE j.todo = <<"staking">>
    BY <2>1, NoJobOK
  <2>2. CASE j.todo = <<"staking", "commit", "evidence">>
    <3> DEFINE todo == <<"commit", "evidence">>
    <3>1. k = [j EXCEPT !.todo = todo] /\ todo \in Todos
      BY <2>2 DEF Todos
    <3>2. todo \notin {<<"staking">>, <<"staking", "commit", "evidence">>, <<"commit", "staking">>}
      OBVIOUS
    <3> HIDE DEF todo, k, j
    <3>3. JobOK(k) /\ k.todo = todo
      BY <1>1, <3>1, NextWrite
    <3> QED
      BY <3>2, <3>3 DEF Pending
  <2> QED
    BY <1>4, <2>1, <2>2
<1>7. ev \in Seq(Genesis)
  BY <1>2
<1>8. c \in BOOLEAN /\ (c => clean[n]) /\ (c => CopyOK(old, j))
  BY <1>1, <1>2, <1>5
<1>9. /\ StoreOK(s) /\ s.staking = j.staking
      /\ s.accounted = IF j.block = 0 THEN old.accounted ELSE j.block
  <2> HIDE DEF j, old
  <2>1. CASE j.block = 0
    <3>1. s = [old EXCEPT !.staking = j.staking]
      BY <2>1
    <3> HIDE DEF s
    <3>2. s = [staking |-> j.staking, gov |-> old.gov, height |-> old.height,
               accounted |-> old.accounted]
      BY <1>1, <3>1 DEF StoreOK
    <3> QED
      BY <1>1, <2>1, <3>2 DEF StoreOK, JobOK
  <2>2. CASE j.block # 0
    <3>1. s = [old EXCEPT !.staking = j.staking, !.gov = j.gov, !.accounted = j.block]
      BY <2>2
    <3> HIDE DEF s
    <3>2. s = [staking |-> j.staking, gov |-> j.gov, height |-> old.height,
               accounted |-> j.block]
      BY <1>1, <3>1 DEF StoreOK
    <3> QED
      BY <1>1, <2>2, <3>2 DEF StoreOK, JobOK
  <2> QED
    BY <2>1, <2>2
<1>10. c => s.staking.epoch = EpochOf(s.accounted)
  BY <1>1, <1>8, <1>9 DEF CopyOK
<1> HIDE DEF s, c, ev, k
<1>11. Same(store, store', n) /\ store'[n] = s
  BY <1>1, <1>3, SameExcept
<1>12. Same(clean, clean', n) /\ clean'[n] = c
  BY <1>1, <1>3, SameExcept
<1>13. Same(evidence, evidence', n) /\ evidence'[n] = ev
  BY <1>1, <1>3, SameExcept
<1>14. /\ clean'[n] \in BOOLEAN /\ evidence'[n] \in Seq(Genesis) /\ StoreOK(store'[n])
       /\ clean'[n] => store'[n].staking.epoch = EpochOf(store'[n].accounted)
  BY <1>7, <1>8, <1>9, <1>10, <1>11, <1>12, <1>13
<1>15. StakingInv'
  BY <1>3, <1>6, <1>11, <1>12, <1>13, <1>14, WrittenKeeps
<1>16. clean'[n] => Leads(store[n].staking, store'[n].staking)
  BY <1>8, <1>9, <1>11, <1>12 DEF CopyOK
<1> QED
  BY <1>11, <1>15, <1>16

LEMMA CommitBlockKeeps ==
    ASSUME StakingInv, NEW n \in Nodes, NEW t \in TasksOf[n], CommitBlock(n, t)
    PROVE  /\ StakingInv' /\ Same(store, store', n)
           /\ store'[n].staking = store[n].staking
<1> DEFINE j == job[n][t]
           s == [store[n] EXCEPT !.height = j.block]
           k == [j EXCEPT !.todo = Tail(j.todo)]
           ks == [job[n] EXCEPT ![t] = k]
           tasks == TasksOf[n]
<1>1. NodeOK(store[n], up[n], job[n], evidence[n], clean[n], tasks) /\ JobOK(j)
  BY DEF StakingInv, NodeOK
<1>2. /\ up[n] /\ up' = up /\ store' = [store EXCEPT ![n] = s] /\ job' = [job EXCEPT ![n] = ks]
      /\ clean' = clean /\ evidence' = evidence
      /\ j.todo # << >> /\ Head(j.todo) = "commit"
  BY DEF CommitBlock
<1>3. \/ j.todo = <<"commit", "evidence">> /\ Tail(j.todo) = <<"evidence">>
      \/ j.todo = <<"commit", "staking">> /\ Tail(j.todo) = <<"staking">>
  <2>1. j.todo = <<"commit", "evidence">> \/ j.todo = <<"commit", "staking">>
    <3>1. j.todo \in Todos /\ j.todo # << >> /\ Head(j.todo) = "commit"
      BY <1>1, <1>2 DEF JobOK
    <3> HIDE DEF j
    <3> QED
      BY <3>1 DEF Todos
  <2>2. /\ Tail(<<"commit", "evidence">>) = <<"evidence">>
        /\ Tail(<<"commit", "staking">>) = <<"staking">>
    OBVIOUS
  <2> HIDE DEF j
  <2> QED
    BY <2>1, <2>2, Zenon
<1>4. Tail(j.todo) \in Todos /\ (Tail(j.todo) = <<"staking">> => Pending(j))
  <2>1. <<"evidence">> # <<"staking">>
    OBVIOUS
  <2> HIDE DEF j
  <2>2. Tail(j.todo) = <<"evidence">> \/ Tail(j.todo) = <<"staking">>
    BY <1>3
  <2>3. Tail(j.todo) \in Todos
    BY <2>2, Zenon DEF Todos
  <2>4. Tail(j.todo) = <<"staking">> => Pending(j)
    BY <1>3, <2>1, Zenon DEF Pending
  <2> QED
    BY <2>3, <2>4
<1>5. <<"evidence">> \notin {<<"staking">>, <<"staking", "commit", "evidence">>, <<"commit", "staking">>}
  OBVIOUS
<1>6. /\ store[n] = [staking |-> store[n].staking, gov |-> store[n].gov,
                     height |-> store[n].height, accounted |-> store[n].accounted]
      /\ j.block \in Nat
  BY <1>1 DEF NodeOK, StoreOK, JobOK
<1>7. /\ ks = [u \in tasks |-> ks[u]]
      /\ \A u \in tasks : ks[u] = IF u = t THEN k ELSE job[n][u]
  BY <1>1 DEF NodeOK
<1> HIDE DEF ks, j
<1>8. /\ JobOK(k) /\ k.todo = Tail(j.todo) /\ k.staking = j.staking /\ k.block = j.block
      /\ k.fresh = j.fresh
  BY <1>1, <1>4, NextWrite
<1> HIDE DEF k
<1>9. Pending(k) => Pending(j)
  BY <1>3, <1>4, <1>5, <1>8 DEF Pending
<1>10. s = [staking |-> store[n].staking, gov |-> store[n].gov, height |-> j.block,
            accounted |-> store[n].accounted]
  <2>1. s = [store[n] EXCEPT !.height = j.block]
    OBVIOUS
  <2> HIDE DEF s
  <2> QED
    BY <1>6, <2>1
<1> HIDE DEF s
<1>11. StoreOK(s) /\ s.staking = store[n].staking /\ s.accounted = store[n].accounted
  BY <1>1, <1>6, <1>10 DEF StoreOK, NodeOK
<1>12. \A i : CopyOK(store[n], i) => CopyOK(s, i)
  BY <1>11 DEF CopyOK
<1>13. CopyOK(store[n], j) => CopyOK(store[n], k)
  BY <1>8 DEF CopyOK
<1>14. ASSUME NEW u \in tasks
       PROVE  JobOK(ks[u]) /\ (clean[n] /\ ks[u].fresh /\ Pending(ks[u]) => CopyOK(s, ks[u]))
  <2>1. CASE u = t
    BY <1>1, <1>7, <1>8, <1>9, <1>12, <1>13, <2>1 DEF NodeOK, j
  <2>2. CASE u # t
    BY <1>1, <1>7, <1>12, <2>2 DEF NodeOK
  <2> QED
    BY <2>1, <2>2
<1>15. NodeOK(s, up[n], ks, evidence[n], clean[n], tasks)
  BY <1>1, <1>2, <1>7, <1>11, <1>14 DEF NodeOK
<1>16. Same(store, store', n) /\ store'[n] = s /\ Same(job, job', n) /\ job'[n] = ks
  BY <1>2, SameExcept DEF StakingInv
<1>17. Same(up, up', n) /\ Same(evidence, evidence', n) /\ Same(clean, clean', n)
  BY <1>2, Kept
<1>18. At(n)'
  BY <1>2, <1>15, <1>16 DEF At
<1>19. StakingInv'
  BY <1>16, <1>17, <1>18, OneNode
<1> QED
  BY <1>11, <1>16, <1>19

LEMMA StartKeeps ==
    ASSUME StakingInv, NEW n \in Nodes, Start(n)
    PROVE  /\ StakingInv' /\ Same(store, store', n)
           /\ Leads(store[n].staking, store'[n].staking)
<1> DEFINE x == Bootstrap(store[n].staking)
           s == [store[n] EXCEPT !.staking = x]
           tasks == TasksOf[n]
<1>1. NodeOK(store[n], up[n], job[n], evidence[n], clean[n], tasks)
  BY DEF StakingInv
<1>2. /\ ~up[n] /\ up' = [up EXCEPT ![n] = TRUE] /\ store' = [store EXCEPT ![n] = s]
      /\ job' = job /\ evidence' = evidence /\ clean' = clean
  BY DEF Start
<1>3. /\ store[n] = [staking |-> store[n].staking, gov |-> store[n].gov,
                     height |-> store[n].height, accounted |-> store[n].accounted]
      /\ StOK(store[n].staking)
  BY <1>1 DEF NodeOK, StoreOK
<1>4. Leads(store[n].staking, x) /\ x.epoch = store[n].staking.epoch /\ StOK(x)
  BY <1>3, BootstrapKeeps DEF Leads
<1>5. s = [staking |-> x, gov |-> store[n].gov, height |-> store[n].height,
           accounted |-> store[n].accounted]
  <2>1. s = [store[n] EXCEPT !.staking = x]
    OBVIOUS
  <2> HIDE DEF s, x
  <2> QED
    BY <1>3, <2>1
<1> HIDE DEF s, x
<1>6. StoreOK(s) /\ s.staking = x /\ s.accounted = store[n].accounted
  BY <1>1, <1>4, <1>5 DEF StoreOK, NodeOK
<1>7. \A t \in tasks : JobOK(job[n][t]) /\ ~Pending(job[n][t])
  <2>1. << >> \notin {<<"staking">>, <<"staking", "commit", "evidence">>, <<"commit", "staking">>}
    OBVIOUS
  <2>2. \A t \in tasks : JobOK(job[n][t]) /\ job[n][t].todo = << >>
    BY <1>1, <1>2 DEF NodeOK
  <2> QED
    BY <2>1, <2>2 DEF Pending
<1>8. Same(store, store', n) /\ store'[n] = s /\ Same(up, up', n) /\ up'[n] = TRUE
  BY <1>2, SameExcept DEF StakingInv
<1>9. /\ Same(job, job', n) /\ Same(evidence, evidence', n) /\ Same(clean, clean', n)
      /\ job'[n] = job[n] /\ evidence'[n] = evidence[n] /\ clean'[n] = clean[n]
  BY <1>2, Kept, SameKept DEF StakingInv
<1>10. NodeOK(s, up'[n], job[n], evidence[n], clean[n], tasks)
  <2>1. up'[n] \in BOOLEAN /\ up'[n]
    BY <1>8
  <2>2. clean[n] => s.staking.epoch = EpochOf(s.accounted)
    BY <1>1, <1>4, <1>6 DEF NodeOK
  <2> QED
    BY <1>1, <1>6, <1>7, <2>1, <2>2 DEF NodeOK
<1>11. At(n)'
  BY <1>8, <1>9, <1>10 DEF At
<1>12. StakingInv'
  BY <1>8, <1>9, <1>11, OneNode
<1> QED
  BY <1>4, <1>6, <1>8, <1>12

LEMMA StopKeeps ==
    ASSUME StakingInv, NEW n \in Nodes, Stop(n) PROVE StakingInv'
<1> DEFINE tasks == TasksOf[n]
           ks == [t \in tasks |-> NoJob]
           none == << >>
<1>1. NodeOK(store[n], up[n], job[n], evidence[n], clean[n], tasks)
  BY DEF StakingInv
<1>2. /\ up' = [up EXCEPT ![n] = FALSE] /\ job' = [job EXCEPT ![n] = ks]
      /\ evidence' = [evidence EXCEPT ![n] = none] /\ store' = store /\ clean' = clean
      /\ none \in Seq(Genesis)
  BY DEF Stop
<1>3. /\ ks = [t \in tasks |-> ks[t]]
      /\ \A t \in tasks : ks[t] = NoJob
  OBVIOUS
<1> HIDE DEF ks
<1>4. \A t \in tasks : JobOK(ks[t]) /\ ks[t].todo = << >> /\ ~Pending(ks[t])
  BY <1>3, NoJobOK
<1> HIDE DEF none
<1>5. /\ Same(up, up', n) /\ up'[n] = FALSE /\ Same(job, job', n) /\ job'[n] = ks
      /\ Same(evidence, evidence', n) /\ evidence'[n] = none
  BY <1>2, SameExcept DEF StakingInv
<1>6. Same(store, store', n) /\ Same(clean, clean', n)
  BY <1>2, Kept
<1>7. NodeOK(store[n], up'[n], ks, evidence'[n], clean[n], tasks)
  <2>1. up'[n] \in BOOLEAN /\ evidence'[n] \in Seq(Genesis)
    BY <1>2, <1>5
  <2> QED
    BY <1>1, <1>3, <1>4, <2>1 DEF NodeOK
<1>8. At(n)'
  BY <1>2, <1>5, <1>7 DEF At
<1> QED
  BY <1>5, <1>6, <1>8, OneNode

-----------------------------------------------------------------------------
(* Every step.                                                             *)

\* Every step keeps the invariant.
LEMMA StakingInvNext == StakingInv /\ [Next]_vars => StakingInv'
<1> SUFFICES ASSUME StakingInv, [Next]_vars PROVE StakingInv'
  OBVIOUS
<1>1. CASE UNCHANGED vars
  BY <1>1 DEF StakingInv, vars
<1>2. ASSUME NEW n \in Nodes, Start(n) PROVE StakingInv'
  BY <1>2, StartKeeps
<1>3. ASSUME NEW n \in Nodes, Stop(n) PROVE StakingInv'
  BY <1>3, StopKeeps
<1>4. ASSUME NEW n \in Nodes, NEW v, RecordVote(n, v) PROVE StakingInv'
  BY <1>4, RecordVoteKeeps
<1>5. ASSUME NEW n \in Nodes, NEW v, RecordLateVote(n, v) PROVE StakingInv'
  BY <1>5, RecordLateVoteKeeps
<1>6. ASSUME NEW n \in Nodes, NEW v \in Faulty, RecordConflictingVote(n, v) PROVE StakingInv'
  BY <1>6, RecordConflictingVoteKeeps
<1>7. ASSUME NEW n \in Nodes, Finalize(n) PROVE StakingInv'
  BY <1>7, FinalizeKeeps
<1>8. ASSUME NEW n \in Nodes, NEW t, NEW b, Import(n, t, b) PROVE StakingInv'
  BY <1>8, ImportKeeps
<1>9. ASSUME NEW n \in Nodes, NEW v \in Joiners, RegisterValidator(n, v) PROVE StakingInv'
  BY <1>9, RegisterValidatorKeeps
<1>10. ASSUME NEW n \in Nodes, NEW d, Unbond(n, d, d, Economics.minimum_self_bond)
       PROVE  StakingInv'
  <2>1. Economics.minimum_self_bond \in Nat
    BY EconomicsAssumption, EconomicsTyped
  <2> QED
    BY <1>10, <2>1, UnbondKeeps
<1>11. ASSUME NEW n \in Nodes, NEW e \in Proposed, QueueUpdate(n, e) PROVE StakingInv'
  BY <1>11, QueueUpdateKeeps
<1>12. ASSUME NEW n \in Nodes, NEW t \in TasksOf[n], StoreStaking(n, t) PROVE StakingInv'
  BY <1>12, StoreStakingKeeps
<1>13. ASSUME NEW n \in Nodes, NEW t \in TasksOf[n], StoreGovernance(n, t) PROVE StakingInv'
  BY <1>13, StoreGovernanceKeeps
<1>14. ASSUME NEW n \in Nodes, NEW t \in TasksOf[n], CommitBlock(n, t) PROVE StakingInv'
  BY <1>14, CommitBlockKeeps
<1>15. ASSUME NEW n \in Nodes, ApplyPendingEvidence(n) PROVE StakingInv'
  BY <1>15, ApplyPendingEvidenceKeeps
<1> QED
  BY <1>1, <1>2, <1>3, <1>4, <1>5, <1>6, <1>7, <1>8, <1>9, <1>10, <1>11, <1>12, <1>13, <1>14,
     <1>15, Zenon DEF Next

\* From the stored snapshot the code may come to the one a step of a clean
\* node stores.
LEMMA StepLeads ==
    ASSUME StakingInv, [Next]_vars, NEW m \in Nodes, clean'[m]
    PROVE  Leads(store[m].staking, store'[m].staking)
<1>0. Leads(store[m].staking, store[m].staking)
  BY LoadKeeps, LeadsItself
<1>1. CASE store' = store
  BY <1>0, <1>1
<1>2. ASSUME NEW n \in Nodes, Same(store, store', n),
             m = n => Leads(store[n].staking, store'[n].staking)
      PROVE  Leads(store[m].staking, store'[m].staking)
  <2>1. m # n => store'[m] = store[m]
    BY <1>2 DEF Same
  <2> QED
    BY <1>0, <1>2, <2>1
<1>3. ASSUME NEW n \in Nodes, Start(n) PROVE Leads(store[m].staking, store'[m].staking)
  <2>1. Same(store, store', n) /\ Leads(store[n].staking, store'[n].staking)
    BY <1>3, StartKeeps
  <2> QED
    BY <1>2, <2>1
<1>4. ASSUME NEW n \in Nodes, NEW t \in TasksOf[n], StoreStaking(n, t)
      PROVE  Leads(store[m].staking, store'[m].staking)
  <2>1. Same(store, store', n) /\ (clean'[n] => Leads(store[n].staking, store'[n].staking))
    BY <1>4, StoreStakingKeeps
  <2> QED
    BY <1>2, <2>1
<1>5. ASSUME NEW n \in Nodes, NEW t \in TasksOf[n], CommitBlock(n, t)
      PROVE  Leads(store[m].staking, store'[m].staking)
  <2>1. Same(store, store', n) /\ store'[n].staking = store[n].staking
    BY <1>5, CommitBlockKeeps
  <2>2. m = n => Leads(store[n].staking, store'[n].staking)
    BY <1>0, <2>1
  <2> QED
    BY <1>2, <2>1, <2>2
<1>6. ASSUME NEW n \in Nodes, NEW t \in TasksOf[n], StoreGovernance(n, t)
      PROVE  Leads(store[m].staking, store'[m].staking)
  <2> DEFINE s == [store[n] EXCEPT !.gov = job[n][t].gov]
  <2>1. store' = [store EXCEPT ![n] = s]
    BY <1>6 DEF StoreGovernance
  <2>2. s.staking = store[n].staking
    BY DEF StakingInv, NodeOK, StoreOK
  <2> HIDE DEF s
  <2>3. Same(store, store', n) /\ store'[n] = s
    BY <2>1, SameExcept DEF StakingInv
  <2>4. m = n => Leads(store[n].staking, store'[n].staking)
    BY <1>0, <2>2, <2>3
  <2> QED
    BY <1>2, <2>3, <2>4
<1>7. \/ store' = store
      \/ \E n \in Nodes : Start(n)
      \/ \E n \in Nodes : \E t \in TasksOf[n] :
            StoreStaking(n, t) \/ CommitBlock(n, t) \/ StoreGovernance(n, t)
  <2>1. CASE UNCHANGED vars
    BY <2>1 DEF vars
  <2>2. CASE Next
    <3>1. \A n : Stop(n) => store' = store
      BY DEF Stop
    <3>2. \A n, v : RecordVote(n, v) \/ RecordLateVote(n, v) \/ RecordConflictingVote(n, v)
                    => store' = store
      BY DEF RecordVote, RecordLateVote, RecordConflictingVote
    <3>3. \A n, t, b : Finalize(n) \/ Import(n, t, b) \/ ApplyPendingEvidence(n)
                       => store' = store
      BY DEF Finalize, Import, ApplyPendingEvidence
    <3>4. \A n, j : Call(n, j) => store' = store
      BY DEF Call
    <3>5. \A n, v, a : RegisterValidator(n, v) \/ Unbond(n, v, v, a) \/ QueueUpdate(n, v)
                       => store' = store
      BY <3>4, Zenon DEF RegisterValidator, Unbond, QueueUpdate
    <3> QED
      BY <2>2, <3>1, <3>2, <3>3, <3>5, Zenon DEF Next
  <2> QED
    BY <2>1, <2>2
<1> QED
  BY <1>1, <1>3, <1>4, <1>5, <1>6, <1>7, Zenon

-----------------------------------------------------------------------------
(* The theorems.                                                           *)

\* In every state all snapshots, those stored and the copies of the tasks,
\* are good, and a copy that was not overtaken by another task's write is one
\* the stored snapshot leads to.
THEOREM StakingInvariant == Spec => []StakingInv
<1>1. Init => StakingInv
  BY StakingInvInit
<1>2. StakingInv /\ [Next]_vars => StakingInv'
  BY StakingInvNext
<1> QED
  BY <1>1, <1>2, PTL DEF Spec

\* The epoch apply_block_accounting has settled up to is the number of whole
\* epochs in the blocks accounted for, as long as no write of the node was
\* lost, repeated or skipped.
THEOREM EpochFollowsChainTheorem == Spec => []EpochFollowsChain
<1>1. StakingInv => EpochFollowsChain
  BY DEF StakingInv, NodeOK, EpochFollowsChain
<1> QED
  BY <1>1, StakingInvariant, PTL

\* No operation of the node takes a validator out of jail: only an overtaken
\* copy that is stored after all can.
THEOREM JailIsFinalTheorem == Spec => JailIsFinal
<1>1. ASSUME StakingInv, [Next]_vars, NEW n \in Nodes, NEW v \in Genesis \cup Joiners, clean'[n],
             v \in Validators(store[n].staking), ~IsActive(store[n].staking, v)
      PROVE  ~IsActive(store'[n].staking, v)
  <2>1. Leads(store[n].staking, store'[n].staking)
    BY <1>1, StepLeads
  <2> QED
    BY <1>1, <2>1 DEF Leads, JailKept, Validators, IsActive
<1>2. StakingInv /\ [Next]_vars
      => [\A n \in Nodes, v \in Genesis \cup Joiners :
            (/\ clean'[n]
             /\ v \in Validators(store[n].staking) /\ ~IsActive(store[n].staking, v))
            => ~IsActive(store'[n].staking, v)]_vars
  BY <1>1
<1> QED
  BY <1>2, StakingInvariant, PTL DEF Spec, JailIsFinal

\* An unbonding entry stays in the list until settle_epoch_rewards has
\* reached its release epoch.
THEOREM NotReleasedEarlyTheorem == Spec => NotReleasedEarly
<1>1. ASSUME StakingInv, [Next]_vars, NEW n \in Nodes, clean'[n],
             NEW i \in DOMAIN store[n].staking.unbonding
      PROVE  LET entry == store[n].staking.unbonding[i]
             IN  \/ Contains(store'[n].staking.unbonding, entry)
                 \/ entry.release_epoch <= store'[n].staking.epoch
  <2> DEFINE us == store'[n].staking.unbonding
             entry == store[n].staking.unbonding[i]
  <2>1. Leads(store[n].staking, store'[n].staking)
    BY <1>1, StepLeads
  <2>2. \/ \E j \in DOMAIN us : us[j] = entry
        \/ entry.release_epoch <= store'[n].staking.epoch
    BY <2>1 DEF Leads, Held
  <2>3. us \in Seq(Entry)
    BY <2>1 DEF Leads, StOK
  <2> HIDE DEF us
  <2>4. DOMAIN us = 1..Len(us)
    BY <2>3
  <2>5. (\E j \in DOMAIN us : us[j] = entry) => Contains(us, entry)
    BY <2>4 DEF Contains
  <2> QED
    BY <2>2, <2>5 DEF us
<1>2. StakingInv /\ [Next]_vars
      => [\A n \in Nodes : clean'[n] =>
            \A i \in DOMAIN store[n].staking.unbonding :
                LET entry == store[n].staking.unbonding[i]
                IN  \/ Contains(store'[n].staking.unbonding, entry)
                    \/ entry.release_epoch <= store'[n].staking.epoch]_vars
  BY <1>1
<1> QED
  BY <1>2, StakingInvariant, PTL DEF Spec, NotReleasedEarly

\* total_stake >= self_bond >= the validator's own delegation in every store,
\* overwritten copies included: begin_unbonding never underflows.
THEOREM StakeCoversTheorem == Spec => []StakeCovers
<1>1. ASSUME StakingInv, NEW n \in Nodes, NEW v \in Validators(store[n].staking)
      PROVE  LET st == store[n].staking
                 others == {k \in DOMAIN st.delegations : k[2] = v /\ k[1] # v}
                 delegated == SumFunctionOnSet(st.delegations, others)
             IN  /\ st.validators[v].total_stake >= st.validators[v].self_bond + delegated
                 /\ st.validators[v].self_bond >= Delegated(st, v, v)
  <2> DEFINE st == store[n].staking
             others == {k \in DOMAIN st.delegations : k[2] = v /\ k[1] # v}
             delegated == SumFunctionOnSet(st.delegations, others)
  <2>1. /\ st.validators[v] \in Stake /\ Covered(st.validators[v], Own(st.delegations, v))
        /\ \A k \in DOMAIN st.delegations : \E u \in DOMAIN st.validators : k = <<u, u>>
    BY <1>1, LoadKeeps DEF StOK, StakesOK, Validators
  <2>2. others = {}
    BY <2>1
  <2>3. delegated = 0
    BY <2>2 DEF SumFunctionOnSet, FoldFunctionOnSet, MapThenFoldSet
  <2> HIDE DEF delegated
  <2>4. st.validators[v].total_stake >= st.validators[v].self_bond + delegated
    BY <2>1, <2>3 DEF Covered, Stake
  <2>5. st.validators[v].self_bond >= Delegated(st, v, v)
    BY <2>1 DEF Covered, Own, Delegated
  <2> QED
    BY <2>4, <2>5 DEF delegated
<1>2. StakingInv => StakeCovers
  BY <1>1 DEF StakeCovers
<1> QED
  BY <1>2, StakingInvariant, PTL

\* Any good snapshot, any fees and budget.
LEMMA ConservesAlways ==
    ASSUME NEW st, StOK(st), NEW fees \in Nat, NEW budget \in Nat, NEW params \in EconomicsParams
    PROVE  Conserves(st, fees, budget, params)
<1> DEFINE rewards == Rewards(st, fees, budget, params)
           settled == SettleEpochRewards(st, fees, budget, params)
           in == fees + budget
           cut == Bps(in, params.treasury_bps)
           pool == Minus(in, cut)
           commission == [v \in DOMAIN rewards |->
                             Bps(rewards[v], st.validators[v].commission_bps)]
           R == SumFunction(rewards)
           c == Cardinality(DOMAIN rewards)
<1> SUFFICES ASSUME ActiveStake(st) > 0, params.treasury_bps <= 10000
             PROVE  LET out == R + (settled.treasury_balance - st.treasury_balance)
                    IN  out <= in /\ out + c > in
  BY DEF Conserves
<1>1. ActiveStake(st) # 0
  OBVIOUS
<1>2. R \in Nat /\ c \in Nat /\ R <= pool /\ pool < R + c /\ SumFunction(commission) = 0
  <2>1. PaysOut(st, fees, budget, params)
    BY <1>1, SettlementSums
  <2> QED
    BY <2>1 DEF PaysOut
<1>3. settled.treasury_balance = st.treasury_balance + cut + SumFunction(commission)
  BY <1>1 DEF SettleEpochRewards, StOK
<1>4. st.treasury_balance \in Nat /\ in \in Nat /\ cut \in Nat
  BY EconomicsTyped, BpsTyped DEF StOK
<1>5. cut <= in
  <2>1. params.treasury_bps \in Nat
    BY EconomicsTyped
  <2> DEFINE b == params.treasury_bps
             p == in * b
  <2> HIDE DEF in, b
  <2>2. p \in Nat /\ p <= in * 10000
    <3>1. b \in Nat /\ b <= 10000
      BY <2>1 DEF b
    <3>2. PICK d \in Nat : 10000 = b + d
      <4>1. 10000 - b \in Nat /\ 10000 = b + (10000 - b)
        BY <3>1
      <4> QED
        BY <4>1
    <3>3. in * 10000 = in * b + in * d /\ in * d \in Nat /\ in * b \in Nat
      BY <1>4, <3>1, <3>2
    <3> QED
      BY <3>3
  <2> HIDE DEF p
  <2>3. p \div 10000 <= in
    BY <1>4, <2>2
  <2> QED
    BY <2>3 DEF Bps, p, b
<1> HIDE DEF R, c, in, cut, settled, commission
<1>6. pool = in - cut
  BY <1>4, <1>5 DEF Minus
<1> HIDE DEF pool
<1>7. settled.treasury_balance - st.treasury_balance = cut
  BY <1>2, <1>3, <1>4
<1> QED
  BY <1>2, <1>4, <1>5, <1>6, <1>7

\* With any treasury rate up to one, settle_epoch_rewards pays treasury and
\* validators together no more than it takes in, and less by under one unit
\* per validator paid.
THEOREM SettlementConservesTheorem == Spec => []SettlementConserves
<1>1. ASSUME StakingInv, NEW n \in Nodes, NEW fees \in {1, 7}
      PROVE  Conserves(store[n].staking, fees, fees + 3, store[n].gov.economics)
  <2>1. /\ StOK(store[n].staking) /\ store[n].gov.economics \in EconomicsParams
        /\ fees \in Nat /\ fees + 3 \in Nat
    BY <1>1, LoadKeeps DEF Governance
  <2> QED
    BY <2>1, ConservesAlways
<1>2. StakingInv => SettlementConserves
  BY <1>1 DEF SettlementConserves
<1> QED
  BY <1>2, StakingInvariant, PTL

=============================================================================
