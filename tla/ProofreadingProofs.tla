------------------------- MODULE ProofreadingProofs --------------------------
(***************************************************************************)
(* Theorems about Proofreading and what it is built from: the operators of *)
(* Selections (places in an order, picked sequences, sums), the batch      *)
(* merge, a pass of the CLI pipeline, the algorithms on text, the whole    *)
(* way, the export of a run at rest, and at the end how a misquoted        *)
(* passage is traced.                                                      *)
(***************************************************************************)
EXTENDS Proofreading, FindingStoreProofs, FiniteSetTheorems, SequenceTheorems,
        WellFoundedInduction

-----------------------------------------------------------------------------
(* Induction over numbers, for a set of them                                *)

Lower == {p \in Nat \X Nat : p[1] < p[2]}

(* Numbers do not descend for ever.                                         *)
LEMMA LowerWellFounded == IsWellFoundedOn(Lower, Nat)
<1>1. IsWellFoundedOn(OpToRel(<, Nat), Nat)
  BY NatLessThanWellFounded, Zenon
<1>2. OpToRel(<, Nat) = Lower
  BY DEF OpToRel, Lower
<1> QED
  BY <1>1, <1>2, Zenon

(* A set of numbers that is not empty has a least one.                      *)
LEMMA LeastNumber ==
  ASSUME NEW T, T \subseteq Nat, T # {}
  PROVE  \E m \in T : \A n \in T : m <= n
<1>1. PICK m \in T : \A n \in T : <<n, m>> \notin Lower
  BY LowerWellFounded, WFMin, Zenon
<1>2. ASSUME NEW n \in T
      PROVE  m <= n
  <2>1. <<n, m>> \notin Lower /\ n \in Nat /\ m \in Nat
    BY <1>1
  <2>2. n < m => <<n, m>> \in Lower
    BY <2>1 DEF Lower
  <2> QED BY <2>1, <2>2
<1> QED BY <1>2

(* Induction up to n, over a set of numbers.                                *)
LEMMA UpTo ==
  ASSUME NEW n \in Nat, NEW T, 0 \in T, \A k \in 0 .. n - 1 : k \in T => k + 1 \in T
  PROVE  n \in T
<1> SUFFICES ASSUME n \notin T PROVE FALSE
  OBVIOUS
<1> DEFINE bad == {k \in 0 .. n : k \notin T}
<1>1. PICK m \in bad : \A k \in bad : m <= k
  <2>1. bad \subseteq Nat /\ bad # {}
    OBVIOUS
  <2> HIDE DEF bad
  <2> QED BY <2>1, LeastNumber, Zenon
<1>2. m # 0 /\ m - 1 \in 0 .. n - 1
  OBVIOUS
<1>3. m - 1 \in T
  BY <1>1, <1>2
<1>4. m - 1 + 1 \in T
  BY <1>2, <1>3
<1> QED BY <1>4

-----------------------------------------------------------------------------
(* The place of an element in a finite set with a strict total order, the   *)
(* order given as a set of pairs                                            *)

Below(S, R, x)    == {y \in S : <<y, x>> \in R}
RankIn(S, R, x)   == Cardinality(Below(S, R, x)) + 1
TotallyOrders(R, S) ==
  /\ \A x \in S : <<x, x>> \notin R
  /\ \A x, y, z \in S : <<x, y>> \in R /\ <<y, z>> \in R => <<x, z>> \in R
  /\ \A x, y \in S : x # y => <<x, y>> \in R \/ <<y, x>> \in R

(* Of two elements the later one has the greater place.                     *)
LEMMA RanksIncrease ==
  ASSUME NEW S, IsFiniteSet(S), NEW R, TotallyOrders(R, S),
         NEW x \in S, NEW y \in S, <<x, y>> \in R
  PROVE  RankIn(S, R, x) < RankIn(S, R, y)
<1>1. Below(S, R, x) \cup {x} \subseteq Below(S, R, y) /\ x \notin Below(S, R, x)
  BY DEF Below, TotallyOrders
<1>2. IsFiniteSet(Below(S, R, x)) /\ IsFiniteSet(Below(S, R, y))
  BY FS_Subset, Zenon DEF Below
<1>3. Cardinality(Below(S, R, x) \cup {x}) = Cardinality(Below(S, R, x)) + 1
  BY <1>1, <1>2, FS_AddElement, Zenon
<1>4. Cardinality(Below(S, R, x) \cup {x}) <= Cardinality(Below(S, R, y))
  BY <1>1, <1>2, FS_Subset
<1>5. Cardinality(Below(S, R, x)) \in Nat /\ Cardinality(Below(S, R, y)) \in Nat
  BY <1>2, FS_CardinalityType
<1> QED BY <1>3, <1>4, <1>5 DEF RankIn

(* The places are the numbers from 1 to the size of the set.                *)
LEMMA RankType ==
  ASSUME NEW S, IsFiniteSet(S), NEW R, TotallyOrders(R, S), NEW x \in S
  PROVE  RankIn(S, R, x) \in 1 .. Cardinality(S)
<1>1. Below(S, R, x) \subseteq S \ {x}
  BY DEF Below, TotallyOrders
<1>2. IsFiniteSet(S \ {x}) /\ Cardinality(S \ {x}) = Cardinality(S) - 1
  BY FS_RemoveElement
<1>3. IsFiniteSet(Below(S, R, x)) /\ Cardinality(Below(S, R, x)) <= Cardinality(S) - 1
  BY <1>1, <1>2, FS_Subset
<1>4. Cardinality(Below(S, R, x)) \in Nat /\ Cardinality(S) \in Nat
  BY <1>3, FS_CardinalityType
<1> QED BY <1>3, <1>4 DEF RankIn

(* No two elements share a place.                                           *)
LEMMA RanksDiffer ==
  ASSUME NEW S, IsFiniteSet(S), NEW R, TotallyOrders(R, S), NEW x \in S, NEW y \in S,
         RankIn(S, R, x) = RankIn(S, R, y)
  PROVE  x = y
<1>1. RankIn(S, R, x) \in Int /\ RankIn(S, R, y) \in Int
  BY RankType
<1>2. ~(RankIn(S, R, x) < RankIn(S, R, y)) /\ ~(RankIn(S, R, y) < RankIn(S, R, x))
  BY <1>1
<1> QED BY <1>2, RanksIncrease, Zenon DEF TotallyOrders

(* Every place is taken.                                                    *)
LEMMA RanksTaken ==
  ASSUME NEW S, IsFiniteSet(S), NEW R, TotallyOrders(R, S), NEW k \in 1 .. Cardinality(S)
  PROVE  \E x \in S : RankIn(S, R, x) = k
<1> DEFINE n == Cardinality(S)
           f == [x \in S |-> RankIn(S, R, x)]
<1>1. n \in Nat
  BY FS_CardinalityType
<1>2. f \in [S -> 1 .. n]
  BY RankType
<1>3. \A x, y \in S : f[x] = f[y] => x = y
  BY RanksDiffer
<1>4. f \in Injection(S, 1 .. n)
  BY <1>2, <1>3 DEF Injection, IsInjective
<1>5. IsFiniteSet(1 .. n) /\ Cardinality(1 .. n) = n
  BY <1>1, FS_Interval
<1>6. f \in Surjection(S, 1 .. n)
  BY <1>4, <1>5, FS_Injection
<1>7. \A j \in 1 .. n : \E x \in S : f[x] = j
  BY <1>6, Zenon DEF Surjection
<1> QED BY <1>7

-----------------------------------------------------------------------------
(* Picking positions                                                        *)

(* Nth counts a finite set of numbers up, and reaches all of it.            *)
LEMMA NthFacts ==
  ASSUME NEW I, I \subseteq Nat, IsFiniteSet(I)
  PROVE  /\ Cardinality(I) \in Nat
         /\ \A k \in 1 .. Cardinality(I) :
              Nth(I, k) \in I /\ Cardinality({j \in I : j <= Nth(I, k)}) = k
         /\ \A k, l \in 1 .. Cardinality(I) : k < l => Nth(I, k) < Nth(I, l)
         /\ \A i \in I : \E k \in 1 .. Cardinality(I) : Nth(I, k) = i
<1> DEFINE R    == {p \in I \X I : p[1] < p[2]}
           n    == Cardinality(I)
           C(i) == Cardinality({j \in I : j <= i})
<1>1. n \in Nat
  BY FS_CardinalityType
<1>2. TotallyOrders(R, I)
  <2>1. \A x, y \in I : <<x, y>> \in R <=> x < y
    OBVIOUS
  <2> HIDE DEF R
  <2> QED BY <2>1 DEF TotallyOrders
<1>3. ASSUME NEW i \in I PROVE C(i) = RankIn(I, R, i)
  <2>a. Below(I, R, i) = {j \in I : j < i}
    BY DEF Below
  <2>b. i \in Nat /\ \A j \in I : j \in Nat
    OBVIOUS
  <2>c. \A j \in I : j <= i <=> j < i \/ j = i
    BY <2>b
  <2>d. {j \in I : j <= i} = {j \in I : j < i} \cup {i}
    BY <2>c, Zenon
  <2>e. i \notin {j \in I : j < i}
    BY <2>b
  <2>1. {j \in I : j <= i} = Below(I, R, i) \cup {i} /\ i \notin Below(I, R, i)
    BY <2>a, <2>d, <2>e
  <2>2. IsFiniteSet(Below(I, R, i))
    BY FS_Subset, Zenon DEF Below
  <2>3. Cardinality(Below(I, R, i) \cup {i}) = Cardinality(Below(I, R, i)) + 1
    BY <2>1, <2>2, FS_AddElement
  <2> QED BY <2>1, <2>3, Zenon DEF RankIn
<1> HIDE DEF R
<1>4. ASSUME NEW k \in 1 .. n PROVE Nth(I, k) \in I /\ C(Nth(I, k)) = k
  <2>1. PICK i \in I : RankIn(I, R, i) = k
    BY <1>2, RanksTaken, Zenon
  <2>2. C(i) = k
    BY <2>1, <1>3
  <2>3. Nth(I, k) = CHOOSE i_1 \in I : C(i_1) = k
    BY DEF Nth
  <2> HIDE DEF C
  <2> QED BY <2>2, <2>3
<1>5. ASSUME NEW k \in 1 .. n, NEW l \in 1 .. n, k < l PROVE Nth(I, k) < Nth(I, l)
  <2> DEFINE i == Nth(I, k)
             j == Nth(I, l)
  <2>1. i \in I /\ j \in I /\ RankIn(I, R, i) = k /\ RankIn(I, R, j) = l
    BY <1>3, <1>4, Zenon
  <2> HIDE DEF i, j
  <2>2. i # j
    BY <2>1, <1>5
  <2>3. <<j, i>> \notin R
    <3>1. <<j, i>> \in R => l < k
      BY <2>1, <1>2, RanksIncrease
    <3> QED BY <3>1, <1>5
  <2>4. <<i, j>> \in R
    BY <2>1, <2>2, <2>3, <1>2 DEF TotallyOrders
  <2> QED BY <2>4 DEF R, i, j
<1>6. ASSUME NEW i \in I PROVE \E k \in 1 .. n : Nth(I, k) = i
  <2>1. RankIn(I, R, i) \in 1 .. n
    BY <1>2, RankType
  <2>2. RankIn(I, R, Nth(I, RankIn(I, R, i))) = RankIn(I, R, i)
    BY <2>1, <1>3, <1>4, Zenon
  <2>3. Nth(I, RankIn(I, R, i)) = i
    BY <2>1, <2>2, <1>2, <1>4, RanksDiffer, Zenon
  <2> QED BY <2>1, <2>3
<1> QED BY <1>1, <1>4, <1>5, <1>6

(* Picked is the sequence of the elements at the given positions.           *)
LEMMA PickedFacts ==
  ASSUME NEW S, NEW seq \in Seq(S), NEW I \in SUBSET DOMAIN seq
  PROVE  /\ IsFiniteSet(I) /\ Cardinality(I) \in Nat
         /\ Picked(seq, I) \in Seq(S)
         /\ Len(Picked(seq, I)) = Cardinality(I)
         /\ \A k \in 1 .. Cardinality(I) :
              Nth(I, k) \in I /\ Picked(seq, I)[k] = seq[Nth(I, k)]
<1>1. DOMAIN seq = 1 .. Len(seq) /\ Len(seq) \in Nat
  OBVIOUS
<1>2. IsFiniteSet(I)
  <2>1. IsFiniteSet(1 .. Len(seq))
    BY <1>1, FS_Interval
  <2> QED BY <1>1, <2>1, FS_Subset
<1>3. /\ Cardinality(I) \in Nat
      /\ \A k \in 1 .. Cardinality(I) : Nth(I, k) \in I
  <2>1. I \subseteq Nat
    BY <1>1
  <2>2. \A k \in 1 .. Cardinality(I) :
          Nth(I, k) \in I /\ Cardinality({j \in I : j <= Nth(I, k)}) = k
    BY <1>2, <2>1, NthFacts, Zenon
  <2>3. Cardinality(I) \in Nat
    BY <1>2, FS_CardinalityType
  <2> QED BY <2>2, <2>3, Zenon
<1>4. \A k \in 1 .. Cardinality(I) : seq[Nth(I, k)] \in S
  BY <1>3
<1> QED BY <1>2, <1>3, <1>4 DEF Picked

-----------------------------------------------------------------------------
(* Sums                                                                     *)

(* What SumOf counts, and that it is a number.                              *)
LEMMA OnesAre ==
  ASSUME NEW n \in Nat, NEW f \in [1 .. n -> Nat]
  PROVE  /\ \A x : x \in Ones(f) <=>
                     \E i \in 1 .. n : \E j \in 1 .. f[i] : x = <<i, j>>
         /\ IsFiniteSet(Ones(f))
         /\ SumOf(f) \in Nat
<1>1. DOMAIN f = 1 .. n
  OBVIOUS
<1>2. \A x : x \in Ones(f) <=> \E i \in 1 .. n : \E j \in 1 .. f[i] : x = <<i, j>>
  BY <1>1 DEF Ones
<1>3. IsFiniteSet(Ones(f))
  <2> DEFINE U(m) == UNION {{i} \X (1 .. f[i]) : i \in 1 .. m}
             C    == {m \in 0 .. n : IsFiniteSet(U(m))}
  <2>1. 0 \in C
    <3>1. U(0) = {}
      OBVIOUS
    <3>2. IsFiniteSet(U(0))
      BY <3>1, FS_EmptySet
    <3> QED BY <3>2
  <2>2. ASSUME NEW m \in 0 .. n - 1, m \in C
        PROVE  m + 1 \in C
    <3> DEFINE A == U(m)
               B == {m + 1} \X (1 .. f[m + 1])
               D == U(m + 1)
    <3>1. 1 .. m + 1 = (1 .. m) \cup {m + 1}
      OBVIOUS
    <3>2. D = A \cup B
      BY <3>1
    <3>3. IsFiniteSet({m + 1}) /\ IsFiniteSet(1 .. f[m + 1])
      <4>1. m + 1 \in 1 .. n /\ f[m + 1] \in Int /\ 1 \in Int
        OBVIOUS
      <4> QED BY <4>1, FS_Singleton, FS_Interval, Zenon
    <3>4. IsFiniteSet(B)
      BY <3>3, FS_Product
    <3>5. IsFiniteSet(A)
      BY <2>2
    <3>6. IsFiniteSet(D)
      <4> HIDE DEF A, B, D
      <4> QED BY <3>2, <3>4, <3>5, FS_Union, Zenon
    <3> QED BY <3>6
  <2>3. n \in C
    <3> HIDE DEF C
    <3> QED BY <2>1, <2>2, UpTo
  <2> QED BY <2>3, <1>1 DEF Ones
<1> QED BY <1>2, <1>3, FS_CardinalityType DEF SumOf

(* An empty sum is 0.                                                       *)
LEMMA SumOfNone == ASSUME NEW f, DOMAIN f = {} PROVE SumOf(f) = 0
  BY FS_EmptySet DEF SumOf, Ones

(* One number more adds its value.                                          *)
LEMMA SumExtended ==
  ASSUME NEW n \in Nat, NEW f \in [1 .. n -> Nat], NEW g \in [1 .. n + 1 -> Nat],
         \A i \in 1 .. n : g[i] = f[i]
  PROVE  SumOf(g) = SumOf(f) + g[n + 1]
<1> DEFINE B == {n + 1} \X (1 .. g[n + 1])
<1>0. n + 1 \in Nat /\ n + 1 \in 1 .. n + 1 /\ g[n + 1] \in Nat
  OBVIOUS
<1>1. IsFiniteSet({n + 1}) /\ Cardinality({n + 1}) = 1
  BY FS_Singleton, Zenon
<1>2. IsFiniteSet(1 .. g[n + 1]) /\ Cardinality(1 .. g[n + 1]) = g[n + 1]
  BY <1>0, FS_Interval
<1>3. IsFiniteSet(B) /\ Cardinality(B) = g[n + 1]
  <2>1. IsFiniteSet(B) /\ Cardinality(B) = Cardinality({n + 1}) * Cardinality(1 .. g[n + 1])
    BY <1>1, <1>2, FS_Product, Zenon
  <2> QED BY <1>0, <1>1, <1>2, <2>1
<1>4. IsFiniteSet(Ones(f)) /\ SumOf(f) \in Nat /\ IsFiniteSet(Ones(g))
  BY <1>0, OnesAre
<1>5. Ones(g) = Ones(f) \cup B
  <2>1. DOMAIN g = (1 .. n) \cup {n + 1} /\ DOMAIN f = 1 .. n
    OBVIOUS
  <2> QED BY <2>1 DEF Ones
<1>6. Ones(f) \cap B = {}
  <2>1. \A x \in Ones(f) : x[1] # n + 1
    BY OnesAre
  <2>2. \A x \in B : x[1] = n + 1
    OBVIOUS
  <2> QED BY <2>1, <2>2
<1> HIDE DEF B
<1>7. Cardinality(Ones(g)) = Cardinality(Ones(f)) + Cardinality(B)
       - Cardinality(Ones(f) \cap B)
  BY <1>3, <1>4, <1>5, FS_Union
<1>8. Cardinality(Ones(f) \cap B) = 0
  BY <1>6, FS_EmptySet, Zenon
<1> QED BY <1>0, <1>3, <1>4, <1>7, <1>8 DEF SumOf

(* A sum is its first number and the sum of the rest.                       *)
LEMMA SumTail ==
  ASSUME NEW s \in Seq(Nat), s # <<>>
  PROVE  /\ SumOf(s) \in Nat /\ SumOf(Tail(s)) \in Nat
         /\ SumOf(s) = Head(s) + SumOf(Tail(s))
<1> DEFINE n    == Len(s)
           C    == {m \in 0 .. n - 1 : SumOf([i \in 1 .. m + 1 |-> s[i]])
                                        = s[1] + SumOf([i \in 1 .. m |-> s[i + 1]])}
<1>1. n \in Nat /\ n >= 1 /\ \A i \in 1 .. n : s[i] \in Nat
  OBVIOUS
<1>2. 0 \in C
  <2> DEFINE f == [i \in 1 .. 0 |-> s[i]]
             g == [i \in 1 .. 1 |-> s[i]]
             h == [i \in 1 .. 0 |-> s[i + 1]]
  <2>1. SumOf(f) = 0 /\ SumOf(h) = 0
    <3>1. DOMAIN f = {} /\ DOMAIN h = {}
      OBVIOUS
    <3> HIDE DEF f, h
    <3> QED BY <3>1, SumOfNone
  <2>2. SumOf(g) = SumOf(f) + g[1]
    <3>1. f \in [1 .. 0 -> Nat] /\ g \in [1 .. 0 + 1 -> Nat] /\ \A i \in 1 .. 0 : g[i] = f[i]
      BY <1>1
    <3>2. SumOf(g) = SumOf(f) + g[0 + 1]
      <4> HIDE DEF f, g
      <4> QED BY <3>1, SumExtended, Zenon
    <3> QED BY <3>2
  <2>3. g[1] = s[1] /\ s[1] \in Nat
    BY <1>1
  <2> HIDE DEF f, h
  <2>4. SumOf(g) = s[1] + SumOf(h)
    BY <2>1, <2>2, <2>3
  <2> QED BY <2>4, <1>1 DEF f, h
<1>3. ASSUME NEW m \in 0 .. n - 1 - 1, m \in C
      PROVE  m + 1 \in C
  <2> DEFINE f == [i \in 1 .. m + 1 |-> s[i]]
             g == [i \in 1 .. m + 1 + 1 |-> s[i]]
             h == [i \in 1 .. m |-> s[i + 1]]
             k == [i \in 1 .. m + 1 |-> s[i + 1]]
  <2>1. /\ f \in [1 .. m + 1 -> Nat] /\ g \in [1 .. m + 1 + 1 -> Nat]
        /\ h \in [1 .. m -> Nat] /\ k \in [1 .. m + 1 -> Nat]
        /\ m \in Nat /\ m + 1 \in Nat
    BY <1>1
  <2>2. (\A i \in 1 .. m + 1 : g[i] = f[i]) /\ \A i \in 1 .. m : k[i] = h[i]
    OBVIOUS
  <2>3. g[m + 1 + 1] = k[m + 1] /\ k[m + 1] \in Nat /\ s[1] \in Nat
    BY <1>1
  <2>4. SumOf(f) = s[1] + SumOf(h)
    BY <1>3
  <2> HIDE DEF f, g, h, k
  <2>5. SumOf(g) = SumOf(f) + g[m + 1 + 1] /\ SumOf(h) \in Nat /\ SumOf(f) \in Nat
    BY <2>1, <2>2, SumExtended, OnesAre, Zenon
  <2>6. SumOf(k) = SumOf(h) + k[m + 1]
    BY <2>1, <2>2, SumExtended, Zenon
  <2>7. SumOf(g) = s[1] + SumOf(k)
    BY <2>3, <2>4, <2>5, <2>6
  <2> QED BY <2>7 DEF g, k
<1>4. n - 1 \in C
  <2> HIDE DEF C
  <2> QED BY <1>1, <1>2, <1>3, UpTo
<1>5. s = [i \in 1 .. n - 1 + 1 |-> s[i]]
  BY <1>1
<1>6. Tail(s) = [i \in 1 .. n - 1 |-> s[i + 1]]
  <2>1. Tail(s) \in Seq(Nat) /\ Len(Tail(s)) = n - 1
        /\ \A i \in 1 .. n - 1 : Tail(s)[i] = s[i + 1]
    BY HeadTailProperties
  <2>2. Tail(s) \in [1 .. Len(Tail(s)) -> Nat]
    BY <2>1, LenProperties, Zenon
  <2>3. Tail(s) = [i \in 1 .. n - 1 |-> Tail(s)[i]]
    BY <2>1, <2>2, Zenon
  <2> QED BY <2>1, <2>3
<1>7. Tail(s) \in [1 .. n - 1 -> Nat] /\ s \in [1 .. n -> Nat]
  <2>1. \A i \in 1 .. n - 1 : s[i + 1] \in Nat
    BY <1>1
  <2> QED BY <1>5, <1>6, <2>1
<1>8. SumOf(s) = s[1] + SumOf(Tail(s))
  BY <1>4, <1>5, <1>6, Zenon
<1>9. SumOf(s) \in Nat /\ SumOf(Tail(s)) \in Nat
  <2>1. n - 1 \in Nat
    BY <1>1
  <2> HIDE DEF n
  <2> QED BY <1>1, <1>7, <2>1, OnesAre, Zenon
<1> QED BY <1>8, <1>9

(* Disjoint finite sets have as many elements as their sizes add up to      *)
LEMMA SizesAddUp ==
  ASSUME NEW n \in Nat, NEW P, \A i \in 1 .. n : IsFiniteSet(P[i]),
         \A i, j \in 1 .. n : i # j => P[i] \cap P[j] = {}
  PROVE  LET U == UNION {P[i] : i \in 1 .. n}
         IN  IsFiniteSet(U) /\ SumOf([i \in 1 .. n |-> Cardinality(P[i])]) = Cardinality(U)
<1> DEFINE U(m) == UNION {P[i] : i \in 1 .. m}
           f(m) == [i \in 1 .. m |-> Cardinality(P[i])]
           C    == {m \in 0 .. n : IsFiniteSet(U(m)) /\ SumOf(f(m)) = Cardinality(U(m))}
<1>1. 0 \in C
  <2>1. U(0) = {} /\ DOMAIN f(0) = {}
    OBVIOUS
  <2>2. SumOf(f(0)) = 0
    <3> HIDE DEF f
    <3> QED BY <2>1, SumOfNone
  <2> QED BY <2>1, <2>2, FS_EmptySet
<1>2. ASSUME NEW m \in 0 .. n - 1, m \in C
      PROVE  m + 1 \in C
  <2>1. U(m + 1) = U(m) \cup P[m + 1]
    <3>1. 1 .. m + 1 = (1 .. m) \cup {m + 1}
      OBVIOUS
    <3> QED BY <3>1
  <2>2. U(m) \cap P[m + 1] = {}
    OBVIOUS
  <2>3. IsFiniteSet(U(m)) /\ IsFiniteSet(P[m + 1])
    BY <1>2
  <2>4. SumOf(f(m + 1)) = SumOf(f(m)) + Cardinality(P[m + 1])
    <3>1. f(m) \in [1 .. m -> Nat] /\ f(m + 1) \in [1 .. m + 1 -> Nat] /\ m \in Nat
      BY FS_CardinalityType
    <3>2. \A i \in 1 .. m : f(m + 1)[i] = f(m)[i]
      OBVIOUS
    <3>3. f(m + 1)[m + 1] = Cardinality(P[m + 1])
      OBVIOUS
    <3>4. SumOf(f(m + 1)) = SumOf(f(m)) + f(m + 1)[m + 1]
      <4> HIDE DEF f
      <4> QED BY <3>1, <3>2, SumExtended, Zenon
    <3> QED BY <3>3, <3>4
  <2>5. SumOf(f(m)) = Cardinality(U(m))
    BY <1>2
  <2> HIDE DEF U, f
  <2>6. /\ IsFiniteSet(U(m + 1))
        /\ Cardinality(U(m + 1)) = Cardinality(U(m)) + Cardinality(P[m + 1])
                                    - Cardinality(U(m) \cap P[m + 1])
    BY <2>1, <2>3, FS_Union
  <2>7. Cardinality(U(m) \cap P[m + 1]) = 0
    BY <2>2, FS_EmptySet, Zenon
  <2>8. Cardinality(U(m)) \in Nat /\ Cardinality(P[m + 1]) \in Nat
    BY <2>3, FS_CardinalityType
  <2>9. SumOf(f(m + 1)) = Cardinality(U(m + 1))
    BY <2>4, <2>5, <2>6, <2>7, <2>8
  <2> QED BY <2>6, <2>9 DEF U, f
<1>3. n \in C
  <2> HIDE DEF C
  <2> QED BY <1>1, <1>2, UpTo
<1> QED BY <1>3

-----------------------------------------------------------------------------
(* A batch of candidates: every candidate is in exactly one finding         *)

(* The groups of a batch are disjoint, and each candidate is in one         *)
(* (overlapping candidates of one fix, mergeCandidates).                    *)
LEMMA GroupsPartition ==
  ASSUME NEW cands
  PROVE  /\ \A i \in DOMAIN cands : i \in Members(cands, i)
         /\ \A i, j, x \in DOMAIN cands :
              x \in Members(cands, i) /\ x \in Members(cands, j)
                => Members(cands, i) = Members(cands, j)
         /\ \A i, j \in DOMAIN cands :
              j \in Members(cands, i) => Members(cands, j) = Members(cands, i)
  BY DEF Members, SameGroup

(* Every candidate is in the group of a head, and the groups of two heads   *)
(* share none.                                                              *)
LEMMA HeadOfEach ==
  ASSUME NEW cands, NEW n \in Nat, DOMAIN cands = 1 .. n
  PROVE  /\ \A x \in 1 .. n : \E i \in Heads(cands) : x \in Members(cands, i)
         /\ \A i, j \in Heads(cands) :
              i # j => Members(cands, i) \cap Members(cands, j) = {}
<1>1. ASSUME NEW x \in 1 .. n
      PROVE  \E i \in Heads(cands) : x \in Members(cands, i)
  <2>1. Members(cands, x) \subseteq Nat /\ Members(cands, x) # {}
    <3>1. x \in Members(cands, x)
      BY GroupsPartition
    <3>2. Members(cands, x) \subseteq 1 .. n
      BY DEF Members
    <3> QED BY <3>1, <3>2
  <2>2. PICK i \in Members(cands, x) : \A j \in Members(cands, x) : i <= j
    BY <2>1, LeastNumber
  <2>3. i \in DOMAIN cands /\ x \in DOMAIN cands
    BY <2>2 DEF Members
  <2>4. Members(cands, i) = Members(cands, x)
    BY <2>2, <2>3, GroupsPartition
  <2>5. i \in Heads(cands)
    BY <2>2, <2>3, <2>4 DEF Heads
  <2>6. x \in Members(cands, i)
    BY <2>3, <2>4, GroupsPartition
  <2> QED BY <2>5, <2>6
<1>2. ASSUME NEW i \in Heads(cands), NEW j \in Heads(cands), i # j,
             NEW x \in Members(cands, i) \cap Members(cands, j)
      PROVE  FALSE
  <2>1. i \in 1 .. n /\ j \in 1 .. n /\ x \in DOMAIN cands
    BY DEF Heads, Members
  <2>2. Members(cands, i) = Members(cands, j)
    BY <2>1, GroupsPartition
  <2>3. i \in Members(cands, j) /\ j \in Members(cands, i)
    BY <2>1, <2>2, GroupsPartition
  <2>4. i <= j /\ j <= i
    BY <2>3 DEF Heads
  <2> QED BY <1>2, <2>1, <2>4
<1> QED BY <1>1, <1>2

OrderOfHeads(cands) ==
  {p \in Heads(cands) \X Heads(cands) : Precedes(cands, p[1], p[2])}

(* The heads are in a total order.                                          *)
LEMMA HeadsOrdered ==
  ASSUME NEW n \in Nat, NEW cands \in [1 .. n -> LocatedCandidate]
  PROVE  TotallyOrders(OrderOfHeads(cands), Heads(cands))
<1>1. \A i \in Heads(cands) :
        /\ i \in 1 .. n
        /\ cands[i].at[1] \in Nat /\ cands[i].at[2] \in Nat
        /\ cands[i].at = <<cands[i].at[1], cands[i].at[2]>>
  <2>1. ASSUME NEW i \in Heads(cands)
        PROVE  i \in 1 .. n /\ cands[i].at \in Nat \X Nat
    <3>1. i \in 1 .. n
      BY DEF Heads
    <3>2. cands[i].at \in Ranges
      BY <3>1 DEF LocatedCandidate
    <3> QED BY <3>1, <3>2, MergingAssumption
  <2> QED BY <2>1
<1>2. \A i, j \in Heads(cands) :
        <<i, j>> \in OrderOfHeads(cands) <=> Precedes(cands, i, j)
  BY DEF OrderOfHeads
<1>3. \A i \in Heads(cands) : ~Precedes(cands, i, i)
  BY <1>1 DEF Precedes
<1>4. ASSUME NEW x \in Heads(cands), NEW y \in Heads(cands), NEW z \in Heads(cands),
             Precedes(cands, x, y), Precedes(cands, y, z)
      PROVE  Precedes(cands, x, z)
  BY <1>1, <1>4 DEF Precedes
<1>5. ASSUME NEW x \in Heads(cands), NEW y \in Heads(cands), x # y
      PROVE  Precedes(cands, x, y) \/ Precedes(cands, y, x)
  BY <1>1, <1>5 DEF Precedes
<1> QED BY <1>2, <1>3, <1>4, <1>5 DEF TotallyOrders

(* The head of the k-th finding                                             *)
HeadNth(cands, k) ==
  CHOOSE i \in Heads(cands) : RankIn(Heads(cands), OrderOfHeads(cands), i) = k

(* The findings of a batch are its heads, each one once.                    *)
LEMMA HeadsTaken ==
  ASSUME NEW n \in Nat, NEW cands \in [1 .. n -> LocatedCandidate]
  PROVE  /\ IsFiniteSet(Heads(cands)) /\ Cardinality(Heads(cands)) \in Nat
         /\ \A k \in 1 .. Cardinality(Heads(cands)) :
              /\ HeadNth(cands, k) \in Heads(cands)
              /\ MergeCandidates(cands)[k] = MergedFinding(cands, HeadNth(cands, k))
         /\ \A k, l \in 1 .. Cardinality(Heads(cands)) :
              HeadNth(cands, k) = HeadNth(cands, l) => k = l
         /\ \A i \in Heads(cands) :
              \E k \in 1 .. Cardinality(Heads(cands)) : HeadNth(cands, k) = i
         /\ DOMAIN MergeCandidates(cands) = 1 .. Cardinality(Heads(cands))
<1> DEFINE H == Heads(cands)
           R == OrderOfHeads(cands)
           m == Cardinality(H)
<1>1. IsFiniteSet(H) /\ m \in Nat
  <2>1. IsFiniteSet(1 .. n) /\ H \subseteq 1 .. n
    BY FS_Interval DEF Heads
  <2> QED BY <2>1, FS_Subset, FS_CardinalityType
<1>2. TotallyOrders(R, H)
  BY HeadsOrdered
<1>3. ASSUME NEW i \in H
      PROVE  Cardinality({j \in H : Precedes(cands, j, i)}) + 1 = RankIn(H, R, i)
  <2>1. {j \in H : Precedes(cands, j, i)} = Below(H, R, i)
    BY DEF Below, OrderOfHeads
  <2> QED BY <2>1 DEF RankIn
<1>4. ASSUME NEW k \in 1 .. m
      PROVE  HeadNth(cands, k) \in H /\ RankIn(H, R, HeadNth(cands, k)) = k
  <2>1. \E i \in H : RankIn(H, R, i) = k
    BY <1>1, <1>2, RanksTaken
  <2> QED BY <2>1 DEF HeadNth
<1>5. ASSUME NEW k \in 1 .. m
      PROVE  MergeCandidates(cands)[k] = MergedFinding(cands, HeadNth(cands, k))
  <2>1. (CHOOSE i \in H : Cardinality({j \in H : Precedes(cands, j, i)}) + 1 = k)
          = HeadNth(cands, k)
    BY <1>3 DEF HeadNth
  <2> QED BY <2>1, Zenon DEF MergeCandidates
<1>6. ASSUME NEW i \in H
      PROVE  \E k \in 1 .. m : HeadNth(cands, k) = i
  <2>1. RankIn(H, R, i) \in 1 .. m
    BY <1>1, <1>2, RankType
  <2>2. PICK k \in 1 .. m : k = RankIn(H, R, i)
    BY <2>1
  <2>3. HeadNth(cands, k) = i
    BY <2>2, <1>1, <1>2, <1>4, RanksDiffer
  <2> QED BY <2>3
<1>7. ASSUME NEW k \in 1 .. m, NEW l \in 1 .. m, HeadNth(cands, k) = HeadNth(cands, l)
      PROVE  k = l
  BY <1>4, <1>7
<1>8. DOMAIN MergeCandidates(cands) = 1 .. m
  BY DEF MergeCandidates
<1> QED BY <1>1, <1>4, <1>5, <1>6, <1>7, <1>8

(* mergeCandidates loses no candidate and uses none twice.                  *)
THEOREM MergedAccounts ==
  ASSUME NEW n \in Nat, NEW cands \in [1 .. n -> LocatedCandidate]
  PROVE  LET found == MergeCandidates(cands)
             m     == Cardinality(Heads(cands))
         IN  /\ m \in Nat /\ DOMAIN found = 1 .. m
             /\ \A k \in 1 .. m :
                  /\ HeadNth(cands, k) \in 1 .. n
                  /\ found[k] = MergedFinding(cands, HeadNth(cands, k))
                  /\ Cardinality(found[k].sources) \in Nat
                  /\ found[k].sources \subseteq 1 .. n
             /\ SumOf([k \in 1 .. m |-> Cardinality(found[k].sources)]) = n
<1> DEFINE found == MergeCandidates(cands)
           m     == Cardinality(Heads(cands))
           P     == [k \in 1 .. m |-> Members(cands, HeadNth(cands, k))]
<1>1. m \in Nat /\ DOMAIN found = 1 .. m
  BY HeadsTaken
<1>2. ASSUME NEW k \in 1 .. m
      PROVE  /\ HeadNth(cands, k) \in Heads(cands)
             /\ HeadNth(cands, k) \in 1 .. n
             /\ found[k] = MergedFinding(cands, HeadNth(cands, k))
             /\ found[k].sources = P[k]
             /\ P[k] \subseteq 1 .. n /\ IsFiniteSet(P[k]) /\ Cardinality(P[k]) \in Nat
  <2>1. HeadNth(cands, k) \in Heads(cands)
        /\ found[k] = MergedFinding(cands, HeadNth(cands, k))
    BY HeadsTaken
  <2>2. HeadNth(cands, k) \in 1 .. n
    BY <2>1 DEF Heads
  <2>3. found[k].sources = P[k]
    BY <2>1 DEF MergedFinding
  <2>4. P[k] \subseteq 1 .. n
    BY DEF Members
  <2>5. IsFiniteSet(1 .. n)
    BY FS_Interval
  <2> HIDE DEF P
  <2> QED BY <2>1, <2>2, <2>3, <2>4, <2>5, FS_Subset, FS_CardinalityType
<1>3. \A k, l \in 1 .. m : k # l => P[k] \cap P[l] = {}
  <2>1. ASSUME NEW k \in 1 .. m, NEW l \in 1 .. m, k # l
        PROVE  P[k] \cap P[l] = {}
    <3>1. HeadNth(cands, k) # HeadNth(cands, l)
      BY <2>1, HeadsTaken
    <3>2. Members(cands, HeadNth(cands, k)) \cap Members(cands, HeadNth(cands, l)) = {}
      BY <1>2, <3>1, HeadOfEach
    <3> QED BY <3>2
  <2> QED BY <2>1
<1>4. UNION {P[k] : k \in 1 .. m} = 1 .. n
  <2>1. ASSUME NEW x \in 1 .. n PROVE \E k \in 1 .. m : x \in P[k]
    <3>1. PICK i \in Heads(cands) : x \in Members(cands, i)
      BY HeadOfEach
    <3>2. PICK k \in 1 .. m : HeadNth(cands, k) = i
      BY HeadsTaken
    <3> QED BY <3>1, <3>2
  <2> QED BY <1>2, <2>1, Zenon
<1>5. SumOf([k \in 1 .. m |-> Cardinality(P[k])]) = Cardinality(1 .. n)
  <2>1. SumOf([k \in 1 .. m |-> Cardinality(P[k])]) = Cardinality(UNION {P[k] : k \in 1 .. m})
    <3> HIDE DEF P, m
    <3> QED BY <1>1, <1>2, <1>3, SizesAddUp, Zenon
  <2> QED BY <1>4, <2>1, Zenon
<1>6. Cardinality(1 .. n) = n
  BY FS_Interval
<1>7. [k \in 1 .. m |-> Cardinality(P[k])] = [k \in 1 .. m |-> Cardinality(found[k].sources)]
  BY <1>2
<1>8. \A k \in 1 .. m : Cardinality(found[k].sources) \in Nat /\ found[k].sources \subseteq 1 .. n
  BY <1>2
<1> HIDE DEF P, found, m
<1>9. SumOf([k \in 1 .. m |-> Cardinality(found[k].sources)]) = n
  BY <1>5, <1>6, <1>7, Zenon
<1>10. \A k \in 1 .. m : HeadNth(cands, k) \in 1 .. n
                         /\ found[k] = MergedFinding(cands, HeadNth(cands, k))
  BY <1>2
<1> QED BY <1>1, <1>8, <1>9, <1>10 DEF found, m

-----------------------------------------------------------------------------
(* A pass of the pipeline.  The invariant is about a record of its state,   *)
(* so that each helper of the model is shown to keep it.                    *)

Stops == {"none", "settings", "connection-lost", "recovery-needed", "model-not-loaded"}
PipePcs == {"off", "target", "unit", "check", "finding", "recheck", "done"}
PipeRow == [unit : CheckUnits, cand : Candidate]
MergedRow ==
  [target : Targets, at : Ranges, fix : Fixes \cup {NoFix}, category : Categories,
   verdict : Verdicts, perspectives : SUBSET Perspectives, size : Nat, suppressed : BOOLEAN]
UnitDone == [unit : Targets \X Perspectives, status : {"done", "failed", "pending"},
             attempts : Nat]
FindingDone ==
  [finding : MergedRow, attempts : Nat,
   status : RecheckVerdicts \cup {"failed", "pending", "suppressed", "disabled"}]

PipeRecord ==
  [pc : PipePcs, mode : Modes \cup {"split"}, limit : Limits \cup {0}, target : Targets,
   persp : 1 .. NumPerspectives + 1, attempts : Nat, retried : BOOLEAN, requests : Nat,
   candidates : Nat, troubles : Nat, stop : Stops, rows : Seq(PipeRow),
   merged : Seq(MergedRow), units : Seq(UnitDone), findings : Seq(FindingDone),
   unlocated : Seq(PipeRow)]

TargetsOf(p) == IF p.mode = "full-text" THEN 1 ELSE NumTargets

(* The unit at position i is the one its target and perspective say.        *)
UnitsInOrder(units) ==
  \A i \in 1 .. Len(units) :
    i = (units[i].unit[1] - 1) * NumPerspectives + units[i].unit[2]

Place(p) ==
  /\ p.pc = "off" => p.units = <<>>
  /\ p.target <= TargetsOf(p)
  /\ UnitsInOrder(p.units)
  /\ p.pc = "target" => Len(p.units) = (p.target - 1) * NumPerspectives
  /\ p.pc \in {"unit", "check"} =>
       Len(p.units) = (p.target - 1) * NumPerspectives + (p.persp - 1)
  /\ p.pc \in {"finding", "recheck"} => Len(p.units) = p.target * NumPerspectives
  /\ p.pc = "done" => p.units = <<>> \/ Len(p.units) = TargetsOf(p) * NumPerspectives
  /\ p.pc = "check" => p.persp \in Perspectives
  /\ p.pc \notin {"finding", "recheck"} => p.merged = <<>>
  /\ p.pc = "recheck" => p.merged # <<>>

(* Which targets the units and findings settled so far are of               *)
TargetsDone(p) ==
  /\ \A i \in 1 .. Len(p.units) : p.units[i].unit[1] <= p.target
  /\ \A j \in 1 .. Len(p.findings) : p.findings[j].finding.target <= p.target
  /\ p.pc \in {"target", "unit", "check"} =>
       \A j \in 1 .. Len(p.findings) : p.findings[j].finding.target < p.target
  /\ \A k \in 1 .. Len(p.merged) : p.merged[k].target = p.target

Sizes(findings) == SumOf([i \in DOMAIN findings |-> findings[i].finding.size])
SizesDue(merged) == SumOf([k \in DOMAIN merged |-> merged[k].size])

Counts(p) ==
  /\ p.requests = AttemptsOf(p.units) + AttemptsOf(p.findings)
                    + (IF p.pc \in {"check", "recheck"} THEN p.attempts ELSE 0)
  /\ p.candidates = Sizes(p.findings) + SizesDue(p.merged) + Len(p.unlocated)
                    + (IF p.pc \in {"unit", "check"} THEN Len(p.rows) ELSE 0)

(* Only a stop leaves something pending, and nothing is sent after one.     *)
Statuses(p) ==
  /\ p.stop = "none" =>
       /\ \A i \in 1 .. Len(p.units) : p.units[i].status # "pending"
       /\ \A j \in 1 .. Len(p.findings) : p.findings[j].status # "pending"
  /\ p.pc \in {"check", "recheck"} => p.stop = "none"
  /\ p.pc = "recheck" => p.mode = "split-recheck"
  /\ \A j \in 1 .. Len(p.findings) :
       p.findings[j].status = "disabled" <=> p.mode # "split-recheck"

Waiting(x) == x.status = "pending" /\ x.attempts = 0

NothingAfter(units, findings) ==
  /\ \A i, j \in 1 .. Len(units) : i < j /\ Waiting(units[i]) => Waiting(units[j])
  /\ \A i \in 1 .. Len(units), j \in 1 .. Len(findings) :
       Waiting(units[i]) /\ units[i].unit[1] <= findings[j].finding.target =>
         findings[j].attempts = 0
  /\ \A i, j \in 1 .. Len(findings) :
       i < j /\ Waiting(findings[i]) => findings[j].attempts = 0

PipeInv(p) ==
  /\ p \in PipeRecord
  /\ Place(p)
  /\ TargetsDone(p)
  /\ Counts(p)
  /\ Statuses(p)
  /\ NothingAfter(p.units, p.findings)

-----------------------------------------------------------------------------
(* Sums along a pass                                                        *)

(* One settled unit or finding more adds its attempts.                      *)
LEMMA AttemptsAppended ==
  ASSUME NEW S, \A x \in S : x.attempts \in Nat, NEW seq \in Seq(S), NEW u \in S
  PROVE  /\ AttemptsOf(seq) \in Nat
         /\ AttemptsOf(Append(seq, u)) = AttemptsOf(seq) + u.attempts
<1> DEFINE n == Len(seq)
           f == [i \in 1 .. n |-> seq[i].attempts]
           g == [i \in 1 .. n + 1 |-> Append(seq, u)[i].attempts]
<1>1. n \in Nat /\ DOMAIN seq = 1 .. n /\ \A i \in 1 .. n : seq[i] \in S
  OBVIOUS
<1>2. /\ DOMAIN Append(seq, u) = 1 .. n + 1
      /\ \A i \in 1 .. n : Append(seq, u)[i] = seq[i]
      /\ Append(seq, u)[n + 1] = u
  BY AppendProperties
<1>3. AttemptsOf(seq) = SumOf(f) /\ AttemptsOf(Append(seq, u)) = SumOf(g)
  BY <1>1, <1>2 DEF AttemptsOf
<1>4. f \in [1 .. n -> Nat]
  BY <1>1
<1>5. g \in [1 .. n + 1 -> Nat]
  <2>1. \A i \in 1 .. n + 1 : i \in 1 .. n \/ i = n + 1
    BY <1>1
  <2>2. \A i \in 1 .. n + 1 : Append(seq, u)[i] \in S
    BY <1>1, <1>2, <2>1
  <2> QED BY <2>2
<1>6. (\A i \in 1 .. n : g[i] = f[i]) /\ g[n + 1] = u.attempts
  BY <1>1, <1>2
<1> HIDE DEF n, f, g
<1> QED BY <1>1, <1>3, <1>4, <1>5, <1>6, SumExtended, OnesAre, Zenon

(* One settled finding more adds the candidates it merged.                  *)
LEMMA SizesAppended ==
  ASSUME NEW seq \in Seq(FindingDone), NEW u \in FindingDone
  PROVE  /\ Sizes(seq) \in Nat
         /\ Sizes(Append(seq, u)) = Sizes(seq) + u.finding.size
<1> DEFINE n == Len(seq)
           f == [i \in 1 .. n |-> seq[i].finding.size]
           g == [i \in 1 .. n + 1 |-> Append(seq, u)[i].finding.size]
<1>0. \A x \in FindingDone : x.finding.size \in Nat
  BY DEF FindingDone, MergedRow
<1>1. n \in Nat /\ DOMAIN seq = 1 .. n /\ \A i \in 1 .. n : seq[i] \in FindingDone
  OBVIOUS
<1>2. /\ DOMAIN Append(seq, u) = 1 .. n + 1
      /\ \A i \in 1 .. n : Append(seq, u)[i] = seq[i]
      /\ Append(seq, u)[n + 1] = u
  BY AppendProperties
<1>3. Sizes(seq) = SumOf(f) /\ Sizes(Append(seq, u)) = SumOf(g)
  BY <1>1, <1>2 DEF Sizes
<1>4. f \in [1 .. n -> Nat]
  BY <1>0, <1>1
<1>5. g \in [1 .. n + 1 -> Nat]
  <2>1. \A i \in 1 .. n + 1 : i \in 1 .. n \/ i = n + 1
    BY <1>1
  <2>2. \A i \in 1 .. n + 1 : Append(seq, u)[i] \in FindingDone
    BY <1>1, <1>2, <2>1
  <2> QED BY <1>0, <2>2
<1>6. (\A i \in 1 .. n : g[i] = f[i]) /\ g[n + 1] = u.finding.size
  BY <1>1, <1>2
<1> HIDE DEF n, f, g
<1> QED BY <1>1, <1>3, <1>4, <1>5, <1>6, SumExtended, OnesAre, Zenon

(* Settling the first of the findings that are due takes its candidates off *)
(* the sum.                                                                 *)
LEMMA SizesOfTail ==
  ASSUME NEW seq \in Seq(MergedRow), seq # <<>>
  PROVE  /\ SizesDue(Tail(seq)) \in Nat
         /\ SizesDue(seq) = Head(seq).size + SizesDue(Tail(seq))
<1> DEFINE f == [k \in 1 .. Len(seq) |-> seq[k].size]
           g == [k \in 1 .. Len(seq) - 1 |-> seq[k + 1].size]
<1>1. /\ Len(seq) \in Nat /\ Len(seq) >= 1 /\ DOMAIN seq = 1 .. Len(seq)
      /\ \A k \in 1 .. Len(seq) : seq[k].size \in Nat
  <2>1. \A k \in 1 .. Len(seq) : seq[k] \in MergedRow
    OBVIOUS
  <2>2. \A x \in MergedRow : x.size \in Nat
    BY DEF MergedRow
  <2>3. Len(seq) \in Nat /\ Len(seq) >= 1 /\ DOMAIN seq = 1 .. Len(seq)
    BY EmptySeq
  <2> QED BY <2>1, <2>2, <2>3
<1>2. f \in Seq(Nat) /\ f # <<>> /\ Head(f) = seq[1].size
  BY <1>1
<1>3. /\ Tail(seq) \in Seq(MergedRow) /\ Len(Tail(seq)) = Len(seq) - 1
      /\ \A k \in 1 .. Len(seq) - 1 : Tail(seq)[k] = seq[k + 1]
  BY HeadTailProperties
<1>4. DOMAIN Tail(seq) = 1 .. Len(seq) - 1
  BY <1>3
<1>5. SizesDue(seq) = SumOf(f) /\ SizesDue(Tail(seq)) = SumOf(g)
  BY <1>1, <1>3, <1>4, Zenon DEF SizesDue
<1>6. Tail(f) = g
  <2>1. /\ Tail(f) \in Seq(Nat) /\ Len(Tail(f)) = Len(f) - 1 /\ Len(f) = Len(seq)
        /\ \A k \in 1 .. Len(Tail(f)) : Tail(f)[k] = f[k + 1]
    BY <1>1, <1>2, HeadTailProperties
  <2>2. DOMAIN Tail(f) = 1 .. Len(seq) - 1
    BY <2>1
  <2>3. Tail(f) = [k \in 1 .. Len(seq) - 1 |-> Tail(f)[k]]
    BY <2>1, <2>2, LenProperties
  <2>4. \A k \in 1 .. Len(seq) - 1 : Tail(f)[k] = seq[k + 1].size
    BY <1>1, <2>1
  <2> QED BY <2>3, <2>4
<1>7. Head(seq) = seq[1]
  OBVIOUS
<1> HIDE DEF f, g
<1> QED BY <1>2, <1>5, <1>6, <1>7, SumTail, Zenon

(* With nothing due the sum is 0.                                           *)
LEMMA NothingDue ==
  SizesDue(<<>>) = 0 /\ Sizes(<<>>) = 0 /\ AttemptsOf(<<>>) = 0
<1>1. DOMAIN [k \in DOMAIN <<>> |-> <<>>[k].size] = {}
      /\ DOMAIN [k \in DOMAIN <<>> |-> <<>>[k].finding.size] = {}
      /\ DOMAIN [k \in DOMAIN <<>> |-> <<>>[k].attempts] = {}
  OBVIOUS
<1> QED BY <1>1, SumOfNone DEF SizesDue, Sizes, AttemptsOf

(* Attempts of a sequence are a number.                                     *)
LEMMA AttemptsAre ==
  ASSUME NEW S, \A x \in S : x.attempts \in Nat, NEW seq \in Seq(S)
  PROVE  AttemptsOf(seq) \in Nat
<1> DEFINE f == [i \in 1 .. Len(seq) |-> seq[i].attempts]
<1>1. /\ Len(seq) \in Nat /\ DOMAIN seq = 1 .. Len(seq)
      /\ \A i \in 1 .. Len(seq) : seq[i] \in S
  OBVIOUS
<1>2. AttemptsOf(seq) = SumOf(f) /\ f \in [1 .. Len(seq) -> Nat]
  BY <1>1 DEF AttemptsOf
<1> HIDE DEF f
<1> QED BY <1>1, <1>2, OnesAre

(* The sums of the invariant are numbers.                                   *)
LEMMA TotalsAre ==
  ASSUME NEW p \in PipeRecord
  PROVE  /\ AttemptsOf(p.units) \in Nat /\ AttemptsOf(p.findings) \in Nat
         /\ Sizes(p.findings) \in Nat /\ SizesDue(p.merged) \in Nat
         /\ Len(p.unlocated) \in Nat /\ Len(p.rows) \in Nat
         /\ p.attempts \in Nat /\ p.requests \in Nat /\ p.candidates \in Nat
<1>1. /\ p.units \in Seq(UnitDone) /\ p.findings \in Seq(FindingDone)
      /\ p.merged \in Seq(MergedRow) /\ Len(p.unlocated) \in Nat /\ Len(p.rows) \in Nat
      /\ p.attempts \in Nat /\ p.requests \in Nat /\ p.candidates \in Nat
  BY DEF PipeRecord
<1>2. /\ \A x \in UnitDone : x.attempts \in Nat
      /\ \A x \in FindingDone : x.attempts \in Nat /\ x.finding.size \in Nat
      /\ \A x \in MergedRow : x.size \in Nat
  BY DEF UnitDone, FindingDone, MergedRow
<1>3. AttemptsOf(p.units) \in Nat /\ AttemptsOf(p.findings) \in Nat
  BY <1>1, <1>2, AttemptsAre
<1>4. Sizes(p.findings) \in Nat
  <2> DEFINE s == p.findings
             f == [i \in 1 .. Len(s) |-> s[i].finding.size]
  <2>1. Len(s) \in Nat /\ DOMAIN s = 1 .. Len(s) /\ \A i \in 1 .. Len(s) : s[i] \in FindingDone
    BY <1>1
  <2>2. Sizes(s) = SumOf(f) /\ f \in [1 .. Len(s) -> Nat]
    BY <1>2, <2>1 DEF Sizes
  <2> HIDE DEF f
  <2> QED BY <2>1, <2>2, OnesAre
<1>5. SizesDue(p.merged) \in Nat
  <2> DEFINE s == p.merged
             f == [i \in 1 .. Len(s) |-> s[i].size]
  <2>1. Len(s) \in Nat /\ DOMAIN s = 1 .. Len(s) /\ \A i \in 1 .. Len(s) : s[i] \in MergedRow
    BY <1>1
  <2>2. SizesDue(s) = SumOf(f) /\ f \in [1 .. Len(s) -> Nat]
    BY <1>2, <2>1 DEF SizesDue
  <2> HIDE DEF f
  <2> QED BY <2>1, <2>2, OnesAre
<1> QED BY <1>1, <1>3, <1>4, <1>5

-----------------------------------------------------------------------------
(* What the helpers of the model do to a record                             *)

Alike(p, q) ==
  /\ q.pc = p.pc /\ q.mode = p.mode /\ q.limit = p.limit /\ q.target = p.target
  /\ q.persp = p.persp /\ q.candidates = p.candidates /\ q.stop = p.stop
  /\ q.rows = p.rows /\ q.merged = p.merged /\ q.units = p.units
  /\ q.findings = p.findings /\ q.unlocated = p.unlocated

(* A pass that differs in nothing the invariant reads keeps it.             *)
LEMMA AlikeKeeps ==
  ASSUME NEW p, PipeInv(p), NEW q \in PipeRecord, Alike(p, q),
         IF p.pc \in {"check", "recheck"}
         THEN q.requests - q.attempts = p.requests - p.attempts
         ELSE q.requests = p.requests
  PROVE  PipeInv(q)
<1>1. p \in PipeRecord
  BY DEF PipeInv
<1>2. Place(q) /\ TargetsDone(q) /\ Statuses(q) /\ NothingAfter(q.units, q.findings)
  BY DEF PipeInv, Place, TargetsDone, Statuses, Alike, TargetsOf
<1>3. Counts(q)
  <2>1. Counts(p)
    BY DEF PipeInv
  <2>2. /\ AttemptsOf(p.units) \in Nat /\ AttemptsOf(p.findings) \in Nat
        /\ p.requests \in Nat /\ p.attempts \in Nat /\ q.requests \in Nat /\ q.attempts \in Nat
    BY <1>1, TotalsAre
  <2>3. q.candidates = Sizes(q.findings) + SizesDue(q.merged) + Len(q.unlocated)
                        + (IF q.pc \in {"unit", "check"} THEN Len(q.rows) ELSE 0)
    BY <2>1 DEF Counts, Alike
  <2>4. CASE p.pc \in {"check", "recheck"}
    BY <2>1, <2>2, <2>3, <2>4 DEF Counts, Alike
  <2>5. CASE p.pc \notin {"check", "recheck"}
    BY <2>1, <2>2, <2>3, <2>5 DEF Counts, Alike
  <2> QED BY <2>4, <2>5
<1> QED BY <1>2, <1>3 DEF PipeInv

(* Sending a request (requestOnce) keeps it.                                *)
LEMMA SentKeeps ==
  ASSUME NEW p, PipeInv(p), p.pc \in {"check", "recheck"}
  PROVE  PipeInv(Sent(p)) /\ Alike(p, Sent(p)) /\ Sent(p).attempts = p.attempts + 1
<1> DEFINE q == Sent(p)
<1>1. p \in PipeRecord
  BY DEF PipeInv
<1>a. p.attempts \in Nat /\ p.requests \in Nat
  BY <1>1 DEF PipeRecord
<1>b. p.attempts + 1 \in Nat /\ p.requests + 1 \in Nat
  BY <1>a
<1>c. q = [p EXCEPT !.attempts = p.attempts + 1, !.requests = p.requests + 1]
  BY DEF Sent
<1>d. q \in PipeRecord
  <2> HIDE DEF q
  <2> QED BY <1>1, <1>b, <1>c, Zenon DEF PipeRecord
<1>e. q.attempts = p.attempts + 1 /\ q.requests = p.requests + 1
  BY <1>1, <1>c DEF PipeRecord
<1>f. Alike(p, q)
  BY <1>1 DEF PipeRecord, Alike, Sent
<1>2. /\ q \in PipeRecord /\ Alike(p, q)
      /\ q.attempts = p.attempts + 1 /\ q.requests = p.requests + 1
      /\ p.requests \in Nat /\ p.attempts \in Nat
  BY <1>a, <1>d, <1>e, <1>f
<1> HIDE DEF q
<1>3. q.requests - q.attempts = p.requests - p.attempts
  BY <1>2
<1> QED BY <1>2, <1>3, AlikeKeeps DEF q

(* Noting a trouble keeps it.                                               *)
LEMMA TroubledKeeps ==
  ASSUME NEW p, PipeInv(p)
  PROVE  PipeInv(Troubled(p)) /\ Alike(p, Troubled(p)) /\ Troubled(p).attempts = p.attempts
<1> DEFINE q == Troubled(p)
<1>1. p \in PipeRecord
  BY DEF PipeInv
<1>a. p.troubles + 1 \in Nat
  BY <1>1 DEF PipeRecord
<1>b. q = [p EXCEPT !.troubles = p.troubles + 1]
  BY DEF Troubled
<1>c. q \in PipeRecord
  <2> HIDE DEF q
  <2> QED BY <1>1, <1>a, <1>b, Zenon DEF PipeRecord
<1>2. /\ q \in PipeRecord /\ Alike(p, q)
      /\ q.attempts = p.attempts /\ q.requests = p.requests
  BY <1>1, <1>c DEF Troubled, PipeRecord, Alike
<1> HIDE DEF q
<1> QED BY <1>2, AlikeKeeps DEF q

(* Forgetting the attempts between two requests keeps it.                   *)
LEMMA UnaskedKeeps ==
  ASSUME NEW p, PipeInv(p), p.pc \notin {"check", "recheck"}
  PROVE  LET q == [p EXCEPT !.attempts = 0]
         IN  PipeInv(q) /\ Alike(p, q) /\ q.attempts = 0
<1> DEFINE q == [p EXCEPT !.attempts = 0]
<1>1. p \in PipeRecord
  BY DEF PipeInv
<1>2. /\ q \in PipeRecord /\ Alike(p, q)
      /\ q.attempts = 0 /\ q.requests = p.requests
  BY <1>1, Zenon DEF PipeRecord, Alike
<1> HIDE DEF q
<1> QED BY <1>2, AlikeKeeps, Zenon DEF q

(* Granting the one retry of a request keeps it.                            *)
LEMMA RetryKeeps ==
  ASSUME NEW p, PipeInv(p)
  PROVE  PipeInv([p EXCEPT !.retried = TRUE])
<1> DEFINE q == [p EXCEPT !.retried = TRUE]
<1>1. p \in PipeRecord
  BY DEF PipeInv
<1>2. /\ q \in PipeRecord /\ Alike(p, q)
      /\ q.attempts = p.attempts /\ q.requests = p.requests
  BY <1>1, Zenon DEF PipeRecord, Alike
<1> HIDE DEF q
<1> QED BY <1>2, AlikeKeeps, Zenon DEF q

(* Beginning the request of a unit or of a finding keeps it.                *)
LEMMA RequestKeeps ==
  ASSUME NEW p, PipeInv(p), NEW pc, p.stop = "none",
         \/ p.pc = "unit" /\ pc = "check" /\ p.persp \in Perspectives
         \/ /\ p.pc = "finding" /\ pc = "recheck" /\ p.merged # <<>>
            /\ p.mode = "split-recheck"
  PROVE  PipeInv(Request(p, pc))
<1> DEFINE q == Request(p, pc)
<1>1. p \in PipeRecord
  BY DEF PipeInv
<1>2. pc \in PipePcs
  BY DEF PipePcs
<1>3. /\ q \in PipeRecord /\ q.pc = pc /\ q.mode = p.mode /\ q.target = p.target
      /\ q.persp = p.persp /\ q.candidates = p.candidates /\ q.stop = p.stop
      /\ q.rows = p.rows /\ q.merged = p.merged /\ q.units = p.units
      /\ q.findings = p.findings /\ q.unlocated = p.unlocated
      /\ q.attempts = 0 /\ q.requests = p.requests
  BY <1>1, <1>2, Zenon DEF Request, PipeRecord
<1> HIDE DEF q
<1>4. Place(q) /\ TargetsDone(q) /\ Statuses(q) /\ NothingAfter(q.units, q.findings)
  BY <1>3 DEF PipeInv, Place, TargetsDone, Statuses, TargetsOf
<1>5. Counts(q)
  <2>1. Counts(p)
    BY DEF PipeInv
  <2>2. AttemptsOf(p.units) \in Nat /\ AttemptsOf(p.findings) \in Nat
    BY <1>1, TotalsAre
  <2>3. p.requests = AttemptsOf(p.units) + AttemptsOf(p.findings) + 0
    BY <2>1 DEF Counts
  <2>4. p.candidates = Sizes(p.findings) + SizesDue(p.merged) + Len(p.unlocated)
                        + (IF q.pc \in {"unit", "check"} THEN Len(p.rows) ELSE 0)
    BY <2>1, <1>3 DEF Counts
  <2>5. q.requests = AttemptsOf(q.units) + AttemptsOf(q.findings)
                       + (IF q.pc \in {"check", "recheck"} THEN q.attempts ELSE 0)
    BY <2>2, <2>3, <1>3
  <2> QED BY <1>3, <2>4, <2>5 DEF Counts
<1> QED BY <1>3, <1>4, <1>5 DEF PipeInv, q

(* Settling the unit in hand keeps it.                                      *)
LEMMA SettleUnitKeeps ==
  ASSUME NEW p, PipeInv(p), p.pc \in {"unit", "check"}, p.persp \in Perspectives,
         NEW status \in {"done", "failed", "pending"}, NEW halt \in Stops,
         p.pc = "unit" => status = "pending" /\ p.stop # "none" /\ p.attempts = 0,
         p.pc = "check" => (status = "pending" => halt # "none")
  PROVE  /\ PipeInv(SettleUnit(p, status, halt))
         /\ SettleUnit(p, status, halt).pc = "unit"
<1> DEFINE q == SettleUnit(p, status, halt)
           u == [unit |-> <<p.target, p.persp>>, status |-> status, attempts |-> p.attempts]
           n == Len(p.units)
           stop == IF p.stop = "none" THEN halt ELSE p.stop
<1>1. /\ p \in PipeRecord /\ Place(p) /\ TargetsDone(p) /\ Counts(p) /\ Statuses(p)
      /\ NothingAfter(p.units, p.findings)
  BY DEF PipeInv
<1>2. /\ p.target \in Targets /\ p.attempts \in Nat /\ p.stop \in Stops
      /\ p.units \in Seq(UnitDone) /\ p.findings \in Seq(FindingDone)
      /\ NumPerspectives \in Nat /\ p.persp \in 1 .. NumPerspectives /\ n \in Nat
      /\ p.target \in Nat
  BY <1>1, MergingAssumption DEF PipeRecord, Perspectives, Targets
<1>3. u \in UnitDone
  BY <1>2 DEF UnitDone
<1>4. /\ Append(p.units, u) \in Seq(UnitDone)
      /\ Len(Append(p.units, u)) = n + 1
      /\ \A i \in 1 .. n : Append(p.units, u)[i] = p.units[i]
      /\ Append(p.units, u)[n + 1] = u
  BY <1>2, <1>3, AppendProperties
<1>5. stop \in Stops /\ p.persp + 1 \in 1 .. NumPerspectives + 1
  BY <1>2
<1>6. q = [p EXCEPT !.pc = "unit", !.persp = p.persp + 1, !.stop = stop,
                    !.units = Append(p.units, u)]
  BY <1>1 DEF SettleUnit, PipeRecord
<1>7. q \in PipeRecord
  <2> HIDE DEF q, u, stop
  <2> QED BY <1>1, <1>4, <1>5, <1>6, Zenon DEF PipeRecord, PipePcs
<1>8. /\ q.pc = "unit" /\ q.persp = p.persp + 1 /\ q.stop = stop
      /\ q.units = Append(p.units, u) /\ q.mode = p.mode /\ q.target = p.target
      /\ q.attempts = p.attempts /\ q.requests = p.requests /\ q.merged = p.merged
      /\ q.candidates = p.candidates /\ q.rows = p.rows /\ q.findings = p.findings
      /\ q.unlocated = p.unlocated
  <2> HIDE DEF q, u, stop
  <2> QED BY <1>1, <1>6 DEF PipeRecord
<1>9. u.unit[1] = p.target /\ u.unit[2] = p.persp /\ u.attempts = p.attempts
      /\ u.status = status
  OBVIOUS
<1>10. \A i \in 1 .. n + 1 : i \in 1 .. n \/ i = n + 1
  BY <1>2
<1> HIDE DEF q, u
<1>11. n = (p.target - 1) * NumPerspectives + (p.persp - 1)
  BY <1>1 DEF Place
<1>12. Place(q)
  <2>1. UnitsInOrder(q.units)
    <3>1. (p.target - 1) * NumPerspectives \in Int
      BY <1>2
    <3>2. n + 1 = (p.target - 1) * NumPerspectives + p.persp
      BY <1>2, <1>11, <3>1
    <3>3. UnitsInOrder(p.units)
      BY <1>1 DEF Place
    <3> QED BY <1>4, <1>8, <1>9, <1>10, <3>2, <3>3 DEF UnitsInOrder
  <2>2. Len(q.units) = (q.target - 1) * NumPerspectives + (q.persp - 1)
    <3>1. (p.target - 1) * NumPerspectives \in Int
      BY <1>2
    <3> QED BY <1>2, <1>4, <1>8, <1>11, <3>1
  <2> QED BY <1>1, <1>8, <2>1, <2>2 DEF Place, TargetsOf
<1>13. TargetsDone(q)
  <2>1. \A i \in 1 .. Len(q.units) : q.units[i].unit[1] <= q.target
    <3>1. \A i \in 1 .. n : p.units[i].unit[1] <= p.target
      BY <1>1 DEF TargetsDone
    <3> QED BY <1>2, <1>4, <1>8, <1>9, <1>10, <3>1
  <2> QED BY <1>1, <1>8, <2>1 DEF TargetsDone
<1>14. Counts(q)
  <2>1. AttemptsOf(q.units) = AttemptsOf(p.units) + p.attempts
    <3>1. \A x \in UnitDone : x.attempts \in Nat
      BY DEF UnitDone
    <3>2. AttemptsOf(Append(p.units, u)) = AttemptsOf(p.units) + u.attempts
      BY <1>2, <1>3, <3>1, AttemptsAppended
    <3> QED BY <1>8, <1>9, <3>2
  <2>2. AttemptsOf(p.units) \in Nat /\ AttemptsOf(p.findings) \in Nat
    BY <1>1, TotalsAre
  <2>3. p.requests = AttemptsOf(p.units) + p.attempts + AttemptsOf(p.findings)
    <3>1. CASE p.pc = "unit"
      <4>1. p.attempts = 0
        BY <3>1
      <4> QED BY <1>1, <3>1, <4>1, <2>2 DEF Counts
    <3>2. CASE p.pc = "check"
      BY <1>1, <1>2, <3>2, <2>2 DEF Counts
    <3> QED BY <3>1, <3>2
  <2>4. q.requests = AttemptsOf(q.units) + AttemptsOf(q.findings) + 0
    BY <1>2, <1>8, <2>1, <2>2, <2>3
  <2>5. p.candidates = Sizes(p.findings) + SizesDue(p.merged) + Len(p.unlocated) + Len(p.rows)
    BY <1>1 DEF Counts
  <2> QED BY <1>8, <2>4, <2>5 DEF Counts
<1>15. Statuses(q)
  <2>1. ASSUME q.stop = "none"
        PROVE  /\ \A i \in 1 .. Len(q.units) : q.units[i].status # "pending"
               /\ \A j \in 1 .. Len(q.findings) : q.findings[j].status # "pending"
    <3>1. p.stop = "none" /\ halt = "none"
      BY <2>1, <1>8
    <3>2. status # "pending"
      BY <3>1
    <3> QED BY <1>1, <1>4, <1>8, <1>9, <1>10, <3>1, <3>2 DEF Statuses
  <2> QED BY <1>1, <1>8, <2>1 DEF Statuses
<1>16. NothingAfter(q.units, q.findings)
  <2>1. ASSUME NEW i \in 1 .. n, Waiting(p.units[i])
        PROVE  Waiting(u)
    <3>1. p.stop # "none"
      BY <1>1, <2>1 DEF Statuses, Waiting
    <3>2. p.pc = "unit"
      BY <1>1, <3>1 DEF Statuses
    <3> QED BY <1>9, <3>2 DEF Waiting
  <2>2. ASSUME NEW i \in 1 .. n + 1, NEW j \in 1 .. n + 1, i < j, Waiting(q.units[i])
        PROVE  Waiting(q.units[j])
    <3>1. i \in 1 .. n /\ Waiting(p.units[i])
      BY <1>2, <1>4, <1>8, <2>2
    <3>2. CASE j = n + 1
      BY <1>4, <1>8, <2>1, <3>1, <3>2
    <3>3. CASE j \in 1 .. n
      BY <1>1, <1>4, <1>8, <2>2, <3>1, <3>3 DEF NothingAfter
    <3> QED BY <1>10, <3>2, <3>3
  <2>3. ASSUME NEW i \in 1 .. n + 1, NEW j \in 1 .. Len(p.findings), Waiting(q.units[i]),
               q.units[i].unit[1] <= p.findings[j].finding.target
        PROVE  p.findings[j].attempts = 0
    <3>1. CASE i = n + 1
      <4>1. p.target <= p.findings[j].finding.target
        BY <1>4, <1>8, <1>9, <2>3, <3>1
      <4>2. p.findings[j].finding.target < p.target
        BY <1>1 DEF TargetsDone
      <4>3. p.findings[j].finding.target \in Nat
        <5>1. p.findings[j] \in FindingDone
          BY <1>2
        <5> QED BY <5>1 DEF FindingDone, MergedRow, Targets
      <4> QED BY <1>2, <4>1, <4>2, <4>3
    <3>2. CASE i \in 1 .. n
      BY <1>1, <1>4, <1>8, <2>3, <3>2 DEF NothingAfter
    <3> QED BY <1>10, <3>1, <3>2
  <2> QED BY <1>1, <1>4, <1>8, <2>2, <2>3 DEF NothingAfter
<1> QED BY <1>7, <1>8, <1>12, <1>13, <1>14, <1>15, <1>16 DEF PipeInv, q

(* Settling the finding in hand keeps it.                                   *)
LEMMA SettleFindingKeeps ==
  ASSUME NEW p, PipeInv(p), p.pc \in {"finding", "recheck"}, p.merged # <<>>,
         NEW status \in RecheckVerdicts \cup {"failed", "pending", "suppressed", "disabled"},
         NEW halt \in Stops,
         p.pc = "finding" => p.attempts = 0,
         status = "disabled" <=> p.mode # "split-recheck",
         status = "pending" => p.stop # "none" \/ halt # "none"
  PROVE  PipeInv(SettleFinding(p, status, halt))
<1> DEFINE q == SettleFinding(p, status, halt)
           f == [finding |-> Head(p.merged), status |-> status, attempts |-> p.attempts]
           n == Len(p.findings)
           stop == IF p.stop = "none" THEN halt ELSE p.stop
<1>1. /\ p \in PipeRecord /\ Place(p) /\ TargetsDone(p) /\ Counts(p) /\ Statuses(p)
      /\ NothingAfter(p.units, p.findings)
  BY DEF PipeInv
<1>2. /\ p.target \in Targets /\ p.attempts \in Nat /\ p.stop \in Stops
      /\ p.units \in Seq(UnitDone) /\ p.findings \in Seq(FindingDone)
      /\ p.merged \in Seq(MergedRow) /\ n \in Nat
  BY <1>1 DEF PipeRecord
<1>3. /\ Head(p.merged) \in MergedRow /\ Tail(p.merged) \in Seq(MergedRow)
      /\ Head(p.merged) = p.merged[1] /\ 1 \in 1 .. Len(p.merged)
      /\ Len(Tail(p.merged)) = Len(p.merged) - 1
      /\ \A k \in 1 .. Len(Tail(p.merged)) : Tail(p.merged)[k] = p.merged[k + 1]
  <2>1. Len(p.merged) \in Nat \ {0}
    BY <1>2, EmptySeq
  <2> QED BY <1>2, <2>1, HeadTailProperties
<1>4. f \in FindingDone
  BY <1>2, <1>3 DEF FindingDone
<1>5. /\ Append(p.findings, f) \in Seq(FindingDone)
      /\ Len(Append(p.findings, f)) = n + 1
      /\ \A i \in 1 .. n : Append(p.findings, f)[i] = p.findings[i]
      /\ Append(p.findings, f)[n + 1] = f
  BY <1>2, <1>4, AppendProperties
<1>6. q = [p EXCEPT !.pc = "finding", !.merged = Tail(p.merged), !.stop = stop,
                    !.findings = Append(p.findings, f)]
  BY <1>1 DEF SettleFinding, PipeRecord
<1>7. q \in PipeRecord
  <2>1. stop \in Stops
    BY <1>2
  <2> HIDE DEF q, f, stop
  <2> QED BY <1>1, <1>3, <1>5, <1>6, <2>1, Zenon DEF PipeRecord, PipePcs
<1>8. /\ q.pc = "finding" /\ q.persp = p.persp /\ q.stop = stop
      /\ q.units = p.units /\ q.mode = p.mode /\ q.target = p.target
      /\ q.attempts = p.attempts /\ q.requests = p.requests /\ q.merged = Tail(p.merged)
      /\ q.candidates = p.candidates /\ q.rows = p.rows
      /\ q.findings = Append(p.findings, f) /\ q.unlocated = p.unlocated
  <2> HIDE DEF q, f, stop
  <2> QED BY <1>1, <1>6 DEF PipeRecord
<1>9. f.finding = Head(p.merged) /\ f.attempts = p.attempts /\ f.status = status
  OBVIOUS
<1>10. \A i \in 1 .. n + 1 : i \in 1 .. n \/ i = n + 1
  BY <1>2
<1> HIDE DEF q, f
<1>11. Place(q)
  BY <1>1, <1>8 DEF Place, TargetsOf
<1>12. TargetsDone(q)
  <2>1. f.finding.target = p.target
    BY <1>1, <1>3, <1>9 DEF TargetsDone
  <2>2. \A j \in 1 .. Len(q.findings) : q.findings[j].finding.target <= q.target
    <3>1. \A j \in 1 .. n : p.findings[j].finding.target <= p.target
      BY <1>1 DEF TargetsDone
    <3>2. p.target <= p.target
      BY <1>2 DEF Targets
    <3> QED BY <1>5, <1>8, <1>10, <2>1, <3>1, <3>2
  <2>3. \A k \in 1 .. Len(q.merged) : q.merged[k].target = q.target
    <3>1. ASSUME NEW k \in 1 .. Len(Tail(p.merged))
          PROVE  Tail(p.merged)[k].target = p.target
      <4>1. k + 1 \in 1 .. Len(p.merged)
        BY <1>2, <1>3
      <4> QED BY <1>1, <1>3, <4>1 DEF TargetsDone
    <3> QED BY <1>8, <3>1
  <2> QED BY <1>1, <1>8, <2>2, <2>3 DEF TargetsDone
<1>13. Counts(q)
  <2>1. AttemptsOf(q.findings) = AttemptsOf(p.findings) + p.attempts
    <3>1. \A x \in FindingDone : x.attempts \in Nat
      BY DEF FindingDone
    <3> QED BY <1>2, <1>4, <1>8, <1>9, <3>1, AttemptsAppended
  <2>2. /\ AttemptsOf(p.units) \in Nat /\ AttemptsOf(p.findings) \in Nat
        /\ Sizes(p.findings) \in Nat /\ Len(p.unlocated) \in Nat
    BY <1>1, TotalsAre
  <2>3. p.requests = AttemptsOf(p.units) + p.attempts + AttemptsOf(p.findings)
    <3>1. CASE p.pc = "finding"
      <4>1. p.attempts = 0
        BY <3>1
      <4> QED BY <1>1, <3>1, <4>1, <2>2 DEF Counts
    <3>2. CASE p.pc = "recheck"
      BY <1>1, <1>2, <3>2, <2>2 DEF Counts
    <3> QED BY <3>1, <3>2
  <2>4. q.requests = AttemptsOf(q.units) + AttemptsOf(q.findings) + 0
    BY <1>2, <1>8, <2>1, <2>2, <2>3
  <2>5. p.candidates = Sizes(p.findings) + SizesDue(p.merged) + Len(p.unlocated) + 0
    BY <1>1 DEF Counts
  <2>6. /\ SizesDue(p.merged) = Head(p.merged).size + SizesDue(q.merged)
        /\ SizesDue(q.merged) \in Nat
    BY <1>2, <1>8, SizesOfTail
  <2>7. Sizes(q.findings) = Sizes(p.findings) + Head(p.merged).size
    BY <1>2, <1>4, <1>8, <1>9, SizesAppended
  <2>8. Head(p.merged).size \in Nat
    BY <1>3 DEF MergedRow
  <2>9. q.candidates = Sizes(q.findings) + SizesDue(q.merged) + Len(q.unlocated) + 0
    BY <1>8, <2>2, <2>5, <2>6, <2>7, <2>8
  <2> QED BY <1>8, <2>4, <2>9 DEF Counts
<1>14. Statuses(q)
  <2>1. ASSUME q.stop = "none"
        PROVE  /\ \A i \in 1 .. Len(q.units) : q.units[i].status # "pending"
               /\ \A j \in 1 .. Len(q.findings) : q.findings[j].status # "pending"
    <3>1. p.stop = "none" /\ halt = "none"
      BY <2>1, <1>8
    <3>2. status # "pending"
      BY <3>1
    <3> QED BY <1>1, <1>5, <1>8, <1>9, <1>10, <3>1, <3>2 DEF Statuses
  <2>2. \A j \in 1 .. Len(q.findings) :
          q.findings[j].status = "disabled" <=> q.mode # "split-recheck"
    BY <1>1, <1>5, <1>8, <1>9, <1>10 DEF Statuses
  <2> QED BY <1>8, <2>1, <2>2 DEF Statuses
<1>15. NothingAfter(q.units, q.findings)
  <2>1. ASSUME p.stop # "none"
        PROVE  f.attempts = 0
    <3>1. p.pc = "finding"
      BY <1>1, <2>1 DEF Statuses
    <3> QED BY <1>9, <3>1
  <2>2. ASSUME NEW i \in 1 .. Len(p.units), NEW j \in 1 .. n + 1, Waiting(p.units[i]),
               p.units[i].unit[1] <= q.findings[j].finding.target
        PROVE  q.findings[j].attempts = 0
    <3>1. CASE j = n + 1
      <4>1. p.stop # "none"
        BY <1>1, <2>2 DEF Statuses, Waiting
      <4> QED BY <1>5, <1>8, <2>1, <3>1, <4>1
    <3>2. CASE j \in 1 .. n
      BY <1>1, <1>5, <1>8, <2>2, <3>2 DEF NothingAfter
    <3> QED BY <1>10, <3>1, <3>2
  <2>3. ASSUME NEW i \in 1 .. n + 1, NEW j \in 1 .. n + 1, i < j, Waiting(q.findings[i])
        PROVE  q.findings[j].attempts = 0
    <3>1. i \in 1 .. n /\ Waiting(p.findings[i])
      BY <1>2, <1>5, <1>8, <2>3
    <3>2. CASE j = n + 1
      <4>1. p.stop # "none"
        BY <1>1, <3>1 DEF Statuses, Waiting
      <4> QED BY <1>5, <1>8, <2>1, <3>2, <4>1
    <3>3. CASE j \in 1 .. n
      BY <1>1, <1>5, <1>8, <2>3, <3>1, <3>3 DEF NothingAfter
    <3> QED BY <1>10, <3>2, <3>3
  <2> QED BY <1>1, <1>5, <1>8, <2>2, <2>3 DEF NothingAfter
<1> QED BY <1>7, <1>11, <1>12, <1>13, <1>14, <1>15 DEF PipeInv, q

(* CheckAnswered: the remarks of an answer join the rows of the target      *)
WithAnswer(p, unit, answer) ==
  [p EXCEPT !.candidates = @ + Len(answer),
            !.rows = @ \o [i \in DOMAIN answer |-> [unit |-> unit, cand |-> answer[i]]]]

(* The remarks of an answer keep it.                                        *)
LEMMA AnswerKeeps ==
  ASSUME NEW p, PipeInv(p), p.pc = "unit", NEW unit \in CheckUnits,
         NEW answer \in Seq(Candidate)
  PROVE  PipeInv(WithAnswer(p, unit, answer))
<1> DEFINE new == [i \in DOMAIN answer |-> [unit |-> unit, cand |-> answer[i]]]
           q == WithAnswer(p, unit, answer)
<1>1. /\ p \in PipeRecord /\ Place(p) /\ TargetsDone(p) /\ Counts(p) /\ Statuses(p)
      /\ NothingAfter(p.units, p.findings)
  BY DEF PipeInv
<1>2. p.rows \in Seq(PipeRow) /\ p.candidates \in Nat /\ Len(p.rows) \in Nat
  BY <1>1 DEF PipeRecord
<1>3. new \in Seq(PipeRow) /\ Len(new) = Len(answer) /\ Len(answer) \in Nat
  <2>1. Len(answer) \in Nat /\ DOMAIN answer = 1 .. Len(answer)
    OBVIOUS
  <2>2. \A i \in 1 .. Len(answer) : [unit |-> unit, cand |-> answer[i]] \in PipeRow
    BY DEF PipeRow
  <2>3. new \in [1 .. Len(answer) -> PipeRow]
    BY <2>1, <2>2
  <2>4. DOMAIN new = 1 .. Len(answer)
    BY <2>1
  <2> HIDE DEF new
  <2> QED BY <2>1, <2>3, <2>4
<1>4. p.rows \o new \in Seq(PipeRow) /\ Len(p.rows \o new) = Len(p.rows) + Len(answer)
  <2> HIDE DEF new
  <2>1. p.rows \o new \in Seq(PipeRow) /\ Len(p.rows \o new) = Len(p.rows) + Len(new)
    BY <1>2, <1>3, ConcatProperties, Zenon
  <2> QED BY <1>3, <2>1
<1>5. q = [p EXCEPT !.candidates = p.candidates + Len(answer), !.rows = p.rows \o new]
  BY DEF WithAnswer
<1>6. p.candidates + Len(answer) \in Nat
  BY <1>2, <1>3
<1> HIDE DEF q, new
<1>7. q \in PipeRecord
  BY <1>1, <1>4, <1>5, <1>6, Zenon DEF PipeRecord
<1>8. /\ q.pc = p.pc /\ q.persp = p.persp /\ q.stop = p.stop
      /\ q.units = p.units /\ q.mode = p.mode /\ q.target = p.target
      /\ q.attempts = p.attempts /\ q.requests = p.requests /\ q.merged = p.merged
      /\ q.candidates = p.candidates + Len(answer) /\ q.rows = p.rows \o new
      /\ q.findings = p.findings /\ q.unlocated = p.unlocated
  BY <1>1, <1>5 DEF PipeRecord
<1>9. Place(q) /\ TargetsDone(q) /\ Statuses(q) /\ NothingAfter(q.units, q.findings)
  BY <1>1, <1>8 DEF Place, TargetsDone, Statuses, TargetsOf
<1>10. Counts(q)
  <2>1. Sizes(p.findings) \in Nat /\ SizesDue(p.merged) \in Nat /\ Len(p.unlocated) \in Nat
    BY <1>1, TotalsAre
  <2>2. p.candidates = Sizes(p.findings) + SizesDue(p.merged) + Len(p.unlocated) + Len(p.rows)
    BY <1>1 DEF Counts
  <2>3. q.candidates = Sizes(q.findings) + SizesDue(q.merged) + Len(q.unlocated) + Len(q.rows)
    BY <1>2, <1>3, <1>4, <1>8, <2>1, <2>2
  <2> QED BY <1>1, <1>8, <2>3 DEF Counts
<1> QED BY <1>7, <1>9, <1>10 DEF PipeInv, q

-----------------------------------------------------------------------------
(* Targets left as a whole, and the next one                                *)

(* Settling all units of a target alike, unasked, keeps it.                 *)
LEMMA AllAlikeKeeps ==
  ASSUME NEW p, PipeInv(p), p.pc = "target",
         NEW status \in {"failed", "pending"}, NEW stop \in Stops \ {"none"},
         status = "pending" => p.stop # "none",
         status = "failed" => p.stop = "none"
  PROVE  /\ AllAlike(p, status) \in PipeRecord
         /\ PipeInv([AllAlike(p, status) EXCEPT !.pc = "finding", !.stop = stop])
         /\ AllAlike(p, status).merged = <<>>
         /\ AllAlike(p, status).stop = p.stop
<1> DEFINE N == NumPerspectives
           new == [k \in Perspectives |->
                     [unit |-> <<p.target, k>>, status |-> status, attempts |-> 0]]
           r == AllAlike(p, status)
           q == [r EXCEPT !.pc = "finding", !.stop = stop]
           n == Len(p.units)
           all == p.units \o new
<1>1. /\ p \in PipeRecord /\ Place(p) /\ TargetsDone(p) /\ Counts(p) /\ Statuses(p)
      /\ NothingAfter(p.units, p.findings)
  BY DEF PipeInv
<1>2. /\ p.units \in Seq(UnitDone) /\ p.findings \in Seq(FindingDone) /\ n \in Nat
      /\ p.target \in Targets /\ p.target \in Nat /\ N \in Nat /\ Perspectives = 1 .. N
  BY <1>1, MergingAssumption DEF PipeRecord, Targets, Perspectives
<1>3. /\ new \in Seq(UnitDone) /\ Len(new) = N
      /\ \A k \in 1 .. N : new[k] = [unit |-> <<p.target, k>>, status |-> status, attempts |-> 0]
  <2>1. \A k \in 1 .. N :
          [unit |-> <<p.target, k>>, status |-> status, attempts |-> 0] \in UnitDone
    BY <1>2 DEF UnitDone
  <2>2. new \in [1 .. N -> UnitDone] /\ DOMAIN new = 1 .. N
    BY <1>2, <2>1
  <2>3. \A k \in 1 .. N : new[k] = [unit |-> <<p.target, k>>, status |-> status, attempts |-> 0]
    BY <1>2
  <2> HIDE DEF new
  <2> QED BY <1>2, <2>2, <2>3
<1>4. \A k \in 1 .. N : new[k].unit[1] = p.target /\ new[k].unit[2] = k
                        /\ new[k].status = status /\ new[k].attempts = 0
  BY <1>3
<1> HIDE DEF new
<1>5. /\ all \in Seq(UnitDone) /\ Len(all) = n + N
      /\ \A i \in 1 .. n : all[i] = p.units[i]
      /\ \A i \in n + 1 .. n + N : i - n \in 1 .. N /\ all[i] = new[i - n]
      /\ \A i \in 1 .. n + N : i \in 1 .. n \/ i \in n + 1 .. n + N
  <2>1. /\ all \in Seq(UnitDone) /\ Len(all) = n + N
        /\ \A i \in 1 .. n + N : all[i] = IF i <= n THEN p.units[i] ELSE new[i - n]
    BY <1>2, <1>3, ConcatProperties, Zenon
  <2>2. \A i \in 1 .. n : i \in 1 .. n + N /\ i <= n
    BY <1>2
  <2>3. \A i \in n + 1 .. n + N : i \in 1 .. n + N /\ ~(i <= n) /\ i - n \in 1 .. N
    BY <1>2
  <2>4. \A i \in 1 .. n + N : i \in 1 .. n \/ i \in n + 1 .. n + N
    BY <1>2
  <2> QED BY <2>1, <2>2, <2>3, <2>4
<1>16. ASSUME NEW i \in n + 1 .. n + N
       PROVE  /\ all[i].unit[1] = p.target /\ all[i].unit[2] = i - n
              /\ all[i].status = status /\ all[i].attempts = 0
  <2>1. i - n \in 1 .. N /\ all[i] = new[i - n]
    BY <1>5
  <2> QED BY <1>4, <2>1, Zenon
<1>6. r = [p EXCEPT !.units = all]
  BY DEF AllAlike, new
<1> HIDE DEF r, all
<1>7. r \in PipeRecord /\ r.merged = <<>> /\ r.stop = p.stop
  <2>1. p.merged = <<>>
    BY <1>1 DEF Place
  <2> QED BY <1>1, <1>5, <1>6, <2>1, Zenon DEF PipeRecord
<1>8. q \in PipeRecord
  BY <1>7, Zenon DEF PipeRecord, PipePcs
<1>9. /\ q.pc = "finding" /\ q.persp = p.persp /\ q.stop = stop
      /\ q.units = all /\ q.mode = p.mode /\ q.target = p.target
      /\ q.attempts = p.attempts /\ q.requests = p.requests /\ q.merged = p.merged
      /\ q.candidates = p.candidates /\ q.rows = p.rows
      /\ q.findings = p.findings /\ q.unlocated = p.unlocated
  BY <1>1, <1>6, <1>7 DEF PipeRecord
<1> HIDE DEF q
<1>10. n = (p.target - 1) * N /\ (p.target - 1) * N \in Int /\ n + N = p.target * N
  <2>1. n = (p.target - 1) * N
    BY <1>1 DEF Place
  <2>2. (p.target - 1) * N + N = p.target * N /\ (p.target - 1) * N \in Int
    BY <1>2
  <2> QED BY <2>1, <2>2
<1>11. Place(q)
  <2>1. UnitsInOrder(q.units)
    <3>1. UnitsInOrder(p.units)
      BY <1>1 DEF Place
    <3>2. ASSUME NEW i \in n + 1 .. n + N
          PROVE  i = (all[i].unit[1] - 1) * N + all[i].unit[2]
      <4>1. all[i].unit[1] = p.target /\ all[i].unit[2] = i - n
        BY <1>16
      <4>2. i \in Int
        BY <1>2
      <4> QED BY <1>2, <1>10, <4>1, <4>2
    <3> QED BY <1>5, <1>9, <3>1, <3>2, Zenon DEF UnitsInOrder
  <2> QED BY <1>1, <1>5, <1>9, <1>10, <2>1 DEF Place, TargetsOf
<1>12. TargetsDone(q)
  <2>1. \A i \in 1 .. Len(q.units) : q.units[i].unit[1] <= q.target
    <3>1. \A i \in 1 .. n : p.units[i].unit[1] <= p.target
      BY <1>1 DEF TargetsDone
    <3>2. p.target <= p.target
      BY <1>2
    <3> QED BY <1>5, <1>16, <1>9, <3>1, <3>2
  <2> QED BY <1>1, <1>9, <2>1 DEF TargetsDone
<1>13. Counts(q)
  <2>1. AttemptsOf(all) = AttemptsOf(p.units)
    <3> DEFINE f == [i \in DOMAIN all |-> all[i].attempts]
               g == [i \in DOMAIN p.units |-> p.units[i].attempts]
    <3>1. DOMAIN all = 1 .. n + N /\ DOMAIN p.units = 1 .. n
      BY <1>2, <1>5
    <3>2. \A i \in 1 .. n : i \in 1 .. n + N
      BY <1>2
    <3>3. ASSUME NEW i \in n + 1 .. n + N
          PROVE  1 .. all[i].attempts = {}
      <4>1. all[i].attempts = 0
        BY <1>16
      <4> QED BY <4>1
    <3>4. Ones(f) = Ones(g)
      <4>1. ASSUME NEW x PROVE x \in Ones(f) <=> x \in Ones(g)
        <5>1. x \in Ones(f) <=> \E i \in 1 .. n + N : x \in {i} \X (1 .. all[i].attempts)
          BY <3>1, Zenon DEF Ones
        <5>2. x \in Ones(g) <=> \E i \in 1 .. n : x \in {i} \X (1 .. p.units[i].attempts)
          BY <3>1, Zenon DEF Ones
        <5>3. \A i \in n + 1 .. n + N : x \notin {i} \X (1 .. all[i].attempts)
          BY <3>3
        <5>4. \A i \in 1 .. n : {i} \X (1 .. all[i].attempts) = {i} \X (1 .. p.units[i].attempts)
          BY <1>5
        <5> QED BY <1>5, <3>2, <5>1, <5>2, <5>3, <5>4
      <4> QED BY <4>1, Zenon
    <3> QED BY <3>4 DEF AttemptsOf, SumOf
  <2>2. Counts(p)
    BY <1>1
  <2>3. q.requests = AttemptsOf(q.units) + AttemptsOf(q.findings) + 0
    BY <1>9, <2>1, <2>2 DEF Counts
  <2>4. q.candidates = Sizes(q.findings) + SizesDue(q.merged) + Len(q.unlocated) + 0
    BY <1>9, <2>2 DEF Counts
  <2> QED BY <1>9, <2>3, <2>4 DEF Counts
<1>14. Statuses(q)
  BY <1>1, <1>9 DEF Statuses
<1>15. NothingAfter(q.units, q.findings)
  <2>1. ASSUME NEW i \in 1 .. n, Waiting(p.units[i])
        PROVE  status = "pending"
    BY <1>1, <2>1 DEF Statuses, Waiting
  <2>2. ASSUME NEW i \in 1 .. n + N, NEW j \in 1 .. n + N, i < j, Waiting(all[i])
        PROVE  Waiting(all[j])
    <3>1. CASE j \in 1 .. n
      <4>1. i \in 1 .. n
        BY <1>2, <2>2, <3>1
      <4> QED BY <1>1, <1>5, <2>2, <3>1, <4>1 DEF NothingAfter
    <3>2. CASE j \in n + 1 .. n + N
      <4>1. status = "pending"
        <5>1. CASE i \in 1 .. n
          BY <1>5, <2>1, <2>2, <5>1
        <5>2. CASE i \in n + 1 .. n + N
          BY <1>16, <2>2, <5>2 DEF Waiting
        <5> QED BY <1>5, <5>1, <5>2
      <4> QED BY <1>16, <3>2, <4>1 DEF Waiting
    <3> QED BY <1>5, <3>1, <3>2
  <2>3. ASSUME NEW i \in 1 .. n + N, NEW j \in 1 .. Len(p.findings), Waiting(all[i]),
               all[i].unit[1] <= p.findings[j].finding.target
        PROVE  p.findings[j].attempts = 0
    <3>1. CASE i \in 1 .. n
      BY <1>1, <1>5, <2>3, <3>1, Zenon DEF NothingAfter
    <3>2. CASE i \in n + 1 .. n + N
      <4>1. p.target <= p.findings[j].finding.target
        BY <1>16, <2>3, <3>2
      <4>2. p.findings[j].finding.target < p.target
        BY <1>1 DEF TargetsDone
      <4>3. p.findings[j].finding.target \in Nat
        <5>1. p.findings[j] \in FindingDone
          BY <1>2
        <5> QED BY <5>1 DEF FindingDone, MergedRow, Targets
      <4> QED BY <1>2, <4>1, <4>2, <4>3
    <3> QED BY <1>5, <3>1, <3>2
  <2> QED BY <1>1, <1>5, <1>9, <2>2, <2>3 DEF NothingAfter
<1> QED BY <1>7, <1>8, <1>11, <1>12, <1>13, <1>14, <1>15 DEF PipeInv, q, r

(* Going on to the next target, or to the end, keeps it.                    *)
LEMMA LaterKeeps ==
  ASSUME NEW p, PipeInv(p), p.pc = "finding", p.merged = <<>>
  PROVE  PipeInv(Later(p))
<1> DEFINE q == Later(p)
           N == NumPerspectives
<1>1. /\ p \in PipeRecord /\ Place(p) /\ TargetsDone(p) /\ Counts(p) /\ Statuses(p)
      /\ NothingAfter(p.units, p.findings)
  BY DEF PipeInv
<1>2. /\ p.target \in Nat /\ p.target >= 1 /\ p.target <= TargetsOf(p)
      /\ TargetsOf(p) \in 1 .. NumTargets /\ NumTargets \in Nat
      /\ N \in Nat /\ Len(p.units) = p.target * N
  BY <1>1, MergingAssumption DEF PipeRecord, Targets, Place, TargetsOf
<1>3. p.findings \in Seq(FindingDone)
  BY <1>1 DEF PipeRecord
<1>4. CASE p.target < TargetsOf(p)
  <2>1. q = [p EXCEPT !.pc = "target", !.target = p.target + 1]
    BY <1>4 DEF Later, TargetsOf
  <2>2. p.target + 1 \in Targets
    BY <1>2, <1>4 DEF Targets
  <2> HIDE DEF q
  <2>3. q \in PipeRecord
    BY <1>1, <2>1, <2>2, Zenon DEF PipeRecord, PipePcs
  <2>4. /\ q.pc = "target" /\ q.persp = p.persp /\ q.stop = p.stop
        /\ q.units = p.units /\ q.mode = p.mode /\ q.target = p.target + 1
        /\ q.attempts = p.attempts /\ q.requests = p.requests /\ q.merged = <<>>
        /\ q.merged = p.merged
        /\ q.candidates = p.candidates /\ q.rows = p.rows
        /\ q.findings = p.findings /\ q.unlocated = p.unlocated
    BY <1>1, <2>1 DEF PipeRecord
  <2>5. Len(q.units) = (q.target - 1) * N
    BY <1>2, <2>4
  <2>6. q.target <= TargetsOf(q)
    BY <1>2, <1>4, <2>4 DEF TargetsOf
  <2>7. Place(q)
    BY <1>1, <2>4, <2>5, <2>6 DEF Place
  <2>8. TargetsDone(q)
    <3>1. ASSUME NEW i \in 1 .. Len(p.units)
          PROVE  p.units[i].unit[1] <= p.target + 1
      <4>1. p.units[i].unit[1] <= p.target
        BY <1>1 DEF TargetsDone
      <4>2. p.units[i] \in UnitDone
        BY <1>1 DEF PipeRecord
      <4>3. p.units[i].unit[1] \in Nat
        BY <4>2 DEF UnitDone, Targets
      <4> QED BY <1>2, <4>1, <4>3
    <3>2. ASSUME NEW j \in 1 .. Len(p.findings)
          PROVE  /\ p.findings[j].finding.target <= p.target + 1
                 /\ p.findings[j].finding.target < p.target + 1
      <4>1. p.findings[j].finding.target <= p.target
        BY <1>1 DEF TargetsDone
      <4>2. p.findings[j] \in FindingDone
        BY <1>3
      <4>3. p.findings[j].finding.target \in Nat
        BY <4>2 DEF FindingDone, MergedRow, Targets
      <4> QED BY <1>2, <4>1, <4>3
    <3>3. Len(q.merged) = 0
      BY <2>4
    <3> QED BY <2>4, <3>1, <3>2, <3>3 DEF TargetsDone
  <2>9. Counts(q)
    BY <1>1, <2>4 DEF Counts
  <2>10. Statuses(q) /\ NothingAfter(q.units, q.findings)
    BY <1>1, <2>4 DEF Statuses
  <2> QED BY <2>3, <2>7, <2>8, <2>9, <2>10 DEF PipeInv, q
<1>5. CASE ~(p.target < TargetsOf(p))
  <2>1. q = [p EXCEPT !.pc = "done"]
    BY <1>5 DEF Later, TargetsOf
  <2>2. p.target = TargetsOf(p)
    BY <1>2, <1>5
  <2> HIDE DEF q
  <2>3. q \in PipeRecord
    BY <1>1, <2>1, Zenon DEF PipeRecord, PipePcs
  <2>4. /\ q.pc = "done" /\ q.persp = p.persp /\ q.stop = p.stop
        /\ q.units = p.units /\ q.mode = p.mode /\ q.target = p.target
        /\ q.attempts = p.attempts /\ q.requests = p.requests
        /\ q.merged = p.merged /\ q.merged = <<>>
        /\ q.candidates = p.candidates /\ q.rows = p.rows
        /\ q.findings = p.findings /\ q.unlocated = p.unlocated
    BY <1>1, <2>1 DEF PipeRecord
  <2>5. Place(q)
    BY <1>1, <1>2, <2>2, <2>4 DEF Place, TargetsOf
  <2>6. TargetsDone(q)
    BY <1>1, <2>4 DEF TargetsDone
  <2>7. Counts(q)
    BY <1>1, <2>4 DEF Counts
  <2>8. Statuses(q) /\ NothingAfter(q.units, q.findings)
    BY <1>1, <2>4 DEF Statuses
  <2> QED BY <2>3, <2>5, <2>6, <2>7, <2>8 DEF PipeInv, q
<1> QED BY <1>4, <1>5

(* Opening the next target keeps it.                                        *)
LEMMA OpenKeeps ==
  ASSUME NEW p, PipeInv(p), p.pc = "target"
  PROVE  PipeInv([p EXCEPT !.pc = "unit", !.persp = 1, !.rows = <<>>])
<1> DEFINE q == [p EXCEPT !.pc = "unit", !.persp = 1, !.rows = <<>>]
           N == NumPerspectives
<1>1. /\ p \in PipeRecord /\ Place(p) /\ TargetsDone(p) /\ Counts(p) /\ Statuses(p)
      /\ NothingAfter(p.units, p.findings)
  BY DEF PipeInv
<1>2. 1 \in 1 .. N + 1 /\ N \in Nat /\ p.target \in Nat
  BY <1>1, MergingAssumption DEF PipeRecord, Targets
<1>3. q \in PipeRecord
  <2>1. <<>> \in Seq(PipeRow) /\ q = [p EXCEPT !.pc = "unit", !.persp = 1, !.rows = <<>>]
    BY EmptySeq
  <2> HIDE DEF q
  <2> QED BY <1>1, <1>2, <2>1, Zenon DEF PipeRecord, PipePcs
<1>4. /\ q.pc = "unit" /\ q.persp = 1 /\ q.stop = p.stop
      /\ q.units = p.units /\ q.mode = p.mode /\ q.target = p.target
      /\ q.attempts = p.attempts /\ q.requests = p.requests /\ q.merged = p.merged
      /\ q.candidates = p.candidates /\ q.rows = <<>>
      /\ q.findings = p.findings /\ q.unlocated = p.unlocated
  BY <1>1 DEF PipeRecord
<1> HIDE DEF q
<1>5. Len(q.units) = (q.target - 1) * N + (q.persp - 1)
  <2>1. Len(p.units) = (p.target - 1) * N /\ (p.target - 1) * N \in Int
    BY <1>1, <1>2 DEF Place
  <2> QED BY <1>4, <2>1
<1>6. Place(q)
  BY <1>1, <1>4, <1>5 DEF Place, TargetsOf
<1>7. TargetsDone(q) /\ Statuses(q) /\ NothingAfter(q.units, q.findings)
  BY <1>1, <1>4 DEF TargetsDone, Statuses
<1>8. Counts(q)
  <2>1. Len(q.rows) = 0
    BY <1>4
  <2>2. Counts(p)
    BY <1>1
  <2> QED BY <1>4, <2>1, <2>2 DEF Counts
<1> QED BY <1>3, <1>6, <1>7, <1>8 DEF PipeInv, q

(* A merged target: its findings account for the candidates it located      *)
(* (mergeCandidates).                                                       *)
LEMMA MergedAre ==
  ASSUME NEW target \in Targets, NEW rows \in Seq(PipeRow)
  PROVE  /\ Merged(target, rows) \in Seq(MergedRow)
         /\ \A k \in 1 .. Len(Merged(target, rows)) : Merged(target, rows)[k].target = target
         /\ SizesDue(Merged(target, rows)) = Cardinality(LocatedIn(rows))
<1> DEFINE I       == LocatedIn(rows)
           n       == Cardinality(I)
           located == Picked(rows, I)
           cands   == [i \in DOMAIN located |-> located[i].cand]
           found   == MergeCandidates(cands)
           m       == Cardinality(Heads(cands))
           row(k)  == [target |-> target, at |-> found[k].at, fix |-> found[k].fix,
                       category |-> found[k].category, verdict |-> found[k].verdict,
                       perspectives |-> {located[i].unit[2] : i \in found[k].sources},
                       size |-> Cardinality(found[k].sources),
                       suppressed |-> Suppressed(found[k].category, found[k].at, found[k].fix)]
<1>1. I \in SUBSET DOMAIN rows /\ \A i \in I : IsLocated(rows[i].cand)
  BY DEF LocatedIn
<1>2. /\ n \in Nat /\ located \in Seq(PipeRow) /\ Len(located) = n
      /\ \A k \in 1 .. n : Nth(I, k) \in I /\ located[k] = rows[Nth(I, k)]
  <2> HIDE DEF I
  <2> QED BY <1>1, PickedFacts
<1>3. /\ DOMAIN located = 1 .. n
      /\ \A k \in 1 .. n : located[k] \in PipeRow /\ IsLocated(located[k].cand)
  <2> HIDE DEF I, located
  <2> QED BY <1>1, <1>2
<1>4. \A c \in Candidate : IsLocated(c) => c \in LocatedCandidate
  BY DEF Candidate, UnlocatedCandidate, LocateFailures, IsLocated
<1>5. cands \in [1 .. n -> LocatedCandidate]
  <2>1. \A k \in 1 .. n : located[k].cand \in LocatedCandidate
    BY <1>3, <1>4 DEF PipeRow
  <2> HIDE DEF located, I
  <2> QED BY <1>3, <2>1
<1>6. /\ m \in Nat /\ DOMAIN found = 1 .. m
      /\ \A k \in 1 .. m :
           /\ HeadNth(cands, k) \in 1 .. n
           /\ found[k] = MergedFinding(cands, HeadNth(cands, k))
           /\ Cardinality(found[k].sources) \in Nat
           /\ found[k].sources \subseteq 1 .. n
      /\ SumOf([k \in 1 .. m |-> Cardinality(found[k].sources)]) = n
  <2> HIDE DEF cands, n
  <2> QED BY <1>2, <1>5, MergedAccounts
<1>7. Merged(target, rows) = [k \in 1 .. m |-> row(k)]
  BY <1>6 DEF Merged
<1>8. ASSUME NEW k \in 1 .. m PROVE row(k) \in MergedRow
  <2> DEFINE h == HeadNth(cands, k)
  <2>1. h \in 1 .. n /\ found[k] = MergedFinding(cands, h)
    BY <1>6
  <2>2. cands[h] \in LocatedCandidate
    BY <1>5, <2>1
  <2> HIDE DEF h, cands, found
  <2>3. /\ found[k].at \in Ranges /\ found[k].fix \in Fixes \cup {NoFix}
        /\ found[k].category \in Categories /\ found[k].verdict \in Verdicts
    BY <2>1, <2>2 DEF MergedFinding, LocatedCandidate, Categories, Verdicts
  <2>4. {located[i].unit[2] : i \in found[k].sources} \subseteq Perspectives
    <3>1. \A i \in 1 .. n : located[i].unit[2] \in Perspectives
      BY <1>3 DEF PipeRow, CheckUnits
    <3> HIDE DEF located, n
    <3> QED BY <1>6, <3>1 DEF found
  <2>5. Cardinality(found[k].sources) \in Nat
    BY <1>6 DEF found
  <2>6. Suppressed(found[k].category, found[k].at, found[k].fix) \in BOOLEAN
    BY DEF Suppressed
  <2> HIDE DEF located
  <2> QED BY <2>3, <2>4, <2>5, <2>6 DEF MergedRow
<1> HIDE DEF row, found, m, n, I
<1>9. /\ [k \in 1 .. m |-> row(k)] \in Seq(MergedRow)
      /\ Len([k \in 1 .. m |-> row(k)]) = m
  <2>1. [k \in 1 .. m |-> row(k)] \in [1 .. m -> MergedRow]
    BY <1>8
  <2> QED BY <1>6, <2>1
<1>10. \A k \in 1 .. m : row(k).target = target /\ row(k).size = Cardinality(found[k].sources)
  BY DEF row
<1>11. SizesDue([k \in 1 .. m |-> row(k)]) = n
  <2>1. DOMAIN [k \in 1 .. m |-> row(k)] = 1 .. m
    OBVIOUS
  <2>2. SizesDue([k \in 1 .. m |-> row(k)])
          = SumOf([k \in 1 .. m |-> Cardinality(found[k].sources)])
    BY <1>10, <2>1, Zenon DEF SizesDue
  <2> QED BY <1>6, <2>2
<1> QED BY <1>7, <1>9, <1>10, <1>11, Zenon DEF n, I

(* Merging the candidates of a target keeps it.                             *)
LEMMA MergeKeeps ==
  ASSUME NEW p, PipeInv(p), p.pc = "unit", p.persp \notin Perspectives
  PROVE  PipeInv([p EXCEPT
           !.pc = "finding",
           !.unlocated = @ \o Picked(p.rows, DOMAIN p.rows \ LocatedIn(p.rows)),
           !.merged = Merged(p.target, p.rows)])
<1> DEFINE N == NumPerspectives
           I == LocatedIn(p.rows)
           D == DOMAIN p.rows
           rest == Picked(p.rows, D \ I)
           new == Merged(p.target, p.rows)
           q == [p EXCEPT !.pc = "finding", !.unlocated = @ \o rest, !.merged = new]
<1>1. /\ p \in PipeRecord /\ Place(p) /\ TargetsDone(p) /\ Counts(p) /\ Statuses(p)
      /\ NothingAfter(p.units, p.findings)
  BY DEF PipeInv
<1>2. /\ p.rows \in Seq(PipeRow) /\ p.target \in Targets /\ p.unlocated \in Seq(PipeRow)
      /\ p.persp \in 1 .. N + 1 /\ N \in Nat /\ Perspectives = 1 .. N /\ p.target \in Nat
  BY <1>1, MergingAssumption DEF PipeRecord, Perspectives, Targets
<1>3. p.persp = N + 1
  BY <1>2
<1>4. /\ new \in Seq(MergedRow) /\ SizesDue(new) = Cardinality(I)
      /\ \A k \in 1 .. Len(new) : new[k].target = p.target
  BY <1>2, MergedAre
<1>5. rest \in Seq(PipeRow) /\ Len(rest) = Cardinality(D \ I)
  BY <1>2, PickedFacts
<1>6. Cardinality(I) + Cardinality(D \ I) = Len(p.rows) /\ Cardinality(I) \in Nat
      /\ Cardinality(D \ I) \in Nat
  <2>1. D = 1 .. Len(p.rows) /\ Len(p.rows) \in Nat
    BY <1>2
  <2>2. IsFiniteSet(D) /\ Cardinality(D) = Len(p.rows)
    <3> DEFINE l == Len(p.rows)
    <3>1. l \in Nat /\ D = 1 .. l
      BY <2>1
    <3> HIDE DEF l, D
    <3>2. IsFiniteSet(1 .. l) /\ Cardinality(1 .. l) = l
      BY <3>1, FS_Interval
    <3> QED BY <3>1, <3>2 DEF l
  <2>3. I \subseteq D
    BY DEF LocatedIn
  <2>4. IsFiniteSet(I) /\ IsFiniteSet(D \ I)
    <3>1. D \ I \subseteq D
      OBVIOUS
    <3> HIDE DEF I, D
    <3> QED BY <2>2, <2>3, <3>1, FS_Subset
  <2>5. I \cup (D \ I) = D /\ I \cap (D \ I) = {}
    BY <2>3
  <2>6. Cardinality(I) \in Nat /\ Cardinality(D \ I) \in Nat
    BY <2>4, FS_CardinalityType
  <2>7. Cardinality(D) = Cardinality(I) + Cardinality(D \ I) - Cardinality({})
    <3> HIDE DEF I, D
    <3> QED BY <2>4, <2>5, FS_Union
  <2>8. Cardinality({}) = 0
    BY FS_EmptySet
  <2> HIDE DEF I, D
  <2> QED BY <2>2, <2>6, <2>7, <2>8
<1>7. /\ p.unlocated \o rest \in Seq(PipeRow)
      /\ Len(p.unlocated \o rest) = Len(p.unlocated) + Len(rest)
  <2> HIDE DEF rest
  <2> QED BY <1>2, <1>5, ConcatProperties
<1> HIDE DEF rest, new, I, D
<1>8. q = [p EXCEPT !.pc = "finding", !.unlocated = p.unlocated \o rest, !.merged = new]
  OBVIOUS
<1> HIDE DEF q
<1>9. q \in PipeRecord
  BY <1>1, <1>4, <1>7, <1>8, Zenon DEF PipeRecord, PipePcs
<1>10. /\ q.pc = "finding" /\ q.persp = p.persp /\ q.stop = p.stop
       /\ q.units = p.units /\ q.mode = p.mode /\ q.target = p.target
       /\ q.attempts = p.attempts /\ q.requests = p.requests /\ q.merged = new
       /\ q.candidates = p.candidates /\ q.rows = p.rows
       /\ q.findings = p.findings /\ q.unlocated = p.unlocated \o rest
  BY <1>1, <1>8 DEF PipeRecord
<1>11. Len(p.units) = p.target * N
  <2>1. Len(p.units) = (p.target - 1) * N + (p.persp - 1)
    BY <1>1 DEF Place
  <2> QED BY <1>2, <1>3, <2>1
<1>12. Place(q)
  BY <1>1, <1>10, <1>11 DEF Place, TargetsOf
<1>13. TargetsDone(q)
  BY <1>1, <1>4, <1>10 DEF TargetsDone
<1>14. Statuses(q) /\ NothingAfter(q.units, q.findings)
  BY <1>1, <1>10 DEF Statuses
<1>15. Counts(q)
  <2>1. Sizes(p.findings) \in Nat /\ Len(p.unlocated) \in Nat
    BY <1>1, TotalsAre
  <2>2. p.merged = <<>> /\ SizesDue(<<>>) = 0
    BY <1>1, NothingDue DEF Place
  <2>3. p.candidates = Sizes(p.findings) + 0 + Len(p.unlocated) + Len(p.rows)
    BY <1>1, <2>2 DEF Counts
  <2>4. q.candidates = Sizes(q.findings) + SizesDue(q.merged) + Len(q.unlocated) + 0
    BY <1>4, <1>5, <1>6, <1>7, <1>10, <2>1, <2>3
  <2>5. Counts(p)
    BY <1>1
  <2> QED BY <1>10, <2>4, <2>5 DEF Counts
<1> QED BY <1>9, <1>12, <1>13, <1>14, <1>15 DEF PipeInv, q, rest, new, I, D

-----------------------------------------------------------------------------
(* Every step of a pass keeps the invariant                                 *)

(* Before a pass the invariant holds.                                       *)
LEMMA NoPipeFine == PipeInv(NoPipe)
<1>1. NoPipe \in PipeRecord
  <2>1. 1 \in Targets /\ 1 \in 1 .. NumPerspectives + 1
    BY MergingAssumption DEF Targets
  <2> QED BY <2>1, EmptySeq DEF NoPipe, PipeRecord, PipePcs, Stops
<1>2. Len(<<>>) = 0
  OBVIOUS
<1>3. Place(NoPipe)
  BY <1>2, MergingAssumption DEF Place, NoPipe, TargetsOf, UnitsInOrder
<1>4. TargetsDone(NoPipe) /\ Statuses(NoPipe) /\ NothingAfter(NoPipe.units, NoPipe.findings)
  BY <1>2 DEF TargetsDone, Statuses, NothingAfter, NoPipe
<1>5. Counts(NoPipe)
  BY <1>2, NothingDue DEF Counts, NoPipe
<1> QED BY <1>1, <1>3, <1>4, <1>5 DEF PipeInv

(* Starting a pass keeps it.                                                *)
LEMMA StartKeeps ==
  ASSUME PipeInv(pipe), StartPipeline
  PROVE  PipeInv(pipe')
<1>1. PICK mode \in Modes, limit \in Limits, valid \in SettingsMayBe :
        pipe' = IF valid THEN [NoPipe EXCEPT !.pc = "target", !.mode = mode, !.limit = limit]
                ELSE [NoPipe EXCEPT !.pc = "done", !.mode = mode, !.stop = "settings"]
  BY Zenon DEF StartPipeline
<1> DEFINE q == pipe'
           N == NumPerspectives
<1>2. NoPipe \in PipeRecord
  BY NoPipeFine DEF PipeInv
<1>3. q \in PipeRecord
  <2> HIDE DEF q
  <2>1. q = IF valid THEN [NoPipe EXCEPT !.pc = "target", !.mode = mode, !.limit = limit]
            ELSE [NoPipe EXCEPT !.pc = "done", !.mode = mode, !.stop = "settings"]
    BY <1>1 DEF q
  <2> QED BY <1>2, <2>1, Zenon DEF PipeRecord, PipePcs, Stops
<1>4. /\ q.pc \in {"target", "done"} /\ q.units = <<>> /\ q.findings = <<>>
      /\ q.target = 1 /\ q.merged = <<>> /\ q.unlocated = <<>> /\ q.rows = <<>>
      /\ q.requests = 0 /\ q.candidates = 0 /\ q.attempts = 0
  BY <1>1 DEF NoPipe
<1>5. Len(<<>>) = 0 /\ 1 <= NumTargets /\ (1 - 1) * N = 0
  BY MergingAssumption
<1> HIDE DEF q
<1>6. Place(q)
  BY <1>4, <1>5 DEF Place, TargetsOf, UnitsInOrder
<1>7. TargetsDone(q) /\ Statuses(q) /\ NothingAfter(q.units, q.findings)
  BY <1>4, <1>5 DEF TargetsDone, Statuses, NothingAfter
<1>8. Counts(q)
  BY <1>4, <1>5, NothingDue DEF Counts
<1> QED BY <1>3, <1>6, <1>7, <1>8 DEF PipeInv, q

(* The same when the stop is only now to be noted.                          *)
LEMMA LaterAfterAll ==
  ASSUME NEW r \in PipeRecord, r.merged = <<>>, NEW stop \in Stops,
         PipeInv([r EXCEPT !.pc = "finding", !.stop = stop])
  PROVE  PipeInv(Later([r EXCEPT !.stop = stop]))
<1> DEFINE q == [r EXCEPT !.pc = "finding", !.stop = stop]
           s == [r EXCEPT !.stop = stop]
<1>1. q.pc = "finding" /\ q.merged = <<>>
  BY DEF PipeRecord
<1>2. PipeInv(Later(q))
  <2> HIDE DEF q
  <2> QED BY <1>1, LaterKeeps, Zenon DEF q
<1>3. Later(q) = Later(s)
  <2>1. q.target = s.target /\ q.mode = s.mode
    BY DEF PipeRecord
  <2>2. [q EXCEPT !.pc = "target", !.target = @ + 1] = [s EXCEPT !.pc = "target", !.target = @ + 1]
    BY Zenon DEF PipeRecord
  <2>3. [q EXCEPT !.pc = "done"] = [s EXCEPT !.pc = "done"]
    BY Zenon DEF PipeRecord
  <2> HIDE DEF q, s
  <2> QED BY <2>1, <2>2, <2>3 DEF Later
<1> QED BY <1>2, <1>3

(* A request that ends without a value                                      *)
LEMMA SettleKeeps ==
  ASSUME NEW p, PipeInv(p), p.pc \in {"check", "recheck"},
         NEW status \in {"failed", "pending"}, NEW halt \in Stops,
         status = "pending" => halt # "none"
  PROVE  PipeInv(Settle(p, status, halt))
<1>1. Place(p) /\ Statuses(p)
  BY DEF PipeInv
<1>2. CASE p.pc = "check"
  <2>1. p.persp \in Perspectives
    BY <1>1, <1>2 DEF Place
  <2>2. PipeInv(SettleUnit(p, status, halt))
    BY <1>2, <2>1, SettleUnitKeeps
  <2> QED BY <1>2, <2>2 DEF Settle
<1>3. CASE p.pc = "recheck"
  <2>1. p.merged # <<>> /\ p.mode = "split-recheck"
    BY <1>1, <1>3 DEF Place, Statuses
  <2>2. PipeInv(SettleFinding(p, status, halt))
    BY <1>3, <2>1, SettleFindingKeeps
  <2> QED BY <1>3, <2>2 DEF Settle
<1> QED BY <1>2, <1>3

(* Every step of a pass keeps the invariant.                                *)
LEMMA PipeStepKeeps ==
  ASSUME PipeInv(pipe), [PipeNext]_pipe
  PROVE  PipeInv(pipe')
<1>0. pipe \in PipeRecord /\ Place(pipe) /\ Statuses(pipe)
  BY DEF PipeInv
<1>1. CASE StartPipeline
  BY <1>1, StartKeeps
<1>2. CASE SkipTarget
  <2> DEFINE r == AllAlike(pipe, "pending")
  <2>1. pipe.stop \in Stops \ {"none"} /\ pipe.pc = "target"
    BY <1>0, <1>2 DEF SkipTarget, PipeRecord
  <2>2. /\ r \in PipeRecord /\ r.merged = <<>> /\ r.stop = pipe.stop
        /\ PipeInv([r EXCEPT !.pc = "finding", !.stop = pipe.stop])
    BY <2>1, AllAlikeKeeps, Zenon
  <2> HIDE DEF r
  <2>3. PipeInv(Later([r EXCEPT !.stop = pipe.stop]))
    BY <2>1, <2>2, LaterAfterAll, Zenon
  <2>4. [r EXCEPT !.stop = pipe.stop] = r
    BY <2>2 DEF PipeRecord
  <2> QED BY <1>2, <2>3, <2>4 DEF SkipTarget, r
<1>3. CASE RefuseTarget
  <2> DEFINE r == AllAlike(pipe, "failed")
  <2>1. pipe.stop = "none" /\ pipe.pc = "target" /\ "settings" \in Stops \ {"none"}
    BY <1>3, Zenon DEF RefuseTarget, Stops
  <2>2. /\ r \in PipeRecord /\ r.merged = <<>>
        /\ PipeInv([r EXCEPT !.pc = "finding", !.stop = "settings"])
    BY <2>1, AllAlikeKeeps, Zenon
  <2> HIDE DEF r
  <2>3. PipeInv(Later([r EXCEPT !.stop = "settings"]))
    BY <2>1, <2>2, LaterAfterAll, Zenon
  <2> QED BY <1>3, <2>3, Zenon DEF RefuseTarget, r
<1>4. CASE OpenTarget
  BY <1>4, OpenKeeps, Zenon DEF OpenTarget
<1>5. CASE SkipPerspective
  <2> DEFINE r == [pipe EXCEPT !.attempts = 0]
  <2>1. pipe.pc = "unit" /\ pipe.persp \in Perspectives /\ pipe.stop # "none"
    BY <1>5 DEF SkipPerspective
  <2>2. PipeInv(r) /\ Alike(pipe, r) /\ r.attempts = 0
    BY <2>1, UnaskedKeeps
  <2> HIDE DEF r
  <2>3. r.pc = "unit" /\ r.persp \in Perspectives /\ r.stop # "none"
    BY <2>1, <2>2 DEF Alike
  <2>4. "none" \in Stops
    BY DEF Stops
  <2>5. PipeInv(SettleUnit(r, "pending", "none"))
    BY <2>2, <2>3, <2>4, SettleUnitKeeps
  <2> QED BY <1>5, <2>5 DEF SkipPerspective, r
<1>6. CASE SendCheck
  BY <1>6, RequestKeeps DEF SendCheck
<1>7. CASE MergeTarget
  <2> DEFINE r == [pipe EXCEPT
                     !.pc = "finding",
                     !.unlocated = @ \o Picked(pipe.rows, DOMAIN pipe.rows \ LocatedIn(pipe.rows)),
                     !.merged = Merged(pipe.target, pipe.rows)]
  <2>1. pipe.pc = "unit" /\ pipe.persp \notin Perspectives /\ pipe' = r
    BY <1>7, Zenon DEF MergeTarget
  <2>2. PipeInv(r)
    BY <2>1, MergeKeeps, Zenon
  <2> QED BY <2>1, <2>2, Zenon
<1>8. CASE NextTarget
  BY <1>8, LaterKeeps DEF NextTarget
<1>9. CASE LeaveFinding
  <2> DEFINE r == [pipe EXCEPT !.attempts = 0]
             status == Unsent(pipe)
  <2>1. pipe.pc = "finding" /\ pipe.merged # <<>> /\ status # "none"
    BY <1>9 DEF LeaveFinding
  <2>2. PipeInv(r) /\ Alike(pipe, r) /\ r.attempts = 0
    BY <2>1, UnaskedKeeps
  <2>3. /\ status \in {"disabled", "suppressed", "pending", "failed"}
        /\ status = "disabled" <=> pipe.mode # "split-recheck"
        /\ status = "pending" => pipe.stop # "none"
    BY <2>1 DEF Unsent
  <2> HIDE DEF r, status
  <2>4. /\ r.pc = "finding" /\ r.merged # <<>> /\ r.stop = pipe.stop /\ r.mode = pipe.mode
    BY <2>1, <2>2 DEF Alike
  <2>5. "none" \in Stops
    BY DEF Stops
  <2>6. PipeInv(SettleFinding(r, status, "none"))
    BY <2>2, <2>3, <2>4, <2>5, SettleFindingKeeps, Zenon
  <2> QED BY <1>9, <2>6 DEF LeaveFinding, r, status
<1>10. CASE SendRecheck
  <2>1. pipe.pc = "finding" /\ pipe.merged # <<>> /\ Unsent(pipe) = "none"
    BY <1>10 DEF SendRecheck
  <2>2. pipe.mode = "split-recheck" /\ pipe.stop = "none"
    <3>1. pipe.mode = "split-recheck"
      BY <2>1 DEF Unsent
    <3>2. Head(pipe.merged).suppressed \in BOOLEAN
      <4>1. pipe.merged \in Seq(MergedRow)
        BY <1>0 DEF PipeRecord
      <4>2. Head(pipe.merged) \in MergedRow
        BY <2>1, <4>1, HeadTailProperties
      <4> QED BY <4>2 DEF MergedRow
    <3>3. pipe.stop = "none"
      BY <2>1, <3>1, <3>2 DEF Unsent
    <3> QED BY <3>1, <3>3
  <2>3. PipeInv(Request(pipe, "recheck"))
    BY <2>1, <2>2, RequestKeeps
  <2> QED BY <1>10, <2>3 DEF SendRecheck
<1>11. CASE ModelUnavailable
  <2> DEFINE r == Troubled(pipe)
  <2>1. pipe.pc \in {"check", "recheck"}
    BY <1>11 DEF ModelUnavailable
  <2>2. PICK halt \in {"connection-lost", "model-not-loaded", "settings"} :
          pipe' = Settle(r, "pending", halt)
    BY <1>11 DEF ModelUnavailable
  <2>3. PipeInv(r) /\ Alike(pipe, r)
    BY TroubledKeeps
  <2> HIDE DEF r
  <2>4. PipeInv(Settle(r, "pending", halt))
    BY <1>0, <2>1, <2>2, <2>3, SettleKeeps DEF Stops, Alike
  <2> QED BY <2>2, <2>4
<1>12. CASE Retry
  <2> DEFINE r == Troubled(Sent(pipe))
  <2>1. pipe.pc \in {"check", "recheck"}
    BY <1>12 DEF Retry
  <2>2. PipeInv(r)
    BY <2>1, SentKeeps, TroubledKeeps
  <2>3. PipeInv([r EXCEPT !.retried = TRUE])
    <3> HIDE DEF r
    <3> QED BY <2>2, RetryKeeps
  <2> QED BY <1>12, <2>3 DEF Retry
<1>13. CASE GiveUp
  <2> DEFINE r == Troubled(Sent(pipe))
  <2>1. pipe.pc \in {"check", "recheck"}
    BY <1>13 DEF GiveUp
  <2>2. PICK error \in ChatErrors :
          pipe' = Settle(r, IF error = "unloaded" THEN "pending" ELSE "failed",
                         HaltFor(error, pipe.pc))
    BY <1>13 DEF GiveUp
  <2>3. PipeInv(Sent(pipe)) /\ Alike(pipe, Sent(pipe))
    BY <2>1, SentKeeps
  <2>4. PipeInv(r) /\ Alike(Sent(pipe), r)
    BY <2>3, TroubledKeeps
  <2>5. HaltFor(error, pipe.pc) \in Stops
        /\ (error = "unloaded" => HaltFor(error, pipe.pc) # "none")
    BY <2>2 DEF HaltFor, Stops, ChatErrors
  <2>6. r.pc = pipe.pc
    BY <2>3, <2>4 DEF Alike
  <2> HIDE DEF r
  <2>7. PipeInv(Settle(r, IF error = "unloaded" THEN "pending" ELSE "failed",
                       HaltFor(error, pipe.pc)))
    <3>1. CASE error = "unloaded"
      BY <2>1, <2>4, <2>5, <2>6, <3>1, SettleKeeps
    <3>2. CASE error # "unloaded"
      BY <2>1, <2>4, <2>5, <2>6, <3>2, SettleKeeps
    <3> QED BY <3>1, <3>2
  <2> QED BY <2>2, <2>7
<1>14. CASE CheckAnswered
  <2> DEFINE r == Sent(pipe)
             s == SettleUnit(r, "done", "none")
  <2>1. pipe.pc = "check" /\ pipe.persp \in Perspectives /\ PipeUnit \in CheckUnits
    <3>1. pipe.pc = "check"
      BY <1>14 DEF CheckAnswered
    <3> QED BY <1>0, <3>1 DEF Place, PipeUnit, CheckUnits, PipeRecord
  <2>2. PICK answer \in AnswersTo[PipeUnit] :
          pipe' = WithAnswer(s, PipeUnit, answer)
    BY <1>14, Zenon DEF CheckAnswered, WithAnswer
  <2>3. answer \in Seq(Candidate)
    BY <2>1, MergingAssumption
  <2>4. PipeInv(r) /\ Alike(pipe, r)
    BY <2>1, SentKeeps
  <2>5. r.pc = "check" /\ r.persp \in Perspectives /\ "none" \in Stops
    BY <2>1, <2>4 DEF Alike, Stops
  <2> HIDE DEF r
  <2>6. PipeInv(s) /\ s.pc = "unit"
    BY <2>4, <2>5, SettleUnitKeeps
  <2> HIDE DEF s
  <2>7. PipeInv(WithAnswer(s, PipeUnit, answer))
    BY <2>1, <2>3, <2>6, AnswerKeeps
  <2> QED BY <2>2, <2>7
<1>15. CASE RecheckAnswered
  <2> DEFINE r == Sent(pipe)
  <2>1. pipe.pc = "recheck" /\ pipe.merged # <<>> /\ pipe.mode = "split-recheck"
    BY <1>0, <1>15 DEF RecheckAnswered, Place, Statuses
  <2>2. PICK verdict \in RecheckVerdicts : pipe' = SettleFinding(r, verdict, "none")
    BY <1>15 DEF RecheckAnswered
  <2>3. PipeInv(r) /\ Alike(pipe, r)
    BY <2>1, SentKeeps
  <2>4. verdict \notin {"disabled", "pending"}
    BY MergingAssumption
  <2>5. r.pc = "recheck" /\ r.merged # <<>> /\ r.mode = "split-recheck" /\ "none" \in Stops
    BY <2>1, <2>3 DEF Alike, Stops
  <2> HIDE DEF r
  <2>6. PipeInv(SettleFinding(r, verdict, "none"))
    BY <2>3, <2>4, <2>5, SettleFindingKeeps
  <2> QED BY <2>2, <2>6
<1>16. CASE UNCHANGED pipe
  BY <1>16
<1> QED BY <1>1, <1>2, <1>3, <1>4, <1>5, <1>6, <1>7, <1>8, <1>9, <1>10, <1>11, <1>12,
        <1>13, <1>14, <1>15, <1>16 DEF PipeNext

(* Every step of a pass keeps the invariant (runPipeline).                  *)
THEOREM PassKept == PipeInit /\ [][PipeNext]_pipe => []PipeInv(pipe)
<1>1. PipeInit => PipeInv(pipe)
  BY NoPipeFine DEF PipeInit
<1>2. PipeInv(pipe) /\ [PipeNext]_pipe => PipeInv(pipe)'
  BY PipeStepKeeps
<1> QED BY <1>1, <1>2, PTL

-----------------------------------------------------------------------------
(* What the invariant says of a result                                      *)

(* A position belongs to one target and one perspective.                    *)
LEMMA OnePlace ==
  ASSUME NEW N \in Nat, NEW a \in Nat, NEW b \in 1 .. N, NEW t \in Nat, NEW k \in 1 .. N,
         (a - 1) * N + b = (t - 1) * N + k
  PROVE  a = t /\ b = k
<1> DEFINE x == a * N
           y == t * N
<1>1. (a - 1) * N = x - N /\ (t - 1) * N = y - N /\ x \in Nat /\ y \in Nat
  OBVIOUS
<1>2. a < t => x + N <= y
  <2>1. ASSUME a < t PROVE x + N <= y
    <3>1. PICK d \in Nat : t = a + 1 + d
      <4>1. t - a - 1 \in Nat /\ t = a + 1 + (t - a - 1)
        BY <2>1
      <4> QED BY <4>1
    <3>2. y = x + N + d * N /\ d * N \in Nat
      BY <3>1
    <3> HIDE DEF x, y
    <3> QED BY <1>1, <3>2
  <2> QED BY <2>1
<1>3. t < a => y + N <= x
  <2>1. ASSUME t < a PROVE y + N <= x
    <3>1. PICK d \in Nat : a = t + 1 + d
      <4>1. a - t - 1 \in Nat /\ a = t + 1 + (a - t - 1)
        BY <2>1
      <4> QED BY <4>1
    <3>2. x = y + N + d * N /\ d * N \in Nat
      BY <3>1
    <3> HIDE DEF x, y
    <3> QED BY <1>1, <3>2
  <2> QED BY <2>1
<1>4. x - N + b = y - N + k
  BY <1>1
<1> HIDE DEF x, y
<1>5. ~(a < t) /\ ~(t < a)
  BY <1>1, <1>2, <1>3, <1>4
<1>6. a = t
  BY <1>5
<1>7. x = y
  BY <1>6 DEF x, y
<1> QED BY <1>1, <1>4, <1>6, <1>7

(* The place of a unit, from its target and perspective, is one of the      *)
(* plan.                                                                    *)
LEMMA PlaceWithin ==
  ASSUME NEW N \in Nat, NEW T \in Nat, NEW t \in 1 .. T, NEW k \in 1 .. N
  PROVE  (t - 1) * N + k \in 1 .. T * N
<1>1. PICK d \in Nat : T = t + d
  <2>1. T - t \in Nat /\ T = t + (T - t)
    OBVIOUS
  <2> QED BY <2>1
<1>2. T * N = (t - 1) * N + N + d * N /\ d * N \in Nat /\ (t - 1) * N \in Nat
  <2>1. t - 1 \in Nat
    OBVIOUS
  <2> QED BY <1>1, <2>1
<1> QED BY <1>2

(* The invariant says all that PipelineAccounts says.                       *)
LEMMA ResultAccounts == PipeInv(pipe) => PipelineAccounts
<1> SUFFICES ASSUME PipeInv(pipe), pipe.pc = "done", pipe.units # <<>>
             PROVE  PipelineAccounts
  BY DEF PipelineAccounts
<1> DEFINE N == NumPerspectives
           total == PipelineResult.totals
           Waits(x) == x.status = "pending" /\ x.attempts = 0
<1>1. /\ pipe \in PipeRecord /\ Place(pipe) /\ TargetsDone(pipe) /\ Counts(pipe)
      /\ Statuses(pipe) /\ NothingAfter(pipe.units, pipe.findings)
  BY DEF PipeInv
<1>2. /\ pipe.units \in Seq(UnitDone) /\ pipe.findings \in Seq(FindingDone)
      /\ N \in Nat /\ Perspectives = 1 .. N /\ PipeTargets \in Nat
      /\ DOMAIN pipe.units = 1 .. Len(pipe.units)
      /\ DOMAIN pipe.findings = 1 .. Len(pipe.findings)
      /\ Len(pipe.units) \in Nat /\ Len(pipe.findings) \in Nat
  BY <1>1, MergingAssumption DEF PipeRecord, Perspectives, PipeTargets
<1>3. Len(pipe.units) = PipeTargets * N
  BY <1>1 DEF Place, TargetsOf, PipeTargets
<1>4. ASSUME NEW t \in 1 .. PipeTargets, NEW k \in Perspectives
      PROVE  pipe.units[(t - 1) * N + k].unit = <<t, k>>
  <2> DEFINE i == (t - 1) * N + k
             u == pipe.units[i]
  <2>1. i \in 1 .. Len(pipe.units)
    BY <1>2, <1>3, PlaceWithin
  <2>2. u \in UnitDone
    BY <1>2, <2>1
  <2>3. /\ u.unit[1] \in Nat /\ u.unit[2] \in 1 .. N /\ u.unit = <<u.unit[1], u.unit[2]>>
    <3>1. u.unit \in Targets \X Perspectives
      <4> HIDE DEF u
      <4> QED BY <2>2 DEF UnitDone
    <3> HIDE DEF u
    <3> QED BY <1>2, <3>1 DEF Targets
  <2>4. i = (u.unit[1] - 1) * N + u.unit[2]
    <3>1. UnitsInOrder(pipe.units)
      BY <1>1 DEF Place
    <3> HIDE DEF i
    <3> QED BY <2>1, <3>1 DEF UnitsInOrder
  <2>5. t \in Nat /\ k \in 1 .. N
    BY <1>2
  <2> HIDE DEF u
  <2>6. u.unit[1] = t /\ u.unit[2] = k
    <3> DEFINE a == u.unit[1]
               b == u.unit[2]
    <3>1. a \in Nat /\ b \in 1 .. N /\ (a - 1) * N + b = (t - 1) * N + k
      BY <2>3, <2>4
    <3> HIDE DEF a, b, N, i
    <3>2. a = t /\ b = k
      BY <1>2, <2>5, <3>1, OnePlace
    <3> QED BY <3>2 DEF a, b
  <2> QED BY <2>3, <2>6 DEF u
<1>5. pipe.requests = AttemptsOf(pipe.units) + AttemptsOf(pipe.findings)
  BY <1>1, TotalsAre DEF Counts
<1>6. /\ total.candidates = pipe.candidates
      /\ total.located = Sizes(pipe.findings)
      /\ total.findings = Len(pipe.findings)
      /\ total.units["pending"]
           = Cardinality({i \in DOMAIN pipe.units : pipe.units[i].status = "pending"})
      /\ total.rechecks["pending"]
           = Cardinality({j \in DOMAIN pipe.findings : pipe.findings[j].status \in {"pending"}})
      /\ total.rechecks["disabled"]
           = Cardinality({j \in DOMAIN pipe.findings : pipe.findings[j].status \in {"disabled"}})
  BY DEF PipelineResult, ResultOf, Totals, Number, Sizes
<1> HIDE DEF total
<1>7. total.candidates = total.located + Len(pipe.unlocated)
  <2>1. pipe.merged = <<>> /\ SizesDue(<<>>) = 0
    BY <1>1, NothingDue DEF Place
  <2>2. Sizes(pipe.findings) \in Nat /\ Len(pipe.unlocated) \in Nat
    BY <1>1, TotalsAre
  <2>3. pipe.candidates = Sizes(pipe.findings) + 0 + Len(pipe.unlocated) + 0
    BY <1>1, <2>1 DEF Counts
  <2> QED BY <1>6, <2>2, <2>3
<1>8. total.units["pending"] + total.rechecks["pending"] > 0 => pipe.stop # "none"
  <2>1. ASSUME pipe.stop = "none"
        PROVE  ~(total.units["pending"] + total.rechecks["pending"] > 0)
    <3>1. {i \in DOMAIN pipe.units : pipe.units[i].status = "pending"} = {}
      BY <1>1, <1>2, <2>1 DEF Statuses
    <3>2. {j \in DOMAIN pipe.findings : pipe.findings[j].status \in {"pending"}} = {}
      BY <1>1, <1>2, <2>1 DEF Statuses
    <3>3. total.units["pending"] = 0 /\ total.rechecks["pending"] = 0
      BY <1>6, <3>1, <3>2, FS_EmptySet, Zenon
    <3> QED BY <3>3
  <2> QED BY <2>1
<1>9. total.rechecks["disabled"] \in IF pipe.mode = "split-recheck" THEN {0}
                                     ELSE {total.findings}
  <2>1. CASE pipe.mode = "split-recheck"
    <3>1. {j \in DOMAIN pipe.findings : pipe.findings[j].status \in {"disabled"}} = {}
      BY <1>1, <1>2, <2>1 DEF Statuses
    <3> QED BY <1>6, <2>1, <3>1, FS_EmptySet, Zenon
  <2>2. CASE pipe.mode # "split-recheck"
    <3>1. {j \in DOMAIN pipe.findings : pipe.findings[j].status \in {"disabled"}}
            = 1 .. Len(pipe.findings)
      BY <1>1, <1>2, <2>2 DEF Statuses
    <3>2. Cardinality(1 .. Len(pipe.findings)) = Len(pipe.findings)
      <4> DEFINE l == Len(pipe.findings)
      <4>1. l \in Nat
        BY <1>2
      <4> HIDE DEF l
      <4>2. Cardinality(1 .. l) = l
        BY <4>1, FS_Interval
      <4> QED BY <4>2 DEF l
    <3> QED BY <1>6, <2>2, <3>1, <3>2, Zenon
  <2> QED BY <2>1, <2>2
<1>10. \A i, j \in DOMAIN pipe.units :
         i < j /\ Waits(pipe.units[i]) =>
           pipe.units[j].status = "pending" /\ pipe.units[j].attempts = 0
  BY <1>1, <1>2 DEF NothingAfter, Waiting
<1>11. \A i \in DOMAIN pipe.units, j \in DOMAIN pipe.findings :
         Waits(pipe.units[i]) /\ pipe.units[i].unit[1] <= pipe.findings[j].finding.target =>
           pipe.findings[j].attempts = 0
  BY <1>1, <1>2 DEF NothingAfter, Waiting
<1>12. \A i, j \in DOMAIN pipe.findings :
         i < j /\ Waits(pipe.findings[i]) => pipe.findings[j].attempts = 0
  BY <1>1, <1>2 DEF NothingAfter, Waiting
<1>13. \A t \in 1 .. PipeTargets, k \in Perspectives :
         pipe.units[(t - 1) * N + k].unit = <<t, k>>
  BY <1>4
<1> QED BY <1>3, <1>5, <1>7, <1>8, <1>9, <1>10, <1>11, <1>12, <1>13
        DEF PipelineAccounts, total

(* However a pass ends, its result accounts for everything (runPipeline's   *)
(* totals, pendingUnit and stop).                                           *)
THEOREM PassAccounts == PipeInit /\ [][PipeNext]_pipe => []PipelineAccounts
  BY PassKept, ResultAccounts, PTL

-----------------------------------------------------------------------------
(* The least and the greatest of a finite set of numbers                    *)

(* Min of a set of numbers is its least.                                    *)
LEMMA MinOf ==
  ASSUME NEW S, S \subseteq Nat, S # {}
  PROVE  Min(S) \in S /\ \A x \in S : Min(S) <= x
<1>1. PICK m \in S : \A x \in S : m <= x
  BY LeastNumber, Zenon
<1> QED BY <1>1, Zenon DEF Min

(* Max of a bounded set of numbers is its greatest.                         *)
LEMMA MaxOf ==
  ASSUME NEW n \in Nat, NEW S, S \subseteq 0 .. n, S # {}
  PROVE  Max(S) \in S /\ \A x \in S : x <= Max(S)
<1> DEFINE T == {n - x : x \in S}
<1>1. T \subseteq Nat /\ T # {}
  <2>1. \A x \in S : n - x \in Nat
    OBVIOUS
  <2> QED BY <2>1, Zenon
<1>2. PICK m \in T : \A y \in T : m <= y
  <2> HIDE DEF T
  <2> QED BY <1>1, LeastNumber, Zenon
<1>3. PICK z \in S : m = n - z
  BY <1>2
<1>4. \A x \in S : z >= x
  <2>1. ASSUME NEW x \in S PROVE z >= x
    <3>1. n - z <= n - x
      BY <1>2, <1>3, Zenon
    <3>2. x \in Int /\ z \in Int
      OBVIOUS
    <3> QED BY <3>1, <3>2
  <2> QED BY <2>1
<1>5. Max(S) \in S /\ \A x \in S : Max(S) >= x
  BY <1>4, Zenon DEF Max
<1>6. \A x \in S : x \in Int
  OBVIOUS
<1> QED BY <1>5, <1>6

(* The smaller of two.                                                      *)
LEMMA MinOfTwo ==
  ASSUME NEW a \in Int, NEW b \in Int
  PROVE  Min({a, b}) = IF a <= b THEN a ELSE b
<1>1. \E x \in {a, b} : \A y \in {a, b} : x <= y
  OBVIOUS
<1>2. Min({a, b}) \in {a, b} /\ \A y \in {a, b} : Min({a, b}) <= y
  BY <1>1 DEF Min
<1> QED BY <1>2

(* The greater of two.                                                      *)
LEMMA MaxOfTwo ==
  ASSUME NEW a \in Int, NEW b \in Int
  PROVE  Max({a, b}) = IF a >= b THEN a ELSE b
<1>1. \E x \in {a, b} : \A y \in {a, b} : x >= y
  OBVIOUS
<1>2. Max({a, b}) \in {a, b} /\ \A y \in {a, b} : Max({a, b}) >= y
  BY <1>1 DEF Max
<1> QED BY <1>2

-----------------------------------------------------------------------------
(* Graphemes: the boundaries and the numbers of the graphemes are the same  *)
(* line                                                                     *)

(* A text begins and ends at a boundary; there is one boundary more than    *)
(* graphemes.                                                               *)
LEMMA BoundariesAre ==
  ASSUME NEW text \in Seq(Units)
  PROVE  /\ Boundaries(text) \subseteq 0 .. Len(text) /\ Len(text) \in Nat
         /\ 0 \in Boundaries(text) /\ Len(text) \in Boundaries(text)
         /\ IsFiniteSet(Boundaries(text)) /\ Count(text) \in Nat
         /\ Cardinality(Boundaries(text)) = Count(text) + 1
<1> DEFINE B == Boundaries(text)
<1>1. Len(text) \in Nat
  OBVIOUS
<1>2. B \subseteq 0 .. Len(text) /\ 0 \in B /\ Len(text) \in B
  BY <1>1 DEF Boundaries
<1>3. IsFiniteSet(0 .. Len(text))
  BY <1>1, FS_Interval
<1>4. IsFiniteSet(B)
  BY <1>2, <1>3, FS_Subset
<1>5. Cardinality(B) \in Nat /\ Cardinality(B) # 0
  BY <1>2, <1>4, FS_CardinalityType, FS_EmptySet
<1>6. Count(text) = Cardinality(B) - 1
  BY DEF Count
<1> HIDE DEF B
<1> QED BY <1>1, <1>2, <1>4, <1>5, <1>6 DEF B

(* Offsets of boundaries and numbers of graphemes are each other's inverse, *)
(* and in one order (graphemeAt, offsetAt).                                 *)
LEMMA Graphemes ==
  ASSUME NEW text \in Seq(Units)
  PROVE  LET B == Boundaries(text) IN
         /\ \A b \in B : GraphemeAt(text, b) \in 0 .. Count(text)
                         /\ OffsetAt(text, GraphemeAt(text, b)) = b
         /\ \A g \in 0 .. Count(text) : OffsetAt(text, g) \in B
                                        /\ GraphemeAt(text, OffsetAt(text, g)) = g
         /\ \A a, b \in B : a < b <=> GraphemeAt(text, a) < GraphemeAt(text, b)
         /\ GraphemeAt(text, 0) = 0 /\ GraphemeAt(text, Len(text)) = Count(text)
         /\ OffsetAt(text, 0) = 0 /\ OffsetAt(text, Count(text)) = Len(text)
<1> DEFINE B == Boundaries(text)
           R == {p \in B \X B : p[1] < p[2]}
           G(b) == GraphemeAt(text, b)
           n == Count(text)
<1>1. /\ B \subseteq 0 .. Len(text) /\ Len(text) \in Nat /\ 0 \in B /\ Len(text) \in B
      /\ IsFiniteSet(B) /\ n \in Nat /\ Cardinality(B) = n + 1
  BY BoundariesAre
<1>2. \A x, y \in B : <<x, y>> \in R <=> x < y
  OBVIOUS
<1>3. TotallyOrders(R, B)
  <2>1. \A x \in B : x \in Int
    BY <1>1
  <2> HIDE DEF R, B
  <2> QED BY <1>2, <2>1 DEF TotallyOrders
<1>4. ASSUME NEW b \in B
      PROVE  G(b) = RankIn(B, R, b) - 1 /\ RankIn(B, R, b) \in 1 .. n + 1
  <2>1. G(b) = Cardinality({x \in B : x < b})
    BY DEF GraphemeAt
  <2>2. {x \in B : x < b} = Below(B, R, b)
    BY <1>2 DEF Below
  <2>3. RankIn(B, R, b) \in 1 .. Cardinality(B)
    <3> HIDE DEF R, B
    <3> QED BY <1>1, <1>3, RankType
  <2>4. RankIn(B, R, b) = G(b) + 1
    BY <2>1, <2>2, Zenon DEF RankIn
  <2>5. Cardinality(Below(B, R, b)) \in Nat
    <3>1. Below(B, R, b) \subseteq B
      BY DEF Below
    <3>2. IsFiniteSet(Below(B, R, b))
      BY <1>1, <3>1, FS_Subset
    <3> QED BY <3>2, FS_CardinalityType
  <2>6. G(b) \in Nat
    BY <2>1, <2>2, <2>5, Zenon
  <2> HIDE DEF G, R, B, n
  <2> QED BY <1>1, <2>3, <2>4, <2>6
<1> HIDE DEF G, R, B, n
<1>5. ASSUME NEW b \in B PROVE G(b) \in 0 .. n
  BY <1>1, <1>4
<1>6. ASSUME NEW a \in B, NEW b \in B, a < b PROVE G(a) < G(b)
  <2>1. RankIn(B, R, a) < RankIn(B, R, b)
    BY <1>1, <1>2, <1>3, <1>6, RanksIncrease, Zenon
  <2> QED BY <1>4, <2>1
<1>7. ASSUME NEW a \in B, NEW b \in B PROVE a < b <=> G(a) < G(b)
  <2>1. a \in Int /\ b \in Int /\ G(a) \in Int /\ G(b) \in Int
    BY <1>1, <1>5
  <2>2. a = b => G(a) = G(b)
    OBVIOUS
  <2>3. b < a => G(b) < G(a)
    BY <1>6
  <2> QED BY <1>6, <2>1, <2>2, <2>3
<1>8. ASSUME NEW a \in B, NEW b \in B, G(a) = G(b) PROVE a = b
  <2>1. a \in Int /\ b \in Int /\ G(a) \in Int
    BY <1>1, <1>5
  <2> QED BY <1>7, <1>8, <2>1
<1>9. ASSUME NEW g \in 0 .. n PROVE OffsetAt(text, g) \in B /\ G(OffsetAt(text, g)) = g
  <2>1. g + 1 \in 1 .. Cardinality(B)
    BY <1>1
  <2>2. PICK b \in B : RankIn(B, R, b) = g + 1
    BY <1>1, <1>3, <2>1, RanksTaken, Zenon
  <2>3. G(b) = g
    BY <1>4, <2>2
  <2>4. OffsetAt(text, g) = CHOOSE x \in B : G(x) = g
    BY DEF OffsetAt, n, B, G
  <2> QED BY <2>3, <2>4
<1>10. ASSUME NEW b \in B PROVE OffsetAt(text, G(b)) = b
  BY <1>5, <1>8, <1>9
<1>11. G(0) = 0
  <2>1. OffsetAt(text, 0) \in B /\ G(OffsetAt(text, 0)) = 0
    BY <1>1, <1>9
  <2> DEFINE o == OffsetAt(text, 0)
  <2>a. o \in 0 .. Len(text)
    BY <1>1, <2>1, Zenon
  <2>2. OffsetAt(text, 0) # 0 => 0 < OffsetAt(text, 0)
    <3> HIDE DEF o
    <3>1. o # 0 => 0 < o
      BY <2>a, <1>1
    <3> QED BY <3>1 DEF o
  <2>3. OffsetAt(text, 0) # 0 => G(0) < G(OffsetAt(text, 0))
    BY <1>1, <1>6, <2>1, <2>2, Zenon
  <2>4. G(0) \in 0 .. n
    BY <1>1, <1>5
  <2> QED BY <1>1, <2>1, <2>3, <2>4
<1>12. G(Len(text)) = n
  <2>1. OffsetAt(text, n) \in B /\ G(OffsetAt(text, n)) = n
    BY <1>1, <1>9
  <2> DEFINE o == OffsetAt(text, n)
             l == Len(text)
  <2>a. o \in 0 .. l /\ l \in Nat
    BY <1>1, <2>1, Zenon
  <2>2. OffsetAt(text, n) # Len(text) => OffsetAt(text, n) < Len(text)
    <3> HIDE DEF o, l
    <3>1. o # l => o < l
      BY <2>a
    <3> QED BY <3>1 DEF o, l
  <2>3. OffsetAt(text, n) # Len(text) => G(OffsetAt(text, n)) < G(Len(text))
    BY <1>1, <1>6, <2>1, <2>2, Zenon
  <2>4. G(Len(text)) \in 0 .. n
    BY <1>1, <1>5
  <2> QED BY <1>1, <2>1, <2>3, <2>4
<1>13. OffsetAt(text, 0) = 0 /\ OffsetAt(text, n) = Len(text)
  BY <1>1, <1>10, <1>11, <1>12
<1> QED BY <1>5, <1>7, <1>9, <1>10, <1>11, <1>12, <1>13 DEF G, B, n

(* A paragraph ends at a boundary: a newline of two units is never split.   *)
LEMMA ParagraphEndsAre ==
  ASSUME NEW text \in Seq(Units)
  PROVE  ParagraphEnds(text) \subseteq Boundaries(text) \ {0}
<1>1. Len(text) \in Nat /\ \A i \in 1 .. Len(text) : text[i] \in Units
  OBVIOUS
<1>2. ASSUME NEW e \in ParagraphEnds(text), e # Len(text)
      PROVE  e \in Boundaries(text)
  <2>1. e \in 1 .. Len(text) - 1 /\ UnitAt(text, e - 1) = text[e] /\ UnitAt(text, e) = text[e + 1]
    BY <1>1, <1>2 DEF ParagraphEnds, UnitAt
  <2>2. text[e] = "lf" \/ (text[e] = "cr" /\ text[e + 1] # "lf")
    BY <1>2 DEF ParagraphEnds
  <2>3. ~Joins(text[e], text[e + 1])
    BY <2>2 DEF Joins, Newlines
  <2> QED BY <2>1, <2>3 DEF Boundaries
<1>3. \A e \in ParagraphEnds(text) : e # 0
  BY DEF ParagraphEnds
<1> QED BY <1>2, <1>3 DEF Boundaries

-----------------------------------------------------------------------------
(* Cutting *)

(* A boundary that is chosen is a candidate within reach, and none is       *)
(* chosen only if none is (chooseBoundary).                                 *)
LEMMA NearestChosen ==
  ASSUME NEW n \in Nat, NEW ideal \in Int, NEW delta \in Nat,
         NEW candidates \in SUBSET (0 .. n), NEW outer \in {"larger", "smaller"}
  PROVE  LET chosen == ChooseBoundary(ideal, delta, candidates, outer) IN
         /\ chosen # Null =>
              chosen[1] \in candidates /\ Distance(chosen[1], ideal) <= delta
         /\ chosen = Null => \A c \in candidates : Distance(c, ideal) > delta
<1> DEFINE near == {c \in candidates : Distance(c, ideal) <= delta}
           best == {c \in near : \A d \in near : Distance(c, ideal) <= Distance(d, ideal)}
           T    == {Distance(c, ideal) : c \in near}
           chosen == ChooseBoundary(ideal, delta, candidates, outer)
<1>1. \A c \in candidates : c \in Int /\ Distance(c, ideal) \in Nat
  BY DEF Distance
<1>2. near # {} => best # {}
  <2> SUFFICES ASSUME near # {} PROVE best # {}
    OBVIOUS
  <2>1. T \subseteq Nat /\ T # {}
    BY <1>1, Zenon
  <2>2. PICK m \in T : \A d \in T : m <= d
    <3> HIDE DEF T
    <3> QED BY <2>1, LeastNumber, Zenon
  <2>3. PICK c \in near : m = Distance(c, ideal)
    BY <2>2
  <2>4. \A d \in near : Distance(c, ideal) <= Distance(d, ideal)
    BY <2>2, <2>3
  <2> QED BY <2>4, Zenon
<1>3. best \subseteq 0 .. n /\ best \subseteq Nat
  <2>1. best \subseteq candidates
    OBVIOUS
  <2> HIDE DEF best
  <2> QED BY <2>1
<1>4. chosen = CASE best = {}                        -> Null
                 [] best # {} /\ outer = "larger"    -> <<Max(best)>>
                 [] best # {} /\ outer = "smaller"   -> <<Min(best)>>
  BY DEF ChooseBoundary
<1>5. best # {} => Max(best) \in best /\ Min(best) \in best
  <2> HIDE DEF best
  <2> QED BY <1>3, MinOf, MaxOf, Zenon
<1>6. CASE best = {}
  <2>1. chosen = Null /\ near = {}
    BY <1>2, <1>4, <1>6
  <2>2. \A c \in candidates : ~(Distance(c, ideal) <= delta)
    BY <2>1
  <2> HIDE DEF chosen
  <2> QED BY <1>1, <2>1, <2>2 DEF chosen
<1>7. CASE best # {}
  <2>1. PICK x \in best : chosen = <<x>>
    <3> HIDE DEF best, chosen
    <3> QED BY <1>4, <1>5, <1>7
  <2>2. chosen # Null /\ chosen[1] \in near
    BY <2>1 DEF Null
  <2> QED BY <2>2
<1> QED BY <1>6, <1>7

-----------------------------------------------------------------------------
(* Planning: the targets of a text                                          *)

(* A share of less than all is less.                                        *)
LEMMA PartOf ==
  ASSUME NEW length \in Nat, NEW percent \in Nat
  PROVE  /\ (length * percent) \div 100 \in Nat
         /\ length >= 1 /\ percent < 100 => (length * percent) \div 100 < length
<1>1. length * percent \in Nat
  OBVIOUS
<1>2. percent < 100 => length * percent <= length * 99
  OBVIOUS
<1>3. (length * percent) \div 100 \in Nat
  <2> DEFINE a == length * percent
  <2>1. a \in Nat
    BY <1>1
  <2> HIDE DEF a
  <2>2. a \div 100 \in Nat
    BY <2>1
  <2> QED BY <2>2 DEF a
<1>4. length >= 1 /\ percent < 100 => (length * percent) \div 100 < length
  <2> DEFINE a == length * percent
  <2>1. a \in Nat /\ (percent < 100 => a <= length * 99)
    BY <1>1, <1>2
  <2> HIDE DEF a
  <2>2. length >= 1 /\ percent < 100 => a \div 100 < length
    BY <2>1
  <2> QED BY <2>2 DEF a
<1> QED BY <1>3, <1>4

(* The tolerance is a number of graphemes.                                  *)
LEMMA DeltaType ==
  ASSUME NEW s \in Settings, NEW length \in Nat
  PROVE  RoundingDelta(length, s) \in Nat
<1>1. s.tolerance \in Nat
  BY DEF Settings
<1> QED BY <1>1, PartOf DEF RoundingDelta

(* The tolerance of a target is less than the target.                       *)
LEMMA DeltaLess ==
  ASSUME NEW s \in Settings, ValidSettings(s)
  PROVE  /\ s.target \in Nat /\ s.target >= 1
         /\ RoundingDelta(s.target, s) \in Nat /\ RoundingDelta(s.target, s) < s.target
<1>1. s.tolerance \in Nat /\ s.target \in Nat /\ s.tolerance < 100 /\ s.target >= 1
  BY DEF Settings, ValidSettings
<1> QED BY <1>1, PartOf DEF RoundingDelta

(* Where a target that is not the last ends *)
LEMMA TargetEndChosen ==
  ASSUME NEW text \in Seq(Units), NEW cursor \in Nat, NEW target \in Nat, NEW delta \in Nat,
         delta < target, cursor + target + delta < Count(text)
  PROVE  LET end == ChooseTargetEnd(text, cursor, cursor + target, delta) IN
         /\ end \in cursor + 1 .. Count(text) - 1
         /\ Distance(end - cursor, target) <= delta
         /\ \/ OffsetAt(text, end) \in ParagraphEnds(text)
            \/ \A e \in ParagraphEnds(text) : GraphemeAt(text, e) > cursor =>
                 Distance(GraphemeAt(text, e) - cursor, target) > delta
<1> DEFINE n         == Count(text)
           ideal     == cursor + target
           ends      == {GraphemeAt(text, e) : e \in ParagraphEnds(text)}
           scanEnd   == OffsetAt(text, Min({ideal + delta + 1, Count(text)}))
           sentences == {GraphemeAt(text, o) :
                           o \in SentenceBoundaries(text, <<OffsetAt(text, cursor), scanEnd>>)}
           beyond    == {e \in ends : e > cursor}
           paragraph == ChooseBoundary(ideal, delta, beyond, "larger")
           sentence  == ChooseBoundary(ideal, delta, sentences, "larger")
           end       == ChooseTargetEnd(text, cursor, ideal, delta)
<1>1. n \in Nat /\ ideal \in Nat
  BY BoundariesAre
<1>2. ends \subseteq 0 .. n
  <2>1. \A e \in ParagraphEnds(text) : e \in Boundaries(text)
    BY ParagraphEndsAre
  <2>2. \A b \in Boundaries(text) : GraphemeAt(text, b) \in 0 .. n
    BY Graphemes
  <2> QED BY <2>1, <2>2
<1>3. sentences \in SUBSET (0 .. n)
  <2>1. \A o \in SentenceBoundaries(text, <<OffsetAt(text, cursor), scanEnd>>) :
          o \in Boundaries(text)
    BY DEF SentenceBoundaries
  <2>2. \A b \in Boundaries(text) : GraphemeAt(text, b) \in 0 .. n
    BY Graphemes
  <2> QED BY <2>1, <2>2
<1>4. beyond \in SUBSET (0 .. n)
  BY <1>2
<1>5. /\ paragraph # Null => paragraph[1] \in beyond /\ Distance(paragraph[1], ideal) <= delta
      /\ paragraph = Null => \A c \in beyond : Distance(c, ideal) > delta
  <2> HIDE DEF beyond, ideal, n
  <2>1. "larger" \in {"larger", "smaller"} /\ ideal \in Int
    BY <1>1
  <2>2. paragraph # Null => paragraph[1] \in beyond /\ Distance(paragraph[1], ideal) <= delta
    BY <1>1, <1>4, <2>1, NearestChosen, Zenon
  <2>3. paragraph = Null => \A c \in beyond : Distance(c, ideal) > delta
    BY <1>1, <1>4, <2>1, NearestChosen, Zenon
  <2> QED BY <2>2, <2>3
<1>6. sentence # Null => sentence[1] \in 0 .. n /\ Distance(sentence[1], ideal) <= delta
  <2> HIDE DEF sentences, ideal, n
  <2>1. "larger" \in {"larger", "smaller"} /\ ideal \in Int
    BY <1>1
  <2>2. sentence # Null => sentence[1] \in sentences /\ Distance(sentence[1], ideal) <= delta
    BY <1>1, <1>3, <2>1, NearestChosen, Zenon
  <2> QED BY <1>3, <2>2, Zenon
<1>7. end = CASE paragraph # Null                     -> paragraph[1]
              [] paragraph = Null /\ sentence # Null  -> sentence[1]
              [] OTHER                                -> ideal
  BY DEF ChooseTargetEnd
<1>8. end \in Nat /\ Distance(end, ideal) <= delta
  <2> HIDE DEF end, paragraph, sentence, ideal, n, beyond
  <2>1. CASE paragraph # Null
    <3>1. end = paragraph[1]
      BY <1>7, <2>1
    <3>2. end \in beyond /\ Distance(end, ideal) <= delta
      BY <1>5, <2>1, <3>1
    <3> QED BY <1>1, <1>4, <3>2
  <2>2. CASE paragraph = Null /\ sentence # Null
    <3>1. end = sentence[1]
      BY <1>7, <2>2
    <3> QED BY <1>1, <1>6, <2>2, <3>1
  <2>3. CASE paragraph = Null /\ sentence = Null
    <3>1. end = ideal
      BY <1>7, <2>3
    <3> QED BY <1>1, <3>1 DEF Distance
  <2> QED BY <2>1, <2>2, <2>3
<1>9. end \in cursor + 1 .. n - 1 /\ Distance(end - cursor, target) <= delta
  <2> HIDE DEF end
  <2> QED BY <1>1, <1>8 DEF Distance
<1>10. \/ OffsetAt(text, end) \in ParagraphEnds(text)
       \/ \A e \in ParagraphEnds(text) : GraphemeAt(text, e) > cursor =>
            Distance(GraphemeAt(text, e) - cursor, target) > delta
  <2>1. CASE paragraph # Null
    <3>1. end = paragraph[1]
      <4> HIDE DEF end, paragraph, sentence, ideal
      <4> QED BY <1>7, <2>1
    <3>2. end \in beyond
      <4> HIDE DEF end, paragraph, beyond
      <4> QED BY <1>5, <2>1, <3>1
    <3>3. PICK e \in ParagraphEnds(text) : end = GraphemeAt(text, e)
      <4> HIDE DEF end
      <4> QED BY <3>2
    <3>4. OffsetAt(text, end) = e
      <4> HIDE DEF end
      <4> QED BY <3>3, ParagraphEndsAre, Graphemes
    <3> QED BY <3>4
  <2>2. CASE paragraph = Null
    <3>1. \A c \in beyond : Distance(c, ideal) > delta
      <4> HIDE DEF beyond, paragraph, ideal
      <4> QED BY <1>5, <2>2
    <3>2. ASSUME NEW e \in ParagraphEnds(text), GraphemeAt(text, e) > cursor
          PROVE  Distance(GraphemeAt(text, e) - cursor, target) > delta
      <4> DEFINE g == GraphemeAt(text, e)
      <4>1. g \in beyond
        BY <3>2
      <4>2. g \in Nat /\ Distance(g, ideal) > delta
        <5> HIDE DEF g, beyond
        <5> QED BY <1>1, <1>4, <3>1, <4>1
      <4> HIDE DEF g
      <4>3. Distance(g - cursor, target) > delta
        BY <4>2 DEF Distance
      <4> QED BY <4>3 DEF g
    <3> QED BY <3>2
  <2> QED BY <2>1, <2>2
<1> QED BY <1>9, <1>10 DEF n, ideal, end

(* A target is never empty; it ends with the text when what is left fits,   *)
(* and else as near to the length asked for as the settings say, at a       *)
(* paragraph if one is there.                                               *)
LEMMA TargetEndIs ==
  ASSUME NEW text \in Seq(Units), NEW s \in Settings, ValidSettings(s),
         NEW cursor \in 0 .. Count(text) - 1
  PROVE  LET end   == TargetEnd(text, s, cursor)
             delta == RoundingDelta(s.target, s)
         IN /\ end \in cursor + 1 .. Count(text)
            /\ end = Count(text) => Count(text) - cursor <= s.target + delta
            /\ end # Count(text) =>
                 /\ Count(text) - cursor > s.target + delta
                 /\ Distance(end - cursor, s.target) <= delta
                 /\ \/ OffsetAt(text, end) \in ParagraphEnds(text)
                    \/ \A e \in ParagraphEnds(text) : GraphemeAt(text, e) > cursor =>
                         Distance(GraphemeAt(text, e) - cursor, s.target) > delta
<1> DEFINE n      == Count(text)
           delta  == RoundingDelta(s.target, s)
           target == s.target
           end    == TargetEnd(text, s, cursor)
<1>1. n \in Nat /\ target \in Nat /\ delta \in Nat /\ delta < target
  BY BoundariesAre, DeltaLess
<1>2. end = IF n - cursor <= target + delta THEN n
            ELSE ChooseTargetEnd(text, cursor, cursor + target, delta)
  BY DEF TargetEnd
<1>3. CASE n - cursor <= target + delta
  <2>1. end = n
    BY <1>2, <1>3
  <2> HIDE DEF end, n, delta, target
  <2>2. end \in cursor + 1 .. n
    BY <1>1, <2>1 DEF n
  <2> QED BY <1>3, <2>1, <2>2 DEF end, n, delta, target
<1>4. CASE ~(n - cursor <= target + delta)
  <2>1. end = ChooseTargetEnd(text, cursor, cursor + target, delta)
    BY <1>2, <1>4
  <2>2. cursor \in Nat
    BY <1>1
  <2>3. n - cursor > target + delta /\ cursor + target + delta < n
    <3> HIDE DEF n, delta, target
    <3> QED BY <1>1, <1>4, <2>2
  <2>4. /\ end \in cursor + 1 .. n - 1
        /\ Distance(end - cursor, target) <= delta
        /\ \/ OffsetAt(text, end) \in ParagraphEnds(text)
           \/ \A e \in ParagraphEnds(text) : GraphemeAt(text, e) > cursor =>
                Distance(GraphemeAt(text, e) - cursor, target) > delta
    <3> HIDE DEF delta, target, end
    <3> QED BY <1>1, <2>1, <2>2, <2>3, TargetEndChosen
  <2>5. end \in cursor + 1 .. n /\ end # n
    <3> HIDE DEF end, n
    <3> QED BY <1>1, <2>2, <2>4
  <2> QED BY <2>3, <2>4, <2>5 DEF end, n, delta, target
<1> QED BY <1>3, <1>4

(* The recursive function of planTargets: f from the graphemes of a text    *)
Plans(text, s, f) ==
  f = [c \in 0 .. Count(text) |->
         IF c = Count(text) THEN <<>>
         ELSE <<<<OffsetAt(text, c), OffsetAt(text, TargetEnd(text, s, c))>>>>
              \o f[TargetEnd(text, s, c)]]

(* The recursion of planTargets has a solution: every target ends after it  *)
(* begins.                                                                  *)
LEMMA PlansExist ==
  ASSUME NEW text \in Seq(Units), NEW s \in Settings, ValidSettings(s)
  PROVE  \E f : Plans(text, s, f)
<1> DEFINE n == Count(text)
           End(c) == TargetEnd(text, s, c)
           Cut(c) == <<<<OffsetAt(text, c), OffsetAt(text, End(c))>>>>
           Value(f, c) == IF c = n THEN <<>> ELSE Cut(c) \o f[End(c)]
           T == {k \in 0 .. n : \E f : /\ DOMAIN f = 0 .. n
                                       /\ \A c \in n - k .. n : f[c] = Value(f, c)}
<1>1. n \in Nat
  BY BoundariesAre
<1>2. \A c \in 0 .. n - 1 : End(c) \in c + 1 .. n
  BY TargetEndIs
<1>3. 0 \in T
  <2> DEFINE f == [c \in 0 .. n |-> <<>>]
  <2>1. DOMAIN f = 0 .. n /\ \A c \in n - 0 .. n : f[c] = Value(f, c)
    BY <1>1
  <2> HIDE DEF f, Value, n
  <2>2. 0 \in 0 .. n
    BY <1>1
  <2> QED BY <2>1, <2>2, Zenon
<1>4. ASSUME NEW k \in 0 .. n - 1, k \in T PROVE k + 1 \in T
  <2>1. PICK f : DOMAIN f = 0 .. n /\ \A c \in n - k .. n : f[c] = Value(f, c)
    BY <1>4
  <2> DEFINE d == n - (k + 1)
             g == [c \in 0 .. n |-> IF c = d THEN Cut(c) \o f[End(c)] ELSE f[c]]
  <2>2. d \in 0 .. n - 1 /\ d \in 0 .. n /\ k + 1 \in 0 .. n
    BY <1>1
  <2>3. ASSUME NEW c \in n - (k + 1) .. n PROVE g[c] = Value(g, c)
    <3>1. c \in 0 .. n
      BY <1>1
    <3>2. CASE c = n
      <4>1. c # d /\ c \in n - k .. n
        BY <1>1, <3>2
      <4>2. f[c] = <<>>
        BY <2>1, <3>2, <4>1
      <4> QED BY <3>1, <3>2, <4>1, <4>2
    <3>3. CASE c # n
      <4>1. c \in 0 .. n - 1
        BY <1>1, <3>1, <3>3
      <4>2. End(c) \in c + 1 .. n
        BY <1>2, <4>1
      <4>3. End(c) \in 0 .. n /\ End(c) # d
        <5> DEFINE e == End(c)
        <5>1. e \in c + 1 .. n
          BY <4>2
        <5> HIDE DEF e
        <5>2. e \in 0 .. n /\ e # d
          BY <1>1, <3>1, <5>1
        <5> QED BY <5>2 DEF e
      <4>4. g[End(c)] = f[End(c)]
        <5> HIDE DEF End, d, n
        <5> QED BY <4>3
      <4>5. g[c] = Cut(c) \o f[End(c)]
        <5>1. CASE c = d
          BY <3>1, <5>1
        <5>2. CASE c # d
          <6>1. c \in n - k .. n
            BY <1>1, <5>2
          <6>2. f[c] = Value(f, c)
            BY <2>1, <6>1
          <6>3. g[c] = f[c]
            BY <3>1, <5>2
          <6> QED BY <3>3, <6>2, <6>3, Zenon
        <5> QED BY <5>1, <5>2, Zenon
      <4> HIDE DEF g, Cut, End, n
      <4> QED BY <3>3, <4>4, <4>5
    <3> QED BY <3>2, <3>3
  <2>4. DOMAIN g = 0 .. n
    OBVIOUS
  <2> HIDE DEF g, Value, n
  <2> QED BY <2>2, <2>3, <2>4, Zenon
<1>5. n \in T
  <2> HIDE DEF T, n
  <2> QED BY <1>1, <1>3, <1>4, UpTo
<1>6. PICK f : DOMAIN f = 0 .. n /\ \A c \in 0 .. n : f[c] = Value(f, c)
  <2>1. n - n = 0
    BY <1>1
  <2> HIDE DEF Value, n
  <2> QED BY <1>5, <2>1
<1> DEFINE h == [c \in 0 .. n |-> f[c]]
<1>7. \A c \in 0 .. n - 1 : h[End(c)] = f[End(c)]
  <2>1. ASSUME NEW c \in 0 .. n - 1 PROVE End(c) \in 0 .. n
    <3> DEFINE e == End(c)
    <3>1. e \in c + 1 .. n
      BY <1>2
    <3> HIDE DEF e, n
    <3>2. e \in 0 .. n
      BY <1>1, <3>1
    <3> QED BY <3>2 DEF e
  <2> HIDE DEF End, n
  <2> QED BY <2>1
<1>8. \A c \in 0 .. n : h[c] = Value(h, c)
  <2> HIDE DEF Cut, End, n
  <2>1. \A c \in 0 .. n : c # n => c \in 0 .. n - 1
    BY <1>1
  <2>2. \A c \in 0 .. n : h[c] = f[c]
    OBVIOUS
  <2> HIDE DEF h
  <2> QED BY <1>6, <1>7, <2>1, <2>2, Zenon
<1>9. h = [c \in 0 .. n |-> Value(h, c)]
  <2>1. h = [c \in 0 .. n |-> h[c]]
    OBVIOUS
  <2> HIDE DEF h, Value, n
  <2> QED BY <1>8, <2>1
<1> HIDE DEF h
<1>10. Plans(text, s, h)
  BY <1>9, Zenon DEF Plans
<1> QED BY <1>10

(* PlanTargets is one of its solutions.                                     *)
LEMMA PlanIs ==
  ASSUME NEW text \in Seq(Units), NEW s \in Settings, ValidSettings(s)
  PROVE  \E f : Plans(text, s, f) /\ PlanTargets(text, s) = f[0]
<1> DEFINE f == CHOOSE g : Plans(text, s, g)
<1>1. Plans(text, s, f)
  BY PlansExist
<1>2. PlanTargets(text, s) = f[0]
  BY DEF PlanTargets, Plans
<1> HIDE DEF f
<1> QED BY <1>1, <1>2

(* ts are targets from grapheme c to the end of the text, each cut where    *)
(* TargetEnd says                                                           *)
Follows(text, s, c, ts) ==
  LET n      == Count(text)
      End(b) == TargetEnd(text, s, b)
  IN /\ ts \in Seq(Boundaries(text) \X Boundaries(text))
     /\ ts = <<>> <=> c = n
     /\ \A i \in 1 .. Len(ts) :
          /\ ts[i][1] = IF i = 1 THEN OffsetAt(text, c) ELSE ts[i - 1][2]
          /\ \E b \in 0 .. n - 1 : /\ ts[i] = <<OffsetAt(text, b), OffsetAt(text, End(b))>>
                                   /\ i = Len(ts) <=> End(b) = n

(* From every grapheme on, the targets follow one another to the end of the *)
(* text.                                                                    *)
LEMMA PlanFollows ==
  ASSUME NEW text \in Seq(Units), NEW s \in Settings, ValidSettings(s),
         NEW f, Plans(text, s, f)
  PROVE  Follows(text, s, 0, f[0])
<1> DEFINE n == Count(text)
           B == Boundaries(text)
           End(c) == TargetEnd(text, s, c)
           Cut(c) == <<OffsetAt(text, c), OffsetAt(text, End(c))>>
           F(c) == Follows(text, s, c, f[c])
           T == {k \in 0 .. n : \A c \in n - k .. n : F(c)}
<1>1. n \in Nat
  BY BoundariesAre
<1>2. \A c \in 0 .. n - 1 : End(c) \in c + 1 .. n
  BY TargetEndIs
<1>3. \A c \in 0 .. n : OffsetAt(text, c) \in B
  BY Graphemes
<1>4. f[n] = <<>> /\ \A c \in 0 .. n - 1 : f[c] = <<Cut(c)>> \o f[End(c)]
  <2>1. f = [c \in 0 .. n |-> IF c = n THEN <<>> ELSE <<Cut(c)>> \o f[End(c)]]
    BY Zenon DEF Plans
  <2>2. n \in 0 .. n /\ \A c \in 0 .. n - 1 : c \in 0 .. n /\ c # n
    BY <1>1
  <2> HIDE DEF Cut, End, n
  <2> QED BY <2>1, <2>2, Zenon
<1>5. F(n)
  <2> HIDE DEF n, B
  <2> QED BY <1>1, <1>4 DEF Follows, n, B
<1>6. ASSUME NEW c \in 0 .. n - 1, F(End(c)) PROVE F(c)
  <2> DEFINE e  == End(c)
             us == f[e]
             ts == f[c]
             l  == Len(us)
             Pairs == B \X B
  <2>1. e \in c + 1 .. n /\ e \in 0 .. n /\ c \in 0 .. n /\ c # n
    <3>1. e \in c + 1 .. n
      BY <1>2
    <3> HIDE DEF e, n
    <3> QED BY <1>1, <3>1
  <2>2. Cut(c) \in Pairs
    <3> HIDE DEF B, n
    <3>1. OffsetAt(text, e) \in B /\ OffsetAt(text, c) \in B
      BY <1>3, <2>1
    <3> QED BY <3>1
  <2>3. /\ us \in Seq(Pairs)
        /\ us = <<>> <=> e = n
        /\ \A i \in 1 .. l :
             /\ us[i][1] = IF i = 1 THEN OffsetAt(text, e) ELSE us[i - 1][2]
             /\ \E b \in 0 .. n - 1 : us[i] = Cut(b) /\ (i = l <=> End(b) = n)
    BY <1>6, Zenon DEF Follows
  <2>4. ts = <<Cut(c)>> \o us
    BY <1>4
  <2>5. /\ l \in Nat /\ ts \in Seq(Pairs) /\ Len(ts) = l + 1 /\ ts[1] = Cut(c)
        /\ \A i \in 1 .. l : ts[i + 1] = us[i]
    <3> DEFINE x == Cut(c)
    <3> HIDE DEF Pairs, ts, us, x
    <3> USE DEF l
    <3>1. <<x>> \in Seq(Pairs) /\ Len(<<x>>) = 1 /\ <<x>>[1] = x
      BY <2>2 DEF x
    <3>2. us \in Seq(Pairs)
      BY <2>3
    <3>3. ts = <<x>> \o us
      BY <2>4 DEF x
    <3> QED BY <3>1, <3>2, <3>3, ConcatProperties DEF x
  <2>6. l = 0 <=> e = n
    <3>1. us = <<>> <=> l = 0
      <4> HIDE DEF us, Pairs
      <4> USE DEF l
      <4> QED BY <2>3, EmptySeq
    <3> QED BY <2>3, <3>1
  <2> HIDE DEF ts, us, l, e, B
  <2>7. ts # <<>>
    BY <2>5
  <2>8. ASSUME NEW i \in 1 .. Len(ts)
        PROVE  /\ ts[i][1] = IF i = 1 THEN OffsetAt(text, c) ELSE ts[i - 1][2]
               /\ \E b \in 0 .. n - 1 : ts[i] = Cut(b) /\ (i = Len(ts) <=> End(b) = n)
    <3>1. CASE i = 1
      <4>1. ts[i] = Cut(c) /\ ts[i][1] = OffsetAt(text, c)
        BY <2>5, <3>1
      <4>2. i = Len(ts) <=> End(c) = n
        BY <2>5, <2>6, <3>1 DEF e
      <4> QED BY <3>1, <4>1, <4>2
    <3>2. CASE i # 1
      <4> DEFINE j == i - 1
      <4>1. j \in 1 .. l /\ i = j + 1 /\ (i = Len(ts) <=> j = l)
        BY <2>5, <3>2
      <4> HIDE DEF j
      <4>2. ts[i] = us[j]
        BY <2>5, <4>1
      <4>3. us[j][1] = ts[j][2]
        <5>1. CASE j = 1
          <6>1. us[j][1] = OffsetAt(text, e) /\ ts[j] = Cut(c)
            BY <2>3, <2>5, <4>1, <5>1
          <6> QED BY <6>1 DEF e
        <5>2. CASE j # 1
          <6>1. us[j][1] = us[j - 1][2]
            BY <2>3, <4>1, <5>2
          <6>2. j - 1 \in 1 .. l /\ j - 1 + 1 = j
            BY <2>5, <4>1, <5>2
          <6>3. ts[j] = us[j - 1]
            BY <2>5, <6>2
          <6> QED BY <6>1, <6>3
        <5> QED BY <5>1, <5>2
      <4>4. ts[i][1] = ts[i - 1][2]
        BY <4>2, <4>3 DEF j
      <4>5. \E b \in 0 .. n - 1 : us[j] = Cut(b) /\ (j = l <=> End(b) = n)
        BY <2>3, <4>1
      <4>6. \E b \in 0 .. n - 1 : ts[i] = Cut(b) /\ (i = Len(ts) <=> End(b) = n)
        <5> HIDE DEF Cut, End
        <5> QED BY <4>1, <4>2, <4>5
      <4> QED BY <3>2, <4>4, <4>6
    <3> QED BY <3>1, <3>2
  <2>9. Follows(text, s, c, ts)
    BY <2>1, <2>5, <2>7, <2>8, Zenon DEF Follows, B
  <2> QED BY <2>9 DEF ts
<1> HIDE DEF F, End, Cut
<1>7. 0 \in T
  <2>1. 0 \in 0 .. n /\ \A c \in n - 0 .. n : c = n
    BY <1>1
  <2> QED BY <1>5, <2>1
<1>8. ASSUME NEW k \in 0 .. n - 1, k \in T PROVE k + 1 \in T
  <2>1. \A c \in n - k .. n : F(c)
    BY <1>8
  <2>2. k + 1 \in 0 .. n
    BY <1>1
  <2>3. ASSUME NEW c \in n - (k + 1) .. n PROVE F(c)
    <3>1. CASE c \in n - k .. n
      BY <2>1, <3>1
    <3>2. CASE c \notin n - k .. n
      <4>1. c \in 0 .. n - 1 /\ c + 1 = n - k
        BY <1>1, <3>2
      <4>2. End(c) \in n - k .. n
        BY <1>2, <4>1
      <4> QED BY <1>6, <2>1, <4>1, <4>2
    <3> QED BY <3>1, <3>2
  <2> QED BY <2>2, <2>3
<1>9. n \in T
  <2> HIDE DEF T, n
  <2> QED BY <1>1, <1>7, <1>8, UpTo
<1>10. 0 \in n - n .. n
  BY <1>1
<1> QED BY <1>9, <1>10 DEF F

(* The plan of any text with valid settings tiles it (planTargets).         *)
THEOREM TilesHolds ==
  ASSUME NEW text \in Seq(Units), NEW s \in Settings, ValidSettings(s)
  PROVE  Tiles(text, s)
<1> DEFINE n      == Count(text)
           B      == Boundaries(text)
           delta  == RoundingDelta(s.target, s)
           target == s.target
           ts     == PlanTargets(text, s)
           l      == Len(ts)
           End(c) == TargetEnd(text, s, c)
           Cut(c) == <<OffsetAt(text, c), OffsetAt(text, End(c))>>
           G(o)   == GraphemeAt(text, o)
           O(g)   == OffsetAt(text, g)
<1>1. n \in Nat /\ 0 \in 0 .. n /\ target \in Nat /\ delta \in Nat /\ Len(text) \in Nat
      /\ Len(text) \in B
  BY BoundariesAre, DeltaLess
<1>2. Follows(text, s, 0, ts)
  <2>1. PICK f : Plans(text, s, f) /\ ts = f[0]
    BY PlanIs
  <2> QED BY <2>1, PlanFollows
<1>3. /\ ts \in Seq(B \X B) /\ l \in Nat /\ DOMAIN ts = 1 .. l
      /\ ts = <<>> <=> n = 0
      /\ \A i \in 1 .. l : ts[i] \in B \X B
  <2>1. ts \in Seq(B \X B) /\ (ts = <<>> <=> n = 0)
    <3>1. ts = <<>> <=> 0 = n
      BY <1>2 DEF Follows
    <3> QED BY <1>2, <3>1 DEF Follows
  <2> DEFINE Pairs == B \X B
  <2> HIDE DEF Pairs, ts
  <2>2. ts \in Seq(Pairs)
    BY <2>1 DEF Pairs
  <2>3. Len(ts) \in Nat /\ DOMAIN ts = 1 .. Len(ts) /\ \A i \in 1 .. Len(ts) : ts[i] \in Pairs
    BY <2>2
  <2> QED BY <2>1, <2>3 DEF Pairs
<1>4. \A i \in 1 .. l :
        /\ ts[i][1] = IF i = 1 THEN O(0) ELSE ts[i - 1][2]
        /\ \E b \in 0 .. n - 1 : ts[i] = Cut(b) /\ (i = l <=> End(b) = n)
  BY <1>2, Zenon DEF Follows
<1>5. /\ \A g \in 0 .. n : O(g) \in B /\ G(O(g)) = g
      /\ O(0) = 0 /\ O(n) = Len(text) /\ G(Len(text)) = n
      /\ \A b \in B : G(b) \in 0 .. n
  BY Graphemes
<1>6. \A c \in 0 .. n - 1 :
        /\ End(c) \in c + 1 .. n
        /\ End(c) = n => n - c <= target + delta
        /\ End(c) # n =>
             /\ n - c > target + delta
             /\ Distance(End(c) - c, target) <= delta
             /\ \/ O(End(c)) \in ParagraphEnds(text)
                \/ \A e \in ParagraphEnds(text) : G(e) > c => Distance(G(e) - c, target) > delta
  BY TargetEndIs
<1>7. \A e \in ParagraphEnds(text) : e \in B
  BY ParagraphEndsAre
<1>8. l = 0 <=> n = 0
  <2>1. ts = <<>> <=> l = 0
    <3> DEFINE Pairs == B \X B
    <3>1. ts \in Seq(Pairs)
      BY <1>3
    <3> HIDE DEF Pairs, ts
    <3> USE DEF l
    <3> QED BY <3>1, EmptySeq
  <2> QED BY <1>3, <2>1
<1> HIDE DEF ts, l, End, O, G, B, n, target, delta
(* One target *)
<1>9. ASSUME NEW i \in 1 .. l
      PROVE  \E c \in 0 .. n - 1 :
               /\ ts[i][1] = O(c) /\ ts[i][2] = O(End(c)) /\ G(ts[i][1]) = c
               /\ G(ts[i][2]) = End(c) /\ (i = l <=> End(c) = n)
               /\ End(c) \in c + 1 .. n /\ c \in 0 .. n
  <2>1. PICK c \in 0 .. n - 1 : ts[i] = Cut(c) /\ (i = l <=> End(c) = n)
    BY <1>4
  <2>2. End(c) \in c + 1 .. n /\ End(c) \in 0 .. n /\ c \in 0 .. n
    <3>1. End(c) \in c + 1 .. n
      BY <1>6
    <3> QED BY <1>1, <3>1
  <2>3. ts[i][1] = O(c) /\ ts[i][2] = O(End(c))
    BY <2>1 DEF O, End
  <2>4. G(O(c)) = c /\ G(O(End(c))) = End(c)
    BY <1>5, <2>2
  <2> QED BY <2>1, <2>2, <2>3, <2>4
<1>10. {ts[i][2] : i \in DOMAIN ts} \subseteq B
  BY <1>3, <1>5, <1>9
<1>11. \A i \in DOMAIN ts : ts[i][1] = IF i = 1 THEN 0 ELSE ts[i - 1][2]
  BY <1>3, <1>4, <1>5, Zenon
<1>12. Len(text) = IF ts = <<>> THEN 0 ELSE ts[l][2]
  <2>1. CASE ts = <<>>
    BY <1>3, <1>5, <2>1
  <2>2. CASE ts # <<>>
    <3>1. l \in 1 .. l
      BY <1>3, <1>8, <2>2
    <3>2. ts[l][2] = O(n)
      BY <1>9, <3>1
    <3> QED BY <1>5, <2>2, <3>2
  <2> QED BY <2>1, <2>2
<1>13. \A i \in 1 .. l : Length(text, ts[i]) = G(ts[i][2]) - G(ts[i][1])
  BY DEF Length, G
<1>14. ASSUME NEW i \in 1 .. l
       PROVE  IF i = l THEN Length(text, ts[i]) \in 1 .. target + delta
              ELSE /\ Distance(Length(text, ts[i]), target) <= delta
                   /\ i + 1 = l => Length(text, <<ts[i][1], Len(text)>>) > target + delta
                   /\ \/ ts[i][2] \in ParagraphEnds(text)
                      \/ \A e \in ParagraphEnds(text) : e > ts[i][1] =>
                           Distance(Length(text, <<ts[i][1], e>>), target) > delta
  <2>1. PICK c \in 0 .. n - 1 :
               /\ ts[i][1] = O(c) /\ ts[i][2] = O(End(c)) /\ G(ts[i][1]) = c
               /\ G(ts[i][2]) = End(c) /\ (i = l <=> End(c) = n)
               /\ End(c) \in c + 1 .. n /\ c \in 0 .. n
    BY <1>9
  <2>2. Length(text, ts[i]) = End(c) - c
    BY <1>13, <2>1
  <2>3. CASE i = l
    <3>1. End(c) = n /\ n - c <= target + delta
      BY <1>6, <2>1, <2>3
    <3>2. Length(text, ts[i]) \in 1 .. target + delta
      BY <1>1, <2>1, <2>2, <3>1
    <3> QED BY <2>3, <3>2
  <2>4. CASE i # l
    <3>1. /\ End(c) # n /\ n - c > target + delta
          /\ Distance(End(c) - c, target) <= delta
          /\ \/ O(End(c)) \in ParagraphEnds(text)
             \/ \A e \in ParagraphEnds(text) : G(e) > c => Distance(G(e) - c, target) > delta
      BY <1>6, <2>1, <2>4
    <3>2. Distance(Length(text, ts[i]), target) <= delta
      BY <2>2, <3>1
    <3>3. Length(text, <<ts[i][1], Len(text)>>) > target + delta
      <4>1. Length(text, <<ts[i][1], Len(text)>>) = n - c
        BY <1>5, <2>1 DEF Length, G
      <4> QED BY <3>1, <4>1
    <3>4. ASSUME ~(O(End(c)) \in ParagraphEnds(text)),
                 NEW e \in ParagraphEnds(text), e > ts[i][1]
          PROVE  Distance(Length(text, <<ts[i][1], e>>), target) > delta
      <4>1. Length(text, <<ts[i][1], e>>) = G(e) - c
        BY <2>1 DEF Length, G
      <4>2. e \in B /\ ts[i][1] \in B
        BY <1>5, <1>7, <2>1
      <4>3. \A a, b \in B : a < b => G(a) < G(b)
        BY Graphemes DEF B, G
      <4>4. e \in Int /\ ts[i][1] \in Int /\ G(e) \in Int
        <5>1. B \subseteq 0 .. Len(text)
          BY BoundariesAre DEF B
        <5>2. \A b \in 0 .. Len(text) : b \in Int
          OBVIOUS
        <5> QED BY <1>5, <4>2, <5>1, <5>2
      <4>5. G(e) > c
        <5>1. ts[i][1] < e
          BY <3>4, <4>4
        <5>2. G(ts[i][1]) < G(e)
          BY <4>2, <4>3, <5>1
        <5> QED BY <2>1, <4>4, <5>2
      <4> QED BY <3>1, <3>4, <4>1, <4>5
    <3> QED BY <2>1, <2>4, <3>1, <3>2, <3>3, <3>4
  <2> QED BY <2>3, <2>4
<1> QED BY <1>3, <1>10, <1>11, <1>12, <1>14, Zenon DEF Tiles, ts, l, B, target, delta

(* Paragraphs begin and end at boundaries.                                  *)
LEMMA ParagraphsAre ==
  ASSUME NEW text \in Seq(Units), NEW p \in ToSet(SplitParagraphs(text))
  PROVE  p[1] \in Boundaries(text) /\ p[2] \in Boundaries(text)
<1> DEFINE B      == Boundaries(text)
           ends   == ParagraphEnds(text)
           End(k) == CHOOSE e \in ends \cup {0} : Cardinality({d \in ends : d <= e}) = k
           c      == Cardinality(ends)
<1>1. ends \subseteq B \ {0} /\ B \subseteq 0 .. Len(text) /\ 0 \in B /\ Len(text) \in Nat
  BY ParagraphEndsAre, BoundariesAre
<1>2. ends \subseteq Nat /\ \A e \in ends : e > 0
  <2> HIDE DEF ends, B
  <2> QED BY <1>1
<1>3. IsFiniteSet(ends) /\ c \in Nat
  <2>1. IsFiniteSet(0 .. Len(text))
    BY <1>1, FS_Interval
  <2>2. IsFiniteSet(ends)
    BY <1>1, <2>1, FS_Subset
  <2> QED BY <2>2, FS_CardinalityType
<1>4. \A k \in 0 .. c : \E e \in ends \cup {0} : Cardinality({d \in ends : d <= e}) = k
  <2>1. {d \in ends : d <= 0} = {}
    BY <1>2
  <2>2. Cardinality({d \in ends : d <= 0}) = 0
    BY <2>1, FS_EmptySet, Zenon
  <2>3. \A k \in 1 .. c : Nth(ends, k) \in ends /\ Cardinality({d \in ends : d <= Nth(ends, k)}) = k
    <3> HIDE DEF ends
    <3> QED BY <1>2, <1>3, NthFacts, Zenon
  <2>4. \A k \in 0 .. c : k = 0 \/ k \in 1 .. c
    BY <1>3
  <2> HIDE DEF ends, c
  <2> QED BY <2>2, <2>3, <2>4, Zenon
<1>5. \A k \in 0 .. c : End(k) \in B
  <2>1. \A k \in 0 .. c : End(k) \in ends \cup {0}
    BY <1>4, Zenon
  <2> HIDE DEF End, ends, B
  <2> QED BY <1>1, <2>1, Zenon
<1>6. PICK k \in 1 .. c : p = <<End(k - 1), End(k)>>
  BY Zenon DEF ToSet, SplitParagraphs
<1>7. k \in 0 .. c /\ k - 1 \in 0 .. c
  BY <1>3
<1> HIDE DEF End, c, B
<1> QED BY <1>5, <1>6, <1>7 DEF B

(* Targets begin and end at boundaries, and none is empty.                  *)
LEMMA TargetsAre ==
  ASSUME NEW text \in Seq(Units), NEW s \in Settings, ValidSettings(s),
         NEW t \in ToSet(PlanTargets(text, s))
  PROVE  t[1] \in Boundaries(text) /\ t[2] \in Boundaries(text) /\ t[1] < t[2]
<1> DEFINE n  == Count(text)
           ts == PlanTargets(text, s)
           End(c) == TargetEnd(text, s, c)
<1>1. Follows(text, s, 0, ts)
  <2>1. PICK f : Plans(text, s, f) /\ ts = f[0]
    BY PlanIs
  <2> QED BY <2>1, PlanFollows
<1>2. PICK i \in 1 .. Len(ts) : t = ts[i]
  <2> HIDE DEF ts
  <2>1. DOMAIN ts = 1 .. Len(ts)
    BY <1>1 DEF Follows
  <2> QED BY <2>1 DEF ToSet, ts
<1>3. PICK b \in 0 .. n - 1 : t = <<OffsetAt(text, b), OffsetAt(text, End(b))>>
  BY <1>1, <1>2 DEF Follows
<1>4. n \in Nat /\ Boundaries(text) \subseteq 0 .. Len(text)
  BY BoundariesAre
<1>5. End(b) \in b + 1 .. n
  BY TargetEndIs
<1> DEFINE e == End(b)
<1>6. b \in 0 .. n /\ e \in 0 .. n /\ b < e /\ t = <<OffsetAt(text, b), OffsetAt(text, e)>>
  <2>1. e \in b + 1 .. n
    BY <1>5
  <2> HIDE DEF e, n
  <2> QED BY <1>3, <1>4, <2>1 DEF e
<1> HIDE DEF e
<1>7. /\ OffsetAt(text, b) \in Boundaries(text) /\ GraphemeAt(text, OffsetAt(text, b)) = b
      /\ OffsetAt(text, e) \in Boundaries(text) /\ GraphemeAt(text, OffsetAt(text, e)) = e
  BY <1>6, Graphemes
<1>8. OffsetAt(text, b) < OffsetAt(text, e)
  BY <1>6, <1>7, Graphemes
<1> QED BY <1>6, <1>7, <1>8

-----------------------------------------------------------------------------
(* Contexts begin and end at graphemes, on their side of the target         *)

(* A context before a target begins at a boundary before it.                *)
LEMMA ContextBeforeIs ==
  ASSUME NEW text \in Seq(Units), NEW s \in Settings, NEW t, t[1] \in Boundaries(text),
         NEW length \in Nat
  PROVE  LET c == ContextBefore(text, t, length, s) IN
         c # Null => c[1] \in Boundaries(text) /\ c[1] < t[1]
<1> DEFINE n      == Count(text)
           B      == Boundaries(text)
           start  == GraphemeAt(text, t[1])
           ideal  == start - length
           delta  == RoundingDelta(length, s)
           begins == {b \in {GraphemeAt(text, p[1]) : p \in ToSet(SplitParagraphs(text))} : b < start}
           edge   == ChooseBoundary(ideal, delta, begins, "smaller")
           g      == IF edge = Null THEN ideal ELSE edge[1]
           c      == ContextBefore(text, t, length, s)
<1>1. n \in Nat /\ 0 \in B /\ delta \in Nat /\ B \subseteq 0 .. Len(text)
  BY BoundariesAre, DeltaType, Zenon
<1>2. start \in 0 .. n /\ OffsetAt(text, start) = t[1]
  BY Graphemes
<1>3. \A p \in ToSet(SplitParagraphs(text)) : GraphemeAt(text, p[1]) \in 0 .. n
  BY ParagraphsAre, Graphemes
<1>4. begins \in SUBSET (0 .. n)
  BY <1>3
<1>5. ideal \in Int /\ "smaller" \in {"larger", "smaller"}
  BY <1>1, <1>2
<1>6. edge # Null => edge[1] \in begins
  <2> HIDE DEF n, ideal, delta, begins
  <2> QED BY <1>1, <1>4, <1>5, NearestChosen, Zenon
<1>7. CASE ~(start = 0 \/ length = 0 \/ ideal <= 0)
  <2>1. g \in 0 .. n /\ g < start
    <3>1. CASE edge = Null
      <4>1. ideal \in 0 .. n /\ ideal < start
        BY <1>1, <1>2, <1>7
      <4> HIDE DEF edge, ideal
      <4> QED BY <3>1, <4>1
    <3>2. CASE edge # Null
      <4>1. edge[1] \in 0 .. n /\ edge[1] < start
        <5> HIDE DEF edge
        <5> QED BY <1>4, <1>6, <3>2
      <4> HIDE DEF edge
      <4> QED BY <3>2, <4>1
    <3> QED BY <3>1, <3>2
  <2>2. c = <<OffsetAt(text, g), t[1]>>
    BY <1>7 DEF ContextBefore
  <2> HIDE DEF g, start, n
  <2>3. OffsetAt(text, g) \in B /\ GraphemeAt(text, OffsetAt(text, g)) = g
    BY <2>1, Graphemes DEF n
  <2>4. OffsetAt(text, g) < t[1]
    BY <2>1, <2>3, Graphemes DEF start
  <2> HIDE DEF c
  <2> QED BY <2>2, <2>3, <2>4 DEF c
<1>8. CASE start # 0 /\ length # 0 /\ ideal <= 0
  <2>1. c = <<0, t[1]>>
    BY <1>8 DEF ContextBefore
  <2>2. 0 < t[1]
    <3>1. GraphemeAt(text, 0) < start
      <4>1. GraphemeAt(text, 0) = 0
        BY Graphemes
      <4> HIDE DEF start
      <4> QED BY <1>2, <1>8, <4>1
    <3> QED BY <1>1, <3>1, Graphemes
  <2> HIDE DEF c
  <2> QED BY <1>1, <2>1, <2>2 DEF c
<1>9. CASE start = 0 \/ length = 0
  BY <1>9 DEF ContextBefore
<1> QED BY <1>7, <1>8, <1>9

(* A context after a target ends at a boundary after it.                    *)
LEMMA ContextAfterIs ==
  ASSUME NEW text \in Seq(Units), NEW s \in Settings, NEW t, t[2] \in Boundaries(text),
         NEW length \in Nat
  PROVE  LET c == ContextAfter(text, t, length, s) IN
         c # Null => c[2] \in Boundaries(text) /\ t[2] < c[2]
<1> DEFINE n      == Count(text)
           B      == Boundaries(text)
           end    == GraphemeAt(text, t[2])
           ideal  == end + length
           delta  == RoundingDelta(length, s)
           begins == {b \in {GraphemeAt(text, e) : e \in ParagraphEnds(text)} : b > end}
           edge   == ChooseBoundary(ideal, delta, begins, "larger")
           g      == IF edge = Null THEN ideal ELSE edge[1]
           c      == ContextAfter(text, t, length, s)
<1>1. n \in Nat /\ Len(text) \in B /\ delta \in Nat /\ B \subseteq 0 .. Len(text)
  BY BoundariesAre, DeltaType, Zenon
<1>2. end \in 0 .. n /\ OffsetAt(text, end) = t[2]
  BY Graphemes
<1>3. \A e \in ParagraphEnds(text) : GraphemeAt(text, e) \in 0 .. n
  BY ParagraphEndsAre, Graphemes
<1>4. begins \in SUBSET (0 .. n)
  BY <1>3
<1>5. ideal \in Int /\ "larger" \in {"larger", "smaller"}
  BY <1>1, <1>2
<1>6. edge # Null => edge[1] \in begins
  <2> HIDE DEF n, ideal, delta, begins
  <2> QED BY <1>1, <1>4, <1>5, NearestChosen
<1>7. CASE ~(end = n \/ length = 0 \/ ideal >= n)
  <2>1. g \in 0 .. n /\ end < g
    <3>1. CASE edge = Null
      <4>1. ideal \in 0 .. n /\ end < ideal
        BY <1>1, <1>2, <1>7
      <4> HIDE DEF edge, ideal
      <4> QED BY <3>1, <4>1
    <3>2. CASE edge # Null
      <4>1. edge[1] \in 0 .. n /\ end < edge[1]
        <5> HIDE DEF edge
        <5>1. edge[1] \in 0 .. n /\ edge[1] > end
          BY <1>4, <1>6, <3>2
        <5> QED BY <1>2, <5>1
      <4> HIDE DEF edge
      <4> QED BY <3>2, <4>1
    <3> QED BY <3>1, <3>2
  <2>2. c = <<t[2], OffsetAt(text, g)>>
    BY <1>7 DEF ContextAfter
  <2> HIDE DEF g, end, n
  <2>3. OffsetAt(text, g) \in B /\ GraphemeAt(text, OffsetAt(text, g)) = g
    BY <2>1, Graphemes DEF n
  <2>4. t[2] < OffsetAt(text, g)
    BY <2>1, <2>3, Graphemes DEF end
  <2> HIDE DEF c
  <2> QED BY <2>2, <2>3, <2>4 DEF c
<1>8. CASE end # n /\ length # 0 /\ ideal >= n
  <2>1. c = <<t[2], Len(text)>>
    BY <1>8 DEF ContextAfter
  <2>2. t[2] < Len(text)
    <3>1. end < GraphemeAt(text, Len(text))
      <4>1. GraphemeAt(text, Len(text)) = n
        BY Graphemes
      <4> HIDE DEF end, n
      <4> QED BY <1>1, <1>2, <1>8, <4>1
    <3> QED BY <1>1, <3>1, Graphemes
  <2> HIDE DEF c
  <2> QED BY <1>1, <2>1, <2>2 DEF c
<1>9. CASE end = n \/ length = 0
  BY <1>9 DEF ContextAfter
<1> QED BY <1>7, <1>8, <1>9

(* What is sent with a check is whole graphemes around its target.          *)
LEMMA CheckInputIs ==
  ASSUME NEW text \in Seq(Units), NEW s \in Settings, NEW t,
         t[1] \in Boundaries(text), t[2] \in Boundaries(text)
  PROVE  LET in == BuildCheckInput(text, t, s) IN
         /\ in.target = t
         /\ in.input[1] \in Boundaries(text) /\ in.input[2] \in Boundaries(text)
         /\ in.input[1] <= t[1] /\ t[2] <= in.input[2]
         /\ in.tooLong = (GraphemeAt(text, in.input[2]) - GraphemeAt(text, in.input[1]) > s.maxInput)
<1> DEFINE B      == Boundaries(text)
           before == ContextBefore(text, t, s.context, s)
           after  == ContextAfter(text, t, s.context, s)
           in     == BuildCheckInput(text, t, s)
           x      == IF before = Null THEN t[1] ELSE before[1]
           y      == IF after  = Null THEN t[2] ELSE after[2]
<1>1. s.context \in Nat
  BY DEF Settings
<1>2. before # Null => before[1] \in B /\ before[1] < t[1]
  BY <1>1, ContextBeforeIs
<1>3. after # Null => after[2] \in B /\ t[2] < after[2]
  BY <1>1, ContextAfterIs
<1>4. t[1] \in Int /\ t[2] \in Int /\ \A b \in B : b \in Int
  <2>1. B \subseteq 0 .. Len(text)
    BY BoundariesAre
  <2>2. \A b \in 0 .. Len(text) : b \in Int
    OBVIOUS
  <2> QED BY <2>1, <2>2
<1>5. x \in B /\ y \in B /\ x <= t[1] /\ t[2] <= y
  <2> HIDE DEF before, after, B
  <2> QED BY <1>2, <1>3, <1>4 DEF B
<1>6. /\ in.target = t /\ in.input = <<x, y>>
      /\ in.tooLong = (GraphemeAt(text, in.input[2]) - GraphemeAt(text, in.input[1]) > s.maxInput)
  BY DEF BuildCheckInput, FinishInput
<1>7. in.input[1] = x /\ in.input[2] = y
  <2> HIDE DEF in, x, y
  <2> QED BY <1>6
<1> HIDE DEF in, x, y
<1> QED BY <1>5, <1>6, <1>7 DEF in

(* For any text, a recheck sees what the check saw, within the limit or     *)
(* refused (buildCheckInput, buildRecheckInput).                            *)
THEOREM NestsHolds ==
  ASSUME NEW text \in Seq(Units), NEW s \in Settings, ValidSettings(s)
  PROVE  Nests(text, s)
<1> DEFINE B == Boundaries(text)
<1>1. ASSUME NEW t \in ToSet(PlanTargets(text, s))
      PROVE  LET check   == BuildCheckInput(text, t, s)
                 recheck == BuildRecheckInput(text, check, s)
             IN /\ {check.input[1], check.input[2], recheck.input[1], recheck.input[2]} \subseteq B
                /\ recheck.input[1] <= check.input[1] /\ check.input[1] <= t[1]
                /\ t[2] <= check.input[2] /\ check.input[2] <= recheck.input[2]
                /\ ~recheck.tooLong => ~check.tooLong /\ Length(text, recheck.input) <= s.maxInput
  <2> DEFINE check   == BuildCheckInput(text, t, s)
             recheck == BuildRecheckInput(text, check, s)
             before  == ContextBefore(text, t, s.recheckContext, s)
             after   == ContextAfter(text, t, s.recheckContext, s)
             b       == IF before = Null THEN t[1] ELSE before[1]
             a       == IF after = Null THEN t[2] ELSE after[2]
             i       == check.input[1]
             j       == check.input[2]
             start   == Min({b, i})
             end     == Max({a, j})
             x       == IF start < t[1] THEN start ELSE t[1]
             y       == IF end > t[2] THEN end ELSE t[2]
  <2>1. t[1] \in B /\ t[2] \in B
    BY TargetsAre
  <2>2. /\ check.target = t /\ i \in B /\ j \in B /\ i <= t[1] /\ t[2] <= j
        /\ check.tooLong = (GraphemeAt(text, j) - GraphemeAt(text, i) > s.maxInput)
    BY <2>1, CheckInputIs
  <2>3. s.recheckContext \in Nat /\ s.maxInput \in Nat
    BY DEF Settings
  <2>4. before # Null => before[1] \in B /\ before[1] < t[1]
    BY <2>1, <2>3, ContextBeforeIs
  <2>5. after # Null => after[2] \in B /\ t[2] < after[2]
    BY <2>1, <2>3, ContextAfterIs
  <2>6. \A z \in B : z \in Int /\ z >= 0
    <3>1. B \subseteq 0 .. Len(text)
      BY BoundariesAre
    <3>2. \A z \in 0 .. Len(text) : z \in Int /\ z >= 0
      OBVIOUS
    <3> QED BY <3>1, <3>2
  <2>7. b \in B /\ b <= t[1] /\ a \in B /\ t[2] <= a
    <3> HIDE DEF before, after, B
    <3> QED BY <2>1, <2>4, <2>5, <2>6
  <2>8. start = (IF b <= i THEN b ELSE i) /\ end = (IF a >= j THEN a ELSE j)
    <3> HIDE DEF b, a, i, j, B
    <3> QED BY <2>2, <2>6, <2>7, MinOfTwo, MaxOfTwo
  <2>9. recheck = FinishInput(text, t, IF start < t[1] THEN <<start, t[1]>> ELSE Null,
                                       IF end > t[2] THEN <<t[2], end>> ELSE Null, s)
    <3> HIDE DEF check
    <3> QED BY <2>2 DEF BuildRecheckInput
  <2> HIDE DEF check, recheck, b, a, i, j, B
  <2>10. start \in B /\ end \in B /\ start <= i /\ j <= end /\ start <= t[1] /\ t[2] <= end
    <3>1. start \in B /\ end \in B /\ start <= i /\ j <= end
      <4> HIDE DEF start, end
      <4> QED BY <2>2, <2>6, <2>7, <2>8
    <3>2. start \in Int /\ end \in Int /\ i \in Int /\ j \in Int /\ t[1] \in Int /\ t[2] \in Int
      BY <2>1, <2>2, <2>6, <3>1
    <3> HIDE DEF start, end
    <3> QED BY <2>2, <3>1, <3>2
  <2> HIDE DEF start, end
  <2>11. x = start /\ y = end
    BY <2>1, <2>6, <2>10
  <2>12. /\ recheck.input = <<x, y>>
         /\ recheck.tooLong = (GraphemeAt(text, recheck.input[2]) - GraphemeAt(text, recheck.input[1]) > s.maxInput)
    <3>1. /\ start < t[1] => <<start, t[1]>> # Null /\ <<start, t[1]>>[1] = start
          /\ end > t[2] => <<t[2], end>> # Null /\ <<t[2], end>>[2] = end
      BY DEF Null
    <3>2. (IF (IF start < t[1] THEN <<start, t[1]>> ELSE Null) = Null THEN t[1]
           ELSE (IF start < t[1] THEN <<start, t[1]>> ELSE Null)[1]) = x
      BY <3>1
    <3>3. (IF (IF end > t[2] THEN <<t[2], end>> ELSE Null) = Null THEN t[2]
           ELSE (IF end > t[2] THEN <<t[2], end>> ELSE Null)[2]) = y
      BY <3>1
    <3> HIDE DEF x, y
    <3> QED BY <2>9, <3>2, <3>3 DEF FinishInput
  <2>13. recheck.input[1] = start /\ recheck.input[2] = end
    <3> HIDE DEF x, y
    <3> QED BY <2>11, <2>12
  <2>14. {i, j, recheck.input[1], recheck.input[2]} \subseteq B
    BY <2>2, <2>10, <2>13
  <2>15. ~recheck.tooLong => ~check.tooLong /\ Length(text, recheck.input) <= s.maxInput
    <3> DEFINE gi == GraphemeAt(text, i)
               gj == GraphemeAt(text, j)
               gs == GraphemeAt(text, start)
               ge == GraphemeAt(text, end)
    <3>1. gi \in Int /\ gj \in Int /\ gs \in Int /\ ge \in Int
      <4>1. \A z \in B : GraphemeAt(text, z) \in 0 .. Count(text)
        BY Graphemes DEF B
      <4>2. \A z \in 0 .. Count(text) : z \in Int
        OBVIOUS
      <4> QED BY <2>2, <2>10, <4>1, <4>2
    <3>2. \A w, z \in B : w < z <=> GraphemeAt(text, w) < GraphemeAt(text, z)
      BY Graphemes DEF B
    <3>3. gs <= gi
      <4>1. ~(i < start)
        BY <2>2, <2>6, <2>10
      <4>2. ~(gi < gs)
        BY <2>2, <2>10, <3>2, <4>1
      <4> HIDE DEF gi, gs
      <4> QED BY <3>1, <4>2
    <3>4. gj <= ge
      <4>1. ~(end < j)
        BY <2>2, <2>6, <2>10
      <4>2. ~(ge < gj)
        BY <2>2, <2>10, <3>2, <4>1
      <4> HIDE DEF gj, ge
      <4> QED BY <3>1, <4>2
    <3>5. recheck.tooLong = (ge - gs > s.maxInput) /\ Length(text, recheck.input) = ge - gs
      BY <2>12, <2>13 DEF Length
    <3>6. check.tooLong = (gj - gi > s.maxInput)
      BY <2>2
    <3> HIDE DEF gi, gj, gs, ge
    <3>7. ~(ge - gs > s.maxInput) => ~(gj - gi > s.maxInput) /\ ge - gs <= s.maxInput
      BY <2>3, <3>1, <3>3, <3>4
    <3> QED BY <3>5, <3>6, <3>7, Zenon
  <2> QED BY <2>2, <2>10, <2>13, <2>14, <2>15 DEF i, j, check, recheck
<1> QED BY <1>1 DEF Nests

-----------------------------------------------------------------------------
(* Slices of a text, and what is left of them without newlines              *)

(* A slice has the units of its range.                                      *)
LEMMA SliceIs ==
  ASSUME NEW text \in Seq(Units), NEW a \in Nat, NEW b \in 0 .. Len(text), a <= b
  PROVE  LET w == Slice(text, <<a, b>>) IN
         /\ w \in Seq(Units) /\ Len(w) = b - a
         /\ \A k \in 1 .. b - a : w[k] = text[a + k]
<1> DEFINE l == Len(text)
<1>1. \A i \in 1 .. l : text[i] \in Units
  OBVIOUS
<1>2. l \in Nat /\ b \in 0 .. l
  OBVIOUS
<1> HIDE DEF l
<1>3. a + 1 \in Int /\ b \in Int
  BY <1>2
<1>4. \A i \in a + 1 .. b : text[i] \in Units
  <2>1. \A i \in a + 1 .. b : i \in 1 .. l
    BY <1>2
  <2> QED BY <1>1, <2>1
<1> DEFINE m == a + 1
           v == SubSeq(text, m, b)
<1>5. v \in Seq(Units) /\ Len(v) = (IF m <= b THEN b - m + 1 ELSE 0)
      /\ \A i \in 1 .. b - m + 1 : v[i] = text[m + i - 1]
  <2> HIDE DEF m
  <2> QED BY <1>3, <1>4, SubSeqProperties DEF m
<1>6. Slice(text, <<a, b>>) = v
  BY DEF Slice
<1> HIDE DEF v
<1>7. Len(v) = b - a
  BY <1>2, <1>5
<1>8. ASSUME NEW k \in 1 .. b - a PROVE v[k] = text[a + k]
  <2>1. k \in 1 .. b - m + 1 /\ m + k - 1 = a + k
    BY <1>2
  <2>2. v[k] = text[m + k - 1]
    BY <1>5, <2>1
  <2> QED BY <2>1, <2>2
<1> QED BY <1>5, <1>6, <1>7, <1>8, Zenon

(* Without its newlines a text still begins and ends with its first and     *)
(* last unit, if that is not a newline.                                     *)
LEMMA StripIs ==
  ASSUME NEW w \in Seq(Units)
  PROVE  /\ Strip(w) \in Seq(Units) /\ Len(Strip(w)) \in Nat
         /\ Strip(w) # <<>> => \E k \in 1 .. Len(w) : w[k] \notin Newlines
         /\ Len(w) <= 1 => Len(Strip(w)) <= 1
         /\ Len(w) >= 1 /\ w[1] \notin Newlines =>
              Len(Strip(w)) >= 1 /\ Strip(w)[1] = w[1]
         /\ Len(w) >= 1 /\ w[Len(w)] \notin Newlines =>
              Len(Strip(w)) >= 1 /\ Strip(w)[Len(Strip(w))] = w[Len(w)]
<1> DEFINE l == Len(w)
           I == {i \in DOMAIN w : w[i] \notin Newlines}
           n == Cardinality(I)
           v == Strip(w)
<1>1. l \in Nat /\ DOMAIN w = 1 .. l
  OBVIOUS
<1>2. I \in SUBSET DOMAIN w /\ I \subseteq Nat /\ I \subseteq 1 .. l
  BY <1>1
<1>3. /\ IsFiniteSet(I) /\ n \in Nat /\ v \in Seq(Units) /\ Len(v) = n
      /\ \A k \in 1 .. n : Nth(I, k) \in I /\ v[k] = w[Nth(I, k)]
  <2> HIDE DEF I
  <2> QED BY <1>2, PickedFacts DEF Strip, I
<1>4. /\ \A k, m \in 1 .. n : k < m => Nth(I, k) < Nth(I, m)
      /\ \A i \in I : \E k \in 1 .. n : Nth(I, k) = i
  <2> HIDE DEF I
  <2> QED BY <1>2, <1>3, NthFacts
<1>5. \A k \in 1 .. n : Nth(I, k) \in 1 .. l
  BY <1>2, <1>3
<1>6. \A i \in 1 .. l : w[i] \notin Newlines <=> i \in I
  BY <1>1
<1>7. \A i \in I : i \in 1 .. l
  BY <1>2
<1> HIDE DEF I, l, v
<1>8. v # <<>> => \E k \in 1 .. l : w[k] \notin Newlines
  <2> SUFFICES ASSUME v # <<>> PROVE \E k \in 1 .. l : w[k] \notin Newlines
    OBVIOUS
  <2>1. n >= 1
    BY <1>3, EmptySeq
  <2>2. Nth(I, 1) \in I
    BY <1>3, <2>1
  <2> QED BY <1>6, <1>7, <2>2
<1>9. l <= 1 => n <= 1
  <2> SUFFICES ASSUME l <= 1, n >= 2 PROVE FALSE
    BY <1>3
  <2>1. 1 \in 1 .. n /\ 2 \in 1 .. n
    BY <1>3
  <2>2. Nth(I, 1) < Nth(I, 2) /\ Nth(I, 1) \in 1 .. l /\ Nth(I, 2) \in 1 .. l
    BY <1>4, <1>5, <2>1
  <2> QED BY <1>1, <2>2
<1>10. ASSUME l >= 1, w[1] \notin Newlines PROVE n >= 1 /\ v[1] = w[1]
  <2>1. 1 \in I
    BY <1>1, <1>6, <1>10
  <2>2. PICK k \in 1 .. n : Nth(I, k) = 1
    BY <1>4, <2>1
  <2>3. n >= 1 /\ 1 \in 1 .. n
    BY <1>3
  <2>4. k = 1
    <3>1. 1 < k => Nth(I, 1) < Nth(I, k)
      BY <1>4, <2>3
    <3>2. Nth(I, 1) \in 1 .. l
      BY <1>5, <2>3
    <3> QED BY <1>1, <2>2, <3>1, <3>2
  <2> QED BY <1>3, <2>2, <2>3, <2>4
<1>11. ASSUME l >= 1, w[l] \notin Newlines PROVE n >= 1 /\ v[n] = w[l]
  <2>1. l \in I
    BY <1>1, <1>6, <1>11
  <2>2. PICK k \in 1 .. n : Nth(I, k) = l
    BY <1>4, <2>1
  <2>3. n >= 1 /\ n \in 1 .. n
    BY <1>3
  <2>4. k = n
    <3>1. k < n => Nth(I, k) < Nth(I, n)
      BY <1>4, <2>3
    <3>2. Nth(I, n) \in 1 .. l
      BY <1>5, <2>3
    <3> QED BY <1>1, <1>3, <2>2, <3>1, <3>2
  <2> QED BY <1>3, <2>2, <2>3, <2>4
<1> QED BY <1>3, <1>8, <1>9, <1>10, <1>11 DEF v, l

(* Two texts of one and the same unit are the same.                         *)
LEMMA SingleUnits ==
  ASSUME NEW v \in Seq(Units), NEW w \in Seq(Units), Len(v) = 1, Len(w) = 1, v[1] = w[1]
  PROVE  v = w
<1>1. \A i \in 1 .. Len(v) : v[i] = w[i]
  OBVIOUS
<1>2. Len(v) = Len(w)
  OBVIOUS
<1> QED BY <1>1, <1>2, SeqEqual

(* A unit that is not a newline is all that is left of itself, and a text   *)
(* it ends or begins                                                        *)
LEMMA OneUnit ==
  ASSUME NEW w \in Seq(Units), Len(w) = 1, Strip(w) # <<>>
  PROVE  w[1] \notin Newlines /\ Strip(w) = <<w[1]>> /\ Len(Strip(w)) = 1
<1>1. PICK k \in 1 .. Len(w) : w[k] \notin Newlines
  BY StripIs
<1>2. w[1] \notin Newlines /\ w[1] \in Units
  BY <1>1
<1>3. Len(Strip(w)) >= 1 /\ Strip(w)[1] = w[1] /\ Len(Strip(w)) <= 1 /\ Len(Strip(w)) \in Nat
      /\ Strip(w) \in Seq(Units)
  <2>1. Len(w) >= 1 /\ Len(w) <= 1
    OBVIOUS
  <2>2. Strip(w) \in Seq(Units) /\ Len(Strip(w)) \in Nat
    BY StripIs
  <2>3. Len(Strip(w)) <= 1
    BY <2>1, StripIs, Zenon
  <2>4. Len(Strip(w)) >= 1 /\ Strip(w)[1] = w[1]
    BY <1>2, <2>1, StripIs
  <2> QED BY <2>2, <2>3, <2>4
<1> DEFINE v == Strip(w)
           u == w[1]
<1> HIDE DEF v, u
<1>4. v \in Seq(Units) /\ Len(v) = 1 /\ v[1] = u
  BY <1>3 DEF v, u
<1>5. v = <<u>>
  <2>1. <<u>> \in Seq(Units) /\ Len(<<u>>) = 1 /\ <<u>>[1] = u
    BY <1>2 DEF u
  <2> QED BY <1>4, <2>1, SingleUnits
<1> QED BY <1>2, <1>4, <1>5 DEF u, v

(* The last unit of a text is a suffix of it.                               *)
LEMMA LastUnitIsSuffix ==
  ASSUME NEW v \in Seq(Units), Len(v) >= 1
  PROVE  IsSuffix(<<v[Len(v)]>>, v)
<1> DEFINE l == Len(v)
           u == v[l]
           x == Reverse(<<u>>)
           y == Reverse(v)
<1>1. l \in Nat /\ l >= 1 /\ u \in Units
  OBVIOUS
<1>2. <<u>> \in Seq(Units) /\ Len(<<u>>) = 1 /\ <<u>>[1] = u
  BY <1>1
<1>3. x \in Seq(Units) /\ Len(x) = 1 /\ x[1] = u
  <2> HIDE DEF u
  <2>1. x = [i \in 1 .. 1 |-> <<u>>[(1 - i) + 1]]
    BY <1>2 DEF Reverse
  <2>2. x = [i \in 1 .. 1 |-> u]
    BY <1>2, <2>1
  <2> HIDE DEF x
  <2> QED BY <1>1, <2>2
<1>4. y \in Seq(Units) /\ Len(y) = l /\ y[1] = u
  <2>1. \A i \in 1 .. l : v[(l - i) + 1] \in Units
    <3>1. \A i \in 1 .. l : (l - i) + 1 \in 1 .. l
      BY <1>1
    <3>2. \A i \in 1 .. l : v[i] \in Units
      OBVIOUS
    <3> HIDE DEF l
    <3> QED BY <3>1, <3>2
  <2>2. y = [i \in 1 .. l |-> v[(l - i) + 1]]
    BY DEF Reverse
  <2>3. (l - 1) + 1 = l /\ 1 \in 1 .. l
    BY <1>1
  <2> HIDE DEF y, l
  <2> QED BY <1>1, <2>1, <2>2, <2>3
<1> HIDE DEF l, u, x, y
<1>5. IsPrefix(x, y)
  <2>1. Len(x) <= Len(y)
    BY <1>1, <1>3, <1>4
  <2>2. SubSeq(x, 1, 1) = <<u>>
    <3>1. \A i \in 1 .. 1 : x[i] \in Units
      BY <1>1, <1>3
    <3>2. SubSeq(x, 1, 1) \in Seq(Units) /\ Len(SubSeq(x, 1, 1)) = 1 /\ SubSeq(x, 1, 1)[1] = u
      BY <1>3, <3>1, SubSeqProperties
    <3> QED BY <1>2, <3>2, SingleUnits, Zenon
  <2>3. SubSeq(y, 1, 1) = <<u>>
    <3>1. \A i \in 1 .. 1 : y[i] \in Units
      BY <1>1, <1>4
    <3>2. SubSeq(y, 1, 1) \in Seq(Units) /\ Len(SubSeq(y, 1, 1)) = 1 /\ SubSeq(y, 1, 1)[1] = u
      BY <1>4, <3>1, SubSeqProperties
    <3> QED BY <1>2, <3>2, SingleUnits, Zenon
  <2> QED BY <1>3, <2>1, <2>2, <2>3, Zenon DEF IsPrefix
<1> QED BY <1>5 DEF IsSuffix, x, y, u, l

(* The first unit of a text is a prefix of it.                              *)
LEMMA FirstUnitIsPrefix ==
  ASSUME NEW v \in Seq(Units), Len(v) >= 1
  PROVE  IsPrefix(<<v[1]>>, v)
<1> DEFINE u == v[1]
<1>1. Len(v) \in Nat /\ Len(v) >= 1 /\ u \in Units
  OBVIOUS
<1>2. <<u>> \in Seq(Units) /\ Len(<<u>>) = 1 /\ <<u>>[1] = u
  BY <1>1
<1>3. \A i \in 1 .. 1 : v[i] \in Units /\ <<u>>[i] \in Units
  BY <1>1
<1>4. SubSeq(v, 1, 1) \in Seq(Units) /\ Len(SubSeq(v, 1, 1)) = 1 /\ SubSeq(v, 1, 1)[1] = v[1]
  BY <1>3, SubSeqProperties
<1>5. SubSeq(<<u>>, 1, 1) \in Seq(Units) /\ Len(SubSeq(<<u>>, 1, 1)) = 1 /\ SubSeq(<<u>>, 1, 1)[1] = u
  BY <1>2, <1>3, SubSeqProperties
<1>6. SubSeq(v, 1, 1) = SubSeq(<<u>>, 1, 1)
  BY <1>2, <1>4, <1>5, SingleUnits
<1> QED BY <1>1, <1>2, <1>6 DEF IsPrefix

(* Narrowing ends early only when the passage itself is all that is left    *)
LEMMA NarrowedFits ==
  ASSUME NEW matches, IsFiniteSet(matches), NEW hints, Len(hints) \in Nat,
         NEW r \in matches, \A i \in 1 .. Len(hints) : r \in hints[i]
  PROVE  Narrowed(matches, hints) = {m \in matches : \A i \in 1 .. Len(hints) : m \in hints[i]}
<1> DEFINE l       == Len(hints)
           StillFit(k) == {m \in matches : \A i \in 1 .. k : m \in hints[i]}
           Ends(k) == k = l \/ Cardinality(StillFit(k)) = 1 \/ StillFit(k + 1) = {}
           E       == {k \in 0 .. l : Ends(k)}
           least   == CHOOSE k \in 0 .. l : Ends(k) /\ \A j \in 0 .. k - 1 : ~Ends(j)
<1>1. l \in Nat
  OBVIOUS
<1>2. \A k \in 0 .. l : r \in StillFit(k)
  OBVIOUS
<1>3. \E k \in 0 .. l : Ends(k) /\ \A j \in 0 .. k - 1 : ~Ends(j)
  <2>1. E \subseteq Nat /\ l \in E
    BY <1>1
  <2>2. PICK k \in E : \A j \in E : k <= j
    <3> HIDE DEF E
    <3> QED BY <2>1, LeastNumber, Zenon
  <2>3. ASSUME NEW j \in 0 .. k - 1 PROVE ~Ends(j)
    <3>1. j \in 0 .. l /\ ~(k <= j)
      BY <1>1, <2>2
    <3> HIDE DEF Ends
    <3> QED BY <2>2, <3>1
  <2> HIDE DEF Ends
  <2> QED BY <2>2, <2>3
<1>4. least \in 0 .. l /\ Ends(least)
  <2> HIDE DEF Ends
  <2> QED BY <1>3
<1>5. Narrowed(matches, hints) = StillFit(least)
  BY DEF Narrowed
<1> HIDE DEF least
<1>6. CASE least = l
  BY <1>5, <1>6
<1>7. CASE least # l
  <2>1. least + 1 \in 0 .. l
    BY <1>1, <1>4, <1>7
  <2>2. Cardinality(StillFit(least)) = 1
    <3>1. r \in StillFit(least + 1)
      BY <1>2, <2>1
    <3> HIDE DEF StillFit
    <3> QED BY <1>4, <1>7, <3>1
  <2>3. IsFiniteSet(StillFit(least))
    BY FS_Subset
  <2>4. PICK x : StillFit(least) = {x}
    BY <2>2, <2>3, FS_Singleton, Zenon
  <2>5. r \in StillFit(least) /\ r \in StillFit(l)
    BY <1>1, <1>2, <1>4
  <2>6. StillFit(l) \subseteq StillFit(least)
    BY <1>1, <1>4
  <2>7. StillFit(least) = StillFit(l)
    <3> HIDE DEF StillFit
    <3> QED BY <2>4, <2>5, <2>6
  <2> QED BY <1>5, <2>7
<1> QED BY <1>6, <1>7

(* What stands before and after a passage agrees with it                    *)
LEMMA PrecededFits ==
  ASSUME NEW text \in Seq(Units), NEW from \in Nat, NEW at \in 0 .. Len(text), from <= at,
         NEW told \in {<<>>, Slice(text, <<Max({at - 1, from}), at>>)}, Strip(told) # <<>>
  PROVE  IsSuffix(Strip(told), Strip(Slice(text, <<from, at>>)))
<1> DEFINE a == Max({at - 1, from})
           w == Slice(text, <<a, at>>)
           p == Slice(text, <<from, at>>)
<1>1. at \in Int /\ at - 1 \in Int /\ from \in Int /\ at \in Nat
  OBVIOUS
<1>2. a = IF at - 1 >= from THEN at - 1 ELSE from
  BY <1>1, MaxOfTwo
<1>3. a \in Nat /\ a <= at
  BY <1>1, <1>2
<1>4. w \in Seq(Units) /\ Len(w) = at - a /\ \A k \in 1 .. at - a : w[k] = text[a + k]
  <2> HIDE DEF a
  <2> QED BY <1>3, SliceIs
<1>5. p \in Seq(Units) /\ Len(p) = at - from /\ \A k \in 1 .. at - from : p[k] = text[from + k]
  BY SliceIs
<1>6. told = w
  <2>1. told # <<>>
    <3> SUFFICES ASSUME told = <<>> PROVE FALSE
      OBVIOUS
    <3>1. <<>> \in Seq(Units) /\ Len(<<>>) = 0
      BY EmptySeq
    <3>2. \E k \in 1 .. Len(<<>>) : <<>>[k] \notin Newlines
      BY <3>1, StripIs, Zenon
    <3> QED BY <3>1, <3>2
  <2> QED BY <2>1
<1> HIDE DEF w, p, a
<1>7. at - a >= 1
  <2>1. PICK k \in 1 .. Len(w) : w[k] \notin Newlines
    BY <1>4, <1>6, StripIs
  <2> QED BY <1>1, <1>3, <1>4, <2>1
<1>8. a = at - 1 /\ at - 1 >= from
  BY <1>1, <1>2, <1>7
<1>9. Len(w) = 1 /\ w[1] = text[at]
  <2>1. at - a = 1 /\ a + 1 = at
    BY <1>1, <1>8
  <2> QED BY <1>4, <2>1
<1>10. w[1] \notin Newlines /\ Strip(w) = <<w[1]>>
  BY <1>4, <1>6, <1>9, OneUnit
<1>11. Len(p) >= 1 /\ p[Len(p)] = text[at]
  <2>1. at - from \in 1 .. at - from /\ from + (at - from) = at
    BY <1>1, <1>8
  <2> QED BY <1>1, <1>5, <1>8, <2>1
<1>12. Strip(p) \in Seq(Units) /\ Len(Strip(p)) >= 1 /\ Strip(p)[Len(Strip(p))] = text[at]
  <2>1. p[Len(p)] \notin Newlines
    BY <1>9, <1>10, <1>11
  <2>2. Strip(p) \in Seq(Units)
    BY <1>5, StripIs
  <2>3. Len(Strip(p)) >= 1 /\ Strip(p)[Len(Strip(p))] = p[Len(p)]
    BY <1>5, <1>11, <2>1, StripIs
  <2> QED BY <1>11, <2>2, <2>3
<1>13. IsSuffix(<<Strip(p)[Len(Strip(p))]>>, Strip(p))
  BY <1>12, LastUnitIsSuffix
<1> QED BY <1>6, <1>9, <1>10, <1>12, <1>13 DEF p

(* The same for what stands after a passage.                                *)
LEMMA FollowedFits ==
  ASSUME NEW text \in Seq(Units), NEW at \in Nat, NEW to \in 0 .. Len(text), at <= to,
         NEW told \in {<<>>, Slice(text, <<at, Min({at + 1, to})>>)}, Strip(told) # <<>>
  PROVE  IsPrefix(Strip(told), Strip(Slice(text, <<at, to>>)))
<1> DEFINE b == Min({at + 1, to})
           w == Slice(text, <<at, b>>)
           p == Slice(text, <<at, to>>)
<1>1. at + 1 \in Int /\ to \in Int /\ to \in Nat /\ Len(text) \in Nat
  OBVIOUS
<1>2. b = IF at + 1 <= to THEN at + 1 ELSE to
  BY <1>1, MinOfTwo
<1>3. b \in 0 .. Len(text) /\ at <= b
  <2> DEFINE l == Len(text)
  <2>1. to \in 0 .. l /\ l \in Nat
    BY <1>1
  <2> HIDE DEF l
  <2>2. b \in 0 .. l /\ at <= b
    BY <1>1, <1>2, <2>1
  <2> QED BY <2>2 DEF l
<1>4. w \in Seq(Units) /\ Len(w) = b - at /\ \A k \in 1 .. b - at : w[k] = text[at + k]
  <2> HIDE DEF b
  <2> QED BY <1>3, SliceIs
<1>5. p \in Seq(Units) /\ Len(p) = to - at /\ \A k \in 1 .. to - at : p[k] = text[at + k]
  BY SliceIs
<1>6. told = w
  <2>1. told # <<>>
    <3> SUFFICES ASSUME told = <<>> PROVE FALSE
      OBVIOUS
    <3>1. <<>> \in Seq(Units) /\ Len(<<>>) = 0
      BY EmptySeq
    <3>2. \E k \in 1 .. Len(<<>>) : <<>>[k] \notin Newlines
      BY <3>1, StripIs, Zenon
    <3> QED BY <3>1, <3>2
  <2> QED BY <2>1
<1> HIDE DEF w, p, b
<1>7. b - at >= 1
  <2>1. PICK k \in 1 .. Len(w) : w[k] \notin Newlines
    BY <1>4, <1>6, StripIs
  <2> QED BY <1>1, <1>2, <1>4, <2>1
<1>8. b = at + 1 /\ at + 1 <= to
  BY <1>1, <1>2, <1>7
<1>9. Len(w) = 1 /\ w[1] = text[at + 1]
  BY <1>4, <1>8
<1>10. w[1] \notin Newlines /\ Strip(w) = <<w[1]>>
  BY <1>4, <1>6, <1>9, OneUnit
<1>11. Len(p) >= 1 /\ p[1] = text[at + 1]
  <2>1. 1 \in 1 .. to - at
    BY <1>1, <1>8
  <2> QED BY <1>1, <1>5, <1>8, <2>1
<1>12. Strip(p) \in Seq(Units) /\ Len(Strip(p)) >= 1 /\ Strip(p)[1] = text[at + 1]
  <2>1. p[1] \notin Newlines
    BY <1>9, <1>10, <1>11
  <2>2. Strip(p) \in Seq(Units)
    BY <1>5, StripIs
  <2>3. Len(Strip(p)) >= 1 /\ Strip(p)[1] = p[1]
    BY <1>5, <1>11, <2>1, StripIs
  <2> QED BY <1>11, <2>2, <2>3
<1>13. IsPrefix(<<Strip(p)[1]>>, Strip(p))
  BY <1>12, FirstUnitIsPrefix
<1> QED BY <1>6, <1>9, <1>10, <1>12, <1>13 DEF p

(* A quoted passage r of an input, with what a finding tells of it          *)
Told(text, input, r) ==
  [paragraph : {-1, ParagraphOf(text, r[1])},
   quote     : {Slice(text, r)},
   before    : {<<>>, Slice(text, <<Max({r[1] - 1, input[1]}), r[1]>>)},
   after     : {<<>>, Slice(text, <<r[2], Min({r[2] + 1, input[2]})>>)}]

(* Every hint fits the passage it was made for                              *)
LEMMA HintsFit ==
  ASSUME NEW text \in Seq(Units), NEW input, NEW r, NEW matches, r \in matches,
         input[1] \in Nat, r[1] \in 0 .. Len(text), input[1] <= r[1],
         r[2] \in Nat, input[2] \in 0 .. Len(text), r[2] <= input[2],
         NEW ref \in Told(text, input, r)
  PROVE  LET hints == Hints(text, input, ref, matches) IN
         /\ Len(hints) \in Nat /\ DOMAIN hints = 1 .. Len(hints)
         /\ \A i \in 1 .. Len(hints) : r \in hints[i]
<1> DEFINE before    == Strip(ref.before)
           after     == Strip(ref.after)
           paragraph == {m \in matches : ParagraphOf(text, m[1]) = ref.paragraph}
           preceded  == {m \in matches : IsSuffix(before, Strip(Slice(text, <<input[1], m[1]>>)))}
           followed  == {m \in matches : IsPrefix(after, Strip(Slice(text, <<m[2], input[2]>>)))}
           A == IF ref.paragraph \in ParagraphIds(text, input) THEN <<paragraph>> ELSE <<>>
           B == IF before # <<>> THEN <<preceded>> ELSE <<>>
           C == IF after # <<>> THEN <<followed>> ELSE <<>>
           Fitting == {h \in SUBSET matches : r \in h}
<1>1. /\ ref.paragraph \in {-1, ParagraphOf(text, r[1])}
      /\ ref.before \in {<<>>, Slice(text, <<Max({r[1] - 1, input[1]}), r[1]>>)}
      /\ ref.after \in {<<>>, Slice(text, <<r[2], Min({r[2] + 1, input[2]})>>)}
  BY DEF Told
<1>2. A \in Seq(Fitting)
  <2>1. CASE ref.paragraph \in ParagraphIds(text, input)
    <3>1. ref.paragraph # -1
      <4>1. PICK k \in DOMAIN SplitParagraphs(text) : ref.paragraph = k - 1
        BY <2>1 DEF ParagraphIds
      <4>2. k \in 1 .. Cardinality(ParagraphEnds(text))
        BY <4>1 DEF SplitParagraphs
      <4> QED BY <4>1, <4>2
    <3>2. r \in paragraph
      BY <1>1, <3>1
    <3>3. paragraph \in Fitting
      BY <3>2
    <3> HIDE DEF paragraph, Fitting
    <3> QED BY <2>1, <3>3
  <2>2. CASE ref.paragraph \notin ParagraphIds(text, input)
    <3> HIDE DEF paragraph, Fitting
    <3> QED BY <2>2
  <2> QED BY <2>1, <2>2
<1>3. B \in Seq(Fitting)
  <2>1. CASE before # <<>>
    <3>1. IsSuffix(before, Strip(Slice(text, <<input[1], r[1]>>)))
      BY <1>1, <2>1, PrecededFits, Zenon
    <3>2. r \in preceded
      BY <3>1
    <3>3. preceded \in Fitting
      BY <3>2
    <3> HIDE DEF preceded, before, Fitting
    <3> QED BY <2>1, <3>3
  <2>2. CASE before = <<>>
    <3> HIDE DEF preceded, before, Fitting
    <3> QED BY <2>2
  <2> QED BY <2>1, <2>2
<1>4. C \in Seq(Fitting)
  <2>1. CASE after # <<>>
    <3>1. IsPrefix(after, Strip(Slice(text, <<r[2], input[2]>>)))
      BY <1>1, <2>1, FollowedFits, Zenon
    <3>2. r \in followed
      BY <3>1
    <3>3. followed \in Fitting
      BY <3>2
    <3> HIDE DEF followed, after, Fitting
    <3> QED BY <2>1, <3>3
  <2>2. CASE after = <<>>
    <3> HIDE DEF followed, after, Fitting
    <3> QED BY <2>2
  <2> QED BY <2>1, <2>2
<1>5. Hints(text, input, ref, matches) = (A \o B) \o C
  BY DEF Hints
<1> HIDE DEF A, B, C, Fitting
<1> DEFINE hints == (A \o B) \o C
<1>6. hints \in Seq(Fitting)
  BY <1>2, <1>3, <1>4, ConcatProperties
<1> HIDE DEF hints
<1>7. Len(hints) \in Nat /\ DOMAIN hints = 1 .. Len(hints) /\ \A i \in 1 .. Len(hints) : hints[i] \in Fitting
  BY <1>6
<1>8. \A i \in 1 .. Len(hints) : r \in hints[i]
  BY <1>7 DEF Fitting
<1> QED BY <1>5, <1>7, <1>8 DEF hints

(* The occurrences of a quote are the ranges of whole graphemes that read   *)
(* like it                                                                  *)
LEMMA OccurrencesAre ==
  ASSUME NEW text \in Seq(Units), NEW input, input[1] \in Nat, input[2] \in 0 .. Len(text),
         NEW quote \in Seq(Units), Len(quote) > 0
  PROVE  /\ Occurrences(text, input, quote) =
              {m \in Boundaries(text) \X Boundaries(text) :
                 /\ input[1] <= m[1] /\ m[1] < m[2] /\ m[2] <= input[2]
                 /\ Slice(text, m) = quote}
         /\ IsFiniteSet(Occurrences(text, input, quote))
<1> DEFINE B   == Boundaries(text)
           l   == Len(quote)
           x   == input[1]
           y   == input[2]
           L   == Occurrences(text, input, quote)
           R   == {m \in B \X B : /\ x <= m[1] /\ m[1] < m[2] /\ m[2] <= y
                                  /\ Slice(text, m) = quote}
<1>1. l \in Nat /\ l > 0 /\ x \in Nat /\ y \in Nat /\ y <= Len(text) /\ Len(text) \in Nat
  OBVIOUS
<1>2. B \subseteq 0 .. Len(text) /\ IsFiniteSet(B) /\ \A b \in B : b \in Nat /\ b <= Len(text)
  <2>1. B \subseteq 0 .. Len(text) /\ IsFiniteSet(B)
    BY BoundariesAre
  <2>2. \A b \in 0 .. Len(text) : b \in Nat /\ b <= Len(text)
    BY <1>1
  <2> HIDE DEF B
  <2> QED BY <2>1, <2>2
<1>3. ASSUME NEW m \in L PROVE m \in R
  <2>1. PICK o \in x .. y - l :
          m = <<o, o + l>> /\ Slice(text, m) = quote /\ {m[1], m[2]} \subseteq B
    BY DEF Occurrences
  <2>2. o \in Int /\ x <= o /\ o < o + l /\ o + l <= y
    BY <1>1
  <2>3. m[1] = o /\ m[2] = o + l /\ m \in B \X B
    <3>1. m[1] = o /\ m[2] = o + l
      BY <2>1
    <3>2. o \in B /\ o + l \in B
      BY <2>1, <3>1
    <3> HIDE DEF B
    <3> QED BY <2>1, <3>1, <3>2
  <2> QED BY <2>1, <2>2, <2>3
<1>4. ASSUME NEW m \in R PROVE m \in L
  <2>1. m = <<m[1], m[2]>> /\ m[1] \in B /\ m[2] \in B /\ x <= m[1] /\ m[1] < m[2] /\ m[2] <= y
        /\ Slice(text, m) = quote
    <3>1. m \in B \X B
      OBVIOUS
    <3> HIDE DEF B
    <3> QED BY <3>1
  <2> DEFINE a == m[1]
             b == m[2]
  <2>2. a \in Nat /\ b \in 0 .. Len(text) /\ a <= b
    <3>1. a \in Nat /\ b \in Nat /\ b <= Len(text) /\ a < b
      BY <1>2, <2>1
    <3> HIDE DEF a, b
    <3> QED BY <1>1, <3>1
  <2>3. Slice(text, <<a, b>>) = quote
    BY <2>1
  <2>4. Len(Slice(text, <<a, b>>)) = b - a
    <3> HIDE DEF a, b
    <3> QED BY <2>2, SliceIs
  <2>5. l = b - a
    BY <2>3, <2>4
  <2>6. a \in x .. y - l /\ b = a + l
    <3>1. a \in Nat /\ b \in Nat /\ x <= a /\ b <= y
      BY <1>2, <2>1
    <3> HIDE DEF a, b, l
    <3> QED BY <1>1, <2>5, <3>1
  <2>7. m = <<a, a + l>>
    BY <2>1, <2>6
  <2>8. {m[1], m[2]} \subseteq B
    BY <2>1
  <2> HIDE DEF a, l, B, x, y
  <2> QED BY <2>1, <2>6, <2>7, <2>8 DEF Occurrences, l, B, x, y
<1>5. L = R
  <2> HIDE DEF L, R
  <2> QED BY <1>3, <1>4, Zenon
<1>6. IsFiniteSet(R)
  <2>1. IsFiniteSet(B \X B)
    BY <1>2, FS_Product
  <2>2. R \subseteq B \X B
    OBVIOUS
  <2> HIDE DEF R, B
  <2> QED BY <2>1, <2>2, FS_Subset
<1> QED BY <1>5, <1>6

(* For any text, a passage that is quoted is located or called ambiguous,   *)
(* never lost and never put elsewhere (locateQuote).                        *)
THEOREM FindsHolds ==
  ASSUME NEW text \in Seq(Units), NEW s \in Settings, ValidSettings(s)
  PROVE  Finds(text, s)
<1>1. ASSUME NEW t \in ToSet(PlanTargets(text, s)),
             NEW r \in Passages(text, BuildCheckInput(text, t, s)),
             NEW paragraph \in {-1, ParagraphOf(text, r[1])},
             NEW before \in {<<>>, Slice(text, <<Max({r[1] - 1, BuildCheckInput(text, t, s).input[1]}), r[1]>>)},
             NEW after \in {<<>>, Slice(text, <<r[2], Min({r[2] + 1, BuildCheckInput(text, t, s).input[2]})>>)}
      PROVE  LET in    == BuildCheckInput(text, t, s)
                 ref   == [paragraph |-> paragraph, quote |-> Slice(text, r),
                           before |-> before, after |-> after]
                 all   == {m \in Boundaries(text) \X Boundaries(text) :
                             /\ in.input[1] <= m[1] /\ m[1] < m[2] /\ m[2] <= in.input[2]
                             /\ Slice(text, m) = ref.quote}
                 hints == Hints(text, in.input, ref, all)
                 fits  == {m \in all : \A i \in DOMAIN hints : m \in hints[i]}
             IN LocateQuote(text, in, ref) =
                  IF fits = {r} THEN [locate |-> "located", at |-> r]
                                ELSE [locate |-> "ambiguous", at |-> Null]
  <2> DEFINE in    == BuildCheckInput(text, t, s)
             input == in.input
             ref   == [paragraph |-> paragraph, quote |-> Slice(text, r),
                       before |-> before, after |-> after]
             B     == Boundaries(text)
             all   == {m \in B \X B :
                         /\ in.input[1] <= m[1] /\ m[1] < m[2] /\ m[2] <= in.input[2]
                         /\ Slice(text, m) = ref.quote}
             hints == Hints(text, in.input, ref, all)
             fits  == {m \in all : \A i \in DOMAIN hints : m \in hints[i]}
             quote == Slice(text, r)
  <2>1. t[1] \in B /\ t[2] \in B
    BY TargetsAre
  <2>2. in.target = t /\ input[1] \in B /\ input[2] \in B /\ input[1] <= t[1]
    BY <2>1, CheckInputIs
  <2>3. \A b \in B : b \in Nat /\ b \in 0 .. Len(text) /\ b <= Len(text)
    <3>1. B \subseteq 0 .. Len(text) /\ Len(text) \in Nat
      BY BoundariesAre
    <3>2. \A b \in 0 .. Len(text) : b \in Nat /\ b <= Len(text)
      BY <3>1
    <3> HIDE DEF B
    <3> QED BY <3>1, <3>2
  <2>4. r \in B \X B /\ Within(r[1], t) /\ r[1] < r[2] /\ r[2] <= input[2]
    <3> HIDE DEF in, B
    <3> QED BY <2>2 DEF Passages, in, B
  <2>5. r[1] \in B /\ r[2] \in B /\ r = <<r[1], r[2]>>
    <3> HIDE DEF B
    <3> QED BY <2>4
  <2> HIDE DEF in, B
  <2>6. input[1] <= r[1]
    <3> DEFINE a == input[1]
               b == t[1]
               c == r[1]
    <3>1. a <= b /\ b <= c /\ a \in Nat /\ b \in Nat /\ c \in Nat
      BY <2>1, <2>2, <2>3, <2>4, <2>5 DEF Within
    <3> HIDE DEF a, b, c
    <3>2. a <= c
      BY <3>1
    <3> QED BY <3>2 DEF a, c
  <2>7. quote \in Seq(Units) /\ Len(quote) > 0
    <3> DEFINE a == r[1]
               b == r[2]
    <3>1. a \in Nat /\ b \in 0 .. Len(text) /\ a < b /\ r = <<a, b>>
      BY <2>3, <2>4, <2>5
    <3> HIDE DEF a, b
    <3>2. a <= b /\ b - a > 0
      <4>1. b \in Nat
        BY <3>1
      <4> QED BY <3>1, <4>1
    <3> QED BY <3>1, <3>2, SliceIs
  <2>8. /\ input[1] \in Nat /\ input[2] \in 0 .. Len(text) /\ r[1] \in 0 .. Len(text)
        /\ r[2] \in Nat
    BY <2>2, <2>3, <2>5
  <2>9. ref.quote = quote /\ ref \in Told(text, input, r)
    <3>1. ref \in Told(text, input, r)
      <4>1. /\ paragraph \in {-1, ParagraphOf(text, r[1])}
            /\ before \in {<<>>, Slice(text, <<Max({r[1] - 1, input[1]}), r[1]>>)}
            /\ after \in {<<>>, Slice(text, <<r[2], Min({r[2] + 1, input[2]})>>)}
        BY DEF in
      <4> HIDE DEF input
      <4> QED BY <4>1 DEF Told
    <3> QED BY <3>1
  <2>10. Occurrences(text, input, quote) = all /\ IsFiniteSet(all)
    <3> HIDE DEF quote
    <3>1. all = {m \in B \X B : /\ input[1] <= m[1] /\ m[1] < m[2] /\ m[2] <= input[2]
                                /\ Slice(text, m) = quote}
      BY <2>9
    <3> HIDE DEF all, input
    <3>2. /\ Occurrences(text, input, quote) =
                {m \in Boundaries(text) \X Boundaries(text) :
                   /\ input[1] <= m[1] /\ m[1] < m[2] /\ m[2] <= input[2]
                   /\ Slice(text, m) = quote}
          /\ IsFiniteSet(Occurrences(text, input, quote))
      BY <2>7, <2>8, OccurrencesAre
    <3>3. Occurrences(text, input, quote) = all
      BY <3>1, <3>2 DEF B
    <3> QED BY <3>2, <3>3, Zenon
  <2>11. r \in all
    <3> HIDE DEF ref, input
    <3> QED BY <2>4, <2>6, <2>9 DEF input
  <2> HIDE DEF all
  <2>12. /\ Len(hints) \in Nat /\ DOMAIN hints = 1 .. Len(hints)
         /\ \A i \in 1 .. Len(hints) : r \in hints[i]
    <3> HIDE DEF ref, input
    <3>1. /\ Len(Hints(text, input, ref, all)) \in Nat
          /\ DOMAIN Hints(text, input, ref, all) = 1 .. Len(Hints(text, input, ref, all))
      BY <2>4, <2>6, <2>8, <2>9, <2>11, HintsFit
    <3>2. \A i \in 1 .. Len(Hints(text, input, ref, all)) : r \in Hints(text, input, ref, all)[i]
      BY <2>4, <2>6, <2>8, <2>9, <2>11, HintsFit
    <3> QED BY <3>1, <3>2 DEF input
  <2> DEFINE left   == Narrowed(all, hints)
             inside == {m \in left : Within(m[1], in.target)}
  <2> HIDE DEF hints
  <2>13. left = fits
    <3>1. fits = {m \in all : \A i \in 1 .. Len(hints) : m \in hints[i]}
      BY <2>12
    <3>2. left = {m \in all : \A i \in 1 .. Len(hints) : m \in hints[i]}
      <4>1. IsFiniteSet(all)
        BY <2>10
      <4>2. Len(hints) \in Nat /\ \A i \in 1 .. Len(hints) : r \in hints[i]
        BY <2>12
      <4> QED BY <2>11, <4>1, <4>2, NarrowedFits
    <3> HIDE DEF left, fits
    <3> QED BY <3>1, <3>2
  <2>14. r \in fits /\ IsFiniteSet(fits)
    <3>1. fits \subseteq all
      OBVIOUS
    <3>2. r \in fits
      BY <2>11, <2>12
    <3> HIDE DEF fits
    <3> QED BY <2>10, <3>1, <3>2, FS_Subset
  <2>15. inside # {}
    <3> HIDE DEF fits
    <3> QED BY <2>2, <2>4, <2>13, <2>14
  <2>16. Cardinality(fits) = 1 <=> fits = {r}
    <3> HIDE DEF fits
    <3>1. Cardinality(fits) = 1 <=> \E x : fits = {x}
      BY <2>14, FS_Singleton, Zenon
    <3>2. \A x : fits = {x} => x = r
      BY <2>14
    <3> QED BY <3>1, <3>2, Zenon
  <2> DEFINE matches == IF ref.quote = <<>> THEN {} ELSE Occurrences(text, in.input, ref.quote)
  <2>17. matches = all /\ matches # {}
    <3>1. quote # <<>>
      <4> HIDE DEF quote
      <4>1. Len(<<>>) = 0
        BY EmptySeq
      <4> QED BY <2>7, <4>1
    <3> HIDE DEF ref, quote, input
    <3> QED BY <2>9, <2>10, <2>11, <3>1 DEF input
  <2>18. LocateQuote(text, in, ref) =
           CASE matches = {} -> [locate |-> "not-found", at |-> Null]
             [] matches # {} /\ inside = {} -> [locate |-> "outside-target", at |-> Null]
             [] inside # {} /\ Cardinality(left) = 1 ->
                  [locate |-> "located", at |-> CHOOSE m \in left : TRUE]
             [] inside # {} /\ Cardinality(left) # 1 -> [locate |-> "ambiguous", at |-> Null]
    <3>1. Narrowed(matches, Hints(text, in.input, ref, matches)) = left
      <4> HIDE DEF matches
      <4> QED BY <2>17 DEF hints
    <3> QED BY <3>1 DEF LocateQuote
  <2>19. LocateQuote(text, in, ref) =
           IF fits = {r} THEN [locate |-> "located", at |-> r]
                         ELSE [locate |-> "ambiguous", at |-> Null]
    <3> HIDE DEF left, fits, inside, matches, ref
    <3>1. CASE fits = {r}
      <4>1. Cardinality(left) = 1 /\ (CHOOSE m \in left : TRUE) = r
        BY <2>13, <2>16, <3>1
      <4> QED BY <2>15, <2>17, <2>18, <3>1, <4>1, Zenon
    <3>2. CASE fits # {r}
      <4>1. Cardinality(left) # 1
        BY <2>13, <2>16, <3>2
      <4> QED BY <2>15, <2>17, <2>18, <3>2, <4>1
    <3> QED BY <3>1, <3>2
  <2> QED BY <2>19 DEF in, B, all, hints
<1> QED BY <1>1, Zenon DEF Finds

-----------------------------------------------------------------------------
(* The whole way                                                            *)

(* A manuscript's way through the server is a behaviour of the server's     *)
(* tables: checking from the command line leaves them alone.                *)
THEOREM ServerWay == ProofreadingSpec => Spec
<1>1. ProofreadingInit => Init
  BY DEF ProofreadingInit
<1>2. [OnServer \/ OnCommandLine]_proofreading => [Next]_vars
  BY DEF OnServer, OnCommandLine, proofreading
<1> QED BY <1>1, <1>2, PTL DEF ProofreadingSpec, Spec

(* Its way on the command line is a behaviour of the CLI's pipeline.        *)
THEOREM CommandLineWay == ProofreadingSpec => PipeInit /\ [][PipeNext]_pipe
<1>1. ProofreadingInit => PipeInit
  BY DEF ProofreadingInit
<1>2. [OnServer \/ OnCommandLine]_proofreading => [PipeNext]_pipe
  BY DEF OnServer, OnCommandLine, proofreading
<1> QED BY <1>1, <1>2, PTL DEF ProofreadingSpec

(* So what was proved of the tables and of the pipeline alone holds of      *)
(* every manuscript's way: findings stay groups of overlapping candidates   *)
(* and only grow, answers are saved once, the pipeline's counts add up.     *)
THEOREM WholeWay ==
  ProofreadingSpec =>
    []FindingsAreGroups /\ FindingsOnlyGrow /\ []AnswersSavedOnce /\ []PipelineAccounts
<1>1. ProofreadingSpec => []FindingsAreGroups /\ FindingsOnlyGrow /\ []AnswersSavedOnce
  BY ServerWay, GroupsAlways, OnlyGrow, AnswersOnce
<1>2. ProofreadingSpec => []PipelineAccounts
  BY CommandLineWay, PassAccounts
<1> QED BY <1>1, <1>2

(* The manuscript stays the one it was.                                     *)
LEMMA SampleKept == ProofreadingSpec => [](sample \in Samples)
<1>1. ProofreadingInit => sample \in Samples
  BY DEF ProofreadingInit
<1>2. sample \in Samples /\ [OnServer \/ OnCommandLine]_proofreading => (sample \in Samples)'
  BY DEF OnServer, OnCommandLine, proofreading
<1> QED BY <1>1, <1>2, PTL DEF ProofreadingSpec

(* The targets of every manuscript tile it in whole graphemes, as long as   *)
(* the settings say and cut at a paragraph wherever one is within reach,    *)
(* and leave no short rest (planTargets).                                   *)
THEOREM TextPlanned == ProofreadingSpec => []PlanTilesText
<1>1. sample \in Samples => PlanTilesText
  BY ProofreadingAssumption, TilesHolds DEF PlanTilesText
<1> QED BY <1>1, SampleKept, PTL

(* A recheck of any target is shown at least what the check saw, and what   *)
(* is sent is within the limit or refused (buildRecheckInput).              *)
THEOREM TextNested == ProofreadingSpec => []RecheckSeesCheck
<1>1. sample \in Samples => RecheckSeesCheck
  BY ProofreadingAssumption, NestsHolds DEF RecheckSeesCheck
<1> QED BY <1>1, SampleKept, PTL

(* A passage quoted word for word, with or without true hints, is located   *)
(* where it stands unless it stands elsewhere in a place the hints fit too; *)
(* then it is called ambiguous (locateQuote).                               *)
THEOREM TextQuoted == ProofreadingSpec => []QuotesAreFound
<1>1. sample \in Samples => QuotesAreFound
  BY ProofreadingAssumption, FindsHolds DEF QuotesAreFound
<1> QED BY <1>1, SampleKept, PTL

-----------------------------------------------------------------------------
(* Sequences that list something, in whatever order: s has the value of g   *)
(* at every point of g's domain, each once.                                 *)

ListsBy(s, g, h) ==
  /\ h \in [DOMAIN s -> DOMAIN g]
  /\ \A i, j \in DOMAIN s : h[i] = h[j] => i = j
  /\ \A y \in DOMAIN g : \E i \in DOMAIN s : h[i] = y
  /\ \A i \in DOMAIN s : s[i] = g[h[i]]

Lists(s, g) == \E h : ListsBy(s, g, h)

Part(g, A) == [y \in A |-> g[y]]

Places(s, x) == {i \in DOMAIN s : s[i] = x}

(* Such a sequence has each value as often as g has it.                     *)
LEMMA ListsTimes ==
  ASSUME NEW s, NEW g, IsFiniteSet(DOMAIN s), Lists(s, g), NEW x
  PROVE  Cardinality(Places(s, x)) = Cardinality(Places(g, x))
<1> DEFINE I == {i \in DOMAIN s : s[i] = x}
           Y == {y \in DOMAIN g : g[y] = x}
<1>1. PICK h : ListsBy(s, g, h)
  BY DEF Lists
<1> DEFINE f == [i \in I |-> h[i]]
<1>2. f \in [I -> Y]
  BY <1>1 DEF ListsBy
<1>3. \A i, j \in I : f[i] = f[j] => i = j
  BY <1>1 DEF ListsBy
<1>4. \A y \in Y : \E i \in I : f[i] = y
  BY <1>1 DEF ListsBy
<1>5. IsFiniteSet(I)
  BY FS_Subset
<1>6. f \in Bijection(I, Y)
  <2> HIDE DEF f, I, Y
  <2> QED BY <1>2, <1>3, <1>4 DEF Bijection, Injection, Surjection, IsInjective
<1>7. ExistsBijection(I, Y)
  BY <1>6 DEF ExistsBijection
<1> QED BY <1>5, <1>7, FS_Bijection DEF Places

(* It is as long as g's domain is large.                                    *)
LEMMA ListsSize ==
  ASSUME NEW s, NEW g, IsFiniteSet(DOMAIN s), Lists(s, g)
  PROVE  IsFiniteSet(DOMAIN g) /\ Cardinality(DOMAIN s) = Cardinality(DOMAIN g)
<1>1. PICK h : ListsBy(s, g, h)
  BY DEF Lists
<1>2. h \in Bijection(DOMAIN s, DOMAIN g)
  BY <1>1 DEF ListsBy, Bijection, Injection, Surjection, IsInjective
<1>3. ExistsBijection(DOMAIN s, DOMAIN g)
  BY <1>2 DEF ExistsBijection
<1> QED BY <1>3, FS_Bijection

(* Two lists of one thing have the same values, equally often.              *)
LEMMA SameTimes ==
  ASSUME NEW s, NEW r, NEW g, IsFiniteSet(DOMAIN s), IsFiniteSet(DOMAIN r),
         Lists(s, g), Lists(r, g), NEW x
  PROVE  Cardinality(Places(s, x)) = Cardinality(Places(r, x))
<1>1. Cardinality(Places(s, x)) = Cardinality(Places(g, x))
  BY ListsTimes
<1>2. Cardinality(Places(r, x)) = Cardinality(Places(g, x))
  BY ListsTimes
<1> QED BY <1>1, <1>2

(* Positions picked in a list list the points they stand for.               *)
LEMMA ListsPicked ==
  ASSUME NEW n \in Nat, NEW s, DOMAIN s = 1 .. n, NEW g, NEW h, ListsBy(s, g, h),
         NEW I \in SUBSET DOMAIN s, NEW Y \in SUBSET DOMAIN g,
         \A i \in DOMAIN s : i \in I <=> h[i] \in Y
  PROVE  Lists(Picked(s, I), Part(g, Y))
<1> DEFINE m == Cardinality(I)
           p == Picked(s, I)
           f == [k \in 1 .. m |-> h[Nth(I, k)]]
<1>1. IsFiniteSet(I) /\ I \subseteq Nat
  <2>1. IsFiniteSet(1 .. n)
    BY FS_Interval
  <2> QED BY <2>1, FS_Subset
<1>2. /\ m \in Nat
      /\ \A k \in 1 .. m : Nth(I, k) \in I
      /\ \A k, l \in 1 .. m : k < l => Nth(I, k) < Nth(I, l)
      /\ \A i \in I : \E k \in 1 .. m : Nth(I, k) = i
  BY <1>1, NthFacts, Zenon
<1>3. DOMAIN p = 1 .. m /\ \A k \in 1 .. m : p[k] = s[Nth(I, k)]
  BY DEF Picked
<1>4. f \in [1 .. m -> Y]
  BY <1>2 DEF ListsBy
<1>5. \A k, l \in 1 .. m : Nth(I, k) = Nth(I, l) => k = l
  <2>1. \A k \in 1 .. m : Nth(I, k) \in Nat
    BY <1>1, <1>2
  <2>2. ASSUME NEW k \in 1 .. m, NEW l \in 1 .. m, Nth(I, k) = Nth(I, l)
        PROVE  k = l
    <3>1. ~(k < l) /\ ~(l < k)
      BY <1>2, <2>1, <2>2
    <3> QED BY <1>2, <3>1
  <2> QED BY <2>2
<1>6. \A k, l \in 1 .. m : f[k] = f[l] => k = l
  BY <1>2, <1>5 DEF ListsBy
<1>7. ASSUME NEW y \in Y PROVE \E k \in 1 .. m : f[k] = y
  <2>1. PICK i \in DOMAIN s : h[i] = y
    BY DEF ListsBy
  <2>2. i \in I
    BY <2>1
  <2>3. PICK k \in 1 .. m : Nth(I, k) = i
    BY <1>2, <2>2
  <2>4. f[k] = y
    BY <2>1, <2>3
  <2> QED BY <2>4
<1>8. \A k \in 1 .. m : s[Nth(I, k)] = g[f[k]]
  BY <1>2 DEF ListsBy
<1>9. DOMAIN Part(g, Y) = Y /\ \A y \in Y : Part(g, Y)[y] = g[y]
  BY DEF Part
<1> HIDE DEF p, f, m
<1>10. ListsBy(p, Part(g, Y), f)
  BY <1>3, <1>4, <1>6, <1>7, <1>8, <1>9 DEF ListsBy
<1> QED BY <1>10 DEF Lists, p

(* What is picked of a sequence lists the positions picked.                 *)
LEMMA PickedLists ==
  ASSUME NEW n \in Nat, NEW s, DOMAIN s = 1 .. n, NEW I \in SUBSET DOMAIN s
  PROVE  Lists(Picked(s, I), Part(s, I))
<1> DEFINE h == [i \in DOMAIN s |-> i]
<1>1. ListsBy(s, s, h)
  BY DEF ListsBy
<1>2. \A i \in DOMAIN s : i \in I <=> h[i] \in I
  OBVIOUS
<1> HIDE DEF h
<1> QED BY <1>1, <1>2, ListsPicked

(* One list after another                                                   *)
LEMMA ListsConcat ==
  ASSUME NEW S, NEW s \in Seq(S), NEW r \in Seq(S), NEW g, NEW A, NEW B,
         A \cap B = {}, Lists(s, Part(g, A)), Lists(r, Part(g, B))
  PROVE  Lists(s \o r, Part(g, A \cup B))
<1> DEFINE m == Len(s)
           n == Len(r)
           t == s \o r
<1>1. /\ m \in Nat /\ n \in Nat /\ DOMAIN s = 1 .. m /\ DOMAIN r = 1 .. n
      /\ t \in Seq(S) /\ Len(t) = m + n /\ DOMAIN t = 1 .. m + n
      /\ \A i \in 1 .. m + n : t[i] = IF i <= m THEN s[i] ELSE r[i - m]
  BY ConcatProperties, LenProperties
<1>2. PICK a : ListsBy(s, Part(g, A), a)
  BY DEF Lists
<1>3. PICK b : ListsBy(r, Part(g, B), b)
  BY DEF Lists
<1>4. /\ \A i \in 1 .. m : a[i] \in A /\ s[i] = g[a[i]]
      /\ \A i, j \in 1 .. m : a[i] = a[j] => i = j
      /\ \A y \in A : \E i \in 1 .. m : a[i] = y
  BY <1>1, <1>2, Zenon DEF ListsBy, Part
<1>5. /\ \A i \in 1 .. n : b[i] \in B /\ r[i] = g[b[i]]
      /\ \A i, j \in 1 .. n : b[i] = b[j] => i = j
      /\ \A y \in B : \E i \in 1 .. n : b[i] = y
  BY <1>1, <1>3, Zenon DEF ListsBy, Part
<1> DEFINE f == [i \in 1 .. m + n |-> IF i <= m THEN a[i] ELSE b[i - m]]
<1> HIDE DEF m, n, t
<1>6. \A i \in 1 .. m + n : i <= m => i \in 1 .. m /\ f[i] = a[i]
  BY <1>1
<1>7. \A i \in 1 .. m + n : ~(i <= m) => i - m \in 1 .. n /\ f[i] = b[i - m]
  BY <1>1
<1>8. DOMAIN f = 1 .. m + n
  OBVIOUS
<1>9. ASSUME NEW i \in 1 .. m + n PROVE f[i] \in A \cup B /\ t[i] = g[f[i]]
  BY <1>1, <1>4, <1>5, <1>6, <1>7
<1>10. f \in [1 .. m + n -> A \cup B]
  BY <1>9
<1>11. ASSUME NEW i \in 1 .. m + n, NEW j \in 1 .. m + n, f[i] = f[j] PROVE i = j
  <2>1. CASE i <= m /\ j <= m
    BY <1>4, <1>6, <1>11, <2>1
  <2>2. CASE ~(i <= m) /\ ~(j <= m)
    <3>1. i - m = j - m
      BY <1>5, <1>7, <1>11, <2>2
    <3> QED BY <1>1, <3>1
  <2>3. CASE i <= m /\ ~(j <= m)
    BY <1>4, <1>5, <1>6, <1>7, <1>11, <2>3
  <2>4. CASE ~(i <= m) /\ j <= m
    BY <1>4, <1>5, <1>6, <1>7, <1>11, <2>4
  <2> QED BY <2>1, <2>2, <2>3, <2>4
<1>12. ASSUME NEW y \in A \cup B PROVE \E i \in 1 .. m + n : f[i] = y
  <2>1. CASE y \in A
    <3>1. PICK i \in 1 .. m : a[i] = y
      BY <1>4, <2>1
    <3>2. i \in 1 .. m + n /\ i <= m
      BY <1>1
    <3> QED BY <1>6, <3>1, <3>2
  <2>2. CASE y \in B
    <3>1. PICK i \in 1 .. n : b[i] = y
      BY <1>5, <2>2
    <3>2. PICK j \in 1 .. m + n : j = i + m
      BY <1>1
    <3>3. ~(j <= m) /\ j - m = i
      BY <1>1, <3>2
    <3>4. f[j] = b[i]
      BY <1>7, <3>3
    <3> QED BY <3>1, <3>4
  <2> QED BY <2>1, <2>2
<1> HIDE DEF f
<1>13. DOMAIN Part(g, A \cup B) = A \cup B
       /\ \A y \in A \cup B : Part(g, A \cup B)[y] = g[y]
  BY DEF Part
<1>14. ListsBy(t, Part(g, A \cup B), f)
  BY <1>1, <1>9, <1>10, <1>11, <1>12, <1>13, Zenon DEF ListsBy
<1> QED BY <1>14 DEF Lists, t

(* The recursive function of FlattenSeq: f from how many are joined         *)
FlattensBy(seqs, f) ==
  f = [i \in 1 .. Len(seqs) |-> IF i = 1 THEN seqs[i] ELSE f[i - 1] \o seqs[i]]

LEMMA FlattenIs ==
  ASSUME NEW seqs, Len(seqs) \in Nat \ {0}
  PROVE  \E f : FlattensBy(seqs, f) /\ FlattenSeq(seqs) = f[Len(seqs)]
<1> DEFINE n == Len(seqs)
           Value(f, i) == IF i = 1 THEN seqs[i] ELSE f[i - 1] \o seqs[i]
           T == {k \in 0 .. n : \E f : DOMAIN f = 1 .. n /\ \A i \in 1 .. k : f[i] = Value(f, i)}
<1>1. 0 \in T
  <2> DEFINE f == [i \in 1 .. n |-> <<>>]
  <2>1. DOMAIN f = 1 .. n /\ \A i \in 1 .. 0 : f[i] = Value(f, i)
    OBVIOUS
  <2> HIDE DEF f, Value
  <2> QED BY <2>1
<1>2. ASSUME NEW k \in 0 .. n - 1, k \in T PROVE k + 1 \in T
  <2>1. PICK f : DOMAIN f = 1 .. n /\ \A i \in 1 .. k : f[i] = Value(f, i)
    BY <1>2
  <2> DEFINE v == Value(f, k + 1)
             g == [i \in 1 .. n |-> IF i = k + 1 THEN v ELSE f[i]]
  <2>2. k + 1 \in 1 .. n /\ k + 1 \in 0 .. n /\ k \in Nat
    OBVIOUS
  <2>3. ASSUME NEW i \in 1 .. k + 1 PROVE g[i] = Value(g, i)
    <3>1. i # 1 => g[i - 1] = f[i - 1]
      <4> HIDE DEF v
      <4> QED BY <2>2
    <3>2. Value(g, i) = Value(f, i)
      <4> HIDE DEF g
      <4> QED BY <3>1
    <3>3. CASE i = k + 1
      <4>1. g[i] = v
        <5> HIDE DEF v
        <5> QED BY <2>2, <3>3
      <4>2. v = Value(f, i)
        BY <3>3
      <4> HIDE DEF g, v, Value
      <4> QED BY <3>2, <4>1, <4>2
    <3>4. CASE i # k + 1
      <4>1. i \in 1 .. k /\ i \in 1 .. n
        BY <3>4, <2>2
      <4>2. g[i] = f[i]
        <5> HIDE DEF v
        <5> QED BY <3>4, <4>1
      <4>3. f[i] = Value(f, i)
        BY <2>1, <4>1, Zenon
      <4> HIDE DEF g, Value
      <4> QED BY <3>2, <4>2, <4>3
    <3> QED BY <3>3, <3>4
  <2>4. DOMAIN g = 1 .. n
    OBVIOUS
  <2> HIDE DEF g, Value
  <2> QED BY <2>2, <2>3, <2>4
<1>3. n \in T
  <2> HIDE DEF T
  <2> QED BY <1>1, <1>2, UpTo
<1>4. PICK f : DOMAIN f = 1 .. n /\ \A i \in 1 .. n : f[i] = Value(f, i)
  <2> HIDE DEF Value
  <2> QED BY <1>3
<1> DEFINE h == [i \in 1 .. n |-> f[i]]
<1>5. \A i \in 1 .. n : i # 1 => h[i - 1] = f[i - 1]
  OBVIOUS
<1>6. \A i \in 1 .. n : h[i] = Value(h, i)
  <2>1. \A i \in 1 .. n : h[i] = f[i]
    OBVIOUS
  <2> HIDE DEF h
  <2> QED BY <1>4, <1>5, <2>1, Zenon
<1>7. h = [i \in 1 .. n |-> Value(h, i)]
  <2>1. h = [i \in 1 .. n |-> h[i]]
    OBVIOUS
  <2> HIDE DEF h, Value, n
  <2> QED BY <1>6, <2>1
<1> HIDE DEF h
<1>8. FlattensBy(seqs, h)
  BY <1>7, Zenon DEF FlattensBy
<1> DEFINE c == CHOOSE e : FlattensBy(seqs, e)
<1>9. FlattensBy(seqs, c)
  BY <1>8
<1>10. FlattenSeq(seqs) = c[n]
  BY DEF FlattenSeq, FlattensBy
<1> HIDE DEF c
<1> QED BY <1>9, <1>10

(* Lists of the parts of a function, joined, list the function.             *)
LEMMA FlattenedLists ==
  ASSUME NEW S, NEW seqs \in Seq(Seq(S)), NEW g, NEW D, NEW all,
         \A k \in 1 .. Len(seqs) : Lists(seqs[k], Part(g, D[k])),
         \A k, l \in 1 .. Len(seqs) : k # l => D[k] \cap D[l] = {},
         \A y : y \in all <=> \E k \in 1 .. Len(seqs) : y \in D[k]
  PROVE  FlattenSeq(seqs) \in Seq(S) /\ Lists(FlattenSeq(seqs), Part(g, all))
<1> DEFINE n == Len(seqs)
           U(m) == UNION {D[k] : k \in 1 .. m}
<1>1. n \in Nat /\ \A k \in 1 .. n : seqs[k] \in Seq(S)
  OBVIOUS
<1>a. U(n) = all
  OBVIOUS
<1>2. CASE n = 0
  <2>1. FlattenSeq(seqs) = <<>>
    BY <1>2 DEF FlattenSeq
  <2>2. DOMAIN Part(g, U(n)) = {}
    BY <1>2 DEF Part
  <2>3. DOMAIN <<>> = {}
    OBVIOUS
  <2> DEFINE h == [y \in {} |-> y]
  <2>4. h \in [DOMAIN <<>> -> DOMAIN Part(g, U(n))]
    BY <2>2, <2>3
  <2>5. ListsBy(<<>>, Part(g, U(n)), h)
    <3> HIDE DEF h, U
    <3> QED BY <2>2, <2>3, <2>4 DEF ListsBy
  <2> HIDE DEF h, U
  <2>6. <<>> \in Seq(S)
    OBVIOUS
  <2> QED BY <1>a, <2>1, <2>5, <2>6 DEF Lists
<1>3. CASE n # 0
  <2>1. PICK f : FlattensBy(seqs, f) /\ FlattenSeq(seqs) = f[n]
    BY <1>1, <1>3, FlattenIs
  <2>2. f[1] = seqs[1] /\ \A i \in 1 .. n - 1 : f[i + 1] = f[i] \o seqs[i + 1]
    <3>1. \A i \in 1 .. n : f[i] = IF i = 1 THEN seqs[i] ELSE f[i - 1] \o seqs[i]
      BY <2>1, Zenon DEF FlattensBy
    <3>2. f[1] = seqs[1]
      BY <1>1, <1>3, <3>1
    <3>3. ASSUME NEW i \in 1 .. n - 1 PROVE f[i + 1] = f[i] \o seqs[i + 1]
      <4>1. PICK j \in 1 .. n : j = i + 1
        BY <1>1
      <4>2. j # 1 /\ j - 1 = i
        BY <1>1, <4>1
      <4>3. f[j] = f[j - 1] \o seqs[j]
        BY <3>1, <4>2, Zenon
      <4> QED BY <4>1, <4>2, <4>3, Zenon
    <3> QED BY <3>2, <3>3, Zenon
  <2> DEFINE T == {m \in 0 .. n - 1 : f[m + 1] \in Seq(S) /\ Lists(f[m + 1], Part(g, U(m + 1)))}
  <2>3. 0 \in T
    <3>1. U(1) = D[1]
      OBVIOUS
    <3>2. seqs[1] \in Seq(S) /\ Lists(seqs[1], Part(g, D[1])) /\ 0 \in 0 .. n - 1
      BY <1>1, <1>3
    <3> HIDE DEF U
    <3> QED BY <2>2, <3>1, <3>2
  <2>4. ASSUME NEW m \in 0 .. n - 1 - 1, m \in T PROVE m + 1 \in T
    <3>1. m + 1 \in 1 .. n - 1 /\ m + 1 + 1 \in 1 .. n /\ m + 1 \in 0 .. n - 1 /\ m \in Nat
      BY <1>1
    <3>2. f[m + 1 + 1] = f[m + 1] \o seqs[m + 1 + 1]
      BY <2>2, <3>1, Zenon
    <3>3. f[m + 1] \in Seq(S) /\ Lists(f[m + 1], Part(g, U(m + 1)))
      BY <2>4
    <3>4. seqs[m + 1 + 1] \in Seq(S) /\ Lists(seqs[m + 1 + 1], Part(g, D[m + 1 + 1]))
      BY <1>1, <3>1
    <3>5. U(m + 1) \cap D[m + 1 + 1] = {}
      <4> DEFINE E == D[m + 1 + 1]
      <4>1. ASSUME NEW k \in 1 .. m + 1 PROVE D[k] \cap E = {}
        <5>1. k \in 1 .. n /\ k # m + 1 + 1
          BY <3>1
        <5> QED BY <3>1, <5>1
      <4> HIDE DEF E
      <4>2. U(m + 1) \cap E = {}
        BY <4>1
      <4> QED BY <4>2 DEF E
    <3>6. U(m + 1 + 1) = U(m + 1) \cup D[m + 1 + 1]
      <4>1. PICK j : j = m + 1
        OBVIOUS
      <4>2. j \in Nat
        BY <3>1, <4>1
      <4>3. \A k : k \in 1 .. j + 1 <=> k \in 1 .. j \/ k = j + 1
        BY <4>2
      <4>4. U(j + 1) = U(j) \cup D[j + 1]
        BY <4>3
      <4> QED BY <4>1, <4>4
    <3> HIDE DEF U
    <3>7. f[m + 1 + 1] \in Seq(S)
      BY <3>2, <3>3, <3>4, ConcatProperties
    <3>8. Lists(f[m + 1] \o seqs[m + 1 + 1], Part(g, U(m + 1) \cup D[m + 1 + 1]))
      BY <3>3, <3>4, <3>5, ListsConcat, Zenon
    <3> QED BY <3>1, <3>2, <3>6, <3>7, <3>8, Zenon
  <2>5. n - 1 \in Nat /\ n - 1 + 1 = n
    BY <1>1, <1>3
  <2>6. n - 1 \in T
    <3> HIDE DEF T, n
    <3> QED BY <2>3, <2>4, <2>5, UpTo
  <2>7. f[n] \in Seq(S) /\ Lists(f[n], Part(g, U(n)))
    <3> HIDE DEF U, n
    <3> QED BY <2>5, <2>6
  <2> HIDE DEF U, n
  <2> QED BY <1>a, <2>1, <2>7
<1> QED BY <1>2, <1>3

-----------------------------------------------------------------------------
(* The tables of a run, as the export reads them                            *)

Sound(d) == TablesOK(d) /\ Grouped(d) /\ UnlocatedApart(d) /\ RowsAnswered(d)

PlainRows(d)     == [i \in DOMAIN d.candidate |->
                       [unit |-> d.candidate[i].unit, cand |-> d.candidate[i].cand]]
RowsOf(d, t)     == {i \in DOMAIN d.candidate : d.candidate[i].unit[1] = t}
LocatedRows(d)   == {i \in DOMAIN d.candidate : IsLocated(CandOf(d, i))}
LocatedOnes(d)   == {f \in DOMAIN d.finding : d.finding[f].locate = "located"}
FindingsOf(d, t) == {f \in LocatedOnes(d) : d.finding[f].target = t}

LEMMA StoredRows ==
  ASSUME NEW d, Sound(d)
  PROVE  /\ Len(d.candidate) \in Nat /\ DOMAIN d.candidate = 1 .. Len(d.candidate)
         /\ IsFiniteSet(DOMAIN d.candidate) /\ IsFiniteSet(DOMAIN d.finding)
         /\ DOMAIN d.finding \subseteq 1 .. Len(d.candidate)
         /\ \A i \in DOMAIN d.candidate :
              /\ d.candidate[i].unit \in CheckUnits
              /\ CandOf(d, i) \in Candidate
              /\ d.candidate[i].finding \in Nat
<1>1. d.candidate \in Seq(CandidateRow) /\ DOMAIN d.finding \subseteq 1 .. Len(d.candidate)
  BY DEF Sound, TablesOK
<1>2. Len(d.candidate) \in Nat /\ DOMAIN d.candidate = 1 .. Len(d.candidate)
  BY <1>1
<1>3. IsFiniteSet(DOMAIN d.candidate)
  BY <1>2, FS_Interval
<1>4. IsFiniteSet(DOMAIN d.finding)
  BY <1>1, <1>2, <1>3, FS_Subset
<1>5. ASSUME NEW i \in DOMAIN d.candidate
      PROVE  d.candidate[i].unit \in CheckUnits /\ CandOf(d, i) \in Candidate
             /\ d.candidate[i].finding \in Nat
  <2>1. d.candidate[i] \in CandidateRow
    BY <1>1, <1>2
  <2> QED BY <2>1 DEF CandidateRow, CandOf
<1> QED BY <1>1, <1>2, <1>3, <1>4, <1>5

(* A located row belongs to a located finding of its own target.            *)
LEMMA LocatedRow ==
  ASSUME NEW d, Sound(d), NEW i \in LocatedRows(d)
  PROVE  LET f == d.candidate[i].finding
         IN  /\ f \in FindingsOf(d, d.candidate[i].unit[1])
             /\ d.finding[f].at = CandOf(d, i).at /\ d.finding[f].fix = CandOf(d, i).fix
             /\ d.finding[f].at \in Ranges
             /\ CandOf(d, i).fix = NoFix => f = i
<1> DEFINE f == d.candidate[i].finding
<1>1. i \in DOMAIN d.candidate /\ IsLocated(CandOf(d, i))
  BY DEF LocatedRows
<1>2. /\ f \in DOMAIN d.finding /\ d.finding[f].locate = "located"
      /\ d.finding[f].at = CandOf(d, i).at /\ d.finding[f].fix = CandOf(d, i).fix
      /\ CandOf(d, i).fix = NoFix => f = i
  BY <1>1 DEF Sound, Grouped, RowsHaveFindings
<1>3. f \in DOMAIN d.candidate
  BY <1>2, StoredRows
<1>4. d.candidate[f].finding = f /\ IsLocated(CandOf(d, f))
  BY <1>2 DEF Sound, Grouped, FindingsHaveMakers
<1>5. d.finding[f].at = CandOf(d, f).at
  BY <1>3, <1>4 DEF Sound, Grouped, RowsHaveFindings
<1>6. d.candidate[f].unit[1] = d.candidate[i].unit[1]
  <2>1. CandOf(d, f).at = CandOf(d, i).at
    BY <1>2, <1>5
  <2>2. d.candidate[f].unit \in CheckUnits /\ d.candidate[i].unit \in CheckUnits
    BY <1>1, <1>3, StoredRows
  <2>3. \E a \in AnswersTo[d.candidate[f].unit] : \E j \in DOMAIN a : a[j] = CandOf(d, f)
    BY <1>3 DEF Sound, RowsAnswered
  <2>4. \E a \in AnswersTo[d.candidate[i].unit] : \E j \in DOMAIN a : a[j] = CandOf(d, i)
    BY <1>1 DEF Sound, RowsAnswered
  <2> QED BY <1>1, <1>4, <2>1, <2>2, <2>3, <2>4, PlaceOfTarget
<1>7. d.finding[f].target = d.candidate[i].unit[1]
  BY <1>2, <1>6 DEF Sound, UnlocatedApart
<1>8. CandOf(d, i).at \in Ranges
  BY <1>1, StoredRows, CandidateFields
<1> QED BY <1>2, <1>7, <1>8 DEF FindingsOf, LocatedOnes

(* The rows of a located finding, its maker among them                      *)
LEMMA LocatedSources ==
  ASSUME NEW d, Sound(d), NEW f \in LocatedOnes(d)
  PROVE  /\ f \in Sources(d, f)
         /\ Sources(d, f) \subseteq LocatedRows(d) \cap RowsOf(d, d.finding[f].target)
         /\ IsFiniteSet(Sources(d, f))
<1>1. f \in DOMAIN d.finding /\ f \in DOMAIN d.candidate /\ d.finding[f].locate = "located"
  BY StoredRows DEF LocatedOnes
<1>2. d.candidate[f].finding = f /\ IsLocated(CandOf(d, f))
  BY <1>1 DEF Sound, Grouped, FindingsHaveMakers
<1>3. ASSUME NEW i \in Sources(d, f)
      PROVE  i \in LocatedRows(d) /\ i \in RowsOf(d, d.finding[f].target)
  <2>1. i \in DOMAIN d.candidate /\ d.candidate[i].finding = f
    BY DEF Sources
  <2>2. f # 0
    BY <1>1, StoredRows
  <2>3. IsLocated(CandOf(d, i))
    <3>1. ~IsLocated(CandOf(d, i)) => d.candidate[i].finding \in {0, i}
      BY <2>1 DEF Sound, Grouped, RowsHaveFindings
    <3> QED BY <1>2, <2>1, <2>2, <3>1
  <2>4. i \in LocatedRows(d)
    BY <2>1, <2>3 DEF LocatedRows
  <2>5. f \in FindingsOf(d, d.candidate[i].unit[1])
    BY <2>1, <2>4, LocatedRow
  <2> QED BY <2>1, <2>4, <2>5 DEF FindingsOf, RowsOf
<1>4. IsFiniteSet(Sources(d, f))
  BY StoredRows, FS_Subset DEF Sources
<1> QED BY <1>1, <1>2, <1>3, <1>4 DEF Sources

(* A finding that is not located has one row, its maker.                    *)
LEMMA UnlocatedSource ==
  ASSUME NEW d, Sound(d), NEW f \in DOMAIN d.finding \ LocatedOnes(d)
  PROVE  /\ Sources(d, f) = {f} /\ f \in DOMAIN d.candidate \ LocatedRows(d)
         /\ d.finding[f].locate = CandOf(d, f).locate
<1>1. f \in DOMAIN d.finding /\ f \in DOMAIN d.candidate /\ f # 0
      /\ d.finding[f].locate # "located"
  BY StoredRows DEF LocatedOnes
<1>2. d.candidate[f].finding = f /\ ~IsLocated(CandOf(d, f))
  BY <1>1 DEF Sound, Grouped, FindingsHaveMakers
<1>3. d.finding[f].locate = CandOf(d, f).locate
  BY <1>1, <1>2 DEF Sound, UnlocatedApart
<1>4. ASSUME NEW i \in Sources(d, f) PROVE i = f
  <2>1. i \in DOMAIN d.candidate /\ d.candidate[i].finding = f
    BY DEF Sources
  <2>2. ~IsLocated(CandOf(d, i))
    <3>1. IsLocated(CandOf(d, i)) => d.finding[f].locate = "located"
      BY <2>1 DEF Sound, Grouped, RowsHaveFindings
    <3> QED BY <1>1, <3>1
  <2>3. d.candidate[i].finding \in {0, i}
    BY <2>1, <2>2 DEF Sound, Grouped, RowsHaveFindings
  <2> QED BY <1>1, <2>1, <2>3
<1>5. f \in Sources(d, f)
  BY <1>1, <1>2 DEF Sources
<1> QED BY <1>1, <1>2, <1>3, <1>4, <1>5 DEF LocatedRows

(* Every row that was not located is such a finding's, or of none.          *)
LEMMA UnlocatedRows ==
  ASSUME NEW d, Sound(d)
  PROVE  /\ DOMAIN d.candidate \ LocatedRows(d)
              = (DOMAIN d.finding \ LocatedOnes(d)) \cup Sources(d, 0)
         /\ (DOMAIN d.finding \ LocatedOnes(d)) \cap Sources(d, 0) = {}
         /\ \A i \in Sources(d, 0) : CandOf(d, i).locate = "outside-target"
<1>1. 0 \notin DOMAIN d.finding
  BY StoredRows
<1>2. ASSUME NEW i \in DOMAIN d.candidate \ LocatedRows(d)
      PROVE  IF CandOf(d, i).locate = "outside-target" THEN i \in Sources(d, 0)
             ELSE i \in DOMAIN d.finding \ LocatedOnes(d)
  <2>1. ~IsLocated(CandOf(d, i))
    BY DEF LocatedRows
  <2>2. IF CandOf(d, i).locate = "outside-target" THEN d.candidate[i].finding = 0
        ELSE i \in DOMAIN d.finding /\ d.finding[i].locate = CandOf(d, i).locate
    BY <2>1 DEF Sound, UnlocatedApart
  <2> QED BY <2>1, <2>2 DEF Sources, LocatedOnes, IsLocated
<1>3. ASSUME NEW i \in Sources(d, 0)
      PROVE  i \in DOMAIN d.candidate \ LocatedRows(d) /\ CandOf(d, i).locate = "outside-target"
  <2>1. i \in DOMAIN d.candidate /\ d.candidate[i].finding = 0
    BY DEF Sources
  <2>2. ~IsLocated(CandOf(d, i))
    BY <1>1, <2>1 DEF Sound, Grouped, RowsHaveFindings
  <2>3. i # 0
    BY <2>1, StoredRows
  <2>4. CandOf(d, i).locate = "outside-target"
    BY <2>1, <2>2, <2>3 DEF Sound, UnlocatedApart
  <2> QED BY <2>1, <2>2, <2>4 DEF LocatedRows
<1>4. ASSUME NEW f \in DOMAIN d.finding \ LocatedOnes(d), f \in Sources(d, 0) PROVE FALSE
  <2>1. Sources(d, f) = {f}
    BY UnlocatedSource
  <2>2. d.candidate[f].finding = f /\ d.candidate[f].finding = 0
    BY <1>4, <2>1 DEF Sources
  <2> QED BY <1>1, <2>2
<1>5. \A f \in DOMAIN d.finding \ LocatedOnes(d) : f \in DOMAIN d.candidate \ LocatedRows(d)
  BY UnlocatedSource
<1> QED BY <1>2, <1>3, <1>4, <1>5

(* Located rows are of one finding exactly if mergeCandidates would put     *)
(* them in one group.                                                       *)
LEMMA OneFinding ==
  ASSUME NEW d, Sound(d), NEW i \in LocatedRows(d), NEW j \in LocatedRows(d)
  PROVE  d.candidate[i].finding = d.candidate[j].finding <=>
           i = j \/ (/\ MergeKey(CandOf(d, i)) # NoKey
                     /\ MergeKey(CandOf(d, i)) = MergeKey(CandOf(d, j)))
<1> DEFINE f == d.candidate[i].finding
           g == d.candidate[j].finding
           a == CandOf(d, i)
           b == CandOf(d, j)
<1>1. a \in Candidate /\ b \in Candidate /\ IsLocated(a) /\ IsLocated(b)
  BY StoredRows DEF LocatedRows
<1>2. /\ f \in LocatedOnes(d) /\ g \in LocatedOnes(d)
      /\ d.finding[f].at = a.at /\ d.finding[f].fix = a.fix
      /\ d.finding[g].at = b.at /\ d.finding[g].fix = b.fix
      /\ a.fix = NoFix => f = i
      /\ b.fix = NoFix => g = j
  BY LocatedRow DEF FindingsOf
<1>3. ASSUME NEW r \in LocatedRows(d)
      PROVE  LET h == d.candidate[r].finding
             IN  h \in DOMAIN d.finding /\ d.finding[h].key = MergeKey(CandOf(d, r))
  <2> DEFINE h == d.candidate[r].finding
  <2>1. h \in LocatedOnes(d) /\ d.finding[h].at = CandOf(d, r).at
        /\ d.finding[h].fix = CandOf(d, r).fix
    BY LocatedRow DEF FindingsOf
  <2>2. h \in LocatedRows(d) /\ d.candidate[h].finding = h
    BY <2>1, LocatedSources, Zenon DEF Sources
  <2>3. d.finding[h].at = CandOf(d, h).at /\ d.finding[h].fix = CandOf(d, h).fix
    BY <2>2, LocatedRow
  <2>4. CandOf(d, h) \in Candidate /\ CandOf(d, r) \in Candidate
        /\ IsLocated(CandOf(d, h)) /\ IsLocated(CandOf(d, r))
    BY <2>2, StoredRows DEF LocatedRows
  <2>5. MergeKey(CandOf(d, h)) = MergeKey(CandOf(d, r))
    BY <2>1, <2>3, <2>4, KeyFacts, Zenon
  <2>6. h \in DOMAIN d.finding
    BY <2>1 DEF LocatedOnes
  <2>7. d.finding[h].key = MergeKey(CandOf(d, h))
    BY <2>4, <2>6 DEF Sound, Grouped, FindingsHaveMakers
  <2> QED BY <2>5, <2>6, <2>7
<1>4. f \in DOMAIN d.finding /\ d.finding[f].key = MergeKey(a)
      /\ g \in DOMAIN d.finding /\ d.finding[g].key = MergeKey(b)
  BY <1>3
<1>5. ASSUME f = g PROVE i = j \/ (MergeKey(a) # NoKey /\ MergeKey(a) = MergeKey(b))
  <2>1. CASE a.fix = NoFix
    BY <1>2, <1>5, <2>1
  <2>2. CASE a.fix # NoFix
    <3>1. MergeKey(a) # NoKey
      BY <1>1, <2>2, KeyFacts
    <3> QED BY <1>4, <1>5, <3>1
  <2> QED BY <2>1, <2>2
<1>6. ASSUME MergeKey(a) # NoKey, MergeKey(a) = MergeKey(b) PROVE f = g
  BY <1>4, <1>6 DEF Sound, Grouped, KeysDiffer
<1> QED BY <1>5, <1>6

(* A stretch of positions, as a sequence                                    *)
LEMMA StretchLists ==
  ASSUME NEW n \in Nat, NEW m \in Nat, NEW s, DOMAIN s = 1 .. m, NEW g,
         \A k \in 1 .. m : s[k] = g[n + k]
  PROVE  Lists(s, Part(g, n + 1 .. n + m))
<1> DEFINE h == [k \in 1 .. m |-> n + k]
           A == n + 1 .. n + m
<1>1. DOMAIN Part(g, A) = A /\ \A y \in A : Part(g, A)[y] = g[y]
  BY DEF Part
<1>2. h \in [1 .. m -> A]
  OBVIOUS
<1>3. \A i, j \in 1 .. m : h[i] = h[j] => i = j
  OBVIOUS
<1>4. ASSUME NEW y \in A PROVE \E i \in 1 .. m : h[i] = y
  <2>1. y - n \in 1 .. m /\ h[y - n] = y
    OBVIOUS
  <2> QED BY <2>1
<1>5. \A i \in 1 .. m : s[i] = g[h[i]]
  OBVIOUS
<1> HIDE DEF h, A
<1>6. ListsBy(s, Part(g, A), h)
  BY <1>1, <1>2, <1>3, <1>4, <1>5 DEF ListsBy
<1> QED BY <1>6 DEF Lists, A

(* The answers saved for a target list its rows.                            *)
LEMMA SavedRowsList ==
  ASSUME TypeOK, Sound(disk), AnswersSavedOnce, NEW t \in Targets
  PROVE  /\ SavedRows(t) \in Seq(PipeRow)
         /\ Lists(SavedRows(t), Part(PlainRows(disk), RowsOf(disk, t)))
<1> DEFINE Block(p)  == {i \in DOMAIN disk.candidate : disk.candidate[i].unit = <<t, p>>}
           L(p)      == IF disk.unit[<<t, p>>] = "done" THEN Len(given[<<t, p>>]) ELSE 0
           part(p)   == [i \in 1 .. L(p) |-> [unit |-> <<t, p>>, cand |-> given[<<t, p>>][i]]]
           seqs      == [p \in Perspectives |-> part(p)]
           D         == [p \in Perspectives |-> Block(p)]
           g         == PlainRows(disk)
<1>1. ASSUME NEW p \in Perspectives
      PROVE  part(p) \in Seq(PipeRow) /\ Lists(part(p), Part(g, Block(p)))
  <2> DEFINE u      == <<t, p>>
             answer == IF disk.unit[u] = "done" THEN given[u] ELSE <<>>
             m      == Len(answer)
             s      == part(p)
  <2>1. u \in CheckUnits
    BY DEF CheckUnits
  <2>2. given[u] \in Seq(Candidate)
    BY <2>1 DEF TypeOK
  <2>3. answer \in Seq(Candidate)
    BY <2>2
  <2>4. PICK n \in 0 .. Len(disk.candidate) : SavedAfter(disk, u, n, answer)
    BY <2>1 DEF AnswersSavedOnce
  <2>5. m = L(p) /\ m \in Nat /\ DOMAIN answer = 1 .. m
        /\ \A i \in 1 .. m : answer[i] = given[u][i] /\ given[u][i] \in Candidate
    BY <2>2, <2>3
  <2> HIDE DEF answer, L
  <2>6. /\ Block(p) = n + 1 .. n + m
        /\ \A k \in 1 .. m : disk.candidate[n + k].cand = answer[k]
    BY <2>4, <2>5, Zenon DEF SavedAfter
  <2>7. n \in Nat
    BY StoredRows
  <2>8. ASSUME NEW k \in 1 .. m PROVE s[k] = g[n + k] /\ s[k] \in PipeRow
    <3>1. PICK j : j = n + k
      OBVIOUS
    <3>2. j \in n + 1 .. n + m
      BY <2>5, <2>7, <3>1
    <3>3. j \in DOMAIN disk.candidate /\ disk.candidate[j].unit = u
      BY <2>6, <3>2
    <3>4. g[j] = [unit |-> u, cand |-> disk.candidate[j].cand]
      BY <3>3 DEF PlainRows
    <3>5. disk.candidate[j].cand = given[u][k]
      BY <2>5, <2>6, <3>1, Zenon
    <3>6. s[k] = [unit |-> u, cand |-> given[u][k]]
      BY <2>5
    <3>7. s[k] \in PipeRow
      BY <2>1, <2>5, <3>6 DEF PipeRow
    <3> HIDE DEF s, g
    <3> QED BY <3>1, <3>4, <3>5, <3>6, <3>7
  <2>9. DOMAIN s = 1 .. m
    BY <2>5
  <2>10. s \in Seq(PipeRow)
    <3>1. s = [k \in 1 .. m |-> s[k]]
      BY <2>5
    <3> HIDE DEF s
    <3>2. s \in [1 .. m -> PipeRow]
      BY <2>8, <3>1
    <3> QED BY <2>5, <3>2
  <2> HIDE DEF s, g, m, Block
  <2>11. Lists(s, Part(g, n + 1 .. n + m))
    BY <2>5, <2>7, <2>8, <2>9, StretchLists, Zenon
  <2> QED BY <2>6, <2>10, <2>11 DEF s
<1>2. Perspectives = 1 .. NumPerspectives /\ NumPerspectives \in Nat
  BY MergingAssumption DEF Perspectives
<1>3. seqs \in Seq(Seq(PipeRow)) /\ Len(seqs) = NumPerspectives
  <2>1. seqs \in [1 .. NumPerspectives -> Seq(PipeRow)]
    <3> HIDE DEF part
    <3> QED BY <1>1, <1>2, Zenon
  <2> HIDE DEF seqs
  <2> QED BY <1>2, <2>1
<1>4. \A p \in 1 .. Len(seqs) : Lists(seqs[p], Part(g, D[p]))
  <2>1. \A p \in Perspectives : seqs[p] = part(p) /\ D[p] = Block(p)
    OBVIOUS
  <2> HIDE DEF seqs, D, part, Block, g
  <2> QED BY <1>1, <1>2, <1>3, <2>1
<1>5. \A p, q \in 1 .. Len(seqs) : p # q => D[p] \cap D[q] = {}
  <2>1. \A p, q \in Perspectives : p # q => Block(p) \cap Block(q) = {}
    OBVIOUS
  <2>2. \A p \in Perspectives : D[p] = Block(p)
    OBVIOUS
  <2> HIDE DEF seqs, D, Block
  <2> QED BY <1>2, <1>3, <2>1, <2>2
<1>6. \A y : y \in RowsOf(disk, t) <=> \E p \in 1 .. Len(seqs) : y \in D[p]
  <2>1. ASSUME NEW i \in RowsOf(disk, t) PROVE \E p \in Perspectives : i \in Block(p)
    <3>1. i \in DOMAIN disk.candidate /\ disk.candidate[i].unit[1] = t
          /\ disk.candidate[i].unit \in CheckUnits
      BY StoredRows DEF RowsOf
    <3>2. PICK p \in Perspectives : disk.candidate[i].unit = <<t, p>>
      BY <3>1 DEF CheckUnits
    <3> QED BY <3>1, <3>2
  <2>2. \A p \in Perspectives : Block(p) \subseteq RowsOf(disk, t)
    BY DEF RowsOf
  <2>3. \A p \in Perspectives : D[p] = Block(p)
    OBVIOUS
  <2> HIDE DEF seqs, D, Block
  <2> QED BY <1>2, <1>3, <2>1, <2>2, <2>3
<1>7. SavedRows(t) = FlattenSeq(seqs)
  BY DEF SavedRows
<1> HIDE DEF seqs, D, g
<1>8. FlattenSeq(seqs) \in Seq(PipeRow)
      /\ Lists(FlattenSeq(seqs), Part(g, RowsOf(disk, t)))
  BY <1>3, <1>4, <1>5, <1>6, FlattenedLists, Zenon
<1> QED BY <1>7, <1>8 DEF g

(* All the answers saved list all rows.                                     *)
LEMMA AllSavedList ==
  ASSUME TypeOK, Sound(disk), AnswersSavedOnce
  PROVE  AllSaved \in Seq(PipeRow) /\ Lists(AllSaved, PlainRows(disk))
<1> DEFINE seqs == [t \in Targets |-> SavedRows(t)]
           D    == [t \in Targets |-> RowsOf(disk, t)]
           g    == PlainRows(disk)
<1>1. Targets = 1 .. NumTargets /\ NumTargets \in Nat
  BY MergingAssumption DEF Targets
<1>2. \A t \in Targets : seqs[t] = SavedRows(t) /\ D[t] = RowsOf(disk, t)
  OBVIOUS
<1>3. seqs \in Seq(Seq(PipeRow)) /\ Len(seqs) = NumTargets
  <2>1. seqs \in [1 .. NumTargets -> Seq(PipeRow)]
    BY <1>1, SavedRowsList
  <2> HIDE DEF seqs
  <2> QED BY <1>1, <2>1
<1>4. DOMAIN g = DOMAIN disk.candidate
  BY DEF PlainRows
<1> HIDE DEF seqs, D, g
<1>5. \A t \in 1 .. Len(seqs) : Lists(seqs[t], Part(g, D[t]))
  BY <1>1, <1>2, <1>3, SavedRowsList DEF g
<1>6. \A t, w \in 1 .. Len(seqs) : t # w => D[t] \cap D[w] = {}
  BY <1>1, <1>2, <1>3 DEF RowsOf
<1>7. \A y : y \in DOMAIN g <=> \E t \in 1 .. Len(seqs) : y \in D[t]
  <2>1. ASSUME NEW i \in DOMAIN disk.candidate PROVE \E t \in Targets : i \in D[t]
    <3>1. disk.candidate[i].unit \in CheckUnits
      BY StoredRows
    <3>2. disk.candidate[i].unit[1] \in Targets
      BY <3>1 DEF CheckUnits
    <3> QED BY <1>2, <3>2 DEF RowsOf
  <2>2. \A t \in Targets : D[t] \subseteq DOMAIN disk.candidate
    BY <1>2 DEF RowsOf
  <2> QED BY <1>1, <1>3, <1>4, <2>1, <2>2
<1>8. FlattenSeq(seqs) \in Seq(PipeRow)
      /\ Lists(FlattenSeq(seqs), Part(g, DOMAIN g))
  BY <1>3, <1>5, <1>6, <1>7, FlattenedLists, Zenon
<1>9. Part(g, DOMAIN g) = g
  BY DEF Part, g, PlainRows
<1>10. AllSaved = FlattenSeq(seqs)
  BY DEF AllSaved, seqs
<1> QED BY <1>8, <1>9, <1>10 DEF g

-----------------------------------------------------------------------------
(* Merging a target's rows at once gives the findings stored of it.         *)

Shown(d) ==
  [f \in DOMAIN d.finding |->
     [target |-> d.finding[f].target, at |-> d.finding[f].at, fix |-> d.finding[f].fix,
      category |-> d.finding[f].category, verdict |-> d.finding[f].verdict,
      perspectives |-> {d.candidate[i].unit[2] : i \in Sources(d, f)},
      size |-> Cardinality(Sources(d, f)), suppressed |-> d.finding[f].suppressed]]

(* located lists the located rows of target t, h tells which is which.      *)
LocatedBy(d, t, n, located, h) ==
  /\ n \in Nat /\ DOMAIN located = 1 .. n
  /\ h \in [1 .. n -> LocatedRows(d) \cap RowsOf(d, t)]
  /\ \A i, j \in 1 .. n : h[i] = h[j] => i = j
  /\ \A y \in LocatedRows(d) \cap RowsOf(d, t) : \E i \in 1 .. n : h[i] = y
  /\ \A i \in 1 .. n : located[i] = PlainRows(d)[h[i]]

CandsOf(located) == [i \in DOMAIN located |-> located[i].cand]

FindingAt(d, h, i) == d.candidate[h[i]].finding

LEMMA LocatedCands ==
  ASSUME NEW d, Sound(d), NEW t, NEW n, NEW located, NEW h, LocatedBy(d, t, n, located, h)
  PROVE  /\ CandsOf(located) \in [1 .. n -> LocatedCandidate]
         /\ \A i \in 1 .. n : /\ CandsOf(located)[i] = CandOf(d, h[i])
                              /\ located[i].unit = d.candidate[h[i]].unit
                              /\ h[i] \in LocatedRows(d) /\ h[i] \in DOMAIN d.candidate
                              /\ FindingAt(d, h, i) \in FindingsOf(d, t)
<1>1. DOMAIN located = 1 .. n
  BY DEF LocatedBy
<1>2. ASSUME NEW i \in 1 .. n
      PROVE  /\ located[i].cand = CandOf(d, h[i]) /\ located[i].unit = d.candidate[h[i]].unit
             /\ h[i] \in LocatedRows(d) /\ h[i] \in DOMAIN d.candidate
             /\ located[i].cand \in LocatedCandidate
             /\ FindingAt(d, h, i) \in FindingsOf(d, t)
  <2>1. h[i] \in LocatedRows(d) \cap RowsOf(d, t) /\ located[i] = PlainRows(d)[h[i]]
    BY DEF LocatedBy
  <2>2. h[i] \in DOMAIN d.candidate /\ IsLocated(CandOf(d, h[i]))
        /\ d.candidate[h[i]].unit[1] = t
    BY <2>1 DEF LocatedRows, RowsOf
  <2>3. located[i].cand = CandOf(d, h[i]) /\ located[i].unit = d.candidate[h[i]].unit
    BY <2>1, <2>2 DEF PlainRows, CandOf
  <2>4. CandOf(d, h[i]) \in Candidate
    BY <2>2, StoredRows
  <2>5. CandOf(d, h[i]) \in LocatedCandidate
    BY <2>2, <2>4 DEF Candidate, UnlocatedCandidate, LocateFailures, IsLocated
  <2>6. d.candidate[h[i]].finding \in FindingsOf(d, t)
    BY <2>1, <2>2, LocatedRow
  <2> QED BY <2>1, <2>2, <2>3, <2>5, <2>6 DEF FindingAt
<1> QED BY <1>1, <1>2 DEF CandsOf

(* A group of the batch is the finding of its rows.                         *)
LEMMA GroupIsFinding ==
  ASSUME NEW d, Sound(d), NEW t, NEW n, NEW located, NEW h, LocatedBy(d, t, n, located, h),
         NEW i \in 1 .. n
  PROVE  LET f == FindingAt(d, h, i)
             M == Members(CandsOf(located), i)
         IN  /\ M = {j \in 1 .. n : FindingAt(d, h, j) = f}
             /\ \A j \in M : h[j] \in Sources(d, f)
             /\ \A r \in Sources(d, f) : \E j \in M : h[j] = r
             /\ IsFiniteSet(M) /\ Cardinality(M) = Cardinality(Sources(d, f))
<1> DEFINE f == FindingAt(d, h, i)
           cands == CandsOf(located)
           M == Members(cands, i)
<1>1. DOMAIN cands = 1 .. n /\ n \in Nat
  BY DEF LocatedBy, CandsOf
<1>2. ASSUME NEW j \in 1 .. n
      PROVE  j \in M <=> FindingAt(d, h, j) = f
  <2>1. h[i] \in LocatedRows(d) /\ h[j] \in LocatedRows(d)
        /\ cands[i] = CandOf(d, h[i]) /\ cands[j] = CandOf(d, h[j])
    BY LocatedCands
  <2>2. h[i] = h[j] <=> i = j
    BY DEF LocatedBy
  <2>3. FindingAt(d, h, i) = FindingAt(d, h, j) <=>
          \/ h[i] = h[j]
          \/ (/\ MergeKey(CandOf(d, h[i])) # NoKey
              /\ MergeKey(CandOf(d, h[i])) = MergeKey(CandOf(d, h[j])))
    BY <2>1, OneFinding DEF FindingAt
  <2>4. j \in M <=> SameGroup(cands, i, j)
    BY <1>1 DEF Members
  <2> HIDE DEF cands, M
  <2> QED BY <2>1, <2>2, <2>3, <2>4 DEF SameGroup
<1>3. M = {j \in 1 .. n : FindingAt(d, h, j) = f}
  <2>1. M \subseteq 1 .. n
    BY <1>1 DEF Members
  <2> HIDE DEF M, f
  <2> QED BY <1>2, <2>1, Zenon
<1>4. \A j \in M : h[j] \in Sources(d, f)
  <2>1. \A j \in 1 .. n : h[j] \in DOMAIN d.candidate
    BY LocatedCands
  <2> HIDE DEF M, f
  <2> QED BY <1>3, <2>1 DEF Sources, FindingAt
<1>5. ASSUME NEW r \in Sources(d, f) PROVE \E j \in M : h[j] = r
  <2>1. f \in LocatedOnes(d) /\ d.finding[f].target = t
    BY LocatedCands DEF FindingsOf
  <2>2. r \in LocatedRows(d) \cap RowsOf(d, t)
    BY <2>1, LocatedSources
  <2>3. PICK j \in 1 .. n : h[j] = r
    BY <2>2 DEF LocatedBy
  <2>4. FindingAt(d, h, j) = f
    BY <2>3 DEF Sources, FindingAt
  <2> HIDE DEF M, f
  <2> QED BY <1>3, <2>3, <2>4
<1>6. IsFiniteSet(M)
  BY <1>1, FS_Interval, FS_Subset DEF Members
<1>7. Cardinality(M) = Cardinality(Sources(d, f))
  <2> DEFINE b == [j \in M |-> h[j]]
  <2>1. b \in [M -> Sources(d, f)]
    BY <1>4
  <2>2. \A j, k \in M : b[j] = b[k] => j = k
    <3>1. \A j, k \in 1 .. n : h[j] = h[k] => j = k
      BY DEF LocatedBy
    <3>2. M \subseteq 1 .. n
      BY <1>3
    <3> HIDE DEF M
    <3> QED BY <3>1, <3>2
  <2>3. \A r \in Sources(d, f) : \E j \in M : b[j] = r
    BY <1>5
  <2> HIDE DEF M, f, b
  <2>4. b \in Bijection(M, Sources(d, f))
    BY <2>1, <2>2, <2>3 DEF Bijection, Injection, Surjection, IsInjective
  <2>5. ExistsBijection(M, Sources(d, f))
    BY <2>4 DEF ExistsBijection
  <2> QED BY <1>6, <2>5, FS_Bijection
<1> QED BY <1>3, <1>4, <1>5, <1>6, <1>7

(* So its finding is the one stored.                                        *)
LEMMA GroupIsShown ==
  ASSUME NEW d, Sound(d), NEW t, NEW n, NEW located, NEW h, LocatedBy(d, t, n, located, h),
         NEW i \in 1 .. n
  PROVE  LET f   == FindingAt(d, h, i)
             one == MergedFinding(CandsOf(located), i)
         IN  /\ f \in FindingsOf(d, t)
             /\ Shown(d)[f] =
                  [target |-> t, at |-> one.at, fix |-> one.fix, category |-> one.category,
                   verdict |-> one.verdict,
                   perspectives |-> {located[j].unit[2] : j \in one.sources},
                   size |-> Cardinality(one.sources),
                   suppressed |-> Suppressed(one.category, one.at, one.fix)]
<1> DEFINE f     == FindingAt(d, h, i)
           cands == CandsOf(located)
           M     == Members(cands, i)
           one   == MergedFinding(cands, i)
           made  == d.finding[f]
<1>1. /\ M \subseteq 1 .. n
      /\ \A j \in M : h[j] \in Sources(d, f)
      /\ \A r \in Sources(d, f) : \E j \in M : h[j] = r
      /\ Cardinality(M) = Cardinality(Sources(d, f))
  BY GroupIsFinding
<1>2. /\ f \in FindingsOf(d, t) /\ h[i] \in LocatedRows(d)
      /\ \A j \in 1 .. n : cands[j] = CandOf(d, h[j])
                           /\ located[j].unit = d.candidate[h[j]].unit
  BY LocatedCands
<1>3. f \in LocatedOnes(d) /\ made.target = t /\ made.locate = "located" /\ f \in DOMAIN d.finding
  BY <1>2 DEF FindingsOf, LocatedOnes
<1>4. made.at = cands[i].at /\ made.fix = cands[i].fix
  BY <1>2, LocatedRow DEF FindingAt
<1>5. f \in Sources(d, f) /\ h[i] \in Sources(d, f)
  <2>1. i \in M
    BY GroupIsFinding
  <2>2. h[i] \in Sources(d, f)
    BY <1>1, <2>1
  <2> QED BY <1>3, <2>2, LocatedSources
<1>6. /\ made.category = IF \A r \in Sources(d, f) : CandOf(d, r).category = CandOf(d, f).category
                         THEN CandOf(d, f).category ELSE "unclear"
      /\ made.verdict = IF \A r \in Sources(d, f) : CandOf(d, r).verdict = "likely-error"
                        THEN "likely-error" ELSE "confirm-with-author"
      /\ made.suppressed = Suppressed(made.category, made.at, made.fix)
  BY <1>3 DEF Sound, Grouped, AggregatesOf
<1>7. /\ one.sources = M /\ one.at = cands[i].at /\ one.fix = cands[i].fix
      /\ one.category = IF \A j \in M : cands[j].category = cands[i].category
                        THEN cands[i].category ELSE "unclear"
      /\ one.verdict = IF \A j \in M : cands[j].verdict = "likely-error"
                       THEN "likely-error" ELSE "confirm-with-author"
  BY DEF MergedFinding
<1>8. d.finding[f] = made /\ Shown(d)[f] =
        [target |-> made.target, at |-> made.at, fix |-> made.fix,
         category |-> made.category, verdict |-> made.verdict,
         perspectives |-> {d.candidate[r].unit[2] : r \in Sources(d, f)},
         size |-> Cardinality(Sources(d, f)), suppressed |-> made.suppressed]
  BY <1>3, Zenon DEF Shown
<1> HIDE DEF f, cands, M, one, made
<1>9. one.category = made.category
  <2>1. (\A j \in M : cands[j].category = cands[i].category) <=>
        (\A r \in Sources(d, f) : CandOf(d, r).category = CandOf(d, f).category)
    <3>1. ASSUME \A j \in M : cands[j].category = cands[i].category,
                 NEW r \in Sources(d, f)
          PROVE  CandOf(d, r).category = CandOf(d, f).category
      <4>1. ASSUME NEW q \in Sources(d, f) PROVE CandOf(d, q).category = cands[i].category
        <5>1. PICK j \in M : h[j] = q
          BY <1>1
        <5> QED BY <1>1, <1>2, <3>1, <5>1
      <4> QED BY <1>5, <4>1
    <3>2. ASSUME \A r \in Sources(d, f) : CandOf(d, r).category = CandOf(d, f).category,
                 NEW j \in M
          PROVE  cands[j].category = cands[i].category
      <4>1. h[j] \in Sources(d, f) /\ h[i] \in Sources(d, f) /\ j \in 1 .. n
        BY <1>1, <1>5
      <4>2. CandOf(d, h[j]).category = CandOf(d, h[i]).category
        BY <3>2, <4>1
      <4> QED BY <1>2, <4>1, <4>2
    <3> QED BY <3>1, <3>2
  <2>2. (\A r \in Sources(d, f) : CandOf(d, r).category = CandOf(d, f).category) =>
          CandOf(d, f).category = cands[i].category
    BY <1>2, <1>5
  <2> QED BY <1>6, <1>7, <2>1, <2>2
<1>10. one.verdict = made.verdict
  <2>1. (\A j \in M : cands[j].verdict = "likely-error") <=>
        (\A r \in Sources(d, f) : CandOf(d, r).verdict = "likely-error")
    <3>1. ASSUME \A j \in M : cands[j].verdict = "likely-error", NEW r \in Sources(d, f)
          PROVE  CandOf(d, r).verdict = "likely-error"
      <4>1. PICK j \in M : h[j] = r
        BY <1>1
      <4> QED BY <1>1, <1>2, <3>1, <4>1
    <3>2. ASSUME \A r \in Sources(d, f) : CandOf(d, r).verdict = "likely-error", NEW j \in M
          PROVE  cands[j].verdict = "likely-error"
      BY <1>1, <1>2, <3>2
    <3> QED BY <3>1, <3>2
  <2> QED BY <1>6, <1>7, <2>1
<1>11. {located[j].unit[2] : j \in M} = {d.candidate[r].unit[2] : r \in Sources(d, f)}
  <2>1. ASSUME NEW j \in M PROVE \E r \in Sources(d, f) : d.candidate[r].unit[2] = located[j].unit[2]
    <3>1. located[j].unit = d.candidate[h[j]].unit /\ h[j] \in Sources(d, f)
      BY <1>1, <1>2
    <3> QED BY <3>1
  <2>2. ASSUME NEW r \in Sources(d, f) PROVE \E j \in M : d.candidate[r].unit[2] = located[j].unit[2]
    <3>1. PICK j \in M : h[j] = r
      BY <1>1
    <3>2. located[j].unit = d.candidate[r].unit
      BY <1>1, <1>2, <3>1
    <3> QED BY <3>2
  <2> QED BY <2>1, <2>2
<1>12. one.at = made.at /\ one.fix = made.fix
  BY <1>4, <1>7
<1>13. Shown(d)[f] =
         [target |-> t, at |-> one.at, fix |-> one.fix, category |-> one.category,
          verdict |-> one.verdict, perspectives |-> {located[j].unit[2] : j \in one.sources},
          size |-> Cardinality(one.sources),
          suppressed |-> Suppressed(one.category, one.at, one.fix)]
  <2>1. one.sources = M /\ made.target = t /\ Cardinality(M) = Cardinality(Sources(d, f))
    BY <1>1, <1>3, <1>7
  <2>2. made.suppressed = Suppressed(one.category, one.at, one.fix)
    BY <1>6, <1>9, <1>12
  <2> QED BY <1>8, <1>9, <1>10, <1>11, <1>12, <2>1, <2>2, Zenon
<1> QED BY <1>2, <1>13 DEF f, one, cands

LEMMA PartOfPart ==
  ASSUME NEW g, NEW A, NEW B \in SUBSET A
  PROVE  Part(Part(g, A), B) = Part(g, B)
  BY DEF Part

(* The located ones of a target's rows list its located rows.               *)
LEMMA LocatedList ==
  ASSUME NEW d, Sound(d), NEW t, NEW rows \in Seq(PipeRow),
         Lists(rows, Part(PlainRows(d), RowsOf(d, t)))
  PROVE  LET located == Picked(rows, LocatedIn(rows))
         IN  \E h : LocatedBy(d, t, Cardinality(LocatedIn(rows)), located, h)
<1> DEFINE I       == LocatedIn(rows)
           n       == Cardinality(I)
           located == Picked(rows, I)
           A       == RowsOf(d, t)
           Y       == LocatedRows(d) \cap A
           g       == PlainRows(d)
<1>1. PICK a : ListsBy(rows, Part(g, A), a)
  BY DEF Lists
<1>2. I \in SUBSET DOMAIN rows /\ Y \in SUBSET A /\ A \subseteq DOMAIN d.candidate
  BY DEF LocatedIn, RowsOf
<1>3. DOMAIN rows = 1 .. Len(rows) /\ Len(rows) \in Nat
  OBVIOUS
<1>4. ASSUME NEW i \in DOMAIN rows PROVE i \in I <=> a[i] \in Y
  <2>1. a[i] \in A /\ rows[i] = g[a[i]]
    BY <1>1 DEF ListsBy, Part
  <2>2. a[i] \in DOMAIN d.candidate
    BY <1>2, <2>1
  <2>3. rows[i].cand = CandOf(d, a[i])
    BY <2>1, <2>2 DEF PlainRows, CandOf
  <2>4. i \in I <=> IsLocated(rows[i].cand)
    BY DEF LocatedIn
  <2>5. a[i] \in Y <=> IsLocated(CandOf(d, a[i]))
    BY <2>1, <2>2 DEF LocatedRows
  <2> QED BY <2>3, <2>4, <2>5
<1>5. DOMAIN Part(g, A) = A
  BY DEF Part
<1> HIDE DEF I, A, Y, g
<1>6. Lists(Picked(rows, I), Part(Part(g, A), Y))
  BY <1>1, <1>2, <1>3, <1>4, <1>5, ListsPicked
<1>7. Lists(Picked(rows, I), Part(g, Y))
  BY <1>2, <1>6, PartOfPart
<1>8. PICK h : ListsBy(Picked(rows, I), Part(g, Y), h)
  BY <1>7 DEF Lists
<1>9. n \in Nat /\ DOMAIN located = 1 .. n
  <2>1. IsFiniteSet(I) /\ n \in Nat
    BY <1>2, PickedFacts
  <2> QED BY <2>1 DEF Picked
<1>10. DOMAIN Part(g, Y) = Y /\ \A y \in Y : Part(g, Y)[y] = g[y]
  BY DEF Part
<1> HIDE DEF n
<1>11. LocatedBy(d, t, n, located, h)
  BY <1>8, <1>9, <1>10, Zenon DEF LocatedBy, ListsBy, Y, A, g
<1> QED BY <1>11 DEF n, I

(* The findings of one merge of a target's rows are those stored of it.     *)
LEMMA MergedList ==
  ASSUME NEW d, Sound(d), NEW t \in Targets, NEW rows \in Seq(PipeRow),
         Lists(rows, Part(PlainRows(d), RowsOf(d, t)))
  PROVE  /\ Merged(t, rows) \in Seq(MergedRow)
         /\ Lists(Merged(t, rows), Part(Shown(d), FindingsOf(d, t)))
<1> DEFINE n       == Cardinality(LocatedIn(rows))
           located == Picked(rows, LocatedIn(rows))
           cands   == CandsOf(located)
           m       == Cardinality(Heads(cands))
           found   == MergeCandidates(cands)
           row(k)  == [target |-> t, at |-> found[k].at, fix |-> found[k].fix,
                       category |-> found[k].category, verdict |-> found[k].verdict,
                       perspectives |-> {located[i].unit[2] : i \in found[k].sources},
                       size |-> Cardinality(found[k].sources),
                       suppressed |-> Suppressed(found[k].category, found[k].at, found[k].fix)]
<1>1. Merged(t, rows) \in Seq(MergedRow)
  BY MergedAre
<1>2. PICK h : LocatedBy(d, t, n, located, h)
  BY LocatedList
<1>3. Merged(t, rows) = [k \in DOMAIN found |-> row(k)]
  BY DEF Merged, CandsOf
<1>4. n \in Nat
  BY <1>2 DEF LocatedBy
<1> HIDE DEF n, located
<1>5. cands \in [1 .. n -> LocatedCandidate]
  BY <1>2, LocatedCands
<1> HIDE DEF cands
<1>6. /\ DOMAIN found = 1 .. m
      /\ \A k \in 1 .. m : HeadNth(cands, k) \in Heads(cands)
                           /\ found[k] = MergedFinding(cands, HeadNth(cands, k))
      /\ \A k, l \in 1 .. m : HeadNth(cands, k) = HeadNth(cands, l) => k = l
      /\ \A i \in Heads(cands) : \E k \in 1 .. m : HeadNth(cands, k) = i
  BY <1>4, <1>5, HeadsTaken
<1>7. /\ DOMAIN cands = 1 .. n /\ Heads(cands) \subseteq 1 .. n
      /\ \A x \in 1 .. n : \E i \in Heads(cands) : x \in Members(cands, i)
      /\ \A i, j \in Heads(cands) : i # j => Members(cands, i) \cap Members(cands, j) = {}
  <2>1. DOMAIN cands = 1 .. n
    BY <1>5
  <2> QED BY <1>4, <2>1, HeadOfEach, Zenon DEF Heads
<1> HIDE DEF m, found
<1> DEFINE e == [k \in 1 .. m |-> FindingAt(d, h, HeadNth(cands, k))]
<1>8. ASSUME NEW k \in 1 .. m
      PROVE  e[k] \in FindingsOf(d, t) /\ row(k) = Shown(d)[e[k]]
  <2> DEFINE i == HeadNth(cands, k)
  <2>1. i \in 1 .. n /\ found[k] = MergedFinding(cands, i) /\ e[k] = FindingAt(d, h, i)
    BY <1>6, <1>7
  <2> HIDE DEF i, e
  <2> QED BY <1>2, <2>1, GroupIsShown DEF cands
<1>9. ASSUME NEW i \in 1 .. n, NEW j \in 1 .. n
      PROVE  j \in Members(cands, i) <=> FindingAt(d, h, j) = FindingAt(d, h, i)
  <2>1. Members(cands, i) = {x \in 1 .. n : FindingAt(d, h, x) = FindingAt(d, h, i)}
    BY <1>2, GroupIsFinding DEF cands
  <2> QED BY <2>1
<1>10. ASSUME NEW k \in 1 .. m, NEW l \in 1 .. m, e[k] = e[l]
       PROVE  k = l
  <2> DEFINE i == HeadNth(cands, k)
             j == HeadNth(cands, l)
  <2>1. i \in Heads(cands) /\ j \in Heads(cands) /\ i \in 1 .. n /\ j \in 1 .. n
    BY <1>6, <1>7
  <2>2. FindingAt(d, h, i) = FindingAt(d, h, j)
    BY <1>10
  <2>3. i = j => k = l
    BY <1>6
  <2> HIDE DEF i, j, e
  <2>4. j \in Members(cands, i) /\ j \in Members(cands, j)
    BY <1>9, <2>1, <2>2
  <2>5. i = j
    BY <1>7, <2>1, <2>4
  <2> QED BY <2>3, <2>5
<1>11. ASSUME NEW f \in FindingsOf(d, t) PROVE \E k \in 1 .. m : e[k] = f
  <2>1. f \in LocatedOnes(d) /\ d.finding[f].target = t
    BY DEF FindingsOf
  <2>2. f \in LocatedRows(d) \cap RowsOf(d, t) /\ d.candidate[f].finding = f
    BY <2>1, LocatedSources, Zenon DEF Sources
  <2>3. PICK x \in 1 .. n : h[x] = f
    BY <1>2, <2>2 DEF LocatedBy
  <2>4. PICK i \in Heads(cands) : x \in Members(cands, i)
    BY <1>7
  <2>5. i \in 1 .. n /\ FindingAt(d, h, i) = f
    BY <1>7, <1>9, <2>2, <2>3, <2>4 DEF FindingAt
  <2>6. PICK k \in 1 .. m : HeadNth(cands, k) = i
    BY <1>6
  <2> QED BY <2>5, <2>6
<1>12. e \in [1 .. m -> FindingsOf(d, t)]
  <2>1. e = [k \in 1 .. m |-> e[k]]
    OBVIOUS
  <2> HIDE DEF e
  <2> QED BY <1>8, <2>1, Zenon
<1>13. DOMAIN Part(Shown(d), FindingsOf(d, t)) = FindingsOf(d, t)
       /\ \A f \in FindingsOf(d, t) : Part(Shown(d), FindingsOf(d, t))[f] = Shown(d)[f]
  BY DEF Part
<1> DEFINE s == [k \in 1 .. m |-> row(k)]
<1>14. DOMAIN s = 1 .. m /\ \A k \in 1 .. m : s[k] = row(k)
  OBVIOUS
<1>15. Merged(t, rows) = s
  BY <1>3, <1>6
<1> HIDE DEF s, e, row
<1>16. ListsBy(s, Part(Shown(d), FindingsOf(d, t)), e)
  BY <1>8, <1>10, <1>11, <1>12, <1>13, <1>14 DEF ListsBy
<1> QED BY <1>1, <1>15, <1>16 DEF Lists

(* The findings made at once of all that was saved are those stored.        *)
LEMMA AtOnceList ==
  ASSUME TypeOK, Sound(disk), AnswersSavedOnce
  PROVE  AtOnce \in Seq(MergedRow) /\ Lists(AtOnce, Part(Shown(disk), LocatedOnes(disk)))
<1> DEFINE seqs == [t \in Targets |-> Merged(t, SavedRows(t))]
           D    == [t \in Targets |-> FindingsOf(disk, t)]
           g    == Shown(disk)
<1>1. Targets = 1 .. NumTargets /\ NumTargets \in Nat
  BY MergingAssumption DEF Targets
<1>2. \A t \in Targets : seqs[t] = Merged(t, SavedRows(t)) /\ D[t] = FindingsOf(disk, t)
  OBVIOUS
<1>3. ASSUME NEW t \in Targets
      PROVE  Merged(t, SavedRows(t)) \in Seq(MergedRow)
             /\ Lists(Merged(t, SavedRows(t)), Part(g, FindingsOf(disk, t)))
  BY SavedRowsList, MergedList
<1>4. seqs \in Seq(Seq(MergedRow)) /\ Len(seqs) = NumTargets
  <2>1. seqs \in [1 .. NumTargets -> Seq(MergedRow)]
    BY <1>1, <1>3
  <2> HIDE DEF seqs
  <2> QED BY <1>1, <2>1
<1> HIDE DEF seqs, D, g
<1>5. \A t \in 1 .. Len(seqs) : Lists(seqs[t], Part(g, D[t]))
  BY <1>1, <1>2, <1>3, <1>4
<1>6. \A t, w \in 1 .. Len(seqs) : t # w => D[t] \cap D[w] = {}
  <2>1. \A t, w \in Targets : t # w => FindingsOf(disk, t) \cap FindingsOf(disk, w) = {}
    BY DEF FindingsOf
  <2> QED BY <1>1, <1>2, <1>4, <2>1
<1>7. \A f : f \in LocatedOnes(disk) <=> \E t \in 1 .. Len(seqs) : f \in D[t]
  <2>1. ASSUME NEW f \in LocatedOnes(disk) PROVE \E t \in Targets : f \in D[t]
    <3>1. disk.finding[f] \in Finding
      BY RowTypes DEF LocatedOnes, Sound
    <3>2. disk.finding[f].target \in Targets
      BY <3>1 DEF Finding
    <3> QED BY <1>2, <3>2 DEF FindingsOf
  <2>2. \A t \in Targets : D[t] \subseteq LocatedOnes(disk)
    BY <1>2 DEF FindingsOf
  <2> QED BY <1>1, <1>4, <2>1, <2>2
<1>8. FlattenSeq(seqs) \in Seq(MergedRow)
      /\ Lists(FlattenSeq(seqs), Part(g, LocatedOnes(disk)))
  BY <1>4, <1>5, <1>6, <1>7, FlattenedLists, Zenon
<1>9. AtOnce = FlattenSeq(seqs)
  BY DEF AtOnce, seqs
<1> QED BY <1>8, <1>9 DEF g

-----------------------------------------------------------------------------
(* The findings in the order of the export: each once                       *)

ExportOrder(d) == {p \in (DOMAIN d.finding) \X (DOMAIN d.finding) : ExportedBefore(d, p[1], p[2])}

LEMMA ExportsOrdered ==
  ASSUME NEW d, Sound(d)
  PROVE  TotallyOrders(ExportOrder(d), DOMAIN d.finding)
<1> DEFINE F == DOMAIN d.finding
           at(f) == d.finding[f].at
<1>1. ASSUME NEW f \in F PROVE f \in Nat /\ (at(f) # NoRange => at(f)[1] \in Nat)
  <2>1. d.finding[f] \in Finding /\ f \in DOMAIN d.candidate
    BY RowTypes DEF Sound
  <2>2. at(f) \in Ranges \cup {NoRange}
    BY <2>1 DEF Finding
  <2>3. at(f) # NoRange => at(f) \in Nat \X Nat
    BY <2>2, MergingAssumption
  <2> HIDE DEF at
  <2>4. at(f) # NoRange => at(f)[1] \in Nat
    BY <2>3
  <2> QED BY <2>1, <2>4, StoredRows
<1>2. \A f, g \in F : ExportedBefore(d, f, g) <=>
        \/ at(f) # NoRange /\ at(g) = NoRange
        \/ at(f) # NoRange /\ at(g) # NoRange /\ at(f)[1] < at(g)[1]
        \/ at(f) = NoRange /\ at(g) = NoRange /\ f < g
        \/ at(f) # NoRange /\ at(g) # NoRange /\ at(f)[1] = at(g)[1] /\ f < g
  BY DEF ExportedBefore
<1>3. \A f, g \in F : <<f, g>> \in ExportOrder(d) <=> ExportedBefore(d, f, g)
  BY DEF ExportOrder
<1> HIDE DEF F, at
<1>4. \A f \in F : ~ExportedBefore(d, f, f)
  BY <1>1, <1>2
<1>5. ASSUME NEW x \in F, NEW y \in F, NEW z \in F,
             ExportedBefore(d, x, y), ExportedBefore(d, y, z)
      PROVE  ExportedBefore(d, x, z)
  BY <1>1, <1>2, <1>5
<1>6. ASSUME NEW x \in F, NEW y \in F, x # y
      PROVE  ExportedBefore(d, x, y) \/ ExportedBefore(d, y, x)
  BY <1>1, <1>2, <1>6
<1> QED BY <1>3, <1>4, <1>5, <1>6 DEF TotallyOrders, F

IdsOf(d) == Sorted(DOMAIN d.finding, LAMBDA f, g : ExportedBefore(d, f, g))

LEMMA IdsList ==
  ASSUME NEW d, Sound(d)
  PROVE  LET F == DOMAIN d.finding
             n == Cardinality(F)
         IN  /\ n \in Nat /\ IdsOf(d) \in [1 .. n -> F]
             /\ \A k, l \in 1 .. n : IdsOf(d)[k] = IdsOf(d)[l] => k = l
             /\ \A f \in F : \E k \in 1 .. n : IdsOf(d)[k] = f
<1> DEFINE F   == DOMAIN d.finding
           R   == ExportOrder(d)
           n   == Cardinality(F)
           ids == IdsOf(d)
<1>1. IsFiniteSet(F) /\ n \in Nat
  BY StoredRows, FS_CardinalityType
<1>2. TotallyOrders(R, F)
  BY ExportsOrdered
<1>3. ASSUME NEW x \in F
      PROVE  Cardinality({y \in F : ExportedBefore(d, y, x)}) + 1 = RankIn(F, R, x)
  <2>1. {y \in F : ExportedBefore(d, y, x)} = Below(F, R, x)
    BY DEF Below, ExportOrder
  <2> QED BY <2>1 DEF RankIn
<1>4. ids = [k \in 1 .. n |->
               CHOOSE x \in F : Cardinality({y \in F : ExportedBefore(d, y, x)}) + 1 = k]
  BY DEF IdsOf, Sorted, Position
<1> HIDE DEF R, n, F, ids
<1>5. ASSUME NEW k \in 1 .. n
      PROVE  ids[k] \in F /\ RankIn(F, R, ids[k]) = k
  <2>1. \E x \in F : RankIn(F, R, x) = k
    BY <1>1, <1>2, RanksTaken DEF n
  <2>2. ids[k] = CHOOSE x \in F : Cardinality({y \in F : ExportedBefore(d, y, x)}) + 1 = k
    BY <1>4
  <2>3. \E x \in F : Cardinality({y \in F : ExportedBefore(d, y, x)}) + 1 = k
    BY <1>3, <2>1
  <2>4. ids[k] \in F /\ Cardinality({y \in F : ExportedBefore(d, y, ids[k])}) + 1 = k
    BY <2>2, <2>3, Zenon
  <2> QED BY <1>3, <2>4
<1>6. ASSUME NEW f \in F PROVE \E k \in 1 .. n : ids[k] = f
  <2>1. RankIn(F, R, f) \in 1 .. n
    BY <1>1, <1>2, RankType DEF n
  <2>2. PICK k \in 1 .. n : k = RankIn(F, R, f)
    BY <2>1
  <2>3. ids[k] = f
    BY <2>2, <1>1, <1>2, <1>5, RanksDiffer
  <2> QED BY <2>3
<1>7. \A k, l \in 1 .. n : ids[k] = ids[l] => k = l
  BY <1>5
<1>8. ids \in [1 .. n -> F]
  <2> DEFINE c(k) == CHOOSE x \in F : Cardinality({y \in F : ExportedBefore(d, y, x)}) + 1 = k
  <2>1. ids = [k \in 1 .. n |-> c(k)]
    BY <1>4
  <2> HIDE DEF c
  <2>2. ids = [k \in 1 .. n |-> ids[k]]
    BY <2>1
  <2> QED BY <1>5, <2>2
<1> QED BY <1>1, <1>6, <1>7, <1>8 DEF F, n, ids

(* The rows of a finding as the export has them: each once, with its index  *)
Indexed(d) == [i \in DOMAIN d.candidate |-> [index |-> i, row |-> d.candidate[i]]]

LEMMA RowsList ==
  ASSUME NEW d, Sound(d), NEW f
  PROVE  LET I == Sources(d, f)
         IN  /\ IsFiniteSet(I) /\ Cardinality(I) \in Nat
             /\ Rows(d, f) \in Seq([index : Nat, row : CandidateRow])
             /\ Len(Rows(d, f)) = Cardinality(I)
             /\ DOMAIN Rows(d, f) = 1 .. Cardinality(I)
             /\ Lists(Rows(d, f), Part(Indexed(d), I))
             /\ \A k \in DOMAIN Rows(d, f) :
                  \E i \in I : Rows(d, f)[k] = [index |-> i, row |-> d.candidate[i]]
             /\ \A i \in I :
                  \E k \in DOMAIN Rows(d, f) :
                    Rows(d, f)[k] = [index |-> i, row |-> d.candidate[i]]
<1> DEFINE I == Sources(d, f)
           g == Indexed(d)
           S == [index : Nat, row : CandidateRow]
           rows == Rows(d, f)
<1>1. /\ d.candidate \in Seq(CandidateRow) /\ Len(d.candidate) \in Nat
      /\ DOMAIN d.candidate = 1 .. Len(d.candidate)
  BY StoredRows DEF Sound, TablesOK
<1>2. DOMAIN g = 1 .. Len(d.candidate)
      /\ \A i \in DOMAIN d.candidate : g[i] = [index |-> i, row |-> d.candidate[i]] /\ g[i] \in S
  BY <1>1 DEF Indexed
<1>3. g \in Seq(S)
  <2>1. g = [i \in 1 .. Len(d.candidate) |-> g[i]]
    BY <1>1 DEF Indexed
  <2> HIDE DEF g, S
  <2>2. g \in [1 .. Len(d.candidate) -> S]
    BY <1>1, <1>2, <2>1, Zenon
  <2> QED BY <1>1, <2>2
<1>4. I \in SUBSET DOMAIN g /\ I \subseteq DOMAIN d.candidate
  BY <1>1, <1>2 DEF Sources
<1>5. rows = Picked(g, I)
  BY DEF Rows, Indexed
<1> HIDE DEF I, g, S, rows
<1>6. /\ IsFiniteSet(I) /\ Cardinality(I) \in Nat
      /\ rows \in Seq(S) /\ Len(rows) = Cardinality(I)
      /\ \A k \in 1 .. Cardinality(I) : Nth(I, k) \in I /\ rows[k] = g[Nth(I, k)]
  BY <1>3, <1>4, <1>5, PickedFacts
<1>7. DOMAIN rows = 1 .. Cardinality(I)
  BY <1>6
<1>8. Lists(rows, Part(g, I))
  BY <1>1, <1>2, <1>4, <1>5, PickedLists
<1>9. \A k \in 1 .. Cardinality(I) :
        \E i \in I : rows[k] = [index |-> i, row |-> d.candidate[i]]
  BY <1>2, <1>4, <1>6, Zenon
<1>10. ASSUME NEW i \in I
       PROVE  \E k \in 1 .. Cardinality(I) :
                rows[k] = [index |-> i, row |-> d.candidate[i]]
  <2>1. PICK h : ListsBy(rows, Part(g, I), h)
    BY <1>8 DEF Lists
  <2>2. PICK k \in 1 .. Cardinality(I) : h[k] = i
    BY <1>7, <2>1 DEF ListsBy, Part
  <2>3. rows[k] = g[i]
    BY <1>7, <2>1, <2>2, Zenon DEF ListsBy, Part
  <2> QED BY <1>2, <1>4, <2>3
<1>11. rows \in Seq([index : Nat, row : CandidateRow]) /\ Lists(rows, Part(Indexed(d), I))
  BY <1>6, <1>8 DEF S, g
<1> QED BY <1>6, <1>7, <1>9, <1>10, <1>11 DEF I, rows

-----------------------------------------------------------------------------
(* The export, and its findings one by one                                  *)

LEMMA ListsMapped ==
  ASSUME NEW s, NEW g, NEW h, ListsBy(s, g, h), NEW r, NEW w,
         DOMAIN r = DOMAIN s, DOMAIN w = DOMAIN g, \A i \in DOMAIN s : r[i] = w[h[i]]
  PROVE  ListsBy(r, w, h)
  BY DEF ListsBy

LEMMA ExportParts ==
  ASSUME NEW d, Sound(d), NEW r
  PROVE  LET ex == BuildRunExport(d, r)
             n  == Cardinality(DOMAIN d.finding)
         IN  /\ ex.run = r /\ ex.unit = d.unit /\ ex.unlocated = Rows(d, 0)
             /\ ex.rechecks = {[finding |-> f, status |-> d.recheck[f]] : f \in DOMAIN d.recheck}
             /\ DOMAIN ex.findings = 1 .. n /\ n \in Nat
             /\ \A k \in 1 .. n : ex.findings[k] = ExportedFinding(d, IdsOf(d)[k])
                                  /\ IdsOf(d)[k] \in DOMAIN d.finding
<1>1. IdsOf(d) \in [1 .. Cardinality(DOMAIN d.finding) -> DOMAIN d.finding]
      /\ Cardinality(DOMAIN d.finding) \in Nat
  BY IdsList
<1>2. BuildRunExport(d, r) =
        [run        |-> r,
         unit       |-> d.unit,
         findings   |-> [k \in DOMAIN IdsOf(d) |-> ExportedFinding(d, IdsOf(d)[k])],
         rechecks   |-> {[finding |-> f, status |-> d.recheck[f]] : f \in DOMAIN d.recheck},
         unlocated  |-> Rows(d, 0)]
  BY DEF BuildRunExport, IdsOf
<1> QED BY <1>1, <1>2

ExportedOnes(d) == [f \in DOMAIN d.finding |-> ExportedFinding(d, f)]

LEMMA ExportList ==
  ASSUME NEW d, Sound(d), NEW r
  PROVE  ListsBy(BuildRunExport(d, r).findings, ExportedOnes(d), IdsOf(d))
<1> DEFINE s == BuildRunExport(d, r).findings
           n == Cardinality(DOMAIN d.finding)
           g == ExportedOnes(d)
<1>1. DOMAIN s = 1 .. n /\ \A k \in 1 .. n : s[k] = ExportedFinding(d, IdsOf(d)[k])
                                             /\ IdsOf(d)[k] \in DOMAIN d.finding
  BY ExportParts
<1>2. DOMAIN g = DOMAIN d.finding /\ \A f \in DOMAIN d.finding : g[f] = ExportedFinding(d, f)
  BY DEF ExportedOnes
<1>3. /\ IdsOf(d) \in [1 .. n -> DOMAIN d.finding]
      /\ \A k, l \in 1 .. n : IdsOf(d)[k] = IdsOf(d)[l] => k = l
      /\ \A f \in DOMAIN d.finding : \E k \in 1 .. n : IdsOf(d)[k] = f
  BY IdsList
<1> HIDE DEF s, n, g
<1> QED BY <1>1, <1>2, <1>3 DEF ListsBy, s, g

(* The findings that were located, and those that were not                  *)
LEMMA PlacedLists ==
  ASSUME NEW d, Sound(d), NEW r
  PROVE  LET ex == BuildRunExport(d, r)
             s  == ex.findings
             I  == PlacedIn(ex)
             J  == DOMAIN s \ I
             Y  == LocatedOnes(d)
             Z  == DOMAIN d.finding \ Y
         IN  /\ Lists(Picked(s, I), Part(ExportedOnes(d), Y))
             /\ DOMAIN Picked(s, I) = 1 .. Cardinality(I) /\ Cardinality(I) \in Nat
             /\ Lists(Picked(s, J), Part(ExportedOnes(d), Z))
             /\ DOMAIN Picked(s, J) = 1 .. Cardinality(J) /\ Cardinality(J) \in Nat
<1> DEFINE ex == BuildRunExport(d, r)
           s  == ex.findings
           n  == Cardinality(DOMAIN d.finding)
           I  == PlacedIn(ex)
           J  == DOMAIN s \ I
           Y  == LocatedOnes(d)
           Z  == DOMAIN d.finding \ Y
           g  == ExportedOnes(d)
<1>1. n \in Nat /\ DOMAIN s = 1 .. n
      /\ \A k \in 1 .. n : s[k] = ExportedFinding(d, IdsOf(d)[k]) /\ IdsOf(d)[k] \in DOMAIN d.finding
  BY ExportParts
<1>2. ListsBy(s, g, IdsOf(d))
  BY ExportList
<1>3. I \in SUBSET DOMAIN s /\ J \in SUBSET DOMAIN s
  BY DEF PlacedIn
<1>4. Y \in SUBSET DOMAIN g /\ Z \in SUBSET DOMAIN g
  BY DEF LocatedOnes, ExportedOnes
<1>5. ASSUME NEW k \in DOMAIN s
      PROVE  (k \in I <=> IdsOf(d)[k] \in Y) /\ (k \in J <=> IdsOf(d)[k] \in Z)
  <2>a. \A f : ExportedFinding(d, f).made = d.finding[f]
    BY DEF ExportedFinding
  <2>b. s[k] = ExportedFinding(d, IdsOf(d)[k]) /\ IdsOf(d)[k] \in DOMAIN d.finding
    BY <1>1
  <2>1. s[k].made = d.finding[IdsOf(d)[k]] /\ IdsOf(d)[k] \in DOMAIN d.finding
    BY <2>a, <2>b
  <2>2. k \in I <=> s[k].made.locate = "located"
    BY DEF PlacedIn
  <2>3. IdsOf(d)[k] \in Y <=> d.finding[IdsOf(d)[k]].locate = "located"
    BY <2>1 DEF LocatedOnes
  <2> HIDE DEF ex, I, Y
  <2> QED BY <2>1, <2>2, <2>3
<1> HIDE DEF ex, s, n, I, J, Y, Z, g
<1>6. Lists(Picked(s, I), Part(g, Y)) /\ Lists(Picked(s, J), Part(g, Z))
  BY <1>1, <1>2, <1>3, <1>4, <1>5, ListsPicked
<1>7. IsFiniteSet(I) /\ IsFiniteSet(J)
  <2>1. IsFiniteSet(DOMAIN s)
    BY <1>1, FS_Interval
  <2> QED BY <1>3, <2>1, FS_Subset
<1>8. Cardinality(I) \in Nat /\ Cardinality(J) \in Nat
  BY <1>7, FS_CardinalityType
<1>9. DOMAIN Picked(s, I) = 1 .. Cardinality(I) /\ DOMAIN Picked(s, J) = 1 .. Cardinality(J)
  BY DEF Picked
<1> QED BY <1>6, <1>8, <1>9 DEF ex, s, I, J, Y, Z, g

(* What the adapter makes of a located finding                              *)
LEMMA AdaptedIsShown ==
  ASSUME NEW d, Sound(d), NEW ex, NEW f \in LocatedOnes(d)
  PROVE  AdaptedFinding(ex, ExportedFinding(d, f)).finding = Shown(d)[f]
<1> DEFINE e    == ExportedFinding(d, f)
           rows == Rows(d, f)
           I    == Sources(d, f)
<1>1. f \in DOMAIN d.finding
  BY DEF LocatedOnes
<1>2. e.made = d.finding[f] /\ e.candidates = rows
  BY DEF ExportedFinding
<1>3. /\ Len(rows) = Cardinality(I)
      /\ \A k \in DOMAIN rows : \E i \in I : rows[k] = [index |-> i, row |-> d.candidate[i]]
      /\ \A i \in I : \E k \in DOMAIN rows : rows[k] = [index |-> i, row |-> d.candidate[i]]
  BY RowsList
<1> HIDE DEF e, rows, I
<1>4. {rows[k].row.unit[2] : k \in DOMAIN rows} = {d.candidate[i].unit[2] : i \in I}
  <2>1. ASSUME NEW k \in DOMAIN rows
        PROVE  \E i \in I : rows[k].row.unit[2] = d.candidate[i].unit[2]
    <3>1. PICK i \in I : rows[k] = [index |-> i, row |-> d.candidate[i]]
      BY <1>3
    <3> QED BY <3>1
  <2>2. ASSUME NEW i \in I
        PROVE  \E k \in DOMAIN rows : rows[k].row.unit[2] = d.candidate[i].unit[2]
    <3>1. PICK k \in DOMAIN rows : rows[k] = [index |-> i, row |-> d.candidate[i]]
      BY <1>3
    <3> QED BY <3>1
  <2> QED BY <2>1, <2>2
<1>5. AdaptedFinding(ex, e).finding =
        [target |-> d.finding[f].target, at |-> d.finding[f].at, fix |-> d.finding[f].fix,
         category |-> d.finding[f].category, verdict |-> d.finding[f].verdict,
         perspectives |-> {rows[k].row.unit[2] : k \in DOMAIN rows},
         size |-> Len(rows), suppressed |-> d.finding[f].suppressed]
  BY <1>2 DEF AdaptedFinding
<1>6. Shown(d)[f] =
        [target |-> d.finding[f].target, at |-> d.finding[f].at, fix |-> d.finding[f].fix,
         category |-> d.finding[f].category, verdict |-> d.finding[f].verdict,
         perspectives |-> {d.candidate[i].unit[2] : i \in I},
         size |-> Cardinality(I), suppressed |-> d.finding[f].suppressed]
  BY <1>1 DEF Shown, I
<1> QED BY <1>3, <1>4, <1>5, <1>6, Zenon DEF e

(* The findings of the result are those stored, and their sizes add up to   *)
(* the rows that were located.                                              *)
LEMMA ShownList ==
  ASSUME NEW d, Sound(d), NEW r
  PROVE  LET ex      == BuildRunExport(d, r)
             located == Picked(ex.findings, PlacedIn(ex))
             shown   == [k \in DOMAIN located |-> AdaptedFinding(ex, located[k]).finding]
         IN  /\ IsFiniteSet(DOMAIN shown) /\ Lists(shown, Part(Shown(d), LocatedOnes(d)))
             /\ \A k \in DOMAIN located :
                  \E f \in LocatedOnes(d) : located[k] = ExportedFinding(d, f)
             /\ SumOf([k \in DOMAIN located |-> shown[k].size]) = Cardinality(LocatedRows(d))
<1> DEFINE ex      == BuildRunExport(d, r)
           located == Picked(ex.findings, PlacedIn(ex))
           m       == Cardinality(PlacedIn(ex))
           shown   == [k \in DOMAIN located |-> AdaptedFinding(ex, located[k]).finding]
           Y       == LocatedOnes(d)
<1>1. /\ Lists(located, Part(ExportedOnes(d), Y))
      /\ DOMAIN located = 1 .. m /\ m \in Nat
  BY PlacedLists, Zenon
<1>2. PICK h : ListsBy(located, Part(ExportedOnes(d), Y), h)
  BY <1>1 DEF Lists
<1> HIDE DEF ex, located, m
<1>3. DOMAIN shown = 1 .. m
      /\ \A k \in 1 .. m : shown[k] = AdaptedFinding(ex, located[k]).finding
  BY <1>1
<1>4. /\ DOMAIN Part(ExportedOnes(d), Y) = Y /\ DOMAIN Part(Shown(d), Y) = Y
      /\ \A f \in Y : Part(ExportedOnes(d), Y)[f] = ExportedFinding(d, f)
                      /\ Part(Shown(d), Y)[f] = Shown(d)[f]
                      /\ Shown(d)[f].size = Cardinality(Sources(d, f))
  BY DEF Part, ExportedOnes, LocatedOnes, Shown
<1> HIDE DEF shown, Y
<1>5. /\ h \in [1 .. m -> Y]
      /\ \A k, l \in 1 .. m : h[k] = h[l] => k = l
      /\ \A f \in Y : \E k \in 1 .. m : h[k] = f
      /\ \A k \in 1 .. m : located[k] = ExportedFinding(d, h[k])
  BY <1>1, <1>2, <1>4 DEF ListsBy
<1>6. \A k \in 1 .. m : shown[k] = Part(Shown(d), Y)[h[k]]
                        /\ shown[k].size = Cardinality(Sources(d, h[k]))
  <2>1. ASSUME NEW k \in 1 .. m
        PROVE  shown[k] = Shown(d)[h[k]]
    <3>1. h[k] \in LocatedOnes(d)
      BY <1>5 DEF Y
    <3>2. AdaptedFinding(ex, ExportedFinding(d, h[k])).finding = Shown(d)[h[k]]
      BY <3>1, AdaptedIsShown
    <3> QED BY <1>3, <1>5, <3>2
  <2> QED BY <1>4, <1>5, <2>1
<1>7. ListsBy(shown, Part(Shown(d), Y), h)
  BY <1>1, <1>2, <1>3, <1>4, <1>6, ListsMapped
<1>8. \A k \in 1 .. m : \E f \in Y : located[k] = ExportedFinding(d, f)
  BY <1>5
<1>9. SumOf([k \in 1 .. m |-> shown[k].size]) = Cardinality(LocatedRows(d))
  <2> DEFINE P == [k \in 1 .. m |-> Sources(d, h[k])]
             U == UNION {P[k] : k \in 1 .. m}
  <2>1. ASSUME NEW k \in 1 .. m
        PROVE  IsFiniteSet(P[k]) /\ P[k] \subseteq LocatedRows(d)
    BY <1>5, LocatedSources DEF Y
  <2>2. ASSUME NEW k \in 1 .. m, NEW l \in 1 .. m, k # l PROVE P[k] \cap P[l] = {}
    <3>1. h[k] # h[l]
      BY <1>5, <2>2
    <3> QED BY <3>1 DEF Sources
  <2>3. ASSUME NEW i \in LocatedRows(d) PROVE \E k \in 1 .. m : i \in P[k]
    <3>1. i \in DOMAIN d.candidate /\ d.candidate[i].finding \in Y
      BY LocatedRow DEF Y, FindingsOf, LocatedRows
    <3>2. PICK k \in 1 .. m : h[k] = d.candidate[i].finding
      BY <1>5, <3>1
    <3> QED BY <3>1, <3>2 DEF Sources
  <2>4. U = LocatedRows(d)
    <3> HIDE DEF P
    <3> QED BY <2>1, <2>3
  <2>5. SumOf([k \in 1 .. m |-> Cardinality(P[k])]) = Cardinality(U)
    <3> HIDE DEF P
    <3> QED BY <1>1, <2>1, <2>2, SizesAddUp
  <2>6. [k \in 1 .. m |-> Cardinality(P[k])] = [k \in 1 .. m |-> shown[k].size]
    BY <1>6
  <2> HIDE DEF P, U
  <2> QED BY <2>4, <2>5, <2>6, Zenon
<1>10. IsFiniteSet(DOMAIN shown) /\ Lists(shown, Part(Shown(d), Y))
  BY <1>1, <1>3, <1>7, FS_Interval DEF Lists
<1> QED BY <1>1, <1>8, <1>9, <1>10 DEF ex, located, shown, Y

(* What was not located is listed once.                                     *)
LEMMA UnlocatedList ==
  ASSUME NEW d, Sound(d), NEW r
  PROVE  LET ex     == BuildRunExport(d, r)
             failed == Picked(ex.findings, DOMAIN ex.findings \ PlacedIn(ex))
             all    == [k \in DOMAIN failed |-> AdaptedRow(failed[k].candidates[1])]
                         \o [k \in DOMAIN ex.unlocated |-> AdaptedRow(ex.unlocated[k])]
         IN  /\ IsFiniteSet(DOMAIN all)
             /\ Lists(all, Part(PlainRows(d), DOMAIN d.candidate \ LocatedRows(d)))
<1> DEFINE ex     == BuildRunExport(d, r)
           J      == DOMAIN ex.findings \ PlacedIn(ex)
           failed == Picked(ex.findings, J)
           m      == Cardinality(J)
           Z      == DOMAIN d.finding \ LocatedOnes(d)
           O      == Sources(d, 0)
           n      == Cardinality(O)
           g      == PlainRows(d)
           s      == [k \in DOMAIN failed |-> AdaptedRow(failed[k].candidates[1])]
           out    == [k \in DOMAIN ex.unlocated |-> AdaptedRow(ex.unlocated[k])]
<1>1. Lists(failed, Part(ExportedOnes(d), Z)) /\ DOMAIN failed = 1 .. m /\ m \in Nat
  BY PlacedLists, Zenon
<1>2. ex.unlocated = Rows(d, 0)
  BY ExportParts
<1>3. /\ n \in Nat /\ DOMAIN Rows(d, 0) = 1 .. n
      /\ Lists(Rows(d, 0), Part(Indexed(d), O))
  BY RowsList
<1>4. PICK a : ListsBy(failed, Part(ExportedOnes(d), Z), a)
  BY <1>1 DEF Lists
<1>5. PICK b : ListsBy(Rows(d, 0), Part(Indexed(d), O), b)
  BY <1>3 DEF Lists
<1>6. /\ Z \subseteq DOMAIN d.candidate /\ O \subseteq DOMAIN d.candidate
      /\ Z \cap O = {} /\ DOMAIN d.candidate \ LocatedRows(d) = Z \cup O
  BY StoredRows, UnlocatedRows DEF Sources
<1>7. \A i \in DOMAIN d.candidate :
        /\ g[i] = AdaptedRow([index |-> i, row |-> d.candidate[i]])
        /\ g[i] \in PipeRow
  BY StoredRows DEF PlainRows, AdaptedRow, PipeRow, CandOf
<1> HIDE DEF ex, J, failed, m, n
<1>8. /\ DOMAIN Part(ExportedOnes(d), Z) = Z /\ DOMAIN Part(Indexed(d), O) = O
      /\ \A f \in Z : Part(ExportedOnes(d), Z)[f] = ExportedFinding(d, f)
      /\ \A i \in O : Part(Indexed(d), O)[i] = [index |-> i, row |-> d.candidate[i]]
  BY <1>6 DEF Part, ExportedOnes, Indexed
<1>9. DOMAIN Part(g, Z) = Z /\ DOMAIN Part(g, O) = O
      /\ (\A i \in Z : Part(g, Z)[i] = g[i]) /\ \A i \in O : Part(g, O)[i] = g[i]
  BY DEF Part
<1>10. ASSUME NEW f \in Z
       PROVE  ExportedFinding(d, f).candidates[1] = [index |-> f, row |-> d.candidate[f]]
  <2>1. Sources(d, f) = {f}
    BY UnlocatedSource
  <2>2. Cardinality({f}) = 1
    BY FS_Singleton, Zenon
  <2>3. DOMAIN Rows(d, f) = 1 .. Cardinality(Sources(d, f))
        /\ \A k \in DOMAIN Rows(d, f) :
             \E i \in Sources(d, f) : Rows(d, f)[k] = [index |-> i, row |-> d.candidate[i]]
    BY RowsList
  <2>4. 1 \in DOMAIN Rows(d, f)
    BY <2>1, <2>2, <2>3
  <2>5. Rows(d, f)[1] = [index |-> f, row |-> d.candidate[f]]
    BY <2>1, <2>3, <2>4
  <2> QED BY <2>5 DEF ExportedFinding
<1> HIDE DEF Z, O, g
<1>11. /\ \A k \in 1 .. m : a[k] \in Z /\ failed[k] = ExportedFinding(d, a[k])
       /\ \A k \in 1 .. n : b[k] \in O
                            /\ Rows(d, 0)[k] = [index |-> b[k], row |-> d.candidate[b[k]]]
  BY <1>1, <1>3, <1>4, <1>5, <1>8, Zenon DEF ListsBy
<1>12. DOMAIN s = 1 .. m /\ \A k \in 1 .. m : s[k] = AdaptedRow(failed[k].candidates[1])
  BY <1>1
<1>13. DOMAIN out = 1 .. n /\ \A k \in 1 .. n : out[k] = AdaptedRow(Rows(d, 0)[k])
  BY <1>2, <1>3
<1> HIDE DEF s, out
<1>14. ASSUME NEW k \in 1 .. m PROVE s[k] = g[a[k]] /\ s[k] \in PipeRow
  <2>1. a[k] \in Z /\ failed[k].candidates[1] = [index |-> a[k], row |-> d.candidate[a[k]]]
    BY <1>10, <1>11
  <2> QED BY <1>6, <1>7, <1>12, <2>1
<1>15. ASSUME NEW k \in 1 .. n PROVE out[k] = g[b[k]] /\ out[k] \in PipeRow
  <2>1. b[k] \in DOMAIN d.candidate
        /\ Rows(d, 0)[k] = [index |-> b[k], row |-> d.candidate[b[k]]]
    BY <1>6, <1>11
  <2>2. out[k] = AdaptedRow([index |-> b[k], row |-> d.candidate[b[k]]])
    BY <1>13, <2>1
  <2> QED BY <1>7, <2>1, <2>2
<1>16. s \in Seq(PipeRow) /\ out \in Seq(PipeRow)
  <2>1. s = [k \in 1 .. m |-> s[k]] /\ out = [k \in 1 .. n |-> out[k]]
    BY <1>12, <1>13 DEF s, out
  <2>2. s \in [1 .. m -> PipeRow] /\ out \in [1 .. n -> PipeRow]
    BY <1>14, <1>15, <2>1
  <2> QED BY <1>1, <1>3, <2>2
<1>17. Lists(s, Part(g, Z))
  <2>1. ListsBy(s, Part(g, Z), a)
    BY <1>1, <1>4, <1>8, <1>9, <1>11, <1>12, <1>14, ListsMapped
  <2> QED BY <2>1 DEF Lists
<1>18. Lists(out, Part(g, O))
  <2>1. /\ DOMAIN out = DOMAIN Rows(d, 0) /\ DOMAIN Part(g, O) = DOMAIN Part(Indexed(d), O)
        /\ \A k \in DOMAIN Rows(d, 0) : out[k] = Part(g, O)[b[k]]
    BY <1>3, <1>8, <1>9, <1>11, <1>13, <1>15, Zenon
  <2>2. ListsBy(out, Part(g, O), b)
    BY <1>5, <2>1, ListsMapped
  <2> QED BY <2>2 DEF Lists
<1>19. Lists(s \o out, Part(g, Z \cup O))
  BY <1>6, <1>16, <1>17, <1>18, ListsConcat
<1>20. IsFiniteSet(DOMAIN (s \o out))
  <2> DEFINE c == s \o out
  <2>1. c \in Seq(PipeRow)
    BY <1>16, ConcatProperties
  <2>2. DOMAIN c = 1 .. Len(c) /\ Len(c) \in Nat
    <3> HIDE DEF c
    <3> QED BY <2>1
  <2> HIDE DEF c
  <2>3. IsFiniteSet(DOMAIN c)
    BY <2>2, FS_Interval
  <2> QED BY <2>3 DEF c
<1> QED BY <1>6, <1>19, <1>20, Zenon DEF ex, J, failed, s, out, g

-----------------------------------------------------------------------------
(* All rows, as the export has them and as they were answered               *)

LEMMA ListsLength ==
  ASSUME NEW S, NEW s \in Seq(S), NEW n \in Nat, NEW g, DOMAIN g = 1 .. n, Lists(s, g)
  PROVE  Len(s) = n /\ IsFiniteSet(DOMAIN s)
<1>1. DOMAIN s = 1 .. Len(s) /\ Len(s) \in Nat
  OBVIOUS
<1>2. IsFiniteSet(DOMAIN s) /\ Cardinality(DOMAIN s) = Len(s) /\ Cardinality(1 .. n) = n
  <2>1. \A m \in Nat : IsFiniteSet(1 .. m) /\ Cardinality(1 .. m) = m
    BY FS_Interval
  <2> QED BY <1>1, <2>1
<1>3. Cardinality(DOMAIN s) = Cardinality(DOMAIN g)
  BY <1>2, ListsSize
<1> QED BY <1>2, <1>3

LEMMA CandidatesList ==
  ASSUME NEW d, Sound(d), NEW r
  PROVE  LET all == CandidatesOf(BuildRunExport(d, r))
         IN  /\ all \in Seq([index : Nat, row : CandidateRow])
             /\ Lists(all, Indexed(d)) /\ Len(all) = Len(d.candidate)
<1> DEFINE ex   == BuildRunExport(d, r)
           seqs == [k \in DOMAIN ex.findings |-> ex.findings[k].candidates]
           n    == Cardinality(DOMAIN d.finding)
           D    == [k \in 1 .. n |-> Sources(d, IdsOf(d)[k])]
           A    == {i \in DOMAIN d.candidate : d.candidate[i].finding # 0}
           g    == Indexed(d)
           S    == [index : Nat, row : CandidateRow]
<1>1. /\ n \in Nat /\ DOMAIN ex.findings = 1 .. n /\ ex.unlocated = Rows(d, 0)
      /\ \A k \in 1 .. n : ex.findings[k] = ExportedFinding(d, IdsOf(d)[k])
                           /\ IdsOf(d)[k] \in DOMAIN d.finding
  BY ExportParts
<1>2. /\ \A k, l \in 1 .. n : IdsOf(d)[k] = IdsOf(d)[l] => k = l
      /\ \A f \in DOMAIN d.finding : \E k \in 1 .. n : IdsOf(d)[k] = f
  BY IdsList
<1>3. \A f : Rows(d, f) \in Seq(S) /\ Lists(Rows(d, f), Part(g, Sources(d, f)))
  BY RowsList, Zenon
<1> HIDE DEF S
<1>4. \A f : ExportedFinding(d, f).candidates = Rows(d, f)
  BY DEF ExportedFinding
<1>5. DOMAIN seqs = 1 .. n /\ \A k \in 1 .. n : seqs[k] = Rows(d, IdsOf(d)[k])
  <2> HIDE DEF ex, n
  <2> QED BY <1>1, <1>4
<1>6. seqs \in Seq(Seq(S)) /\ Len(seqs) = n
  <2>1. seqs = [k \in 1 .. n |-> seqs[k]]
    BY <1>1
  <2> HIDE DEF seqs, n, ex
  <2>2. seqs \in [1 .. n -> Seq(S)]
    BY <1>3, <1>5, <2>1
  <2> QED BY <1>1, <2>2
<1>7. \A k \in 1 .. n : D[k] = Sources(d, IdsOf(d)[k])
  OBVIOUS
<1> HIDE DEF ex, seqs, n, D, g
<1>8. \A k \in 1 .. Len(seqs) : Lists(seqs[k], Part(g, D[k]))
  BY <1>3, <1>5, <1>6, <1>7
<1>9. \A k, l \in 1 .. Len(seqs) : k # l => D[k] \cap D[l] = {}
  BY <1>2, <1>6, <1>7 DEF Sources
<1>10. \A y : y \in A <=> \E k \in 1 .. Len(seqs) : y \in D[k]
  <2>1. ASSUME NEW y \in A PROVE d.candidate[y].finding \in DOMAIN d.finding
    <3>1. CASE y \in LocatedRows(d)
      BY <3>1, LocatedRow DEF FindingsOf, LocatedOnes
    <3>2. CASE y \notin LocatedRows(d)
      <4>1. y \in (DOMAIN d.finding \ LocatedOnes(d)) \cup Sources(d, 0)
        BY <3>2, UnlocatedRows
      <4>2. y \in DOMAIN d.finding \ LocatedOnes(d)
        BY <4>1 DEF Sources
      <4>3. y \in Sources(d, y)
        BY <4>2, UnlocatedSource
      <4> QED BY <4>2, <4>3 DEF Sources
    <3> QED BY <3>1, <3>2
  <2>2. ASSUME NEW y \in A PROVE \E k \in 1 .. n : y \in D[k]
    <3>1. PICK k \in 1 .. n : IdsOf(d)[k] = d.candidate[y].finding
      BY <1>2, <2>1
    <3> QED BY <1>7, <3>1 DEF Sources
  <2>3. ASSUME NEW k \in 1 .. n, NEW y \in D[k] PROVE y \in A
    <3>1. IdsOf(d)[k] # 0
      BY <1>1, StoredRows
    <3> QED BY <1>7, <3>1 DEF Sources
  <2> HIDE DEF A
  <2> QED BY <1>6, <2>2, <2>3
<1> HIDE DEF A
<1>11. FlattenSeq(seqs) \in Seq(S) /\ Lists(FlattenSeq(seqs), Part(g, A))
  BY <1>6, <1>8, <1>9, <1>10, FlattenedLists
<1>12. A \cap Sources(d, 0) = {} /\ A \cup Sources(d, 0) = DOMAIN d.candidate
  BY DEF A, Sources
<1>13. Lists(FlattenSeq(seqs) \o Rows(d, 0), Part(g, A \cup Sources(d, 0)))
  BY <1>3, <1>11, <1>12, ListsConcat
<1>14. Part(g, DOMAIN d.candidate) = g
  BY DEF Part, g, Indexed
<1>15. CandidatesOf(ex) = FlattenSeq(seqs) \o Rows(d, 0)
  BY <1>1 DEF CandidatesOf, seqs
<1> DEFINE all == CandidatesOf(ex)
<1>16. all \in Seq(S)
  BY <1>3, <1>11, <1>15, ConcatProperties
<1>17. Lists(all, g)
  BY <1>12, <1>13, <1>14, <1>15, Zenon
<1>18. Len(d.candidate) \in Nat /\ DOMAIN g = 1 .. Len(d.candidate)
  BY StoredRows DEF g, Indexed
<1> HIDE DEF all
<1>19. Len(all) = Len(d.candidate)
  BY <1>16, <1>17, <1>18, ListsLength
<1> QED BY <1>16, <1>17, <1>19 DEF all, ex, g, S

(* The answers saved that were not located, and how many were               *)
LEMMA LooseList ==
  ASSUME TypeOK, Sound(disk), AnswersSavedOnce
  PROVE  LET loose == Picked(AllSaved, DOMAIN AllSaved \ LocatedIn(AllSaved))
         IN  /\ IsFiniteSet(DOMAIN loose)
             /\ Lists(loose, Part(PlainRows(disk), DOMAIN disk.candidate \ LocatedRows(disk)))
             /\ Len(AllSaved) = Len(disk.candidate)
             /\ Len(AllSaved) - Len(loose) = Cardinality(LocatedRows(disk))
<1> DEFINE s     == AllSaved
           g     == PlainRows(disk)
           I     == DOMAIN s \ LocatedIn(s)
           B     == LocatedRows(disk)
           A     == DOMAIN disk.candidate \ B
           m     == Len(disk.candidate)
           loose == Picked(s, I)
<1>1. s \in Seq(PipeRow) /\ Lists(s, g)
  BY AllSavedList
<1>2. m \in Nat /\ DOMAIN disk.candidate = 1 .. m /\ IsFiniteSet(DOMAIN disk.candidate)
  BY StoredRows
<1>3. DOMAIN g = DOMAIN disk.candidate
      /\ \A i \in DOMAIN disk.candidate : g[i].cand = CandOf(disk, i)
  BY DEF PlainRows, CandOf
<1>4. B \subseteq DOMAIN disk.candidate
      /\ \A i \in DOMAIN disk.candidate : i \in A <=> ~IsLocated(g[i].cand)
  BY <1>3 DEF LocatedRows
<1>5. PICK h : ListsBy(s, g, h)
  BY <1>1 DEF Lists
<1>6. I \in SUBSET DOMAIN s /\ \A i \in DOMAIN s : i \in I <=> ~IsLocated(s[i].cand)
  BY DEF LocatedIn
<1> HIDE DEF s, g, I, A, B, m
<1>7. DOMAIN s = 1 .. Len(s) /\ Len(s) \in Nat /\ Len(s) = m
  <2>1. Len(s) = m
    BY <1>1, <1>2, <1>3, ListsLength
  <2> QED BY <1>1, <1>2, <2>1
<1>8. \A i \in DOMAIN s : i \in I <=> h[i] \in A
  BY <1>3, <1>4, <1>5, <1>6 DEF ListsBy
<1>9. A \in SUBSET DOMAIN g
  BY <1>3 DEF A
<1>10. Lists(loose, Part(g, A))
  BY <1>5, <1>6, <1>7, <1>8, <1>9, ListsPicked
<1>11. /\ IsFiniteSet(I) /\ Cardinality(I) \in Nat
       /\ loose \in Seq(PipeRow) /\ Len(loose) = Cardinality(I)
  BY <1>1, <1>6, PickedFacts
<1> HIDE DEF loose
<1>12. IsFiniteSet(DOMAIN loose) /\ Cardinality(DOMAIN loose) = Len(loose)
  <2>1. DOMAIN loose = 1 .. Len(loose) /\ Len(loose) \in Nat
    BY <1>11
  <2>2. \A k \in Nat : IsFiniteSet(1 .. k) /\ Cardinality(1 .. k) = k
    BY FS_Interval
  <2> QED BY <2>1, <2>2
<1>13. Cardinality(DOMAIN loose) = Cardinality(A)
  <2>1. Cardinality(DOMAIN loose) = Cardinality(DOMAIN Part(g, A))
    BY <1>10, <1>12, ListsSize
  <2>2. DOMAIN Part(g, A) = A
    BY DEF Part
  <2> QED BY <2>1, <2>2
<1>14. Cardinality(A) + Cardinality(B) = m
  <2>1. IsFiniteSet(A) /\ IsFiniteSet(B)
    BY <1>2, <1>4, FS_Subset DEF A
  <2>2. A \cap B = {} /\ A \cup B = 1 .. m
    BY <1>2, <1>4 DEF A
  <2>3. Cardinality(A \cup B) = Cardinality(A) + Cardinality(B) - Cardinality(A \cap B)
    BY <2>1, FS_Union
  <2>4. Cardinality(1 .. m) = m /\ Cardinality({}) = 0
    BY <1>2, FS_Interval, FS_EmptySet
  <2>5. Cardinality(A) \in Nat /\ Cardinality(B) \in Nat
    BY <2>1, FS_CardinalityType
  <2>6. Cardinality(A \cup B) = m
    BY <2>2, <2>4, Zenon
  <2>7. Cardinality(A \cap B) = 0
    BY <2>2, <2>4
  <2> QED BY <2>3, <2>5, <2>6, <2>7
<1>15. Cardinality(B) \in Nat
  <2>1. IsFiniteSet(B)
    BY <1>2, <1>4, FS_Subset
  <2> QED BY <2>1, FS_CardinalityType
<1>16. Len(s) - Len(loose) = Cardinality(B)
  BY <1>2, <1>7, <1>11, <1>12, <1>13, <1>14, <1>15
<1> QED BY <1>7, <1>10, <1>12, <1>16 DEF s, g, I, A, B, m, loose

-----------------------------------------------------------------------------
(* What the adapter checks before it accepts an export                      *)

LEMMA CandidatesFit ==
  ASSUME NEW d, Sound(d), NEW r
  PROVE  CandidatesAgree(BuildRunExport(d, r))
<1> DEFINE ex  == BuildRunExport(d, r)
           all == CandidatesOf(ex)
           g   == Indexed(d)
<1>1. ex.unit = d.unit /\ ex.unlocated = Rows(d, 0)
  BY ExportParts
<1>2. PICK h : ListsBy(all, g, h)
  BY CandidatesList DEF Lists
<1>3. DOMAIN g = DOMAIN d.candidate
      /\ \A i \in DOMAIN d.candidate : g[i] = [index |-> i, row |-> d.candidate[i]]
  BY DEF Indexed
<1> HIDE DEF ex, all, g
<1>4. ASSUME NEW i \in DOMAIN all
      PROVE  h[i] \in DOMAIN d.candidate /\ all[i].index = h[i]
             /\ all[i].row = d.candidate[h[i]]
  <2>1. h[i] \in DOMAIN d.candidate /\ all[i] = g[h[i]]
    BY <1>2, <1>3 DEF ListsBy
  <2>2. PICK j \in DOMAIN d.candidate : j = h[i]
    BY <2>1
  <2>3. all[i] = [index |-> j, row |-> d.candidate[j]]
    BY <1>3, <2>1, <2>2
  <2>4. all[i].index = j /\ all[i].row = d.candidate[j]
    BY <2>3
  <2> QED BY <2>2, <2>4
<1>5. \A i, j \in DOMAIN all : i # j => all[i].index # all[j].index
  BY <1>2, <1>4 DEF ListsBy
<1>6. DOMAIN d.unit = CheckUnits
  BY DEF Sound, TablesOK
<1>7. \A i \in DOMAIN all : all[i].row.unit \in DOMAIN ex.unit
  BY <1>1, <1>4, <1>6, StoredRows
<1>8. ASSUME NEW k \in DOMAIN Rows(d, 0)
      PROVE  Rows(d, 0)[k].row.cand.locate = "outside-target"
  <2>1. PICK i \in Sources(d, 0) : Rows(d, 0)[k] = [index |-> i, row |-> d.candidate[i]]
    BY RowsList
  <2>2. CandOf(d, i).locate = "outside-target"
    BY UnlocatedRows
  <2>3. Rows(d, 0)[k].row.cand = CandOf(d, i)
    BY <2>1 DEF CandOf
  <2> QED BY <2>2, <2>3
<1> QED BY <1>1, <1>5, <1>7, <1>8 DEF CandidatesAgree, ex, all

LEMMA FindingFits ==
  ASSUME NEW d, Sound(d), NEW r, RechecksFit(d, r.recheckOn),
         NEW k \in DOMAIN BuildRunExport(d, r).findings
  PROVE  FindingAgrees(BuildRunExport(d, r), k)
<1> DEFINE ex   == BuildRunExport(d, r)
           f    == IdsOf(d)[k]
           e    == ExportedFinding(d, f)
           rows == Rows(d, f)
           L    == {e.candidates[i].row.cand.locate : i \in DOMAIN e.candidates}
<1>1. ex.findings[k] = e /\ f \in DOMAIN d.finding
  BY ExportParts
<1>2. /\ e.made = d.finding[f] /\ e.candidates = rows
      /\ e.recheck = IF f \in DOMAIN d.recheck THEN d.recheck[f] ELSE "none"
  BY DEF ExportedFinding
<1>3. /\ Len(rows) = Cardinality(Sources(d, f)) /\ DOMAIN rows = 1 .. Cardinality(Sources(d, f))
      /\ \A i \in DOMAIN rows : \E j \in Sources(d, f) : rows[i] = [index |-> j, row |-> d.candidate[j]]
      /\ \A j \in Sources(d, f) : \E i \in DOMAIN rows : rows[i] = [index |-> j, row |-> d.candidate[j]]
  BY RowsList
<1> HIDE DEF f, e, rows, L
<1>4. ASSUME NEW l, \A j \in Sources(d, f) : CandOf(d, j).locate = l,
             \E j : j \in Sources(d, f)
      PROVE  L = {l}
  <2>1. ASSUME NEW i \in DOMAIN rows PROVE rows[i].row.cand.locate = l
    <3>1. PICK j \in Sources(d, f) : rows[i] = [index |-> j, row |-> d.candidate[j]]
      BY <1>3
    <3> QED BY <1>4, <3>1 DEF CandOf
  <2>2. \E i : i \in DOMAIN rows
    BY <1>3, <1>4, Zenon
  <2>3. L = {rows[i].row.cand.locate : i \in DOMAIN rows}
    BY <1>2 DEF L
  <2> QED BY <2>1, <2>2, <2>3
<1>5. CASE e.made.locate = "located"
  <2>1. f \in LocatedOnes(d)
    BY <1>1, <1>2, <1>5 DEF LocatedOnes
  <2>2. f \in Sources(d, f) /\ Sources(d, f) \subseteq LocatedRows(d)
    BY <2>1, LocatedSources
  <2>3. L = {"located"}
    BY <1>4, <2>2 DEF LocatedRows, IsLocated
  <2>4. e.made.at # NoRange
    <3>1. d.candidate[f].finding = f
      BY <2>2 DEF Sources
    <3>2. d.finding[f].at \in Ranges
      BY <2>2, <3>1, LocatedRow
    <3>3. \A x \in Nat \X Nat : x # NoRange
      BY DEF NoRange
    <3> QED BY <1>2, <3>2, <3>3, MergingAssumption
  <2>5. e.recheck # "unlocated"
    <3>1. CASE f \in DOMAIN d.recheck
      <4>1. RecheckFits(d, r.recheckOn, f)
        BY <3>1 DEF RechecksFit
      <4> QED BY <1>2, <1>5, <3>1, <4>1 DEF RecheckFits
    <3>2. CASE f \notin DOMAIN d.recheck
      BY <1>2, <3>2
    <3> QED BY <3>1, <3>2
  <2> QED BY <1>1, <1>5, <2>3, <2>4, <2>5 DEF FindingAgrees, L
<1>6. CASE e.made.locate # "located"
  <2>1. f \in DOMAIN d.finding \ LocatedOnes(d)
    BY <1>1, <1>2, <1>6 DEF LocatedOnes
  <2>2. Sources(d, f) = {f} /\ e.made.locate = CandOf(d, f).locate
    BY <1>2, <2>1, UnlocatedSource
  <2>3. L = {e.made.locate}
    BY <1>4, <2>2
  <2>4. Len(e.candidates) = 1
    <3>1. Cardinality({f}) = 1
      BY FS_Singleton, Zenon
    <3> QED BY <1>2, <1>3, <2>2, <3>1
  <2> QED BY <1>1, <1>6, <2>3, <2>4 DEF FindingAgrees, L
<1> QED BY <1>5, <1>6

LEMMA RechecksTold ==
  ASSUME NEW d, Sound(d), NEW r, \A f \in DOMAIN d.recheck : d.recheck[f] # "running"
  PROVE  RechecksAgree(BuildRunExport(d, r))
<1> DEFINE ex == BuildRunExport(d, r)
           n  == Cardinality(DOMAIN d.finding)
           U  == {[finding |-> f, status |-> d.recheck[f]] : f \in DOMAIN d.recheck}
<1>1. /\ n \in Nat /\ DOMAIN ex.findings = 1 .. n /\ ex.rechecks = U
      /\ \A k \in 1 .. n : ex.findings[k] = ExportedFinding(d, IdsOf(d)[k])
                           /\ IdsOf(d)[k] \in DOMAIN d.finding
  BY ExportParts
<1>2. \A f \in DOMAIN d.finding : \E k \in 1 .. n : IdsOf(d)[k] = f
  BY IdsList
<1>3. \A f : /\ ExportedFinding(d, f).id = f
             /\ ExportedFinding(d, f).recheck =
                  IF f \in DOMAIN d.recheck THEN d.recheck[f] ELSE "none"
  BY DEF ExportedFinding
<1>4. /\ DOMAIN d.recheck \subseteq DOMAIN d.finding
      /\ \A f \in DOMAIN d.recheck : d.recheck[f] \in RecheckStatus
  BY DEF Sound, TablesOK
<1>5. \A u \in U : \E f \in DOMAIN d.recheck : u.finding = f /\ u.status = d.recheck[f]
  OBVIOUS
<1>6. \A f \in DOMAIN d.recheck : \E u \in U : u.finding = f /\ u.status = d.recheck[f]
  <2>1. ASSUME NEW f \in DOMAIN d.recheck
        PROVE  \E u \in U : u.finding = f /\ u.status = d.recheck[f]
    <3> DEFINE u == [finding |-> f, status |-> d.recheck[f]]
    <3>1. u \in U /\ u.finding = f /\ u.status = d.recheck[f]
      OBVIOUS
    <3> HIDE DEF u, U
    <3> QED BY <3>1
  <2> QED BY <2>1
<1> HIDE DEF ex, n, U
<1>7. \A u \in ex.rechecks : u.status # "running"
  BY <1>1, <1>5
<1>8. ASSUME NEW u \in ex.rechecks
      PROVE  \E k \in DOMAIN ex.findings : ex.findings[k].id = u.finding
  <2>1. u.finding \in DOMAIN d.finding
    BY <1>1, <1>4, <1>5
  <2>2. PICK k \in 1 .. n : IdsOf(d)[k] = u.finding
    BY <1>2, <2>1
  <2> QED BY <1>1, <1>3, <2>2
<1>9. ASSUME NEW k \in DOMAIN ex.findings
      PROVE  {u.status : u \in RechecksOf(ex, ex.findings[k].id)}
               = IF ex.findings[k].recheck = "none" THEN {} ELSE {ex.findings[k].recheck}
  <2> DEFINE f == IdsOf(d)[k]
             X == RechecksOf(ex, ex.findings[k].id)
             c == ex.findings[k].recheck
  <2>1. ex.findings[k].id = f /\ c = (IF f \in DOMAIN d.recheck THEN d.recheck[f] ELSE "none")
    BY <1>1, <1>3
  <2>2. \A u : u \in X <=> u \in U /\ u.finding = f
    BY <1>1, <2>1 DEF RechecksOf
  <2> HIDE DEF X, c, f
  <2>3. CASE f \in DOMAIN d.recheck
    <3>1. c # "none"
      <4>1. "none" \notin RecheckStatus
        BY MergingAssumption DEF RecheckStatus, NotApplicable
      <4> QED BY <1>4, <2>1, <2>3, <4>1
    <3>2. \A u \in X : u.status = c
      BY <1>5, <2>1, <2>2, <2>3
    <3>3. \E u \in X : u.status = c
      BY <1>6, <2>1, <2>2, <2>3
    <3>4. {u.status : u \in X} = {c}
      BY <3>2, <3>3
    <3> QED BY <3>1, <3>4 DEF X, c
  <2>4. CASE f \notin DOMAIN d.recheck
    <3>1. c = "none" /\ \A u : u \notin X
      BY <1>5, <2>1, <2>2, <2>4
    <3>2. {u.status : u \in X} = {}
      BY <3>1
    <3> QED BY <3>1, <3>2 DEF X, c
  <2> QED BY <2>3, <2>4
<1> QED BY <1>7, <1>8, <1>9 DEF RechecksAgree, ex

(* A run at rest                                                            *)
RunAtRest(d, r) ==
  /\ Sound(d) /\ RechecksFit(d, r.recheckOn)
  /\ \A u \in CheckUnits : d.unit[u] # "running"
  /\ \A f \in DOMAIN d.recheck : d.recheck[f] # "running"
  /\ r.status \in {"completed", "partially-failed", "stopped", "recovery-waiting"}
  /\ r.status = "stopped" => r.reason # "none"
  /\ r.status \in {"completed", "partially-failed"} =>
       r.reason = "none" /\ \A t \in Targets : Tidy(d, t)

LEMMA WhatIsAccepted ==
  ASSUME NEW d, NEW r, RunAtRest(d, r)
  PROVE  Accepted(BuildRunExport(d, r)) <=>
           r.status # "recovery-waiting" /\ r.reason # "backend-restarted"
<1> DEFINE ex == BuildRunExport(d, r)
<1>1. Sound(d) /\ RechecksFit(d, r.recheckOn)
  BY DEF RunAtRest
<1>2. ex.run = r /\ ex.unit = d.unit
  BY <1>1, ExportParts
<1>3. CandidatesAgree(ex)
  BY <1>1, CandidatesFit
<1>4. RechecksAgree(ex)
  BY <1>1, RechecksTold DEF RunAtRest
<1>5. \A k \in DOMAIN ex.findings : FindingAgrees(ex, k)
  BY <1>1, FindingFits
<1> HIDE DEF ex
<1>6. \A u \in CheckUnits : ex.unit[u] # "running"
  BY <1>2 DEF RunAtRest
<1>7. Accepted(ex) <=> Ended(ex) /\ StopMakesSense(ex)
  BY <1>3, <1>4, <1>5, <1>6 DEF Accepted
<1>8. Ended(ex) /\ StopMakesSense(ex) <=>
        r.status # "recovery-waiting" /\ r.reason # "backend-restarted"
  BY <1>2 DEF Ended, StopMakesSense, RunAtRest
<1> QED BY <1>7, <1>8 DEF ex

-----------------------------------------------------------------------------
(* The result of an accepted export                                         *)

LEMMA StatusesTold ==
  ASSUME NEW d, NEW r, RunAtRest(d, r), NEW ex, ex.run = r,
         r.status # "recovery-waiting", r.recheckOn \in BOOLEAN,
         NEW f \in LocatedOnes(d)
  PROVE  LET e == AdaptedFinding(ex, ExportedFinding(d, f))
         IN  /\ e.status = "disabled" <=> ~r.recheckOn
             /\ e.finding.suppressed /\ r.recheckOn => e.status = "suppressed"
             /\ e.status = "pending" \/ (e.status = "suppressed" /\ ~e.finding.suppressed) =>
                  r.status = "stopped"
<1> DEFINE x    == ExportedFinding(d, f)
           e    == AdaptedFinding(ex, x)
           made == d.finding[f]
<1>1. f \in DOMAIN d.finding /\ made.locate = "located" /\ made.suppressed \in BOOLEAN
      /\ made.target \in Targets
  <2>1. f \in DOMAIN d.finding /\ made.locate = "located"
    BY DEF LocatedOnes
  <2>2. made \in Finding
    BY <2>1, RowTypes DEF RunAtRest, Sound
  <2> QED BY <2>1, <2>2 DEF Finding
<1>2. x.made = made
      /\ x.recheck = IF f \in DOMAIN d.recheck THEN d.recheck[f] ELSE "none"
  BY DEF ExportedFinding
<1> HIDE DEF x
<1>3. e.finding.suppressed = made.suppressed /\ e.status = RecheckInput(ex, x)
  BY <1>2 DEF AdaptedFinding
<1> HIDE DEF e, made
<1>4. CASE f \in DOMAIN d.recheck
  <2>1. RecheckFits(d, r.recheckOn, f) /\ d.recheck[f] \in RecheckStatus
    BY <1>4 DEF RunAtRest, RechecksFit, Sound, TablesOK
  <2>2. d.recheck[f] # "none"
    <3>1. "none" \notin RecheckStatus
      BY MergingAssumption DEF RecheckStatus, NotApplicable
    <3> QED BY <2>1, <3>1
  <2>3. e.status = d.recheck[f]
    BY <1>2, <1>3, <1>4, <2>2 DEF RecheckInput
  <2>4. e.status = "disabled" <=> ~r.recheckOn
    BY <2>1, <2>3 DEF RecheckFits
  <2>5. e.finding.suppressed /\ r.recheckOn => e.status = "suppressed"
    BY <1>1, <1>3, <2>1, <2>3 DEF RecheckFits, made
  <2>6. r.status \in {"completed", "partially-failed"} =>
          e.status # "pending" /\ (e.status = "suppressed" => e.finding.suppressed)
    <3> SUFFICES ASSUME r.status \in {"completed", "partially-failed"}
                 PROVE  e.status # "pending" /\ (e.status = "suppressed" => e.finding.suppressed)
      OBVIOUS
    <3>1. Tidy(d, made.target)
      BY <1>1 DEF RunAtRest
    <3>2. d.recheck[f] # "pending" /\ (d.recheck[f] = "suppressed" => made.suppressed)
      BY <1>1, <3>1 DEF Tidy, Issued, made
    <3> QED BY <1>3, <2>3, <3>2
  <2>7. r.status \in {"completed", "partially-failed", "stopped"}
    BY DEF RunAtRest
  <2> QED BY <2>4, <2>5, <2>6, <2>7 DEF e, x
<1>5. CASE f \notin DOMAIN d.recheck
  <2>1. x.recheck = "none"
    BY <1>2, <1>5
  <2>2. e.status = IF r.recheckOn THEN IF made.suppressed THEN "suppressed" ELSE "pending"
                   ELSE "disabled"
    BY <1>2, <1>3, <2>1 DEF RecheckInput
  <2>3. r.status \notin {"completed", "partially-failed"}
    <3>1. ASSUME r.status \in {"completed", "partially-failed"} PROVE FALSE
      <4>1. Tidy(d, made.target)
        BY <1>1, <3>1 DEF RunAtRest
      <4> QED BY <1>1, <1>5, <4>1 DEF Tidy, Issued, made
    <3> QED BY <3>1
  <2>4. r.status = "stopped"
    BY <2>3 DEF RunAtRest
  <2> QED BY <1>3, <2>2, <2>4 DEF e, x
<1> QED BY <1>4, <1>5

(* The result unfolded                                                      *)
LEMMA AdaptedParts ==
  ASSUME NEW ex
  PROVE  LET located == Picked(ex.findings, PlacedIn(ex))
             failed  == Picked(ex.findings, DOMAIN ex.findings \ PlacedIn(ex))
             found   == [k \in DOMAIN located |-> AdaptedFinding(ex, located[k])]
         IN  /\ Adapted(ex).findings = found
             /\ Adapted(ex).unlocated =
                  [k \in DOMAIN failed |-> AdaptedRow(failed[k].candidates[1])]
                    \o [k \in DOMAIN ex.unlocated |-> AdaptedRow(ex.unlocated[k])]
             /\ Adapted(ex).totals.candidates = Len(CandidatesOf(ex))
             /\ Adapted(ex).totals.located = SumOf([i \in DOMAIN found |-> found[i].finding.size])
  BY Zenon DEF Adapted, ResultOf, Totals

(* An accepted export of the tables at rest is adapted to the result of one *)
(* pass over the answers that were saved.                                   *)
LEMMA ResultIsOnePass ==
  ASSUME TypeOK, AnswersSavedOnce, RunAtRest(disk, run), run.status # "recovery-waiting"
  PROVE  LET result == Adapted(Exported)
             shown  == [k \in DOMAIN result.findings |-> result.findings[k].finding]
             loose  == Picked(AllSaved, DOMAIN AllSaved \ LocatedIn(AllSaved))
         IN  /\ RechecksAreTold(result.findings)
             /\ \A f : Cardinality(Places(shown, f)) = Cardinality(Places(AtOnce, f))
             /\ \A r : Cardinality(Places(loose, r)) = Cardinality(Places(result.unlocated, r))
             /\ result.totals.candidates = Len(AllSaved)
             /\ result.totals.located = Len(AllSaved) - Len(loose)
<1> DEFINE ex      == BuildRunExport(disk, run)
           located == Picked(ex.findings, PlacedIn(ex))
           failed  == Picked(ex.findings, DOMAIN ex.findings \ PlacedIn(ex))
           all     == [k \in DOMAIN failed |-> AdaptedRow(failed[k].candidates[1])]
                        \o [k \in DOMAIN ex.unlocated |-> AdaptedRow(ex.unlocated[k])]
           found   == [k \in DOMAIN located |-> AdaptedFinding(ex, located[k])]
           shown   == [k \in DOMAIN located |-> AdaptedFinding(ex, located[k]).finding]
           loose   == Picked(AllSaved, DOMAIN AllSaved \ LocatedIn(AllSaved))
           result  == Adapted(ex)
<1>1. Sound(disk) /\ run.recheckOn \in BOOLEAN
  BY DEF RunAtRest, TypeOK
<1>2. ex.run = run
  BY <1>1, ExportParts
<1>3. /\ result.findings = found /\ result.unlocated = all
      /\ result.totals.candidates = Len(CandidatesOf(ex))
      /\ result.totals.located = SumOf([i \in DOMAIN found |-> found[i].finding.size])
  BY AdaptedParts, Zenon
<1>4. /\ IsFiniteSet(DOMAIN shown) /\ Lists(shown, Part(Shown(disk), LocatedOnes(disk)))
      /\ \A k \in DOMAIN located :
           \E f \in LocatedOnes(disk) : located[k] = ExportedFinding(disk, f)
      /\ SumOf([k \in DOMAIN located |-> shown[k].size]) = Cardinality(LocatedRows(disk))
  BY <1>1, ShownList, Zenon
<1>5. /\ IsFiniteSet(DOMAIN all)
      /\ Lists(all, Part(PlainRows(disk), DOMAIN disk.candidate \ LocatedRows(disk)))
  BY <1>1, UnlocatedList, Zenon
<1>6. /\ IsFiniteSet(DOMAIN loose)
      /\ Lists(loose, Part(PlainRows(disk), DOMAIN disk.candidate \ LocatedRows(disk)))
      /\ Len(AllSaved) = Len(disk.candidate)
      /\ Len(AllSaved) - Len(loose) = Cardinality(LocatedRows(disk))
  BY <1>1, LooseList
<1>7. Len(CandidatesOf(ex)) = Len(disk.candidate)
  BY <1>1, CandidatesList
<1>8. /\ DOMAIN found = DOMAIN located /\ DOMAIN shown = DOMAIN located
      /\ \A k \in DOMAIN located : /\ found[k] = AdaptedFinding(ex, located[k])
                                   /\ shown[k] = found[k].finding
  OBVIOUS
<1>9. shown = [k \in DOMAIN found |-> found[k].finding]
      /\ [k \in DOMAIN located |-> shown[k].size] = [k \in DOMAIN found |-> found[k].finding.size]
  OBVIOUS
<1>10. AtOnce \in Seq(MergedRow) /\ Lists(AtOnce, Part(Shown(disk), LocatedOnes(disk)))
  BY <1>1, AtOnceList
<1> HIDE DEF ex, located, all, found, shown, loose, result
<1>11. IsFiniteSet(DOMAIN AtOnce)
  <2>1. DOMAIN AtOnce = 1 .. Len(AtOnce) /\ Len(AtOnce) \in Nat
    BY <1>10
  <2> QED BY <2>1, FS_Interval
<1>12. \A f : Cardinality(Places(shown, f)) = Cardinality(Places(AtOnce, f))
  BY <1>4, <1>10, <1>11, SameTimes
<1>13. \A r : Cardinality(Places(loose, r)) = Cardinality(Places(all, r))
  BY <1>5, <1>6, SameTimes
<1>14. ASSUME NEW e \in ToSet(found)
       PROVE  /\ e.status = "disabled" <=> ~run.recheckOn
              /\ e.finding.suppressed /\ run.recheckOn => e.status = "suppressed"
              /\ e.status = "pending" \/ (e.status = "suppressed" /\ ~e.finding.suppressed) =>
                   run.status = "stopped"
  <2>1. PICK k \in DOMAIN found : e = found[k]
    BY DEF ToSet
  <2>2. PICK f \in LocatedOnes(disk) : located[k] = ExportedFinding(disk, f)
    BY <1>4, <1>8, <2>1
  <2>3. e = AdaptedFinding(ex, ExportedFinding(disk, f))
    BY <1>8, <2>1, <2>2
  <2> QED BY <1>1, <1>2, <2>3, StatusesTold
<1>15. RechecksAreTold(found)
  BY <1>14 DEF RechecksAreTold
<1>16. result.totals.located = Len(AllSaved) - Len(loose)
  BY <1>3, <1>4, <1>6, <1>9
<1>17. result.totals.candidates = Len(AllSaved)
  BY <1>3, <1>6, <1>7
<1>18. result = Adapted(Exported)
  BY DEF result, ex, Exported
<1>19. [k \in DOMAIN result.findings |-> result.findings[k].finding] = shown
  BY <1>3, <1>9
<1> QED BY <1>3, <1>12, <1>13, <1>15, <1>16, <1>17, <1>18, <1>19, Zenon DEF loose

LEMMA RestsSound ==
  ASSUME IInv, AnswersInv, ClosedInv, AtRest
  PROVE  TypeOK /\ AnswersSavedOnce /\ RunAtRest(disk, run)
<1>1. TypeOK /\ AnswersSavedOnce
  BY DEF IInv, AnswersInv
<1>2. loop.pc = "off" /\ db = disk
  BY DEF AtRest, IInv, LoopInv
<1>3. Sound(disk)
  BY DEF IInv, TypeOK, ClosedInv, RowsInv, Sound
<1>4. /\ RechecksFit(disk, run.recheckOn)
      /\ \A u \in CheckUnits : disk.unit[u] # "running"
      /\ \A f \in DOMAIN disk.recheck : disk.recheck[f] # "running"
  BY <1>2 DEF ClosedInv, RechecksInv, UnderWay
<1>5. /\ run.status \in RunStatus \ {"absent", "running"}
      /\ run.status = "stopped" => run.reason # "none"
      /\ run.status \in {"completed", "partially-failed"} => run.reason = "none"
  BY <1>1, <1>2 DEF TypeOK, ClosedInv, RestInv, AtRest
<1>6. run.status \in {"completed", "partially-failed"} => \A t \in Targets : Tidy(disk, t)
  BY <1>2 DEF ClosedInv, TidyInv
<1> QED BY <1>1, <1>3, <1>4, <1>5, <1>6 DEF RunAtRest, RunStatus

LEMMA ClosedExports == IInv /\ AnswersInv /\ ClosedInv => ExportIsPipelineResult
<1> SUFFICES ASSUME IInv, AnswersInv, ClosedInv, AtRest PROVE ExportIsPipelineResult
  BY Zenon DEF ExportIsPipelineResult
<1> DEFINE result == Adapted(Exported)
           shown  == [k \in DOMAIN result.findings |-> result.findings[k].finding]
           loose  == Picked(AllSaved, DOMAIN AllSaved \ LocatedIn(AllSaved))
<1>1. TypeOK /\ AnswersSavedOnce /\ RunAtRest(disk, run)
  BY RestsSound
<1>2. Accepted(Exported) <=>
        run.status # "recovery-waiting" /\ run.reason # "backend-restarted"
  BY <1>1, WhatIsAccepted DEF Exported
<1>3. ASSUME Accepted(Exported)
      PROVE  /\ RechecksAreTold(result.findings)
             /\ \A f : Cardinality(Places(shown, f)) = Cardinality(Places(AtOnce, f))
             /\ \A r : Cardinality(Places(loose, r)) = Cardinality(Places(result.unlocated, r))
             /\ result.totals.candidates = Len(AllSaved)
             /\ result.totals.located = Len(AllSaved) - Len(loose)
  BY <1>1, <1>2, <1>3, ResultIsOnePass, Zenon
<1> HIDE DEF result, shown, loose
<1>4. ASSUME Accepted(Exported)
      PROVE  /\ \A f \in ToSet(shown) \cup ToSet(AtOnce) :
                  Cardinality({i \in DOMAIN shown : shown[i] = f})
                    = Cardinality({i \in DOMAIN AtOnce : AtOnce[i] = f})
             /\ \A r \in ToSet(loose) \cup ToSet(result.unlocated) :
                  Cardinality({i \in DOMAIN loose : loose[i] = r})
                    = Cardinality({i \in DOMAIN result.unlocated : result.unlocated[i] = r})
  BY <1>3, <1>4, Zenon DEF Places
<1> USE DEF result, shown, loose
<1> QED BY <1>2, <1>3, <1>4, Zenon DEF ExportIsPipelineResult, Number

(* Whatever stops, retries and restarts a run went through, and whatever    *)
(* the model answered, the export of a run at rest is adapted to the result *)
(* one pass over the same answers gives, and refused exactly while it waits *)
(* or if a restart ended it (buildRunExport, adaptExportToResult).          *)
THEOREM ExportAgrees == ProofreadingSpec => []ExportIsPipelineResult
<1>1. Init => IInv /\ AnswersInv /\ ClosedInv
  BY InitIInv, InitAnswers, InitClosed
<1>2. IInv /\ AnswersInv /\ ClosedInv /\ [Next]_vars => (IInv /\ AnswersInv /\ ClosedInv)'
  BY NextSteps, AnswersSteps, ClosedSteps
<1>3. Spec => [](IInv /\ AnswersInv /\ ClosedInv)
  BY <1>1, <1>2, PTL DEF Spec
<1> QED BY <1>3, ClosedExports, ServerWay, PTL

-----------------------------------------------------------------------------
(* What is picked of two sequences put together                             *)

(* The place a number of a set has among its numbers.                       *)
LEMMA NthIs ==
  ASSUME NEW I, I \subseteq Nat, IsFiniteSet(I), NEW i \in I
  PROVE  LET k == Cardinality({j \in I : j <= i})
         IN  k \in 1 .. Cardinality(I) /\ Nth(I, k) = i
<1>1. PICK l \in 1 .. Cardinality(I) : Nth(I, l) = i
  BY NthFacts, Zenon
<1>2. Cardinality({j \in I : j <= Nth(I, l)}) = l
  BY NthFacts, Zenon
<1> QED BY <1>1, <1>2

(* A set moved along by n is as large.                                      *)
LEMMA ShiftSize ==
  ASSUME NEW D, D \subseteq Nat, IsFiniteSet(D), NEW n \in Nat, NEW E,
         \A i : i \in E <=> \E j \in D : i = n + j
  PROVE  IsFiniteSet(E) /\ Cardinality(E) = Cardinality(D)
<1> DEFINE f == [j \in D |-> n + j]
<1>1. f \in [D -> E]
  OBVIOUS
<1>2. \A i, j \in D : f[i] = f[j] => i = j
  <2>1. \A j \in D : j \in Nat /\ f[j] = n + j
    OBVIOUS
  <2> HIDE DEF f
  <2> QED BY <2>1
<1>3. \A i \in E : \E j \in D : f[j] = i
  OBVIOUS
<1>4. f \in Bijection(D, E)
  <2> HIDE DEF f
  <2> QED BY <1>1, <1>2, <1>3 DEF Bijection, Injection, Surjection, IsInjective
<1>5. ExistsBijection(D, E)
  BY <1>4 DEF ExistsBijection
<1> QED BY <1>5, FS_Bijection

(* The size of two sets that have nothing in common.                        *)
LEMMA SizeOfBoth ==
  ASSUME NEW A, NEW E, IsFiniteSet(A), IsFiniteSet(E), \A i \in A : i \notin E,
         NEW I, \A i : i \in I <=> i \in A \/ i \in E
  PROVE  IsFiniteSet(I) /\ Cardinality(I) = Cardinality(A) + Cardinality(E)
<1>1. I = A \cup E /\ A \cap E = {}
  OBVIOUS
<1>2. Cardinality(A \cup E) = Cardinality(A) + Cardinality(E) - Cardinality(A \cap E)
  BY FS_Union
<1>3. Cardinality({}) = 0
  BY FS_EmptySet
<1>4. Cardinality(A) \in Nat /\ Cardinality(E) \in Nat
  BY FS_CardinalityType
<1>5. IsFiniteSet(A \cup E)
  BY FS_Union, Zenon
<1>6. Cardinality(A \cap E) = 0
  BY <1>1, <1>3
<1>7. Cardinality(A \cup E) = Cardinality(A) + Cardinality(E)
  BY <1>2, <1>4, <1>6
<1> QED BY <1>1, <1>5, <1>7

PicksConcat(x, y, I, A, D) == Picked(x \o y, I) = Picked(x, A) \o Picked(y, D)

(* What is picked of x \o y is what is picked of x and then of y.           *)
LEMMA PickedConcat ==
  ASSUME NEW x \in Seq(Units), NEW y \in Seq(Units),
         NEW I \in SUBSET (1 .. Len(x) + Len(y)), NEW A, NEW D,
         \A i : i \in A <=> i \in I /\ i <= Len(x),
         \A j : j \in D <=> j \in 1 .. Len(y) /\ Len(x) + j \in I
  PROVE  PicksConcat(x, y, I, A, D)
<1> DEFINE n == Len(x)
           m == Len(y)
           t == x \o y
           a == Cardinality(A)
           d == Cardinality(D)
           E == {i \in I : i > n}
<1>1. /\ n \in Nat /\ m \in Nat /\ DOMAIN x = 1 .. n /\ DOMAIN y = 1 .. m
      /\ t \in Seq(Units) /\ DOMAIN t = 1 .. n + m
      /\ \A i \in 1 .. n : t[i] = x[i]
      /\ \A j \in 1 .. m : t[n + j] = y[j]
  OBVIOUS
<1>2. /\ \A i : i \in A <=> i \in I /\ i <= n
      /\ \A j : j \in D <=> j \in 1 .. m /\ n + j \in I
      /\ I \subseteq 1 .. n + m
  OBVIOUS
<1> HIDE DEF n, m, t
<1>3. A \subseteq 1 .. n /\ D \subseteq 1 .. m
  <2>1. ASSUME NEW i \in A PROVE i \in 1 .. n
    <3>1. i \in 1 .. n + m /\ i <= n
      BY <1>2, Zenon
    <3> QED BY <1>1, <3>1
  <2>2. ASSUME NEW j \in D PROVE j \in 1 .. m
    BY <1>2
  <2> QED BY <2>1, <2>2
<1>4. \A i : i \in E <=> \E j \in D : i = n + j
  <2>1. ASSUME NEW i \in E PROVE \E j \in D : i = n + j
    <3>1. PICK j \in 1 .. m : j = i - n
      BY <1>1, <1>2
    <3>2. n + j = i
      BY <1>1, <1>2, <3>1
    <3> QED BY <1>2, <3>2
  <2>2. ASSUME NEW j \in D PROVE n + j \in E
    BY <1>1, <1>2
  <2> QED BY <2>1, <2>2, Zenon
<1>5. (\A i : i \in I <=> i \in A \/ i \in E) /\ \A i \in A : i \notin E
  <2>1. \A i \in I : i \in Nat /\ (i <= n <=> ~(i > n))
    BY <1>1, <1>2
  <2>2. \A i : i \in E <=> i \in I /\ i > n
    OBVIOUS
  <2> HIDE DEF E
  <2> QED BY <1>2, <2>1, <2>2, Zenon
<1>6. IsFiniteSet(I) /\ IsFiniteSet(A) /\ IsFiniteSet(D) /\ I \subseteq Nat /\ A \subseteq Nat /\ D \subseteq Nat
  <2>1. \A l \in Nat : IsFiniteSet(1 .. l)
    BY FS_Interval
  <2>2. PICK l \in Nat : l = n + m
    BY <1>1
  <2>3. IsFiniteSet(1 .. l) /\ IsFiniteSet(1 .. m) /\ IsFiniteSet(1 .. n)
    BY <1>1, <2>1
  <2>4. I \subseteq 1 .. l /\ A \subseteq 1 .. n /\ D \subseteq 1 .. m
    BY <1>2, <1>3, <2>2
  <2>5. IsFiniteSet(I) /\ IsFiniteSet(A) /\ IsFiniteSet(D)
    BY <2>3, <2>4, FS_Subset, Zenon
  <2>6. \A z \in Nat : 1 .. z \subseteq Nat
    OBVIOUS
  <2>7. I \subseteq Nat /\ A \subseteq Nat /\ D \subseteq Nat
    BY <1>1, <2>2, <2>4, <2>6
  <2> QED BY <2>5, <2>7
<1>7. IsFiniteSet(E) /\ Cardinality(E) = d
  <2> HIDE DEF E
  <2> QED BY <1>1, <1>4, <1>6, ShiftSize, Zenon
<1>8. a \in Nat /\ d \in Nat
  BY <1>6, FS_CardinalityType
<1>9. Cardinality(I) = a + d
  <2> HIDE DEF E
  <2>2. IsFiniteSet(A) /\ IsFiniteSet(E)
    BY <1>6, <1>7
  <2>3. \A i \in A : i \notin E
    BY <1>5
  <2>4. \A i : i \in I <=> i \in A \/ i \in E
    BY <1>5
  <2>1. Cardinality(I) = Cardinality(A) + Cardinality(E)
    BY ONLY <2>2, <2>3, <2>4, SizeOfBoth
  <2> QED BY <1>7, <2>1
<1>10. ASSUME NEW k \in 1 .. a PROVE Nth(A, k) \in A /\ Nth(I, k) = Nth(A, k)
  <2> DEFINE i == Nth(A, k)
  <2>1. i \in A /\ Cardinality({j \in A : j <= i}) = k
    BY <1>6, NthFacts, Zenon
  <2> HIDE DEF i
  <2>2. {j \in I : j <= i} = {j \in A : j <= i}
    <3>1. i \in Nat /\ i <= n
      BY <1>2, <1>6, <2>1
    <3>2. \A j \in I : j <= i => j <= n
      <4>1. \A j \in I : j \in Nat
        BY <1>6
      <4> QED BY <1>1, <3>1, <4>1
    <3> QED BY <1>2, <3>2, Zenon
  <2>3. Nth(I, k) = i
    <3>1. i \in I
      BY <1>2, <2>1
    <3> QED BY <1>6, <2>1, <2>2, <3>1, NthIs, Zenon
  <2> QED BY <2>1, <2>3 DEF i
<1>11. ASSUME NEW k \in 1 .. d PROVE Nth(D, k) \in D /\ Nth(I, a + k) = n + Nth(D, k)
  <2> DEFINE i == Nth(D, k)
             F == {j \in D : j <= i}
             G == {j \in I : n < j /\ j <= n + i}
  <2>1. i \in D /\ Cardinality(F) = k
    BY <1>6, NthFacts, Zenon
  <2>2. i \in Nat
    BY <1>6, <2>1
  <2>3. \A j : j \in {h \in I : h <= n + i} <=> j \in A \/ j \in G
    <3>1. \A j \in I : j \in Nat
      BY <1>6
    <3>2. \A j \in I : (j <= n + i <=> j <= n \/ (n < j /\ j <= n + i))
      BY <1>1, <2>2, <3>1
    <3> QED BY <1>2, <3>2, Zenon
  <2>12. \A j \in A : j \notin G
    <3>1. \A j \in A : j \in Nat /\ j <= n
      BY <1>2, <1>6
    <3> QED BY <1>1, <3>1
  <2>4. \A j : j \in G <=> \E l \in F : j = n + l
    <3>1. ASSUME NEW j \in G PROVE \E l \in F : j = n + l
      <4>1. j \in E
        OBVIOUS
      <4>2. PICK l \in D : j = n + l
        BY <1>4, <4>1
      <4>3. l \in Nat /\ l <= i
        BY <1>1, <1>6, <2>2, <4>2
      <4> QED BY <4>2, <4>3
    <3>2. ASSUME NEW l \in F PROVE n + l \in G
      <4>1. l \in D /\ l \in Nat /\ l <= i
        BY <1>6
      <4>2. n + l \in E
        BY <1>4, <4>1
      <4>3. n + l <= n + i
        BY <1>1, <2>2, <4>1
      <4> QED BY <4>2, <4>3
    <3> HIDE DEF F, G
    <3> QED BY <3>1, <3>2
  <2>5. IsFiniteSet(F) /\ F \subseteq Nat
    BY <1>6, FS_Subset
  <2> HIDE DEF F, G
  <2>6. IsFiniteSet(G) /\ Cardinality(G) = k
    BY <1>1, <2>1, <2>4, <2>5, ShiftSize, Zenon
  <2> DEFINE U == {j \in I : j <= n + i}
  <2> HIDE DEF U
  <2>9. Cardinality(U) = a + k
    <3>1. \A j : j \in U <=> j \in A \/ j \in G
      BY <2>3 DEF U
    <3>2. Cardinality(U) = Cardinality(A) + Cardinality(G)
      BY <1>6, <2>6, <2>12, <3>1, SizeOfBoth, Zenon
    <3> QED BY <2>6, <3>2
  <2>10. n + i \in I
    BY <1>2, <2>1
  <2> HIDE DEF i, a
  <2>11. Nth(I, a + k) = n + i
    <3>1. PICK z \in I : z = n + i
      BY <2>10, Zenon
    <3>2. Cardinality({j \in I : j <= z}) = a + k
      BY <2>9, <3>1 DEF U
    <3>3. LET l == Cardinality({j \in I : j <= z})
          IN  l \in 1 .. Cardinality(I) /\ Nth(I, l) = z
      BY <1>6, <3>1, NthIs, Zenon
    <3> QED BY <3>1, <3>2, <3>3
  <2> QED BY <2>1, <2>11 DEF i
<1> DEFINE p == Picked(x, A)
           q == Picked(y, D)
           r == Picked(t, I)
<1>12. /\ p \in Seq(Units) /\ Len(p) = a /\ \A k \in 1 .. a : p[k] = x[Nth(A, k)]
       /\ q \in Seq(Units) /\ Len(q) = d /\ \A k \in 1 .. d : q[k] = y[Nth(D, k)]
       /\ r \in Seq(Units) /\ Len(r) = a + d /\ \A k \in 1 .. a + d : r[k] = t[Nth(I, k)]
  <2>1. A \in SUBSET DOMAIN x /\ D \in SUBSET DOMAIN y /\ I \in SUBSET DOMAIN t
    BY <1>1, <1>2, <1>3
  <2> HIDE DEF p, q, r, a, d
  <2>2. p \in Seq(Units) /\ Len(p) = a /\ \A k \in 1 .. a : p[k] = x[Nth(A, k)]
    BY <2>1, PickedFacts DEF p, a
  <2>3. q \in Seq(Units) /\ Len(q) = d /\ \A k \in 1 .. d : q[k] = y[Nth(D, k)]
    BY <2>1, PickedFacts DEF q, d
  <2>4. r \in Seq(Units) /\ Len(r) = Cardinality(I)
        /\ \A k \in 1 .. Cardinality(I) : r[k] = t[Nth(I, k)]
    BY <1>1, <2>1, PickedFacts DEF r
  <2> QED BY <1>9, <2>2, <2>3, <2>4 DEF a, d
<1> HIDE DEF p, q, r, a, d
<1>13. ASSUME NEW k \in 1 .. a PROVE r[k] = p[k]
  <2>1. k \in 1 .. a + d
    BY <1>8
  <2>2. r[k] = t[Nth(A, k)] /\ p[k] = x[Nth(A, k)] /\ Nth(A, k) \in 1 .. n
    BY <1>3, <1>10, <1>12, <2>1, Zenon
  <2> QED BY <1>1, <2>2
<1>14. ASSUME NEW k \in 1 .. d PROVE r[a + k] = q[k]
  <2>1. a + k \in 1 .. a + d
    BY <1>8
  <2>2. r[a + k] = t[n + Nth(D, k)] /\ q[k] = y[Nth(D, k)] /\ Nth(D, k) \in 1 .. m
    BY <1>3, <1>11, <1>12, <2>1
  <2> QED BY <1>1, <2>2
<1>15. r = p \o q
  <2> DEFINE w == p \o q
  <2>7. p \in Seq(Units) /\ q \in Seq(Units)
    BY <1>12
  <2>4. w \in Seq(Units) /\ Len(w) = Len(p) + Len(q)
    BY <2>7
  <2>5. ASSUME NEW k \in 1 .. a PROVE w[k] = p[k]
    BY <1>8, <1>12
  <2>6. ASSUME NEW k \in 1 .. d PROVE w[a + k] = q[k]
    BY <1>8, <1>12
  <2>1. /\ w \in Seq(Units) /\ Len(w) = a + d
        /\ \A k \in 1 .. a : w[k] = p[k]
        /\ \A k \in 1 .. d : w[a + k] = q[k]
    BY <1>12, <2>4, <2>5, <2>6
  <2> HIDE DEF w
  <2>2. ASSUME NEW k \in 1 .. a + d PROVE r[k] = w[k]
    <3>1. CASE k \in 1 .. a
      BY <1>13, <2>1, <3>1
    <3>2. CASE k \notin 1 .. a
      <4>1. PICK l \in 1 .. d : k = a + l
        <5>1. k - a \in 1 .. d /\ k = a + (k - a)
          BY <1>8, <3>2
        <5> QED BY <5>1
      <4> QED BY <1>14, <2>1, <4>1
    <3> QED BY <3>1, <3>2
  <2>3. r = w
    BY <1>12, <2>1, <2>2, SeqEqual
  <2> QED BY <2>3 DEF w
<1> QED BY <1>15 DEF p, q, r, t, PicksConcat

(* A sequence all of which is picked stays as it is.                        *)
LEMMA PickedAll ==
  ASSUME NEW S, NEW x \in Seq(S)
  PROVE  Picked(x, DOMAIN x) = x
<1> DEFINE n == Len(x)
           p == Picked(x, DOMAIN x)
<1>1. n \in Nat /\ DOMAIN x = 1 .. n
  OBVIOUS
<1>2. \A k \in Nat : IsFiniteSet(1 .. k) /\ Cardinality(1 .. k) = k
  <2>1. \A k \in Nat : IsFiniteSet(1 .. k)
    BY FS_Interval
  <2>2. ASSUME NEW k \in Nat PROVE Cardinality(1 .. k) = k
    <3>1. Cardinality(1 .. k) = IF 1 > k THEN 0 ELSE k - 1 + 1
      BY FS_Interval
    <3> QED BY <3>1
  <2> QED BY <2>1, <2>2
<1> HIDE DEF n
<1>3. p \in Seq(S) /\ Len(p) = n /\ \A k \in 1 .. n : p[k] = x[Nth(1 .. n, k)]
  <2>1. DOMAIN x \in SUBSET DOMAIN x
    OBVIOUS
  <2>2. /\ Picked(x, DOMAIN x) \in Seq(S) /\ Len(Picked(x, DOMAIN x)) = Cardinality(DOMAIN x)
        /\ \A k \in 1 .. Cardinality(DOMAIN x) : Picked(x, DOMAIN x)[k] = x[Nth(DOMAIN x, k)]
    BY <2>1, PickedFacts
  <2> HIDE DEF p
  <2> QED BY <1>1, <1>2, <2>2 DEF p
<1>4. ASSUME NEW k \in 1 .. n PROVE Nth(1 .. n, k) = k
  <2> DEFINE I == 1 .. n
  <2>1. {j \in I : j <= k} = 1 .. k
    BY <1>1
  <2>2. I \subseteq Nat /\ IsFiniteSet(I) /\ k \in I
    BY <1>1, <1>2
  <2>3. Cardinality({j \in I : j <= k}) = k
    <3>1. k \in Nat
      BY <1>1
    <3>2. Cardinality(1 .. k) = k
      BY <1>2, <3>1
    <3> QED BY <2>1, <3>2, Zenon
  <2> HIDE DEF I
  <2>4. Nth(I, k) = k
    BY <2>2, <2>3, NthIs, Zenon
  <2> QED BY <2>4 DEF I
<1> HIDE DEF p
<1>5. \A k \in 1 .. n : p[k] = x[k]
  BY <1>3, <1>4
<1>6. p = x
  BY <1>1, <1>3, <1>5, SeqEqual DEF n
<1> QED BY <1>6 DEF p

(* Of a sequence whose first is kept.                                       *)
LEMMA PickedEnds ==
  ASSUME NEW S, NEW x \in Seq(S), Len(x) > 0, NEW I \in SUBSET DOMAIN x, 1 \in I
  PROVE  LET p == Picked(x, I) IN
         /\ p \in Seq(S) /\ Len(p) \in 1 .. Len(x)
         /\ \A k \in 1 .. Len(p) : Nth(I, k) \in I /\ p[k] = x[Nth(I, k)]
         /\ p[1] = x[1]
         /\ \A i \in I : i <= Nth(I, Len(p))
         /\ \A k \in 1 .. Len(p) - 1 :
              /\ Nth(I, k) < Nth(I, k + 1)
              /\ \A i \in I : ~(Nth(I, k) < i /\ i < Nth(I, k + 1))
<1> DEFINE n == Len(x)
           p == Picked(x, I)
           c == Cardinality(I)
           at(k) == Nth(I, k)
<1>1. n \in Nat /\ n > 0 /\ DOMAIN x = 1 .. n /\ I \subseteq 1 .. n
  OBVIOUS
<1>2. p \in Seq(S) /\ Len(p) = c /\ \A k \in 1 .. c : at(k) \in I /\ p[k] = x[at(k)]
  BY PickedFacts
<1> HIDE DEF n, p
<1>3. I \subseteq Nat
  BY <1>1
<1>4. IsFiniteSet(1 .. n) /\ Cardinality(1 .. n) = n
  BY <1>1, FS_Interval
<1>5. IsFiniteSet(I) /\ c <= n /\ c \in Nat
  <2>1. IsFiniteSet(I) /\ Cardinality(I) <= Cardinality(1 .. n)
    BY <1>1, <1>4, FS_Subset
  <2> QED BY <1>4, <2>1, FS_CardinalityType
<1>6. /\ \A k, l \in 1 .. c : k < l => at(k) < at(l)
      /\ \A i \in I : \E k \in 1 .. c : at(k) = i
  BY <1>3, <1>5, NthFacts
<1> HIDE DEF c, at
<1>7. c >= 1 /\ \A k \in 1 .. c : at(k) \in Nat /\ at(k) >= 1
  <2>1. PICK k \in 1 .. c : at(k) = 1
    BY <1>6
  <2> QED BY <1>1, <1>2, <1>5, <2>1
<1>8. at(1) = 1
  <2>1. PICK k \in 1 .. c : at(k) = 1
    BY <1>6
  <2>2. k = 1
    <3>1. 1 \in 1 .. c /\ (1 < k => at(1) < at(k))
      BY <1>5, <1>6, <1>7
    <3> QED BY <1>7, <2>1, <3>1
  <2> QED BY <2>1, <2>2
<1>9. \A i \in I : i <= at(c)
  <2> TAKE i \in I
  <2>1. PICK k \in 1 .. c : at(k) = i
    BY <1>6
  <2>2. c \in 1 .. c /\ (k < c => at(k) < at(c))
    BY <1>5, <1>6, <1>7
  <2> QED BY <1>5, <1>7, <2>1, <2>2
<1>10. ASSUME NEW k \in 1 .. c - 1
       PROVE  at(k) < at(k + 1) /\ \A i \in I : ~(at(k) < i /\ i < at(k + 1))
  <2>1. PICK m \in 1 .. c : m = k + 1
    BY <1>5
  <2>2. k \in 1 .. c /\ k < m
    BY <1>5, <2>1
  <2>3. ASSUME NEW i \in I, at(k) < i, i < at(m) PROVE FALSE
    <3>1. PICK l \in 1 .. c : at(l) = i
      BY <1>6
    <3>2. (l < k => at(l) < at(k)) /\ (m < l => at(m) < at(l))
      BY <1>6, <2>2
    <3>3. l = k \/ l = m \/ l < k \/ m < l
      BY <1>5, <2>1
    <3>4. at(l) \in Nat /\ at(k) \in Nat /\ at(m) \in Nat
      BY <1>7, <2>2
    <3> QED BY <2>3, <3>1, <3>2, <3>3, <3>4
  <2> QED BY <1>6, <2>1, <2>2, <2>3
<1>11. Len(p) \in 1 .. n /\ p[1] = x[1]
  <2>1. 1 \in 1 .. c
    BY <1>5, <1>7
  <2> QED BY <1>1, <1>2, <1>5, <1>7, <1>8, <2>1
<1> QED BY <1>2, <1>9, <1>10, <1>11 DEF n, p, c, at

-----------------------------------------------------------------------------
(* The transforms, with names for what they pick from                       *)

LineUnits(x) == [i \in DOMAIN x |-> IF x[i] = "cr" THEN "lf" ELSE x[i]]
LineKept(x)  == {i \in DOMAIN x : ~(x[i] = "lf" /\ i > 1 /\ x[i - 1] = "cr")}

ComposedAt(x, i) == i \in 2 .. Len(x) /\ x[i] = Mark /\ x[i - 1] = "ka"
NfcUnits(x) == [i \in DOMAIN x |-> IF ComposedAt(x, i + 1) THEN "ga" ELSE x[i]]
NfcKept(x)  == {i \in DOMAIN x : ~ComposedAt(x, i)}

(* The transforms, as what is picked.                                       *)
LEMMA TransformsAre ==
  ASSUME NEW x \in Seq(Units)
  PROVE  /\ UnifyNewline(x) = Picked(LineUnits(x), LineKept(x))
         /\ Nfc(x) = Picked(NfcUnits(x), NfcKept(x))
         /\ ApplyTransform(x, "newline") = UnifyNewline(x)
         /\ ApplyTransform(x, "nfc") = Nfc(x)
         /\ ApplyTransform(x, "newline+nfc") = Nfc(UnifyNewline(x))
<1>1. UnifyNewline(x) = Picked(LineUnits(x), LineKept(x))
  BY DEF UnifyNewline, LineUnits, LineKept
<1>2. Nfc(x) = Picked(NfcUnits(x), NfcKept(x))
  BY DEF Nfc, NfcUnits, NfcKept, ComposedAt
<1>3. /\ ApplyTransform(x, "newline") = UnifyNewline(x)
      /\ ApplyTransform(x, "nfc") = Nfc(x)
      /\ ApplyTransform(x, "newline+nfc") = Nfc(UnifyNewline(x))
  BY DEF ApplyTransform
<1> QED BY <1>1, <1>2, <1>3

(* A text without a carriage return is left alone.                          *)
LEMMA NothingToUnify ==
  ASSUME NEW x \in Seq(Units), \A i \in DOMAIN x : x[i] # "cr"
  PROVE  UnifyNewline(x) = x
<1>1. LineKept(x) = DOMAIN x
  <2>1. \A i \in DOMAIN x : i > 1 => i - 1 \in DOMAIN x
    OBVIOUS
  <2> QED BY <2>1, Zenon DEF LineKept
<1>2. LineUnits(x) = x
  BY DEF LineUnits
<1> QED BY <1>1, <1>2, PickedAll, TransformsAre

(* A text with nothing to compose is left alone.                            *)
LEMMA NothingToCompose ==
  ASSUME NEW x \in Seq(Units), \A i \in 2 .. Len(x) : ~ComposedAt(x, i)
  PROVE  Nfc(x) = x
<1>1. \A i \in DOMAIN x : ~ComposedAt(x, i) /\ ~ComposedAt(x, i + 1)
  BY DEF ComposedAt
<1>2. NfcKept(x) = DOMAIN x
  BY <1>1, Zenon DEF NfcKept
<1>3. NfcUnits(x) = x
  <2>1. \A i \in DOMAIN x : (IF ComposedAt(x, i + 1) THEN "ga" ELSE x[i]) = x[i]
    BY <1>1
  <2>2. x = [i \in DOMAIN x |-> x[i]]
    OBVIOUS
  <2> QED BY <2>1, <2>2, Zenon DEF NfcUnits
<1> QED BY <1>2, <1>3, PickedAll, TransformsAre

(* What UnifyNewline does to the ends and the length, and that nothing is   *)
(* left to unify.                                                           *)
LEMMA UnifyIs ==
  ASSUME NEW x \in Seq(Units), Len(x) > 0
  PROVE  LET u == UnifyNewline(x) IN
         /\ u \in Seq(Units) /\ Len(u) \in 1 .. Len(x)
         /\ \A k \in DOMAIN u : u[k] # "cr"
         /\ u[1] = Mark => x[1] = Mark
         /\ u[Len(u)] = "ka" => x[Len(x)] = "ka"
<1> DEFINE u == UnifyNewline(x)
           y == LineUnits(x)
           I == LineKept(x)
           n == Len(x)
<1>1. u = Picked(y, I)
  BY TransformsAre
<1>2. /\ y \in Seq(Units) /\ Len(y) = n /\ DOMAIN y = 1 .. n /\ n \in Nat /\ n > 0
      /\ \A i \in 1 .. n : y[i] = IF x[i] = "cr" THEN "lf" ELSE x[i]
  BY DEF LineUnits, Units, Newlines
<1>3. /\ I \in SUBSET (1 .. n) /\ 1 \in I
      /\ \A i \in 1 .. n : i \in I <=> ~(x[i] = "lf" /\ i > 1 /\ x[i - 1] = "cr")
  BY <1>2 DEF LineKept
<1> HIDE DEF u, y, I, n
<1>4. /\ u \in Seq(Units) /\ Len(u) \in 1 .. n
      /\ \A k \in 1 .. Len(u) : Nth(I, k) \in I /\ u[k] = y[Nth(I, k)]
      /\ u[1] = y[1]
      /\ \A i \in I : i <= Nth(I, Len(u))
  BY <1>1, <1>2, <1>3, PickedEnds, Zenon
<1>5. DOMAIN u = 1 .. Len(u) /\ Len(u) \in 1 .. Len(u)
  BY <1>2, <1>4
<1>6. \A k \in DOMAIN u : u[k] # "cr"
  BY <1>2, <1>3, <1>4, <1>5, Zenon
<1>7. u[1] = Mark => x[1] = Mark
  <2>1. y[1] = IF x[1] = "cr" THEN "lf" ELSE x[1]
    BY <1>2
  <2> QED BY <1>4, <2>1 DEF Mark
<1>8. ASSUME u[Len(u)] = "ka" PROVE x[n] = "ka"
  <2>1. PICK i \in I : i = Nth(I, Len(u))
    BY <1>4, <1>5
  <2>2. i \in 1 .. n /\ x[i] = "ka" /\ \A j \in I : j <= i
    BY <1>2, <1>3, <1>4, <1>5, <1>8, <2>1
  <2>3. CASE i = n
    BY <2>2, <2>3
  <2>4. CASE i < n
    <3>1. PICK j \in 1 .. n : j = i + 1
      BY <1>2, <2>2, <2>4
    <3>2. j \notin I /\ j - 1 = i
      BY <2>2, <3>1
    <3>3. x[i] = "cr"
      BY <1>3, <3>1, <3>2
    <3> QED BY <2>2, <3>3
  <2> QED BY <1>2, <2>2, <2>3, <2>4
<1> QED BY <1>4, <1>6, <1>7, <1>8 DEF u, n

(* What Nfc does to the length, and that nothing is left to compose.        *)
LEMMA NfcIs ==
  ASSUME NEW x \in Seq(Units), Len(x) > 0
  PROVE  LET u == Nfc(x) IN
         /\ u \in Seq(Units) /\ Len(u) \in 1 .. Len(x)
         /\ (\A i \in DOMAIN x : x[i] # "cr") => \A k \in DOMAIN u : u[k] # "cr"
         /\ \A k \in 2 .. Len(u) : ~ComposedAt(u, k)
<1> DEFINE u == Nfc(x)
           y == NfcUnits(x)
           I == NfcKept(x)
           n == Len(x)
<1>1. u = Picked(y, I)
  BY TransformsAre
<1>2. /\ y \in Seq(Units) /\ Len(y) = n /\ DOMAIN y = 1 .. n /\ n \in Nat /\ n > 0
      /\ \A i \in 1 .. n : y[i] = IF ComposedAt(x, i + 1) THEN "ga" ELSE x[i]
  BY DEF NfcUnits, Units, Plain
<1>3. /\ I \in SUBSET (1 .. n) /\ 1 \in I
      /\ \A i \in 1 .. n : i \in I <=> ~ComposedAt(x, i)
  BY <1>2 DEF NfcKept, ComposedAt
<1> HIDE DEF u, y, I, n
<1>4. /\ u \in Seq(Units) /\ Len(u) \in 1 .. n
      /\ \A k \in 1 .. Len(u) : Nth(I, k) \in I /\ u[k] = y[Nth(I, k)]
      /\ \A k \in 1 .. Len(u) - 1 :
           /\ Nth(I, k) < Nth(I, k + 1)
           /\ \A i \in I : ~(Nth(I, k) < i /\ i < Nth(I, k + 1))
  BY <1>1, <1>2, <1>3, PickedEnds, Zenon
<1>5. DOMAIN u = 1 .. Len(u) /\ DOMAIN x = 1 .. n
  BY <1>2, <1>4 DEF n
<1>6. (\A i \in DOMAIN x : x[i] # "cr") => \A k \in DOMAIN u : u[k] # "cr"
  <2> SUFFICES ASSUME \A i \in 1 .. n : x[i] # "cr", NEW k \in 1 .. Len(u) PROVE u[k] # "cr"
    BY <1>5
  <2>1. PICK i \in 1 .. n : i = Nth(I, k)
    BY <1>3, <1>4, Zenon
  <2>2. u[k] = y[i] /\ x[i] # "cr"
    BY <1>4, <2>1
  <2>3. y[i] = IF ComposedAt(x, i + 1) THEN "ga" ELSE x[i]
    BY <1>2
  <2> QED BY <2>2, <2>3
<1>7. ASSUME NEW k \in 2 .. Len(u), ComposedAt(u, k) PROVE FALSE
  <2>1. PICK h \in 1 .. Len(u) - 1 : k = h + 1
    <3>1. k - 1 \in 1 .. Len(u) - 1 /\ k = (k - 1) + 1
      BY <1>2, <1>4
    <3> QED BY <3>1
  <2>2. u[k] = Mark /\ u[h] = "ka"
    <3>1. k - 1 = h
      BY <1>2, <1>4, <2>1
    <3> QED BY <1>7, <3>1 DEF ComposedAt
  <2>3. PICK i \in I : i = Nth(I, h)
    BY <1>2, <1>4, <2>1
  <2>4. PICK j \in I : j = Nth(I, k)
    BY <1>2, <1>4, <2>1
  <2>5. i < j /\ \A l \in I : ~(i < l /\ l < j)
    BY <1>4, <2>1, <2>3, <2>4
  <2>6. u[h] = y[i] /\ u[k] = y[j] /\ i \in 1 .. n /\ j \in 1 .. n
    <3>1. h \in 1 .. Len(u) /\ k \in 1 .. Len(u)
      BY <1>2, <1>4, <2>1
    <3>2. u[h] = y[Nth(I, h)] /\ u[k] = y[Nth(I, k)]
      BY <1>4, <3>1
    <3> QED BY <1>3, <2>3, <2>4, <3>2
  <2>7. x[i] = "ka" /\ ~ComposedAt(x, i + 1) /\ x[j] = Mark
    BY <1>2, <2>2, <2>6 DEF Mark
  <2>8. PICK l \in 1 .. n : l = i + 1
    BY <1>2, <2>5, <2>6
  <2>9. l \in I
    BY <1>3, <2>7, <2>8
  <2>10. l = j
    BY <1>2, <2>5, <2>6, <2>8, <2>9
  <2>11. ComposedAt(x, l)
    <3>1. l - 1 = i /\ l \in 2 .. n
      BY <1>2, <2>6, <2>8
    <3> QED BY <2>7, <2>10, <3>1 DEF ComposedAt, n
  <2> QED BY <2>7, <2>8, <2>11
<1> QED BY <1>4, <1>6, <1>7 DEF u, n

(* A sequence that has the parts of two is the two put together.            *)
LEMMA PartsJoined ==
  ASSUME NEW a \in Seq(Units), NEW b \in Seq(Units), NEW c \in Seq(Units),
         Len(c) = Len(a) + Len(b), \A i \in 1 .. Len(a) : c[i] = a[i],
         \A j \in 1 .. Len(b) : c[Len(a) + j] = b[j]
  PROVE  c = a \o b
<1> DEFINE n == Len(a)
           m == Len(b)
           t == a \o b
<1>1. /\ n \in Nat /\ m \in Nat /\ t \in Seq(Units) /\ Len(t) = n + m
      /\ \A i \in 1 .. n : t[i] = a[i]
      /\ \A j \in 1 .. m : t[n + j] = b[j]
  OBVIOUS
<1>2. \A i \in 1 .. n : c[i] = a[i]
  OBVIOUS
<1>3. \A j \in 1 .. m : c[n + j] = b[j]
  OBVIOUS
<1>4. Len(c) = n + m
  OBVIOUS
<1> HIDE DEF n, m, t
<1>5. ASSUME NEW k \in 1 .. n + m PROVE c[k] = t[k]
  <2>1. CASE k <= n
    BY <1>1, <1>2, <2>1
  <2>2. CASE k > n
    <3>1. PICK j \in 1 .. m : k = n + j
      <4>1. k - n \in 1 .. m /\ k = n + (k - n)
        BY <1>1, <2>2
      <4> QED BY <4>1
    <3> QED BY <1>1, <1>3, <3>1, Zenon
  <2> QED BY <1>1, <2>1, <2>2
<1>6. c = t
  BY <1>1, <1>4, <1>5, SeqEqual, Zenon
<1> QED BY <1>6 DEF t

(* What UnifyNewline picks from.                                            *)
LEMMA LineUnitsAre ==
  ASSUME NEW z \in Seq(Units)
  PROVE  /\ LineUnits(z) \in Seq(Units) /\ Len(LineUnits(z)) = Len(z)
         /\ \A i \in DOMAIN z : LineUnits(z)[i] = IF z[i] = "cr" THEN "lf" ELSE z[i]
<1>1. "lf" \in Units
  BY DEF Units, Newlines
<1> QED BY <1>1 DEF LineUnits

(* What Nfc picks from.                                                     *)
LEMMA NfcUnitsAre ==
  ASSUME NEW z \in Seq(Units)
  PROVE  /\ NfcUnits(z) \in Seq(Units) /\ Len(NfcUnits(z)) = Len(z)
         /\ \A i \in DOMAIN z : NfcUnits(z)[i] = IF ComposedAt(z, i + 1) THEN "ga" ELSE z[i]
<1>1. "ga" \in Units
  BY DEF Units, Plain
<1> QED BY <1>1 DEF NfcUnits

(* Where nothing joins, a transform of two is the two transforms.           *)
LEMMA UnifySplit ==
  ASSUME NEW x \in Seq(Units), NEW y \in Seq(Units), Len(x) > 0, Len(y) > 0,
         ~(x[Len(x)] = "cr" /\ y[1] = "lf")
  PROVE  UnifyNewline(x \o y) = UnifyNewline(x) \o UnifyNewline(y)
<1> DEFINE n == Len(x)
           m == Len(y)
           t == x \o y
<1>1. /\ n \in Nat /\ m \in Nat /\ n > 0 /\ m > 0 /\ DOMAIN x = 1 .. n /\ DOMAIN y = 1 .. m
      /\ t \in Seq(Units) /\ DOMAIN t = 1 .. n + m
      /\ \A i \in 1 .. n : t[i] = x[i]
      /\ \A j \in 1 .. m : t[n + j] = y[j]
      /\ ~(x[n] = "cr" /\ y[1] = "lf")
  OBVIOUS
<1>2. \A z \in Seq(Units) : /\ LineUnits(z) \in Seq(Units) /\ Len(LineUnits(z)) = Len(z)
                            /\ \A i \in DOMAIN z : LineUnits(z)[i] = IF z[i] = "cr" THEN "lf" ELSE z[i]
  BY LineUnitsAre
<1> HIDE DEF n, m, t
<1>3. LineUnits(t) = LineUnits(x) \o LineUnits(y)
  <2> DEFINE a == LineUnits(x)
             b == LineUnits(y)
             c == LineUnits(t)
  <2>1. /\ a \in Seq(Units) /\ Len(a) = n /\ b \in Seq(Units) /\ Len(b) = m
        /\ c \in Seq(Units) /\ Len(c) = n + m
    <3>1. Len(t) = n + m /\ x \in Seq(Units) /\ y \in Seq(Units)
      BY DEF n, m, t
    <3> QED BY <1>1, <1>2, <3>1 DEF n, m
  <2>2. ASSUME NEW i \in 1 .. n PROVE c[i] = a[i]
    <3>1. i \in 1 .. n + m
      BY <1>1
    <3>2. t[i] = x[i]
      BY <1>1
    <3>3. c[i] = (IF t[i] = "cr" THEN "lf" ELSE t[i]) /\ a[i] = IF x[i] = "cr" THEN "lf" ELSE x[i]
      BY <1>1, <1>2, <3>1
    <3> QED BY <3>2, <3>3
  <2>3. ASSUME NEW j \in 1 .. m PROVE c[n + j] = b[j]
    <3>1. PICK i \in 1 .. n + m : i = n + j
      BY <1>1
    <3>2. t[i] = y[j]
      BY <1>1, <3>1
    <3>3. c[i] = (IF t[i] = "cr" THEN "lf" ELSE t[i]) /\ b[j] = IF y[j] = "cr" THEN "lf" ELSE y[j]
      BY <1>1, <1>2
    <3> QED BY <3>1, <3>2, <3>3
  <2> HIDE DEF a, b, c
  <2>4. c = a \o b
    <3>1. a \in Seq(Units) /\ b \in Seq(Units) /\ c \in Seq(Units)
      BY <2>1
    <3>2. Len(c) = Len(a) + Len(b)
      BY <2>1
    <3>3. \A i \in 1 .. Len(a) : c[i] = a[i]
      BY <2>1, <2>2
    <3>4. \A j \in 1 .. Len(b) : c[Len(a) + j] = b[j]
      BY <2>1, <2>3
    <3> QED BY ONLY <3>1, <3>2, <3>3, <3>4, PartsJoined, Zenon
  <2> QED BY <2>4 DEF a, b, c
<1>4. /\ \A z \in Seq(Units) : \A i :
            i \in LineKept(z) <=> i \in DOMAIN z /\ ~(z[i] = "lf" /\ i > 1 /\ z[i - 1] = "cr")
  BY DEF LineKept
<1> DEFINE I == LineKept(t)
           A == LineKept(x)
           D == LineKept(y)
<1>5. \A i : i \in I <=> i \in 1 .. n + m /\ ~(t[i] = "lf" /\ i > 1 /\ t[i - 1] = "cr")
  BY <1>1, <1>4
<1>6. \A i : i \in A <=> i \in 1 .. n /\ ~(x[i] = "lf" /\ i > 1 /\ x[i - 1] = "cr")
  BY <1>1, <1>4
<1>7. \A i : i \in D <=> i \in 1 .. m /\ ~(y[i] = "lf" /\ i > 1 /\ y[i - 1] = "cr")
  BY <1>1, <1>4
<1> HIDE DEF I, A, D
<1>8. \A i : i \in A <=> i \in I /\ i <= n
  <2>1. ASSUME NEW i \in 1 .. n PROVE i \in A <=> i \in I
    <3>1. i \in 1 .. n + m
      BY <1>1
    <3>2. i > 1 => i - 1 \in 1 .. n
      BY <1>1
    <3>3. t[i] = x[i] /\ (i > 1 => t[i - 1] = x[i - 1])
      BY <1>1, <3>2
    <3> QED BY <1>5, <1>6, <3>1, <3>3
  <2>2. \A i \in 1 .. n + m : i <= n => i \in 1 .. n
    BY <1>1
  <2>3. \A i \in 1 .. n : i <= n
    BY <1>1
  <2> QED BY <1>5, <1>6, <2>1, <2>2, <2>3
<1>9. ASSUME NEW j \in 1 .. m PROVE j \in D <=> n + j \in I
  <2>1. PICK i \in 1 .. n + m : i = n + j
    BY <1>1
  <2>2. t[i] = y[j]
    BY <1>1, <2>1
  <2>3. i > 1
    BY <1>1, <2>1
  <2>4. CASE j = 1
    <3>1. i - 1 = n /\ n \in 1 .. n
      BY <1>1, <2>1, <2>4
    <3>2. t[i - 1] = x[n]
      BY <1>1, <3>1
    <3>3. j \in D
      BY <1>7, <2>4
    <3>4. i \in I
      BY <1>1, <1>5, <2>2, <2>4, <3>2
    <3> QED BY <2>1, <3>3, <3>4
  <2>5. CASE j > 1
    <3>1. PICK h \in 1 .. m : h = j - 1
      BY <1>1, <2>5
    <3>2. i - 1 = n + h
      BY <1>1, <2>1, <3>1
    <3>3. t[i - 1] = y[j - 1]
      BY <1>1, <3>1, <3>2
    <3>4. j \in D <=> i \in I
      BY <1>5, <1>7, <2>2, <2>3, <2>5, <3>3
    <3> QED BY <2>1, <3>4
  <2> QED BY <1>1, <2>4, <2>5
<1>10. \A j : j \in D <=> j \in 1 .. m /\ n + j \in I
  BY <1>7, <1>9
<1>11. Picked(LineUnits(t), I) = Picked(LineUnits(x), A) \o Picked(LineUnits(y), D)
  <2>1. I \subseteq 1 .. n + m
    BY <1>5
  <2>2. /\ LineUnits(x) \in Seq(Units) /\ Len(LineUnits(x)) = n
        /\ LineUnits(y) \in Seq(Units) /\ Len(LineUnits(y)) = m
    BY <1>2 DEF n, m
  <2> DEFINE a == LineUnits(x)
             b == LineUnits(y)
  <2> HIDE DEF a, b
  <2>3. Picked(a \o b, I) = Picked(a, A) \o Picked(b, D)
    <3>1. a \in Seq(Units) /\ b \in Seq(Units)
      BY <2>2 DEF a, b
    <3>2. I \in SUBSET (1 .. Len(a) + Len(b))
      BY <2>1, <2>2 DEF a, b
    <3>3. \A i : i \in A <=> i \in I /\ i <= Len(a)
      BY <1>8, <2>2 DEF a
    <3>4. \A j : j \in D <=> j \in 1 .. Len(b) /\ Len(a) + j \in I
      BY <1>10, <2>2 DEF a, b
    <3>5. PicksConcat(a, b, I, A, D)
      BY ONLY <3>1, <3>2, <3>3, <3>4, PickedConcat
    <3> QED BY <3>5 DEF PicksConcat
  <2> QED BY <1>3, <2>3 DEF a, b
<1> QED BY <1>1, <1>11, TransformsAre, Zenon DEF t, I, A, D

(* The same for Nfc, where no mark follows its letter.                      *)
LEMMA NfcSplit ==
  ASSUME NEW x \in Seq(Units), NEW y \in Seq(Units), Len(x) > 0, Len(y) > 0,
         ~(x[Len(x)] = "ka" /\ y[1] = Mark)
  PROVE  Nfc(x \o y) = Nfc(x) \o Nfc(y)
<1> DEFINE n == Len(x)
           m == Len(y)
           t == x \o y
<1>1. /\ n \in Nat /\ m \in Nat /\ n > 0 /\ m > 0 /\ DOMAIN x = 1 .. n /\ DOMAIN y = 1 .. m
      /\ t \in Seq(Units) /\ DOMAIN t = 1 .. n + m
      /\ \A i \in 1 .. n : t[i] = x[i]
      /\ \A j \in 1 .. m : t[n + j] = y[j]
      /\ ~(x[n] = "ka" /\ y[1] = Mark)
  OBVIOUS
<1>2. \A z \in Seq(Units) : /\ NfcUnits(z) \in Seq(Units) /\ Len(NfcUnits(z)) = Len(z)
                            /\ \A i \in DOMAIN z : NfcUnits(z)[i] = IF ComposedAt(z, i + 1) THEN "ga" ELSE z[i]
  BY NfcUnitsAre
<1> HIDE DEF n, m, t
<1>12. ASSUME NEW i \in 1 .. n PROVE ComposedAt(t, i) <=> ComposedAt(x, i)
  <2>1. i \in 2 .. Len(t) <=> i \in 2 .. Len(x)
    BY <1>1 DEF n
  <2>2. i \in 2 .. Len(x) => i - 1 \in 1 .. n
    BY <1>1 DEF n
  <2>3. t[i] = x[i] /\ (i \in 2 .. Len(x) => t[i - 1] = x[i - 1])
    BY <1>1, <2>2
  <2> QED BY <2>1, <2>3 DEF ComposedAt
<1>13. ASSUME NEW j \in 1 .. m, NEW i \in 1 .. n + m, i = n + j
       PROVE  ComposedAt(t, i) <=> ComposedAt(y, j)
  <2>1. t[i] = y[j] /\ i \in 2 .. Len(t)
    BY <1>1, <1>13
  <2>2. CASE j = 1
    <3>1. i - 1 = n /\ n \in 1 .. n /\ j \notin 2 .. Len(y)
      BY <1>1, <1>13, <2>2
    <3>2. t[i - 1] = x[n]
      BY <1>1, <3>1
    <3> QED BY <1>1, <2>1, <2>2, <3>1, <3>2 DEF ComposedAt
  <2>3. CASE j > 1
    <3>1. PICK h \in 1 .. m : h = j - 1
      BY <1>1, <2>3
    <3>2. i - 1 = n + h /\ j \in 2 .. Len(y)
      BY <1>1, <1>13, <2>3, <3>1 DEF m
    <3>3. t[i - 1] = y[j - 1]
      BY <1>1, <3>1, <3>2
    <3> QED BY <2>1, <3>2, <3>3 DEF ComposedAt
  <2> QED BY <1>1, <2>2, <2>3
<1>14. ASSUME NEW i \in 1 .. n PROVE ComposedAt(t, i + 1) <=> ComposedAt(x, i + 1)
  <2>1. CASE i < n
    <3>1. PICK h \in 1 .. n : h = i + 1
      BY <1>1, <2>1
    <3> QED BY <1>12, <3>1
  <2>2. CASE i = n
    <3>1. PICK h \in 1 .. n + m : h = n + 1
      BY <1>1
    <3>2. 1 \in 1 .. m
      BY <1>1
    <3>3. ComposedAt(t, h) <=> ComposedAt(y, 1)
      BY <1>13, <3>1, <3>2
    <3>4. ~ComposedAt(y, 1) /\ ~ComposedAt(x, n + 1)
      BY <1>1 DEF ComposedAt, n
    <3> QED BY <2>2, <3>1, <3>3, <3>4
  <2> QED BY <1>1, <2>1, <2>2
<1>15. ASSUME NEW j \in 1 .. m, NEW i \in 1 .. n + m, i = n + j
       PROVE  ComposedAt(t, i + 1) <=> ComposedAt(y, j + 1)
  <2>1. CASE j < m
    <3>1. PICK h \in 1 .. m : h = j + 1
      BY <1>1, <2>1
    <3>2. PICK l \in 1 .. n + m : l = i + 1
      BY <1>1, <1>15, <2>1
    <3>3. l = n + h
      BY <1>1, <1>15, <3>1, <3>2
    <3> QED BY <1>13, <3>1, <3>2, <3>3
  <2>2. CASE j = m
    <3>1. i + 1 \notin 2 .. Len(t) /\ j + 1 \notin 2 .. Len(y)
      BY <1>1, <1>15, <2>2 DEF m
    <3> QED BY <3>1 DEF ComposedAt
  <2> QED BY <1>1, <2>1, <2>2
<1>3. NfcUnits(t) = NfcUnits(x) \o NfcUnits(y)
  <2> DEFINE a == NfcUnits(x)
             b == NfcUnits(y)
             c == NfcUnits(t)
  <2>1. /\ a \in Seq(Units) /\ Len(a) = n /\ b \in Seq(Units) /\ Len(b) = m
        /\ c \in Seq(Units) /\ Len(c) = n + m
    <3>1. Len(t) = n + m /\ x \in Seq(Units) /\ y \in Seq(Units)
      BY DEF n, m, t
    <3> QED BY <1>1, <1>2, <3>1 DEF n, m
  <2>2. ASSUME NEW i \in 1 .. n PROVE c[i] = a[i]
    <3>1. i \in 1 .. n + m
      BY <1>1
    <3>2. t[i] = x[i] /\ (ComposedAt(t, i + 1) <=> ComposedAt(x, i + 1))
      BY <1>1, <1>14
    <3>3. /\ c[i] = IF ComposedAt(t, i + 1) THEN "ga" ELSE t[i]
          /\ a[i] = IF ComposedAt(x, i + 1) THEN "ga" ELSE x[i]
      BY <1>1, <1>2, <3>1
    <3> QED BY <3>2, <3>3
  <2>3. ASSUME NEW j \in 1 .. m PROVE c[n + j] = b[j]
    <3>1. PICK i \in 1 .. n + m : i = n + j
      BY <1>1
    <3>2. t[i] = y[j] /\ (ComposedAt(t, i + 1) <=> ComposedAt(y, j + 1))
      BY <1>1, <1>15, <3>1, Zenon
    <3>3. /\ c[i] = IF ComposedAt(t, i + 1) THEN "ga" ELSE t[i]
          /\ b[j] = IF ComposedAt(y, j + 1) THEN "ga" ELSE y[j]
      BY <1>1, <1>2
    <3> QED BY <3>1, <3>2, <3>3
  <2> HIDE DEF a, b, c
  <2>4. c = a \o b
    <3>1. a \in Seq(Units) /\ b \in Seq(Units) /\ c \in Seq(Units)
      BY <2>1
    <3>2. Len(c) = Len(a) + Len(b)
      BY <2>1
    <3>3. \A i \in 1 .. Len(a) : c[i] = a[i]
      BY <2>1, <2>2
    <3>4. \A j \in 1 .. Len(b) : c[Len(a) + j] = b[j]
      BY <2>1, <2>3
    <3> QED BY ONLY <3>1, <3>2, <3>3, <3>4, PartsJoined, Zenon
  <2> QED BY <2>4 DEF a, b, c
<1> DEFINE I == NfcKept(t)
           A == NfcKept(x)
           D == NfcKept(y)
<1>5. \A i : i \in I <=> i \in 1 .. n + m /\ ~ComposedAt(t, i)
  BY <1>1 DEF NfcKept
<1>6. \A i : i \in A <=> i \in 1 .. n /\ ~ComposedAt(x, i)
  BY <1>1 DEF NfcKept
<1>7. \A i : i \in D <=> i \in 1 .. m /\ ~ComposedAt(y, i)
  BY <1>1 DEF NfcKept
<1> HIDE DEF I, A, D
<1>8. \A i : i \in A <=> i \in I /\ i <= n
  <2>2. \A i \in 1 .. n + m : i <= n => i \in 1 .. n
    BY <1>1
  <2>3. \A i \in 1 .. n : i <= n /\ i \in 1 .. n + m
    BY <1>1
  <2> QED BY <1>5, <1>6, <1>12, <2>2, <2>3
<1>9. ASSUME NEW j \in 1 .. m PROVE j \in D <=> n + j \in I
  <2>1. PICK i \in 1 .. n + m : i = n + j
    BY <1>1
  <2>2. ComposedAt(t, i) <=> ComposedAt(y, j)
    BY <1>13, <2>1
  <2> QED BY <1>5, <1>7, <2>1, <2>2
<1>10. \A j : j \in D <=> j \in 1 .. m /\ n + j \in I
  BY <1>7, <1>9
<1>11. Picked(NfcUnits(t), I) = Picked(NfcUnits(x), A) \o Picked(NfcUnits(y), D)
  <2>1. I \subseteq 1 .. n + m
    BY <1>5
  <2>2. /\ NfcUnits(x) \in Seq(Units) /\ Len(NfcUnits(x)) = n
        /\ NfcUnits(y) \in Seq(Units) /\ Len(NfcUnits(y)) = m
    BY <1>2 DEF n, m
  <2> DEFINE a == NfcUnits(x)
             b == NfcUnits(y)
  <2> HIDE DEF a, b
  <2>3. Picked(a \o b, I) = Picked(a, A) \o Picked(b, D)
    <3>1. a \in Seq(Units) /\ b \in Seq(Units)
      BY <2>2 DEF a, b
    <3>2. I \in SUBSET (1 .. Len(a) + Len(b))
      BY <2>1, <2>2 DEF a, b
    <3>3. \A i : i \in A <=> i \in I /\ i <= Len(a)
      BY <1>8, <2>2 DEF a
    <3>4. \A j : j \in D <=> j \in 1 .. Len(b) /\ Len(a) + j \in I
      BY <1>10, <2>2 DEF a, b
    <3>5. PicksConcat(a, b, I, A, D)
      BY ONLY <3>1, <3>2, <3>3, <3>4, PickedConcat
    <3> QED BY <3>5 DEF PicksConcat
  <2> QED BY <1>3, <2>3 DEF a, b
<1> QED BY <1>1, <1>11, TransformsAre, Zenon DEF t, I, A, D

(* A transform never lengthens a text, empties none, and is idempotent.     *)
LEMMA TransformIs ==
  ASSUME NEW x \in Seq(Units), NEW T \in ToSet(Transforms)
  PROVE  LET u == ApplyTransform(x, T) IN
         /\ u \in Seq(Units) /\ Len(u) <= Len(x)
         /\ Len(x) > 0 => Len(u) > 0
         /\ ApplyTransform(u, T) = u
<1> DEFINE u == ApplyTransform(x, T)
<1>1. T \in {"newline", "nfc", "newline+nfc"}
  BY DEF Transforms, ToSet
<1>2. CASE Len(x) = 0
  <2>1. x = <<>> /\ (\A i \in DOMAIN x : x[i] # "cr") /\ \A i \in 2 .. Len(x) : ~ComposedAt(x, i)
    BY <1>2
  <2>2. UnifyNewline(x) = x /\ Nfc(x) = x
    BY <2>1, NothingToUnify, NothingToCompose, Zenon
  <2>3. u = x
    BY <1>1, <2>2, TransformsAre
  <2> QED BY <1>2, <2>3
<1>3. CASE Len(x) > 0
  <2>1. \A z \in Seq(Units) : Len(z) > 0 =>
          /\ UnifyNewline(z) \in Seq(Units) /\ Len(UnifyNewline(z)) \in 1 .. Len(z)
          /\ \A k \in DOMAIN UnifyNewline(z) : UnifyNewline(z)[k] # "cr"
          /\ UnifyNewline(UnifyNewline(z)) = UnifyNewline(z)
    BY UnifyIs, NothingToUnify
  <2>2. \A z \in Seq(Units) : Len(z) > 0 =>
          /\ Nfc(z) \in Seq(Units) /\ Len(Nfc(z)) \in 1 .. Len(z)
          /\ (\A i \in DOMAIN z : z[i] # "cr") => \A k \in DOMAIN Nfc(z) : Nfc(z)[k] # "cr"
          /\ Nfc(Nfc(z)) = Nfc(z)
    BY NfcIs, NothingToCompose
  <2>3. CASE T = "newline"
    <3>1. u = UnifyNewline(x) /\ u \in Seq(Units) /\ Len(u) \in 1 .. Len(x)
      BY <1>3, <2>1, <2>3, TransformsAre
    <3>2. ApplyTransform(u, T) = u
      BY <1>3, <2>1, <2>3, <3>1, TransformsAre
    <3> QED BY <3>1, <3>2
  <2>4. CASE T = "nfc"
    <3>1. u = Nfc(x) /\ u \in Seq(Units) /\ Len(u) \in 1 .. Len(x)
      BY <1>3, <2>2, <2>4, TransformsAre
    <3>2. ApplyTransform(u, T) = u
      BY <1>3, <2>2, <2>4, <3>1, TransformsAre
    <3> QED BY <3>1, <3>2
  <2>5. CASE T = "newline+nfc"
    <3> DEFINE v == UnifyNewline(x)
    <3>1. /\ v \in Seq(Units) /\ Len(v) \in 1 .. Len(x)
          /\ \A k \in DOMAIN v : v[k] # "cr"
      BY <1>3, <2>1
    <3>2. u = Nfc(v)
      BY <2>5, TransformsAre
    <3> HIDE DEF u, v
    <3>3. Len(v) > 0 /\ Len(v) <= Len(x)
      BY <3>1
    <3>4. /\ u \in Seq(Units) /\ Len(u) \in 1 .. Len(v)
          /\ \A k \in DOMAIN u : u[k] # "cr"
          /\ Nfc(u) = u
      BY <2>2, <3>1, <3>2, <3>3
    <3>5. UnifyNewline(u) = u
      BY <3>4, NothingToUnify
    <3>6. ApplyTransform(u, T) = u
      BY <2>5, <3>4, <3>5, TransformsAre
    <3>7. Len(u) <= Len(x) /\ Len(u) > 0
      BY <3>1, <3>3, <3>4
    <3> QED BY <3>4, <3>6, <3>7 DEF u
  <2> QED BY <1>1, <2>3, <2>4, <2>5
<1> QED BY <1>2, <1>3

(* Where two units do not join, a transform of two is the two transforms.   *)
LEMMA TransformSplit ==
  ASSUME NEW x \in Seq(Units), NEW y \in Seq(Units), Len(x) > 0, Len(y) > 0,
         ~Joins(x[Len(x)], y[1]), NEW T \in ToSet(Transforms)
  PROVE  ApplyTransform(x \o y, T) = ApplyTransform(x, T) \o ApplyTransform(y, T)
<1>1. T \in {"newline", "nfc", "newline+nfc"}
  BY DEF Transforms, ToSet
<1>2. ~(x[Len(x)] = "cr" /\ y[1] = "lf") /\ ~(x[Len(x)] = "ka" /\ y[1] = Mark)
  BY DEF Joins, Newlines
<1>3. x \o y \in Seq(Units)
  OBVIOUS
<1>4. UnifyNewline(x \o y) = UnifyNewline(x) \o UnifyNewline(y)
  BY <1>2, UnifySplit
<1>5. Nfc(x \o y) = Nfc(x) \o Nfc(y)
  BY <1>2, NfcSplit
<1>6. Nfc(UnifyNewline(x \o y)) = Nfc(UnifyNewline(x)) \o Nfc(UnifyNewline(y))
  <2> DEFINE u == UnifyNewline(x)
             v == UnifyNewline(y)
  <2>1. /\ u \in Seq(Units) /\ Len(u) \in 1 .. Len(x)
        /\ u[Len(u)] = "ka" => x[Len(x)] = "ka"
        /\ v \in Seq(Units) /\ Len(v) \in 1 .. Len(y)
        /\ v[1] = Mark => y[1] = Mark
    BY UnifyIs
  <2> HIDE DEF u, v
  <2>2. Len(u) > 0 /\ Len(v) > 0 /\ ~(u[Len(u)] = "ka" /\ v[1] = Mark)
    BY <1>2, <2>1
  <2>3. Nfc(u \o v) = Nfc(u) \o Nfc(v)
    BY <2>1, <2>2, NfcSplit
  <2> QED BY <1>4, <2>3 DEF u, v
<1> QED BY <1>1, <1>3, <1>4, <1>5, <1>6, TransformsAre, Zenon

-----------------------------------------------------------------------------
(* What a stretch of a text reads as under a transform, and where a         *)
(* boundary comes to lie                                                    *)

ReadAs(text, T, b, c) == ApplyTransform(Slice(text, <<b, c>>), T)
OutAt(text, T, a, b)  == Len(ReadAs(text, T, a, b))

(* A stretch of a text is its two parts.                                    *)
LEMMA SliceConcat ==
  ASSUME NEW text \in Seq(Units), NEW b \in Nat, NEW c \in Nat, NEW d \in 0 .. Len(text),
         b <= c, c <= d
  PROVE  Slice(text, <<b, d>>) = Slice(text, <<b, c>>) \o Slice(text, <<c, d>>)
<1> DEFINE x == Slice(text, <<b, c>>)
           y == Slice(text, <<c, d>>)
           z == Slice(text, <<b, d>>)
<1>1. Len(text) \in Nat /\ c \in 0 .. Len(text) /\ b <= d
  OBVIOUS
<1>2. x \in Seq(Units) /\ Len(x) = c - b /\ \A k \in 1 .. c - b : x[k] = text[b + k]
  BY <1>1, SliceIs
<1>3. y \in Seq(Units) /\ Len(y) = d - c /\ \A k \in 1 .. d - c : y[k] = text[c + k]
  BY <1>1, SliceIs
<1>4. z \in Seq(Units) /\ Len(z) = d - b /\ \A k \in 1 .. d - b : z[k] = text[b + k]
  BY <1>1, SliceIs
<1> HIDE DEF x, y, z
<1>5. Len(z) = Len(x) + Len(y)
  BY <1>1, <1>2, <1>3, <1>4
<1>6. ASSUME NEW k \in 1 .. Len(x) PROVE z[k] = x[k]
  <2>1. k \in 1 .. c - b /\ k \in 1 .. d - b
    BY <1>1, <1>2
  <2> QED BY <1>2, <1>4, <2>1
<1>7. ASSUME NEW j \in 1 .. Len(y) PROVE z[Len(x) + j] = y[j]
  <2>1. j \in 1 .. d - c
    BY <1>3
  <2>2. PICK k \in 1 .. d - b : k = (c - b) + j
    BY <1>1, <2>1
  <2>3. b + k = c + j /\ Len(x) + j = k
    BY <1>1, <1>2, <2>1, <2>2
  <2>4. z[k] = text[b + k] /\ y[j] = text[c + j]
    BY <1>3, <1>4, <2>1
  <2> QED BY <2>3, <2>4
<1>8. z = x \o y
  BY <1>2, <1>3, <1>4, <1>5, <1>6, <1>7, PartsJoined, Zenon
<1> QED BY <1>8, Zenon DEF x, y, z

(* What is between two boundaries reads as no more than it is long.         *)
LEMMA ReadIs ==
  ASSUME NEW text \in Seq(Units), NEW T \in ToSet(Transforms),
         NEW b \in Boundaries(text), NEW c \in Boundaries(text), b <= c
  PROVE  LET u == ReadAs(text, T, b, c)
             x == Slice(text, <<b, c>>) IN
         /\ x \in Seq(Units) /\ Len(x) = c - b
         /\ u \in Seq(Units) /\ Len(u) \in Nat /\ Len(u) <= c - b
         /\ b < c => Len(u) > 0
         /\ b = c => u = <<>> /\ x = <<>>
         /\ ApplyTransform(u, T) = u
<1> DEFINE u == ReadAs(text, T, b, c)
           x == Slice(text, <<b, c>>)
<1>1. b \in Nat /\ c \in 0 .. Len(text)
  BY BoundariesAre
<1>2. x \in Seq(Units) /\ Len(x) = c - b
  BY <1>1, SliceIs
<1> HIDE DEF x
<1>3. /\ u \in Seq(Units) /\ Len(u) <= Len(x)
      /\ Len(x) > 0 => Len(u) > 0
      /\ ApplyTransform(u, T) = u
  BY <1>2, TransformIs DEF ReadAs, x
<1> HIDE DEF u
<1>4. Len(u) \in Nat
  BY <1>3
<1>5. b = c => u = <<>> /\ x = <<>>
  <2>1. b = c => Len(x) = 0 /\ Len(u) = 0
    BY <1>1, <1>2, <1>3, <1>4
  <2> QED BY <1>2, <1>3, <2>1
<1> QED BY <1>1, <1>2, <1>3, <1>4, <1>5 DEF u, x

(* A stretch reads as its two parts do.                                     *)
LEMMA ReadSplit ==
  ASSUME NEW text \in Seq(Units), NEW T \in ToSet(Transforms),
         NEW b \in Boundaries(text), NEW c \in Boundaries(text), NEW d \in Boundaries(text),
         b <= c, c <= d
  PROVE  /\ ReadAs(text, T, b, d) = ReadAs(text, T, b, c) \o ReadAs(text, T, c, d)
         /\ Slice(text, <<b, d>>) = Slice(text, <<b, c>>) \o Slice(text, <<c, d>>)
<1> DEFINE x == Slice(text, <<b, c>>)
           y == Slice(text, <<c, d>>)
<1>1. b \in Nat /\ c \in Nat /\ c <= Len(text) /\ Len(text) \in Nat /\ d \in 0 .. Len(text) /\ b <= d
  BY BoundariesAre
<1>2. Slice(text, <<b, d>>) = x \o y
  BY <1>1, SliceConcat, Zenon
<1>3. /\ x \in Seq(Units) /\ Len(x) = c - b /\ \A k \in 1 .. c - b : x[k] = text[b + k]
      /\ y \in Seq(Units) /\ Len(y) = d - c /\ \A k \in 1 .. d - c : y[k] = text[c + k]
  <2>1. c \in 0 .. Len(text)
    BY <1>1
  <2>2. x \in Seq(Units) /\ Len(x) = c - b /\ \A k \in 1 .. c - b : x[k] = text[b + k]
    BY <1>1, <2>1, SliceIs
  <2>3. y \in Seq(Units) /\ Len(y) = d - c /\ \A k \in 1 .. d - c : y[k] = text[c + k]
    BY <1>1, SliceIs
  <2> QED BY <2>2, <2>3, Zenon
<1> DEFINE u == ReadAs(text, T, b, c)
           v == ReadAs(text, T, c, d)
<1>4. u \in Seq(Units) /\ v \in Seq(Units) /\ (b = c => u = <<>>) /\ (c = d => v = <<>>)
  BY ReadIs, Zenon
<1>5. CASE b = c
  <2>1. <<>> \o v = v
    BY <1>4
  <2> QED BY <1>2, <1>4, <1>5, <2>1, Zenon
<1>6. CASE c = d
  <2>1. u \o <<>> = u
    BY <1>4
  <2> QED BY <1>2, <1>4, <1>6, <2>1, Zenon
<1>7. CASE b < c /\ c < d
  <2>1. ~Joins(text[c], text[c + 1])
    <3>1. c # 0 /\ c # Len(text)
      BY <1>1, <1>7
    <3>2. ~Joins(UnitAt(text, c - 1), UnitAt(text, c))
      BY <3>1 DEF Boundaries
    <3>3. (c - 1) + 1 = c
      BY <1>1
    <3> QED BY <3>2, <3>3 DEF UnitAt
  <2>2. x[Len(x)] = text[c] /\ y[1] = text[c + 1] /\ Len(x) > 0 /\ Len(y) > 0
    <3>1. c - b \in 1 .. c - b /\ b + (c - b) = c /\ 1 \in 1 .. d - c
      BY <1>1, <1>7
    <3>2. x[c - b] = text[b + (c - b)] /\ y[1] = text[c + 1]
      BY <1>3, <3>1, Zenon
    <3>3. c - b > 0 /\ d - c > 0
      BY <1>1, <1>7
    <3> QED BY <1>3, <3>1, <3>2, <3>3, Zenon
  <2> HIDE DEF x, y
  <2>3. ApplyTransform(x \o y, T) = ApplyTransform(x, T) \o ApplyTransform(y, T)
    BY <1>3, <2>1, <2>2, TransformSplit
  <2> QED BY <1>2, <2>3, Zenon DEF ReadAs, x, y
<1>8. b = c \/ c = d \/ (b < c /\ c < d)
  BY <1>1
<1> QED BY <1>5, <1>6, <1>7, <1>8, Zenon

(* Boundaries keep their order, and what lies between two of them is what   *)
(* the stretch reads as.                                                    *)
LEMMA OutIs ==
  ASSUME NEW text \in Seq(Units), NEW T \in ToSet(Transforms), NEW a \in Boundaries(text),
         NEW b \in Boundaries(text), NEW c \in Boundaries(text), a <= b, b <= c
  PROVE  LET ob == OutAt(text, T, a, b)
             oc == OutAt(text, T, a, c)
             u  == ReadAs(text, T, b, c) IN
         /\ ob \in Nat /\ oc \in Nat /\ oc = ob + Len(u)
         /\ oc <= ob + (c - b)
         /\ b < c => ob < oc
         /\ OutAt(text, T, a, a) = 0
<1> DEFINE ob == OutAt(text, T, a, b)
           oc == OutAt(text, T, a, c)
           u  == ReadAs(text, T, b, c)
           x  == ReadAs(text, T, a, b)
           y  == ReadAs(text, T, a, c)
<1>1. a \in Nat /\ b \in Nat /\ c \in Nat /\ a <= c
  BY BoundariesAre
<1>2. /\ u \in Seq(Units) /\ Len(u) \in Nat /\ Len(u) <= c - b /\ (b < c => Len(u) > 0)
      /\ x \in Seq(Units) /\ Len(x) \in Nat
  BY ReadIs, Zenon
<1>3. y = x \o u
  BY ReadSplit, Zenon
<1>4. Len(y) = Len(x) + Len(u)
  BY <1>2, <1>3
<1>5. ReadAs(text, T, a, a) = <<>>
  <2>1. a <= a
    BY <1>1
  <2> QED BY <2>1, ReadIs, Zenon
<1>6. OutAt(text, T, a, a) = 0
  BY <1>5 DEF OutAt
<1>7. ob = Len(x) /\ oc = Len(y)
  BY DEF OutAt
<1> HIDE DEF ob, oc, u, x, y
<1>8. ob \in Nat /\ oc \in Nat /\ oc = ob + Len(u) /\ oc <= ob + (c - b) /\ (b < c => ob < oc)
  BY <1>1, <1>2, <1>4, <1>7
<1> QED BY <1>6, <1>8 DEF ob, oc, u

-----------------------------------------------------------------------------
(* The comparison text: what the whole reads as, and a chunk for each       *)
(* grapheme that reads otherwise than it stands                             *)

(* Some graphemes, each read alone, put together.                           *)
LEMMA FlattenReads ==
  ASSUME NEW text \in Seq(Units), NEW T \in ToSet(Transforms), NEW g \in Nat, NEW k \in Nat,
         g + k <= Count(text), NEW seqs, Len(seqs) = k, k = 0 => seqs = <<>>,
         \A j \in 1 .. k :
           seqs[j] = ReadAs(text, T, OffsetAt(text, g + j - 1), OffsetAt(text, g + j))
  PROVE  FlattenSeq(seqs) = ReadAs(text, T, OffsetAt(text, g), OffsetAt(text, g + k))
<1> DEFINE B == Boundaries(text)
           at(j) == OffsetAt(text, g + j)
<1>1. Count(text) \in Nat /\ \A b \in B : b \in Nat
  BY BoundariesAre
<1>2. ASSUME NEW j \in 0 .. k PROVE at(j) \in B /\ GraphemeAt(text, at(j)) = g + j
  <2>1. g + j \in 0 .. Count(text)
    BY <1>1
  <2> QED BY <2>1, Graphemes
<1>3. at(0) = OffsetAt(text, g) /\ \A j \in 1 .. k : seqs[j] = ReadAs(text, T, at(j - 1), at(j))
  <2>1. g + 0 = g
    OBVIOUS
  <2>2. ASSUME NEW j \in 1 .. k PROVE seqs[j] = ReadAs(text, T, at(j - 1), at(j))
    <3>1. g + (j - 1) = g + j - 1
      OBVIOUS
    <3> QED BY <3>1
  <2> QED BY <2>1, <2>2
<1>4. ASSUME NEW i \in 0 .. k, NEW j \in 0 .. k, i <= j PROVE at(i) <= at(j)
  <2>1. /\ at(i) \in B /\ GraphemeAt(text, at(i)) = g + i
        /\ at(j) \in B /\ GraphemeAt(text, at(j)) = g + j
    BY <1>2, Zenon
  <2>2. PICK x \in B : x = at(i)
    BY <2>1
  <2>3. PICK y \in B : y = at(j)
    BY <2>1
  <2>4. GraphemeAt(text, x) = g + i /\ GraphemeAt(text, y) = g + j /\ x \in Nat /\ y \in Nat
    BY <1>1, <2>1, <2>2, <2>3
  <2>5. y < x <=> GraphemeAt(text, y) < GraphemeAt(text, x)
    BY Graphemes
  <2>6. ~(g + j < g + i)
    BY <1>4
  <2> QED BY <2>2, <2>3, <2>4, <2>5, <2>6
<1>5. CASE k = 0
  <2>1. FlattenSeq(seqs) = <<>>
    BY <1>5 DEF FlattenSeq
  <2>2. at(0) <= at(0) /\ at(0) \in B
    <3>1. 0 \in 0 .. k
      OBVIOUS
    <3> HIDE DEF at
    <3>2. at(0) \in B
      BY <1>2, <3>1
    <3>3. at(0) \in Nat
      BY <1>1, <3>2
    <3> QED BY <3>2, <3>3
  <2>3. ReadAs(text, T, at(0), at(0)) = <<>>
    <3> HIDE DEF at
    <3> QED BY <2>2, ReadIs, Zenon
  <2> QED BY <1>5, <2>1, <2>3
<1>6. CASE k # 0
  <2>1. PICK f : FlattensBy(seqs, f) /\ FlattenSeq(seqs) = f[k]
    BY <1>6, FlattenIs
  <2>2. ASSUME NEW i \in 1 .. k PROVE f[i] = IF i = 1 THEN seqs[i] ELSE f[i - 1] \o seqs[i]
    BY <2>1, Zenon DEF FlattensBy
  <2> DEFINE R == {j \in 0 .. k : j = 0 \/ f[j] = ReadAs(text, T, at(0), at(j))}
  <2>3. 0 \in R
    OBVIOUS
  <2>4. ASSUME NEW j \in 0 .. k - 1, j \in R PROVE j + 1 \in R
    <3>1. PICK i \in 1 .. k : i = j + 1
      OBVIOUS
    <3>2. i - 1 = j /\ seqs[i] = ReadAs(text, T, at(j), at(i))
      <4>1. i - 1 = j
        BY <3>1
      <4> HIDE DEF at
      <4> QED BY <1>3, <4>1
    <3>3. CASE j = 0
      <4>1. f[i] = seqs[i]
        BY <2>2, <3>1, <3>3
      <4>2. f[i] = ReadAs(text, T, at(0), at(i)) /\ i \in 0 .. k
        <5> HIDE DEF at
        <5> QED BY <3>2, <3>3, <4>1
      <4> QED BY <3>1, <4>2
    <3>4. CASE j # 0
      <4>1. f[i] = f[j] \o seqs[i] /\ f[j] = ReadAs(text, T, at(0), at(j))
        <5>1. i # 1 /\ i - 1 = j
          BY <3>1, <3>4
        <5>2. f[i] = f[i - 1] \o seqs[i]
          BY <2>2, <5>1, Zenon
        <5>3. f[j] = ReadAs(text, T, at(0), at(j))
          <6> HIDE DEF at
          <6> QED BY <2>4, <3>4
        <5> QED BY <5>1, <5>2, <5>3, Zenon
      <4>2. at(0) \in B /\ at(j) \in B /\ at(i) \in B /\ at(0) <= at(j) /\ at(j) <= at(i)
        <5>1. 0 \in 0 .. k /\ j \in 0 .. k /\ i \in 0 .. k /\ 0 <= j /\ j <= i
          BY <3>1
        <5> HIDE DEF at, B
        <5> QED BY <1>2, <1>4, <5>1
      <4>3. ReadAs(text, T, at(0), at(i)) = ReadAs(text, T, at(0), at(j)) \o ReadAs(text, T, at(j), at(i))
        <5> HIDE DEF at
        <5> QED BY <4>2, ReadSplit, Zenon
      <4>4. f[i] = ReadAs(text, T, at(0), at(i)) /\ i \in 0 .. k
        <5> HIDE DEF at
        <5> QED BY <3>2, <4>1, <4>3
      <4> QED BY <3>1, <4>4
    <3> QED BY <3>3, <3>4
  <2> HIDE DEF R
  <2>5. k \in R
    BY <2>3, <2>4, UpTo
  <2>6. f[k] = ReadAs(text, T, at(0), at(k))
    BY <1>6, <2>5 DEF R
  <2> QED BY <1>3, <2>1, <2>6
<1> QED BY <1>5, <1>6

ChunkOf(text, T, a, b, c) ==
  [sourceStart |-> b, sourceEnd |-> c,
   outputStart |-> OutAt(text, T, a, b), outputEnd |-> OutAt(text, T, a, c)]

(* A grapheme, as its two ends                                              *)
Cluster(text, b, c) ==
  b \in Boundaries(text) /\ c \in Boundaries(text) /\ GraphemeAt(text, c) = GraphemeAt(text, b) + 1

Chunked(text, T, a, z, b, c) ==
  Cluster(text, b, c) /\ a <= b /\ c <= z /\ ReadAs(text, T, b, c) # Slice(text, <<b, c>>)

IsChunk(text, T, a, z, ch) ==
  \E b, c \in Boundaries(text) :
    Chunked(text, T, a, z, b, c) /\ ch = ChunkOf(text, T, a, b, c)

(* ComparisonText reads its source as a whole, and has the chunks named.    *)
LEMMA ComparisonIs ==
  ASSUME NEW text \in Seq(Units), NEW T \in ToSet(Transforms), NEW source,
         source[1] \in Boundaries(text), source[2] \in Boundaries(text), source[1] <= source[2]
  PROVE  LET cmp == ComparisonText(text, source, T)
             a   == source[1]
             z   == source[2] IN
         /\ cmp.source = source
         /\ cmp.text = ReadAs(text, T, a, z)
         /\ \A ch : ch \in cmp.chunks <=> IsChunk(text, T, a, z, ch)
<1> DEFINE B   == Boundaries(text)
           G(b) == GraphemeAt(text, b)
           at(g) == OffsetAt(text, g)
           cmp == ComparisonText(text, source, T)
           a   == source[1]
           z   == source[2]
           from == G(a)
           n    == G(z) - from
           Grain(k) == Slice(text, <<at(from + k - 1), at(from + k)>>)
           pieces == [k \in 1 .. n |-> ApplyTransform(Grain(k), T)]
           Out(k) == Len(FlattenSeq(SubSeq(pieces, 1, k)))
           Changed == {j \in DOMAIN pieces : pieces[j] # Grain(j)}
           C(k) == [sourceStart |-> at(from + k - 1), sourceEnd |-> at(from + k),
                    outputStart |-> Out(k - 1), outputEnd |-> Out(k)]
<1>1. /\ cmp.source = source /\ cmp.text = FlattenSeq(pieces)
      /\ cmp.chunks = {C(k) : k \in Changed}
  BY DEF ComparisonText
<1>2. /\ Count(text) \in Nat /\ B \subseteq Nat
      /\ \A b \in B : G(b) \in 0 .. Count(text) /\ at(G(b)) = b
      /\ \A g \in 0 .. Count(text) : at(g) \in B /\ G(at(g)) = g
      /\ \A b, c \in B : b < c <=> G(b) < G(c)
  <2>1. Count(text) \in Nat /\ B \subseteq Nat
    <3>1. B \subseteq 0 .. Len(text) /\ Len(text) \in Nat /\ Count(text) \in Nat
      BY BoundariesAre
    <3>2. \A l \in Nat : 0 .. l \subseteq Nat
      OBVIOUS
    <3> HIDE DEF B
    <3> QED BY <3>1, <3>2
  <2> QED BY <2>1, Graphemes
<1>3. a \in B /\ z \in B /\ a <= z
  OBVIOUS
<1> HIDE DEF B, G, at, cmp, a, z
<1>4. /\ from \in Nat /\ n \in Nat /\ from + n = G(z) /\ from + n <= Count(text)
      /\ at(from) = a /\ at(from + n) = z
  <2>1. G(a) \in 0 .. Count(text) /\ G(z) \in 0 .. Count(text) /\ at(G(a)) = a /\ at(G(z)) = z
    BY <1>2, <1>3
  <2>2. ~(G(z) < G(a))
    <3>1. z < a <=> G(z) < G(a)
      BY <1>2, <1>3
    <3>2. z \in Nat /\ a \in Nat
      BY <1>2, <1>3
    <3> QED BY <1>3, <3>1, <3>2
  <2>3. from + n = G(z)
    BY <1>2, <2>1
  <2> QED BY <1>2, <2>1, <2>2, <2>3
<1>5. /\ DOMAIN pieces = 1 .. n /\ Len(pieces) = n
      /\ \A k \in 1 .. n : pieces[k] = ReadAs(text, T, at(from + k - 1), at(from + k))
  <2>1. DOMAIN pieces = 1 .. n
    OBVIOUS
  <2>2. Len(pieces) = n
    BY <1>4
  <2>3. ASSUME NEW k \in 1 .. n
        PROVE  pieces[k] = ReadAs(text, T, at(from + k - 1), at(from + k))
    BY DEF ReadAs
  <2> QED BY <2>1, <2>2, <2>3, Zenon
<1> HIDE DEF from, n
<1>6. Changed = {j \in 1 .. n : ReadAs(text, T, at(from + j - 1), at(from + j)) # Grain(j)}
  <2> HIDE DEF pieces, Grain
  <2> QED BY <1>5
<1> HIDE DEF pieces, Changed
<1>7. ASSUME NEW k \in 0 .. n PROVE FlattenSeq(SubSeq(pieces, 1, k)) = ReadAs(text, T, a, at(from + k))
  <2> DEFINE s == SubSeq(pieces, 1, k)
  <2>1. Len(s) = k /\ (k = 0 => s = <<>>) /\ \A j \in 1 .. k : s[j] = pieces[j]
    <3>1. s = [j \in 1 .. k |-> pieces[j]]
      <4>1. s = [j \in 1 .. (k - 1 + 1) |-> pieces[j + 1 - 1]]
        BY DEF SubSeq
      <4>2. k - 1 + 1 = k /\ \A j \in 1 .. k : j + 1 - 1 = j
        BY <1>4
      <4> QED BY <4>1, <4>2
    <3>2. k \in Nat
      BY <1>4
    <3> HIDE DEF s
    <3> QED BY <3>1, <3>2
  <2> HIDE DEF s
  <2>2. \A j \in 1 .. k : s[j] = ReadAs(text, T, OffsetAt(text, from + j - 1), OffsetAt(text, from + j))
    <3>1. \A j \in 1 .. k : j \in 1 .. n
      BY <1>4
    <3> QED BY <1>5, <2>1, <3>1 DEF at
  <2>3. k \in Nat /\ from + k <= Count(text) /\ from \in Nat
    BY <1>2, <1>4
  <2>4. FlattenSeq(s) = ReadAs(text, T, OffsetAt(text, from), OffsetAt(text, from + k))
    BY <2>1, <2>2, <2>3, FlattenReads
  <2> QED BY <1>4, <2>4 DEF s, at
<1>8. cmp.text = ReadAs(text, T, a, z)
  <2>1. n = 0 => pieces = <<>>
    BY DEF pieces
  <2>2. \A j \in 1 .. n : pieces[j] = ReadAs(text, T, OffsetAt(text, from + j - 1), OffsetAt(text, from + j))
    BY <1>5 DEF at
  <2>3. FlattenSeq(pieces) = ReadAs(text, T, OffsetAt(text, from), OffsetAt(text, from + n))
    BY <1>4, <1>5, <2>1, <2>2, FlattenReads
  <2> QED BY <1>1, <1>4, <2>3 DEF at
<1>9. ASSUME NEW k \in 1 .. n
      PROVE  LET b == at(from + k - 1)
                 c == at(from + k)
             IN /\ Cluster(text, b, c) /\ b \in B /\ c \in B /\ a <= b /\ c <= z
                /\ G(b) = from + k - 1
                /\ C(k) = ChunkOf(text, T, a, b, c)
  <2> DEFINE b == at(from + k - 1)
             c == at(from + k)
  <2>1. /\ from + k - 1 \in 0 .. Count(text) /\ from + k \in 0 .. Count(text)
        /\ from + k = (from + k - 1) + 1 /\ from <= from + k - 1 /\ from + k <= from + n
    BY <1>2, <1>4
  <2>2. b \in B /\ G(b) = from + k - 1 /\ c \in B /\ G(c) = from + k
    BY <1>2, <2>1
  <2> HIDE DEF b, c
  <2>3. Cluster(text, b, c)
    BY <2>1, <2>2 DEF Cluster, B, G
  <2>4. a <= b /\ c <= z
    <3>1. (b < a <=> G(b) < G(a)) /\ (z < c <=> G(z) < G(c))
      BY <1>2, <1>3, <2>2
    <3>2. ~(G(b) < G(a)) /\ ~(G(z) < G(c))
      BY <1>2, <1>4, <2>1, <2>2 DEF from
    <3>3. a \in Nat /\ b \in Nat /\ c \in Nat /\ z \in Nat
      BY <1>2, <1>3, <2>2
    <3> QED BY <3>1, <3>2, <3>3
  <2>5. Out(k) = OutAt(text, T, a, c) /\ Out(k - 1) = OutAt(text, T, a, b)
    <3>1. k \in 0 .. n /\ k - 1 \in 0 .. n /\ from + (k - 1) = from + k - 1
      BY <1>4
    <3>2. PICK h \in 0 .. n : h = k - 1
      BY <3>1
    <3>3. FlattenSeq(SubSeq(pieces, 1, k)) = ReadAs(text, T, a, c)
      BY <1>7, <3>1 DEF c
    <3>4. FlattenSeq(SubSeq(pieces, 1, h)) = ReadAs(text, T, a, b)
      BY <1>7, <3>1, <3>2 DEF b
    <3> QED BY <3>2, <3>3, <3>4 DEF OutAt
  <2>6. C(k) = ChunkOf(text, T, a, b, c)
    <3> HIDE DEF Out
    <3> QED BY <2>5 DEF ChunkOf, b, c
  <2> QED BY <2>2, <2>3, <2>4, <2>6 DEF b, c
<1>10. ASSUME NEW ch
       PROVE  ch \in cmp.chunks <=>
                \E b, c \in B : /\ Cluster(text, b, c) /\ a <= b /\ c <= z
                                /\ ReadAs(text, T, b, c) # Slice(text, <<b, c>>)
                                /\ ch = ChunkOf(text, T, a, b, c)
  <2>1. ASSUME ch \in cmp.chunks
        PROVE  \E b, c \in B : /\ Cluster(text, b, c) /\ a <= b /\ c <= z
                               /\ ReadAs(text, T, b, c) # Slice(text, <<b, c>>)
                               /\ ch = ChunkOf(text, T, a, b, c)
    <3>1. PICK k \in Changed : ch = C(k)
      <4> HIDE DEF C
      <4> QED BY <1>1, <2>1
    <3>2. k \in 1 .. n /\ ReadAs(text, T, at(from + k - 1), at(from + k)) # Grain(k)
      <4> HIDE DEF Grain
      <4> QED BY <1>6
    <3>3. PICK b, c \in B : b = at(from + k - 1) /\ c = at(from + k)
      BY <1>9, <3>2, Zenon
    <3>4. Cluster(text, b, c) /\ a <= b /\ c <= z /\ C(k) = ChunkOf(text, T, a, b, c)
      <4> HIDE DEF C
      <4> QED BY <1>9, <3>2, <3>3
    <3> QED BY <3>1, <3>2, <3>3, <3>4, Zenon
  <2>2. ASSUME NEW b \in B, NEW c \in B, Cluster(text, b, c), a <= b, c <= z,
               ReadAs(text, T, b, c) # Slice(text, <<b, c>>), ch = ChunkOf(text, T, a, b, c)
        PROVE  ch \in cmp.chunks
    <3>1. G(c) = G(b) + 1 /\ G(b) \in Nat /\ G(c) \in Nat
      BY <1>2, <2>2 DEF Cluster, G
    <3>2. ~(G(b) < G(a)) /\ ~(G(z) < G(c))
      <4>1. (b < a <=> G(b) < G(a)) /\ (z < c <=> G(z) < G(c))
        BY <1>2, <1>3
      <4>2. a \in Nat /\ b \in Nat /\ c \in Nat /\ z \in Nat
        BY <1>2, <1>3
      <4> QED BY <2>2, <4>1, <4>2
    <3>3. PICK k \in 1 .. n : from + k = G(c)
      <4>1. G(a) = from
        BY DEF from
      <4>2. G(c) - from \in 1 .. n /\ from + (G(c) - from) = G(c)
        BY <1>2, <1>4, <3>1, <3>2, <4>1
      <4> QED BY <4>2
    <3>4. from + k - 1 = G(b)
      BY <1>4, <3>1, <3>3
    <3>5. at(from + k) = c /\ at(from + k - 1) = b
      BY <1>2, <3>3, <3>4
    <3>6. k \in Changed
      <4>1. Grain(k) = Slice(text, <<b, c>>)
        BY <3>5
      <4> HIDE DEF Grain
      <4> QED BY <1>6, <2>2, <3>5, <4>1
    <3>7. C(k) = ch
      <4> HIDE DEF C
      <4> QED BY <1>9, <2>2, <3>5
    <3> HIDE DEF C
    <3> QED BY <1>1, <3>6, <3>7
  <2> QED BY <2>1, <2>2, Zenon
<1>11. \A ch : ch \in cmp.chunks <=> IsChunk(text, T, a, z, ch)
  BY <1>10, Zenon DEF IsChunk, Chunked, B
<1> QED BY <1>1, <1>8, <1>11 DEF cmp, a, z

(* Between the ends of a grapheme there is no boundary.                     *)
LEMMA ClusterIs ==
  ASSUME NEW text \in Seq(Units), NEW b \in Boundaries(text), NEW c \in Boundaries(text),
         Cluster(text, b, c)
  PROVE  /\ b < c /\ \A d \in Boundaries(text) : b < d => c <= d
         /\ \A d \in Boundaries(text) : Cluster(text, b, d) => d = c
<1> DEFINE B == Boundaries(text)
           G(x) == GraphemeAt(text, x)
<1>1. /\ \A x \in B : x \in Nat /\ G(x) \in Nat /\ OffsetAt(text, G(x)) = x
      /\ \A x, y \in B : x < y <=> G(x) < G(y)
  <2>1. Count(text) \in Nat /\ \A x \in B : x \in Nat
    BY BoundariesAre
  <2>2. \A x \in B : G(x) \in 0 .. Count(text) /\ OffsetAt(text, G(x)) = x
    BY Graphemes
  <2>3. \A x, y \in B : x < y <=> G(x) < G(y)
    BY Graphemes
  <2> HIDE DEF B, G
  <2> QED BY <2>1, <2>2, <2>3
<1>2. G(c) = G(b) + 1 /\ \A d \in B : Cluster(text, b, d) => G(d) = G(b) + 1
  BY DEF Cluster
<1>3. b \in B /\ c \in B
  OBVIOUS
<1> HIDE DEF B, G
<1>4. b < c
  BY <1>1, <1>2, <1>3
<1>5. ASSUME NEW d \in B, b < d PROVE c <= d
  <2>1. G(b) < G(d) /\ (d < c <=> G(d) < G(c))
    BY <1>1, <1>3, <1>5
  <2>2. ~(G(d) < G(c))
    BY <1>1, <1>2, <1>3, <2>1
  <2> QED BY <1>1, <1>3, <2>1, <2>2
<1>6. ASSUME NEW d \in B, Cluster(text, b, d) PROVE d = c
  BY <1>1, <1>2, <1>3, <1>6
<1> QED BY <1>4, <1>5, <1>6 DEF B

(* A stretch reads as it stands if each of its graphemes does that follows  *)
(* on a part that does.                                                     *)
LEMMA StretchIs ==
  ASSUME NEW text \in Seq(Units), NEW T \in ToSet(Transforms),
         NEW e \in Boundaries(text), NEW d \in Boundaries(text), e <= d,
         \A b, c \in Boundaries(text) :
           /\ Cluster(text, b, c) /\ e <= b /\ c <= d
           /\ ReadAs(text, T, e, b) = Slice(text, <<e, b>>)
           => ReadAs(text, T, b, c) = Slice(text, <<b, c>>)
  PROVE  ReadAs(text, T, e, d) = Slice(text, <<e, d>>)
<1> DEFINE B == Boundaries(text)
           G(x) == GraphemeAt(text, x)
           at(g) == OffsetAt(text, g)
           g == G(e)
           n == G(d) - G(e)
           R == {k \in 0 .. n : ReadAs(text, T, e, at(g + k)) = Slice(text, <<e, at(g + k)>>)}
<1>1. /\ Count(text) \in Nat
      /\ \A x \in B : x \in Nat /\ G(x) \in 0 .. Count(text) /\ at(G(x)) = x
      /\ \A x, y \in B : x < y <=> G(x) < G(y)
      /\ \A h \in 0 .. Count(text) : at(h) \in B /\ G(at(h)) = h
  <2>1. Count(text) \in Nat /\ \A x \in B : x \in Nat
    BY BoundariesAre
  <2>2. \A x \in B : G(x) \in 0 .. Count(text) /\ at(G(x)) = x
    BY Graphemes
  <2>3. \A x, y \in B : x < y <=> G(x) < G(y)
    BY Graphemes
  <2>4. \A h \in 0 .. Count(text) : at(h) \in B /\ G(at(h)) = h
    BY Graphemes
  <2> HIDE DEF B, G, at
  <2> QED BY <2>1, <2>2, <2>3, <2>4
<1>2. e \in B /\ d \in B /\ e <= d
  OBVIOUS
<1>3. ASSUME NEW b \in B, NEW c \in B, G(c) = G(b) + 1, e <= b, c <= d,
             ReadAs(text, T, e, b) = Slice(text, <<e, b>>)
      PROVE  ReadAs(text, T, b, c) = Slice(text, <<b, c>>)
  BY <1>3 DEF Cluster
<1> HIDE DEF B, G, at
<1>4. g \in Nat /\ n \in Nat /\ g + n = G(d) /\ g + n <= Count(text) /\ at(g) = e /\ at(g + n) = d
  <2>1. G(e) \in 0 .. Count(text) /\ G(d) \in 0 .. Count(text) /\ at(G(e)) = e /\ at(G(d)) = d
    BY <1>1, <1>2
  <2>2. e \in Nat /\ d \in Nat /\ (d < e <=> G(d) < G(e))
    BY <1>1, <1>2
  <2>3. G(e) <= G(d)
    BY <1>1, <1>2, <2>1, <2>2
  <2>4. g + n = G(d)
    BY <1>1, <2>1
  <2> QED BY <1>1, <2>1, <2>3, <2>4
<1>5. 0 \in R
  <2>1. g + 0 = g /\ 0 \in 0 .. n
    BY <1>4
  <2>2. e <= e
    BY <1>1, <1>2
  <2>3. ReadAs(text, T, e, e) = <<>> /\ Slice(text, <<e, e>>) = <<>>
    BY <1>2, <2>2, ReadIs DEF B
  <2> HIDE DEF g, n
  <2> QED BY <1>4, <2>1, <2>3
<1> HIDE DEF g, n
<1>6. ASSUME NEW k \in 0 .. n - 1, k \in R PROVE k + 1 \in R
  <2>1. PICK h \in 0 .. n : h = k + 1
    BY <1>4
  <2>2. g + k \in 0 .. Count(text) /\ g + h \in 0 .. Count(text) /\ g + h = (g + k) + 1
        /\ g <= g + k /\ g + h <= g + n
    BY <1>1, <1>4, <2>1
  <2>3. PICK b \in B : b = at(g + k)
    BY <1>1, <2>2
  <2>4. PICK c \in B : c = at(g + h)
    BY <1>1, <2>2
  <2>5. G(b) = g + k /\ G(c) = g + h
    BY <1>1, <2>2, <2>3, <2>4
  <2>6. e <= b /\ c <= d /\ b <= c
    <3>1. G(e) = g /\ G(d) = g + n
      BY <1>4 DEF g
    <3>2. (b < e <=> G(b) < G(e)) /\ (d < c <=> G(d) < G(c)) /\ (c < b <=> G(c) < G(b))
      BY <1>1, <1>2
    <3>3. b \in Nat /\ c \in Nat /\ d \in Nat /\ e \in Nat
      BY <1>1, <1>2
    <3>4. ~(G(b) < G(e)) /\ ~(G(d) < G(c)) /\ ~(G(c) < G(b))
      BY <1>1, <1>4, <2>2, <2>5, <3>1
    <3> QED BY <3>2, <3>3, <3>4
  <2>7. ReadAs(text, T, e, b) = Slice(text, <<e, b>>)
    BY <1>6, <2>3
  <2>8. ReadAs(text, T, b, c) = Slice(text, <<b, c>>)
    BY <1>3, <2>2, <2>5, <2>6, <2>7
  <2>9. /\ ReadAs(text, T, e, c) = ReadAs(text, T, e, b) \o ReadAs(text, T, b, c)
        /\ Slice(text, <<e, c>>) = Slice(text, <<e, b>>) \o Slice(text, <<b, c>>)
    BY <1>2, <2>6, ReadSplit, Zenon DEF B
  <2>10. ReadAs(text, T, e, c) = Slice(text, <<e, c>>)
    BY <2>7, <2>8, <2>9, Zenon
  <2> QED BY <2>1, <2>4, <2>10
<1> HIDE DEF R
<1>7. n \in R
  BY <1>4, <1>5, <1>6, UpTo
<1>8. ReadAs(text, T, e, at(g + n)) = Slice(text, <<e, at(g + n)>>)
  BY <1>7 DEF R
<1> QED BY <1>4, <1>8

(* The chunk an offset is mapped by, if there is one: the last that begins  *)
(* at or before the offset.                                                 *)
LEMMA ChunkAtIs ==
  ASSUME NEW text \in Seq(Units), NEW T \in ToSet(Transforms), NEW source,
         source[1] \in Boundaries(text), source[2] \in Boundaries(text), source[1] <= source[2],
         NEW o \in Nat
  PROVE  LET cmp == ComparisonText(text, source, T)
             a   == source[1]
             z   == source[2]
             B   == Boundaries(text) IN
         \/ /\ ChunkAt(cmp, o) = {}
            /\ \A b, c \in B : Chunked(text, T, a, z, b, c) => o < OutAt(text, T, a, b)
         \/ \E b, c \in B :
              /\ Chunked(text, T, a, z, b, c) /\ OutAt(text, T, a, b) <= o
              /\ \A u, v \in B : Chunked(text, T, a, z, u, v) /\ OutAt(text, T, a, u) <= o =>
                   OutAt(text, T, a, u) <= OutAt(text, T, a, b)
              /\ ChunkAt(cmp, o) = {ChunkOf(text, T, a, b, c)}
<1> DEFINE cmp == ComparisonText(text, source, T)
           a   == source[1]
           z   == source[2]
           B   == Boundaries(text)
           O(b) == OutAt(text, T, a, b)
           Ch(b, c) == Chunked(text, T, a, z, b, c)
           Rec(b, c) == ChunkOf(text, T, a, b, c)
           begun == {c \in cmp.chunks : c.outputStart <= o}
<1>1. \A ch : ch \in cmp.chunks <=> \E b, c \in B : Ch(b, c) /\ ch = Rec(b, c)
  <2>1. \A ch : ch \in cmp.chunks <=> IsChunk(text, T, a, z, ch)
    BY ComparisonIs
  <2> HIDE DEF cmp, a, z
  <2> QED BY <2>1 DEF IsChunk
<1>2. \A b, c : Rec(b, c).outputStart = O(b)
  BY DEF ChunkOf
<1>3. \A b, c \in B : Ch(b, c) => O(b) \in Nat /\ a <= b
  <2>1. ASSUME NEW b \in B, NEW c \in B, Ch(b, c) PROVE O(b) \in Nat /\ a <= b
    <3>1. a <= b /\ b <= b
      <4>1. b \in Nat
        BY BoundariesAre
      <4> QED BY <2>1, <4>1 DEF Chunked
    <3> QED BY <3>1, OutIs
  <2> QED BY <2>1
<1>4. \A b, c, d, e \in B : Ch(b, c) /\ Ch(d, e) /\ O(b) = O(d) => b = d /\ c = e
  <2> SUFFICES ASSUME NEW b \in B, NEW c \in B, NEW d \in B, NEW e \in B,
                      Ch(b, c), Ch(d, e), O(b) = O(d)
               PROVE  b = d /\ c = e
    OBVIOUS
  <2>1. a <= b /\ a <= d /\ b \in Nat /\ d \in Nat /\ a \in Nat
    BY BoundariesAre DEF Chunked
  <2>2. b < d => O(b) < O(d) /\ O(b) \in Nat
    <3>1. b < d => b <= d
      BY <2>1
    <3> QED BY <2>1, <3>1, OutIs
  <2>3. d < b => O(d) < O(b) /\ O(b) \in Nat
    <3>1. d < b => d <= b
      BY <2>1
    <3> QED BY <2>1, <3>1, OutIs
  <2>4. b = d
    BY <2>1, <2>2, <2>3
  <2>5. c = e
    BY <2>4, ClusterIs DEF Chunked
  <2> QED BY <2>4, <2>5
<1>5. ChunkAt(cmp, o) = {c \in begun : \A d \in begun : d.outputStart <= c.outputStart}
  BY DEF ChunkAt
<1> HIDE DEF cmp, a, z, B, O, Ch, Rec
<1>6. CASE \A b, c \in B : Ch(b, c) => ~(O(b) <= o)
  <2>1. begun = {}
    BY <1>1, <1>2, <1>6
  <2>2. \A b, c \in B : Ch(b, c) => o < O(b)
    BY <1>3, <1>6
  <2>3. ChunkAt(cmp, o) = {}
    BY <1>5, <2>1
  <2> QED BY <2>2, <2>3 DEF cmp, a, z, B, O, Ch
<1>7. CASE \E b, c \in B : Ch(b, c) /\ O(b) <= o
  <2> DEFINE S == {x \in 0 .. o : \E b, c \in B : Ch(b, c) /\ O(b) = x}
  <2>1. S \subseteq 0 .. o /\ S # {}
    <3>1. PICK b, c \in B : Ch(b, c) /\ O(b) <= o
      BY <1>7
    <3>2. O(b) \in 0 .. o
      BY <1>3, <3>1
    <3>3. O(b) \in S
      BY <3>1, <3>2
    <3> QED BY <3>3
  <2>2. PICK m \in S : \A x \in S : x <= m
    <3> HIDE DEF S
    <3> QED BY <2>1, MaxOf, Zenon
  <2>3. PICK b, c \in B : Ch(b, c) /\ O(b) = m /\ m \in 0 .. o
    BY <2>2
  <2>4. ASSUME NEW u \in B, NEW v \in B, Ch(u, v), O(u) <= o PROVE O(u) <= O(b)
    <3>1. O(u) \in 0 .. o
      BY <1>3, <2>4
    <3>2. O(u) \in S
      BY <2>4, <3>1
    <3> QED BY <2>2, <2>3, <3>2
  <2> HIDE DEF S
  <2>5. Rec(b, c) \in begun
    BY <1>1, <1>2, <2>3
  <2>6. ASSUME NEW d \in begun PROVE d.outputStart <= Rec(b, c).outputStart
    <3>1. PICK u, v \in B : Ch(u, v) /\ d = Rec(u, v)
      BY <1>1
    <3>2. d.outputStart = O(u) /\ O(u) <= o
      <4>1. d.outputStart <= o
        OBVIOUS
      <4> QED BY <1>2, <3>1, <4>1
    <3> QED BY <1>2, <2>4, <3>1, <3>2
  <2>7. ASSUME NEW d \in begun, \A e \in begun : e.outputStart <= d.outputStart PROVE d = Rec(b, c)
    <3>1. PICK u, v \in B : Ch(u, v) /\ d = Rec(u, v)
      BY <1>1
    <3>2. d.outputStart = O(u) /\ Rec(b, c).outputStart = O(b)
      BY <1>2, <3>1
    <3>3. O(b) <= O(u) /\ O(u) <= O(b)
      BY <2>5, <2>6, <2>7, <3>2
    <3>4. O(b) \in Nat /\ O(u) \in Nat
      BY <1>3, <2>3, <3>1
    <3>5. u = b /\ v = c
      BY <1>4, <2>3, <3>1, <3>3, <3>4
    <3> QED BY <3>1, <3>5
  <2> HIDE DEF begun
  <2>8. ChunkAt(cmp, o) = {Rec(b, c)}
    BY <1>5, <2>5, <2>6, <2>7
  <2>9. O(b) <= o
    BY <2>3
  <2> QED BY <2>3, <2>4, <2>8, <2>9 DEF cmp, a, z, B, O, Ch, Rec
<1> QED BY <1>6, <1>7

(* From a place on up to an offset nothing is changed: there the boundaries *)
(* lie as far apart in the comparison text as in the text.                  *)
LEMMA PlainStretch ==
  ASSUME NEW text \in Seq(Units), NEW T \in ToSet(Transforms),
         NEW a \in Boundaries(text), NEW z \in Boundaries(text), NEW e \in Boundaries(text),
         a <= e, e <= z, NEW o \in Nat, OutAt(text, T, a, e) <= o, o <= OutAt(text, T, a, z),
         \A b, c \in Boundaries(text) :
           Chunked(text, T, a, z, b, c) /\ e <= b => o < OutAt(text, T, a, b)
  PROVE  LET d == e + (o - OutAt(text, T, a, e)) IN
         /\ d \in Boundaries(text) => a <= d /\ d <= z /\ OutAt(text, T, a, d) = o
         /\ \A b \in Boundaries(text) :
              e <= b /\ b <= z /\ OutAt(text, T, a, b) = o => b = d
<1> DEFINE B == Boundaries(text)
           O(b) == OutAt(text, T, a, b)
           d == e + (o - O(e))
<1>1. /\ a \in B /\ z \in B /\ e \in B /\ a <= e /\ e <= z /\ o \in Nat /\ O(e) <= o /\ o <= O(z)
      /\ \A b, c \in B : Chunked(text, T, a, z, b, c) /\ e <= b => o < O(b)
  OBVIOUS
<1>2. \A b \in B : b \in Nat
  BY BoundariesAre
<1>3. \A b, c \in B : a <= b /\ b <= c =>
        /\ O(b) \in Nat /\ O(c) \in Nat /\ O(c) = O(b) + Len(ReadAs(text, T, b, c))
        /\ O(c) <= O(b) + (c - b) /\ (b < c => O(b) < O(c))
  BY OutIs
<1>4. \A b, c \in B : b <= c => Len(Slice(text, <<b, c>>)) = c - b
  BY ReadIs
<1> HIDE DEF B, O
<1>5. ASSUME NEW b \in B, e <= b, b <= z,
             \A u \in B : e <= u /\ u < b /\ ReadAs(text, T, e, u) = Slice(text, <<e, u>>) => O(u) <= o
      PROVE  O(b) = O(e) + (b - e)
  <2>1. ASSUME NEW u \in B, NEW v \in B, Cluster(text, u, v), e <= u, v <= b,
               ReadAs(text, T, e, u) = Slice(text, <<e, u>>)
        PROVE  ReadAs(text, T, u, v) = Slice(text, <<u, v>>)
    <3>1. u < v
      BY <2>1, ClusterIs DEF B
    <3>2. u < b /\ a <= u /\ v <= z
      BY <1>1, <1>2, <1>5, <2>1, <3>1
    <3>3. O(u) <= o /\ O(u) \in Nat
      <4>1. O(u) <= o
        BY <1>5, <2>1, <3>2
      <4>2. u <= u
        BY <1>2
      <4> QED BY <1>3, <3>2, <4>1, <4>2
    <3>4. ~Chunked(text, T, a, z, u, v)
      BY <1>1, <2>1, <3>3
    <3> QED BY <2>1, <3>2, <3>4 DEF Chunked
  <2>2. ReadAs(text, T, e, b) = Slice(text, <<e, b>>)
    BY <1>1, <1>5, <2>1, StretchIs DEF B
  <2>3. Len(ReadAs(text, T, e, b)) = b - e
    BY <1>1, <1>4, <1>5, <2>2
  <2> QED BY <1>1, <1>3, <1>5, <2>3
<1>6. e \in Nat /\ z \in Nat /\ a \in Nat /\ O(e) \in Nat /\ O(z) \in Nat /\ O(z) <= O(e) + (z - e)
  BY <1>1, <1>2, <1>3
<1>7. ASSUME d \in B PROVE a <= d /\ d <= z /\ O(d) = o
  <2>1. d \in Nat /\ e <= d /\ d <= z /\ a <= d
    BY <1>1, <1>6
  <2>2. PICK b \in B : b = d
    BY <1>7
  <2> HIDE DEF d
  <2>3. ASSUME NEW u \in B, e <= u, u < b, ReadAs(text, T, e, u) = Slice(text, <<e, u>>)
        PROVE  O(u) <= o
    <3>1. O(u) = O(e) + (u - e)
      <4>1. Len(ReadAs(text, T, e, u)) = u - e
        BY <1>1, <1>4, <2>3
      <4> QED BY <1>1, <1>3, <2>3, <4>1
    <3>2. u < e + (o - O(e)) /\ u \in Nat
      BY <1>2, <2>2, <2>3 DEF d
    <3> QED BY <1>1, <1>6, <3>1, <3>2
  <2>4. O(b) = O(e) + (b - e)
    BY <1>5, <2>1, <2>2, <2>3
  <2>5. b = e + (o - O(e))
    BY <2>2 DEF d
  <2>6. O(b) = o
    BY <1>1, <1>6, <2>4, <2>5
  <2> QED BY <2>1, <2>2, <2>6
<1>8. ASSUME NEW b \in B, e <= b, b <= z, O(b) = o PROVE b = d
  <2>1. ASSUME NEW u \in B, e <= u, u < b PROVE O(u) <= o
    <3>1. a <= u /\ u <= b
      BY <1>1, <1>2, <2>1
    <3> QED BY <1>3, <1>8, <2>1, <3>1
  <2>2. O(b) = O(e) + (b - e)
    BY <1>5, <1>8, <2>1
  <2> QED BY <1>1, <1>2, <1>6, <1>8, <2>2
<1> QED BY <1>7, <1>8 DEF B, O, d

(* Mapping an offset back: the offset of a boundary is mapped to it and is  *)
(* inside no chunk, and an offset that is mapped to a boundary is its.      *)
LEMMA MapIs ==
  ASSUME NEW text \in Seq(Units), NEW T \in ToSet(Transforms), NEW source,
         source[1] \in Boundaries(text), source[2] \in Boundaries(text), source[1] <= source[2]
  PROVE  LET cmp == ComparisonText(text, source, T)
             a   == source[1]
             z   == source[2]
             B   == Boundaries(text) IN
         \A o \in Nat : o <= OutAt(text, T, a, z) =>
           /\ \A b \in B : a <= b /\ b <= z /\ OutAt(text, T, a, b) = o =>
                ~InsideChunk(cmp, o) /\ MapToSource(cmp, o) = b
           /\ ~InsideChunk(cmp, o) /\ MapToSource(cmp, o) \in B =>
                /\ a <= MapToSource(cmp, o) /\ MapToSource(cmp, o) <= z
                /\ OutAt(text, T, a, MapToSource(cmp, o)) = o
<1> DEFINE cmp == ComparisonText(text, source, T)
           a   == source[1]
           z   == source[2]
           B   == Boundaries(text)
           O(b) == OutAt(text, T, a, b)
           Ch(b, c) == Chunked(text, T, a, z, b, c)
<1>1. a \in B /\ z \in B /\ a <= z /\ cmp.source[1] = a
  BY ComparisonIs
<1>2. \A b \in B : b \in Nat
  BY BoundariesAre
<1>3. \A b, c \in B : a <= b /\ b <= c =>
        /\ O(b) \in Nat /\ O(c) \in Nat /\ (b < c => O(b) < O(c))
  BY OutIs
<1>4. O(a) = 0
  <2>1. a <= a
    BY <1>1, <1>2
  <2> QED BY <1>1, <2>1, OutIs
<1> SUFFICES ASSUME NEW o \in Nat, o <= O(z)
             PROVE  /\ \A b \in B : a <= b /\ b <= z /\ O(b) = o =>
                         ~InsideChunk(cmp, o) /\ MapToSource(cmp, o) = b
                    /\ ~InsideChunk(cmp, o) /\ MapToSource(cmp, o) \in B =>
                         /\ a <= MapToSource(cmp, o) /\ MapToSource(cmp, o) <= z
                         /\ O(MapToSource(cmp, o)) = o
  OBVIOUS
<1>5. \/ /\ ChunkAt(cmp, o) = {}
         /\ \A b, c \in B : Ch(b, c) => o < O(b)
      \/ \E b, c \in B :
           /\ Ch(b, c) /\ O(b) <= o
           /\ \A u, v \in B : Ch(u, v) /\ O(u) <= o => O(u) <= O(b)
           /\ ChunkAt(cmp, o) = {ChunkOf(text, T, a, b, c)}
  BY <1>1, ChunkAtIs
<1>6. ASSUME NEW e \in B, a <= e, e <= z, O(e) <= o,
             \A b, c \in B : Ch(b, c) /\ e <= b => o < O(b)
      PROVE  LET d == e + (o - O(e)) IN
             /\ d \in B => a <= d /\ d <= z /\ O(d) = o
             /\ \A b \in B : e <= b /\ b <= z /\ O(b) = o => b = d
  BY <1>1, <1>6, PlainStretch
<1> HIDE DEF cmp, a, z, B, O, Ch
<1>7. CASE ChunkAt(cmp, o) = {} /\ \A b, c \in B : Ch(b, c) => o < O(b)
  <2>1. ~InsideChunk(cmp, o) /\ MapToSource(cmp, o) = a + o
    BY <1>1, <1>7 DEF InsideChunk, MapToSource
  <2>2. a <= a /\ O(a) <= o /\ a + (o - O(a)) = a + o
    BY <1>1, <1>2, <1>4
  <2>3. LET d == a + (o - O(a)) IN
        /\ d \in B => a <= d /\ d <= z /\ O(d) = o
        /\ \A b \in B : a <= b /\ b <= z /\ O(b) = o => b = d
    BY <1>1, <1>6, <1>7, <2>2
  <2> QED BY <2>1, <2>2, <2>3
<1>8. CASE \E b, c \in B :
             /\ Ch(b, c) /\ O(b) <= o
             /\ \A u, v \in B : Ch(u, v) /\ O(u) <= o => O(u) <= O(b)
             /\ ChunkAt(cmp, o) = {ChunkOf(text, T, a, b, c)}
  <2>1. PICK s, e \in B :
          /\ Ch(s, e) /\ O(s) <= o
          /\ \A u, v \in B : Ch(u, v) /\ O(u) <= o => O(u) <= O(s)
          /\ ChunkAt(cmp, o) = {ChunkOf(text, T, a, s, e)}
    BY <1>8
  <2> DEFINE rec == ChunkOf(text, T, a, s, e)
  <2>2. /\ rec.sourceStart = s /\ rec.sourceEnd = e
        /\ rec.outputStart = O(s) /\ rec.outputEnd = O(e)
    BY DEF ChunkOf, O
  <2> HIDE DEF rec
  <2>3. ChunkAt(cmp, o) = {rec} /\ ChunkAt(cmp, o) # {} /\ (CHOOSE d \in ChunkAt(cmp, o) : TRUE) = rec
    BY <2>1 DEF rec
  <2>4. InsideChunk(cmp, o) <=> O(s) < o /\ o < O(e)
    BY <2>2, <2>3 DEF InsideChunk
  <2>5. MapToSource(cmp, o) = IF o = O(s) THEN s ELSE e + (o - O(e))
    <3>1. MapToSource(cmp, o) =
            IF o = rec.outputStart THEN rec.sourceStart ELSE rec.sourceEnd + (o - rec.outputEnd)
      BY <2>3 DEF MapToSource
    <3> QED BY <2>2, <3>1
  <2>6. /\ a <= s /\ e <= z /\ s < e /\ a <= e /\ s <= z
        /\ \A b \in B : s < b => e <= b
    <3>1. Cluster(text, s, e) /\ a <= s /\ e <= z
      BY <2>1 DEF Ch, Chunked
    <3>2. s < e /\ \A b \in B : s < b => e <= b
      BY <3>1, ClusterIs DEF B
    <3>3. s \in Nat /\ e \in Nat /\ a \in Nat /\ z \in Nat
      BY <1>1, <1>2
    <3> QED BY <3>1, <3>2, <3>3
  <2>7. O(s) \in Nat /\ O(e) \in Nat /\ O(s) < O(e)
    <3>1. s <= e
      BY <1>2, <2>6
    <3> QED BY <1>3, <2>6, <3>1
  <2>8. ASSUME O(e) <= o
        PROVE  LET d == e + (o - O(e)) IN
               /\ d \in B => a <= d /\ d <= z /\ O(d) = o
               /\ \A b \in B : e <= b /\ b <= z /\ O(b) = o => b = d
    <3>1. ASSUME NEW b \in B, NEW c \in B, Ch(b, c), e <= b PROVE o < O(b)
      <4>1. s < b /\ s <= b
        BY <1>2, <2>6, <3>1
      <4>2. O(s) < O(b) /\ O(b) \in Nat
        BY <1>3, <2>6, <4>1
      <4>3. ~(O(b) <= o)
        BY <2>1, <2>7, <3>1, <4>2
      <4> QED BY <4>2, <4>3
    <3> QED BY <1>6, <2>6, <2>8, <3>1
  <2>9. ASSUME NEW b \in B, a <= b, b <= z, O(b) = o
        PROVE  ~InsideChunk(cmp, o) /\ MapToSource(cmp, o) = b
    <3>1. b \in Nat /\ s \in Nat /\ e \in Nat
      BY <1>2
    <3>2. CASE b = s
      BY <2>4, <2>5, <2>7, <2>9, <3>2
    <3>3. CASE b < s
      <4>1. b <= s
        BY <3>1, <3>3
      <4>2. O(b) < O(s)
        BY <1>3, <2>9, <3>3, <4>1
      <4> QED BY <2>1, <2>7, <2>9, <4>2
    <3>4. CASE s < b
      <4>1. e <= b
        BY <2>6, <3>4
      <4>2. O(e) <= O(b)
        <5>1. e = b \/ e < b
          BY <3>1, <4>1
        <5>2. e < b => O(e) < O(b)
          BY <1>3, <2>6, <4>1
        <5> QED BY <2>7, <2>9, <5>1, <5>2
      <4>3. ~InsideChunk(cmp, o) /\ o # O(s)
        BY <2>4, <2>7, <2>9, <4>2
      <4>4. b = e + (o - O(e))
        BY <2>8, <2>9, <4>1, <4>2
      <4> QED BY <2>5, <4>3, <4>4
    <3> QED BY <3>1, <3>2, <3>3, <3>4
  <2>10. ASSUME ~InsideChunk(cmp, o), MapToSource(cmp, o) \in B
         PROVE  /\ a <= MapToSource(cmp, o) /\ MapToSource(cmp, o) <= z
                /\ O(MapToSource(cmp, o)) = o
    <3>1. CASE o = O(s)
      BY <2>5, <2>6, <3>1
    <3>2. CASE o # O(s)
      <4>1. O(e) <= o
        BY <2>1, <2>4, <2>7, <2>10, <3>2
      <4>2. MapToSource(cmp, o) = e + (o - O(e))
        BY <2>5, <3>2
      <4> QED BY <2>8, <2>10, <4>1, <4>2
    <3> QED BY <3>1, <3>2
  <2> QED BY <2>9, <2>10
<1> QED BY <1>5, <1>7, <1>8

-----------------------------------------------------------------------------
(* The traces of a misquoted passage                                        *)

(* The middle one of three parts.                                           *)
LEMMA SliceMiddle ==
  ASSUME NEW x \in Seq(Units), NEW y \in Seq(Units), NEW w \in Seq(Units)
  PROVE  Slice((x \o y) \o w, <<Len(x), Len(x) + Len(y)>>) = y
<1> DEFINE l == Len(x)
           m == Len(y)
           n == Len(w)
           t == (x \o y) \o w
           u == Slice(t, <<l, l + m>>)
<1>1. /\ l \in Nat /\ m \in Nat /\ n \in Nat /\ t \in Seq(Units) /\ Len(t) = l + m + n
      /\ \A k \in 1 .. m : t[l + k] = y[k]
  <2>1. x \o y \in Seq(Units) /\ Len(x \o y) = l + m /\ l \in Nat /\ m \in Nat /\ n \in Nat
    OBVIOUS
  <2>2. t \in Seq(Units) /\ Len(t) = l + m + n
    <3>1. PICK v \in Seq(Units) : v = x \o y
      BY <2>1, Zenon
    <3>2. Len(v \o w) = Len(v) + Len(w) /\ v \o w \in Seq(Units)
      OBVIOUS
    <3> QED BY <2>1, <3>1, <3>2
  <2>3. ASSUME NEW k \in 1 .. m PROVE t[l + k] = y[k]
    <3>1. PICK v \in Seq(Units) : v = x \o y
      BY <2>1, Zenon
    <3>2. (x \o y)[l + k] = y[k]
      OBVIOUS
    <3>3. PICK h \in 1 .. Len(v) : h = l + k
      BY <2>1, <3>1
    <3>4. (v \o w)[h] = v[h]
      OBVIOUS
    <3> QED BY <3>1, <3>2, <3>3, <3>4
  <2> QED BY <2>1, <2>2, <2>3
<1> HIDE DEF l, m, n, t
<1>2. u \in Seq(Units) /\ Len(u) = m /\ \A k \in 1 .. m : u[k] = t[l + k]
  <2>1. PICK e \in 0 .. Len(t) : e = l + m
    BY <1>1
  <2>2. l <= e /\ e - l = m
    BY <1>1, <2>1
  <2>3. /\ Slice(t, <<l, e>>) \in Seq(Units) /\ Len(Slice(t, <<l, e>>)) = e - l
        /\ \A k \in 1 .. e - l : Slice(t, <<l, e>>)[k] = t[l + k]
    BY <1>1, <2>2, SliceIs, Zenon
  <2> QED BY <2>1, <2>2, <2>3, Zenon
<1> HIDE DEF u
<1>3. \A k \in 1 .. m : u[k] = y[k]
  BY <1>1, <1>2
<1>4. u = y
  BY <1>2, <1>3, SeqEqual DEF m
<1> QED BY <1>4 DEF u, t, l, m

MiddleKept(text, T, a, b, c, z) ==
  /\ Slice(ReadAs(text, T, a, z), <<OutAt(text, T, a, b), OutAt(text, T, a, c)>>)
       = ReadAs(text, T, b, c)
  /\ Slice(Slice(text, <<a, z>>), <<b - a, c - a>>) = Slice(text, <<b, c>>)

(* The middle of a stretch, as it stands and as it reads.                   *)
LEMMA SliceOfRead ==
  ASSUME NEW text \in Seq(Units), NEW T \in ToSet(Transforms),
         NEW a \in Boundaries(text), NEW b \in Boundaries(text), NEW c \in Boundaries(text),
         NEW z \in Boundaries(text), a <= b, b <= c, c <= z
  PROVE  MiddleKept(text, T, a, b, c, z)
<1> DEFINE x == ReadAs(text, T, a, b)
           y == ReadAs(text, T, b, c)
           w == ReadAs(text, T, c, z)
           p == Slice(text, <<a, b>>)
           q == Slice(text, <<b, c>>)
           r == Slice(text, <<c, z>>)
<1>1. a \in Nat /\ b \in Nat /\ c \in Nat /\ z \in Nat /\ a <= c
  BY BoundariesAre
<1>2. x \in Seq(Units) /\ p \in Seq(Units) /\ Len(p) = b - a
  BY ReadIs
<1>3. y \in Seq(Units) /\ q \in Seq(Units) /\ Len(q) = c - b
  BY ReadIs
<1>4. w \in Seq(Units) /\ r \in Seq(Units)
  BY ReadIs
<1>5. ReadAs(text, T, a, z) = (x \o y) \o w /\ Slice(text, <<a, z>>) = (p \o q) \o r
  <2>1. ReadAs(text, T, a, c) = x \o y /\ Slice(text, <<a, c>>) = p \o q
    BY ReadSplit, Zenon
  <2>2. /\ ReadAs(text, T, a, z) = ReadAs(text, T, a, c) \o w
        /\ Slice(text, <<a, z>>) = Slice(text, <<a, c>>) \o r
    BY <1>1, ReadSplit, Zenon
  <2> QED BY <2>1, <2>2, Zenon
<1>6. OutAt(text, T, a, b) = Len(x) /\ OutAt(text, T, a, c) = Len(x) + Len(y)
  <2>1. OutAt(text, T, a, c) = OutAt(text, T, a, b) + Len(y)
    BY OutIs
  <2> QED BY <2>1 DEF OutAt
<1> HIDE DEF x, y, w, p, q, r
<1>7. Slice((x \o y) \o w, <<Len(x), Len(x) + Len(y)>>) = y
  BY <1>2, <1>3, <1>4, SliceMiddle
<1>8. Slice((p \o q) \o r, <<Len(p), Len(p) + Len(q)>>) = q
  BY <1>2, <1>3, <1>4, SliceMiddle, Zenon
<1>9. Len(p) + Len(q) = c - a
  BY <1>1, <1>2, <1>3
<1>10. Slice(ReadAs(text, T, a, z), <<OutAt(text, T, a, b), OutAt(text, T, a, c)>>) = y
  BY <1>5, <1>6, <1>7
<1>11. Slice(Slice(text, <<a, z>>), <<b - a, c - a>>) = q
  BY <1>2, <1>5, <1>8, <1>9, Zenon
<1> QED BY <1>10, <1>11 DEF y, q, MiddleKept

(* A boundary is moved nowhere.                                             *)
LEMMA NearestBoundary ==
  ASSUME NEW text \in Seq(Units), NEW b \in Boundaries(text)
  PROVE  FloorBoundary(text, b) = b /\ CeilBoundary(text, b) = b
<1> DEFINE B == Boundaries(text)
           F == {x \in B : x <= b}
           C == {x \in B : x >= b}
<1>1. B \subseteq 0 .. Len(text) /\ Len(text) \in Nat /\ b \in B
  BY BoundariesAre
<1> HIDE DEF B
<1>2. b \in Nat /\ \A x \in B : x \in Nat
  <2>1. \A x \in 0 .. Len(text) : x \in Nat
    BY <1>1
  <2> QED BY <1>1, <2>1
<1>3. F \subseteq 0 .. Len(text) /\ b \in F /\ C \subseteq Nat /\ b \in C
  <2>1. b \in F /\ b \in C
    BY <1>1, <1>2
  <2>2. F \subseteq B /\ C \subseteq B
    OBVIOUS
  <2>3. B \subseteq Nat
    BY <1>2
  <2> HIDE DEF F, C
  <2> QED BY <1>1, <2>1, <2>2, <2>3
<1>4. \A x \in F : x <= b
  OBVIOUS
<1>5. \A x \in C : x >= b
  OBVIOUS
<1>6. FloorBoundary(text, b) = Max(F) /\ CeilBoundary(text, b) = Min(C)
  BY DEF FloorBoundary, CeilBoundary, B
<1>7. \A x \in F \cup C : x \in Nat
  BY <1>2
<1> HIDE DEF F, C
<1>8. Max(F) \in F /\ b <= Max(F)
  BY <1>1, <1>3, MaxOf, Zenon
<1>9. Min(C) \in C /\ Min(C) <= b
  BY <1>3, MinOf, Zenon
<1> QED BY <1>2, <1>4, <1>5, <1>6, <1>7, <1>8, <1>9

TraceOf(text, cmp, T, m) ==
  [transform |-> T, cover |-> CoverSource(text, cmp, m),
   range |-> SourceRange(text, cmp, m), found |-> m[1]]

(* The traces under one transform: where one names a range, the range reads *)
(* as the quote.                                                            *)
LEMMA TracesRead ==
  ASSUME NEW text \in Seq(Units), NEW T \in ToSet(Transforms), NEW input,
         input[1] \in Boundaries(text), input[2] \in Boundaries(text), input[1] <= input[2],
         NEW quote \in Seq(Units)
  PROVE  LET all == Traces(text, input, quote, T) IN
         /\ IsFiniteSet(all)
         /\ \A t \in all :
              /\ t.found \in Nat /\ t.transform = T
              /\ t.range # Null =>
                   ApplyTransform(Slice(text, t.range), T) = ApplyTransform(quote, T)
<1> DEFINE all  == Traces(text, input, quote, T)
           cmp  == ComparisonText(text, input, T)
           q    == ApplyTransform(quote, T)
           a    == input[1]
           z    == input[2]
           B    == Boundaries(text)
           O(b) == OutAt(text, T, a, b)
           n    == Len(cmp.text)
           l    == Len(q)
           at(o) == <<o, o + l>>
           found == TransformedMatches(text, cmp, quote, q)
<1>1. all = {TraceOf(text, cmp, T, m) : m \in found}
  BY DEF Traces, TraceOf
<1>2. /\ a \in B /\ z \in B /\ a <= z /\ \A b \in B : b \in Nat
      /\ cmp.text = ReadAs(text, T, a, z) /\ n = O(z)
  <2>1. cmp.text = ReadAs(text, T, a, z)
    BY ComparisonIs
  <2>2. \A b \in B : b \in Nat
    BY BoundariesAre
  <2> QED BY <2>1, <2>2 DEF OutAt
<1>3. q \in Seq(Units) /\ l \in Nat /\ (l = 0 => q = <<>>)
  <2>1. q \in Seq(Units)
    BY TransformIs
  <2> HIDE DEF q
  <2> QED BY <2>1
<1>4. n \in Nat
  <2>1. a <= a
    BY <1>2
  <2>2. O(z) \in Nat
    BY <1>2, <2>1, OutIs
  <2> QED BY <1>2, <2>2
<1>5. ASSUME NEW m \in found
      PROVE  \E o \in 0 .. n : /\ o + l <= n /\ l > 0 /\ m = at(o)
                               /\ Slice(cmp.text, at(o)) = q
  <2>1. /\ q # <<>>
        /\ m \in {r \in {<<o, o + Len(q)>> : o \in 0 .. Len(cmp.text) - Len(q)} :
                   Slice(cmp.text, r) = q /\ (q = quote => OverlapsChunk(cmp, r))}
    <3> HIDE DEF cmp, q
    <3> QED BY DEF TransformedMatches
  <2> HIDE DEF cmp, q, found
  <2>2. PICK o \in 0 .. n - l : m = <<o, o + l>> /\ Slice(cmp.text, m) = q
    BY <2>1
  <2>3. o \in 0 .. n /\ o + l <= n /\ l > 0
    BY <1>3, <1>4, <2>1
  <2> QED BY <2>2, <2>3, Zenon
<1> HIDE DEF cmp, q, n, l, found, all
<1>6. IsFiniteSet(all)
  <2> DEFINE D == {o \in 0 .. n : at(o) \in found}
             f == [o \in D |-> TraceOf(text, cmp, T, at(o))]
  <2>1. IsFiniteSet(D)
    <3>1. IsFiniteSet(0 .. n)
      BY <1>4, FS_Interval
    <3> QED BY <3>1, FS_Subset, Zenon
  <2>2. \A o \in D : f[o] \in all
    <3> HIDE DEF at
    <3> QED BY <1>1
  <2>3. ASSUME NEW t \in all PROVE \E o \in D : f[o] = t
    <3>1. PICK m \in found : t = TraceOf(text, cmp, T, m)
      BY <1>1
    <3>2. PICK o \in 0 .. n : m = at(o)
      BY <1>5, Zenon
    <3>3. o \in D
      BY <3>1, <3>2
    <3>4. f[o] = t
      BY <3>1, <3>2, <3>3
    <3> HIDE DEF f, D
    <3> QED BY <3>3, <3>4
  <2>4. f \in [D -> all]
    <3>1. f = [o \in D |-> f[o]]
      OBVIOUS
    <3> HIDE DEF f, D
    <3> QED BY <2>2, <3>1
  <2> HIDE DEF f, D
  <2>5. f \in Surjection(D, all)
    BY <2>3, <2>4 DEF Surjection
  <2> QED BY <2>1, <2>5, FS_Surjection
<1>7. ASSUME NEW t \in all
      PROVE  /\ t.found \in Nat /\ t.transform = T
             /\ t.range # Null =>
                  ApplyTransform(Slice(text, t.range), T) = q
  <2>1. PICK m \in found : t = TraceOf(text, cmp, T, m)
    BY <1>1
  <2>2. PICK o \in 0 .. n : /\ o + l <= n /\ l > 0 /\ m = at(o)
                            /\ Slice(cmp.text, at(o)) = q
    BY <1>5
  <2>3. t.transform = T /\ t.range = SourceRange(text, cmp, m) /\ t.found = m[1]
    BY <2>1 DEF TraceOf
  <2>4. PICK e \in Nat : e = o + l /\ e <= n /\ o < e
    BY <1>3, <1>4, <2>2
  <2>5. m = <<o, e>> /\ m[1] = o /\ m[2] = e /\ o \in Nat /\ Slice(cmp.text, <<o, e>>) = q
    BY <2>2, <2>4
  <2>6. ASSUME t.range # Null PROVE ApplyTransform(Slice(text, t.range), T) = q
    <3> DEFINE x == MapToSource(cmp, o)
               y == MapToSource(cmp, e)
    <3>1. /\ ~InsideChunk(cmp, o) /\ ~InsideChunk(cmp, e) /\ {x, y} \subseteq B
          /\ t.range = <<x, y>>
      <4>1. SourceRange(text, cmp, m) =
              IF InsideChunk(cmp, o) \/ InsideChunk(cmp, e) \/ ~({x, y} \subseteq B)
              THEN Null ELSE <<x, y>>
        BY <2>5 DEF SourceRange
      <4> HIDE DEF x, y
      <4> QED BY <2>3, <2>6, <4>1
    <3>2. PICK b \in B : b = x
      BY <3>1
    <3>3. PICK c \in B : c = y
      BY <3>1
    <3>4. o <= OutAt(text, T, a, z) /\ e <= OutAt(text, T, a, z)
      BY <1>2, <1>4, <2>4
    <3>5. a <= b /\ b <= z /\ O(b) = o
      BY <1>2, <2>5, <3>1, <3>2, <3>4, MapIs DEF cmp
    <3>6. a <= c /\ c <= z /\ O(c) = e
      BY <1>2, <3>1, <3>3, <3>4, MapIs DEF cmp
    <3> HIDE DEF x, y
    <3>7. b <= c
      <4>1. c <= b => O(c) <= O(b)
        <5>1. c < b => c <= b /\ b # c
          BY <1>2
        <5>2. c < b => O(c) < O(b)
          BY <1>2, <3>6, <5>1, OutIs
        <5>3. c = b => O(c) = O(b)
          OBVIOUS
        <5>4. c <= b => c < b \/ c = b
          BY <1>2
        <5> HIDE DEF O
        <5> QED BY <2>4, <2>5, <3>5, <3>6, <5>2, <5>3, <5>4
      <4> HIDE DEF O
      <4> QED BY <1>2, <2>4, <2>5, <3>5, <3>6, <4>1
    <3>8. Slice(ReadAs(text, T, a, z), <<O(b), O(c)>>) = ReadAs(text, T, b, c)
      <4>1. a \in B /\ z \in B /\ a <= b /\ c <= z
        BY <1>2, <3>5, <3>6
      <4>2. MiddleKept(text, T, a, b, c, z)
        BY <3>7, <4>1, SliceOfRead
      <4> QED BY <4>2 DEF MiddleKept
    <3>9. ReadAs(text, T, b, c) = q
      <4> HIDE DEF O
      <4> QED BY <1>2, <2>5, <3>5, <3>6, <3>8
    <3> QED BY <3>1, <3>2, <3>3, <3>9 DEF ReadAs
  <2> QED BY <2>3, <2>5, <2>6
<1> QED BY <1>6, <1>7 DEF all, q

(* Bounds that add up to a length are met.                                  *)
LEMMA Squeezed ==
  ASSUME NEW a \in Nat, NEW b \in Nat, NEW c \in Nat, NEW z \in Nat,
         NEW x \in Nat, NEW y \in Nat, NEW w \in Nat,
         x <= b - a, y <= x + (c - b), w <= y + (z - c), w = z - a
  PROVE  x = b - a /\ y = c - a
OBVIOUS


(* A passage quoted as it reads under a transform, but not as it stands,    *)
(* has a trace under that transform.                                        *)
LEMMA TraceExists ==
  ASSUME NEW text \in Seq(Units), NEW T \in ToSet(Transforms), NEW input,
         input[1] \in Boundaries(text), input[2] \in Boundaries(text),
         NEW b \in Boundaries(text), NEW c \in Boundaries(text),
         input[1] <= b, b < c, c <= input[2],
         ReadAs(text, T, b, c) # Slice(text, <<b, c>>)
  PROVE  \E t \in Traces(text, input, ReadAs(text, T, b, c), T) : t.cover = <<b, c>>
<1> DEFINE quote == ReadAs(text, T, b, c)
           all  == Traces(text, input, quote, T)
           cmp  == ComparisonText(text, input, T)
           q    == ApplyTransform(quote, T)
           a    == input[1]
           z    == input[2]
           B    == Boundaries(text)
           O(x) == OutAt(text, T, a, x)
           found == TransformedMatches(text, cmp, quote, q)
           m    == <<O(b), O(c)>>
<1>1. all = {TraceOf(text, cmp, T, r) : r \in found}
  BY DEF Traces, TraceOf
<1>2. a \in B /\ z \in B /\ b \in B /\ c \in B /\ a <= b /\ b < c /\ c <= z /\ \A x \in B : x \in Nat
  BY BoundariesAre
<1>3. a <= z /\ b <= c /\ a <= c /\ b <= z
  <2>1. a \in Nat /\ b \in Nat /\ c \in Nat /\ z \in Nat
    BY <1>2
  <2> QED BY <1>2, <2>1
<1>4. cmp.text = ReadAs(text, T, a, z) /\ Len(cmp.text) = O(z) /\ cmp.source = input
  <2>1. cmp.text = ReadAs(text, T, a, z) /\ cmp.source = input
    BY <1>3, ComparisonIs
  <2> QED BY <2>1 DEF OutAt
<1>5. quote \in Seq(Units) /\ Len(quote) > 0 /\ Len(quote) \in Nat /\ q = quote
  BY <1>2, <1>3, ReadIs
<1>6. /\ O(b) \in Nat /\ O(c) \in Nat /\ O(z) \in Nat /\ O(c) = O(b) + Len(quote)
      /\ O(b) <= b - a /\ O(c) <= O(b) + (c - b) /\ O(z) <= O(c) + (z - c) /\ O(c) <= O(z)
  <2>1. O(b) \in Nat /\ O(c) \in Nat /\ O(c) = O(b) + Len(quote) /\ O(c) <= O(b) + (c - b)
    BY <1>3, OutIs
  <2>2. O(a) = 0 /\ O(b) <= O(a) + (b - a)
    <3>1. a <= a
      BY <1>2
    <3> QED BY <1>2, <3>1, OutIs, Zenon
  <2>3. O(z) \in Nat /\ O(z) = O(c) + Len(ReadAs(text, T, c, z)) /\ O(z) <= O(c) + (z - c)
    BY <1>2, <1>3, OutIs
  <2>4. Len(ReadAs(text, T, c, z)) \in Nat
    BY <1>2, ReadIs
  <2>5. a \in Nat /\ b \in Nat
    BY <1>2
  <2> HIDE DEF O, a, z, quote
  <2> QED BY <2>1, <2>2, <2>3, <2>4, <2>5
<1>7. Slice(cmp.text, m) = quote
  <2>1. MiddleKept(text, T, a, b, c, z)
    BY <1>2, <1>3, SliceOfRead
  <2>2. Slice(ReadAs(text, T, a, z), <<OutAt(text, T, a, b), OutAt(text, T, a, c)>>) = quote
    BY <2>1 DEF MiddleKept
  <2> QED BY <1>4, <2>2
<1>8. cmp.text # Slice(text, cmp.source)
  <2> SUFFICES ASSUME cmp.text = Slice(text, <<a, z>>) PROVE FALSE
    BY <1>4 DEF Slice
  <2>1. Len(cmp.text) = z - a
    BY <1>2, <1>3, ReadIs
  <2>2. O(b) = b - a /\ O(c) = c - a
    <3>1. a \in Nat /\ b \in Nat /\ c \in Nat /\ z \in Nat
      BY <1>2
    <3>2. O(z) = z - a
      BY <1>4, <2>1
    <3>3. O(b) \in Nat /\ O(c) \in Nat /\ O(z) \in Nat
      BY <1>6
    <3>4. O(b) <= b - a
      BY <1>6
    <3>5. O(c) <= O(b) + (c - b)
      BY <1>6
    <3>6. O(z) <= O(c) + (z - c)
      BY <1>6
    <3> HIDE DEF O, a, z, m, quote
    <3> QED BY <3>1, <3>2, <3>3, <3>4, <3>5, <3>6, Squeezed, Zenon
  <2>3. MiddleKept(text, T, a, b, c, z)
    BY <1>2, <1>3, SliceOfRead
  <2>4. Slice(Slice(text, <<a, z>>), <<b - a, c - a>>) = Slice(text, <<b, c>>)
    BY <2>3 DEF MiddleKept
  <2>5. Slice(cmp.text, <<b - a, c - a>>) = Slice(text, <<b, c>>)
    <3> HIDE DEF cmp
    <3> QED BY <2>4
  <2>6. Slice(cmp.text, <<b - a, c - a>>) = quote
    <3>1. m = <<b - a, c - a>>
      BY <2>2
    <3> HIDE DEF cmp, m, quote
    <3> QED BY <1>7, <3>1
  <2> QED BY <2>5, <2>6
<1>9. OverlapsChunk(cmp, m)
  <2>1. PICK u \in B, v \in B : /\ Cluster(text, u, v) /\ b <= u /\ v <= c
                                /\ ReadAs(text, T, u, v) # Slice(text, <<u, v>>)
    BY <1>3, StretchIs, Zenon
  <2>2. u < v
    BY <2>1, ClusterIs
  <2>3. a <= u /\ v <= z /\ u < c /\ b < v /\ b <= v /\ u <= c /\ a <= v
    <3>1. a \in Nat /\ b \in Nat /\ c \in Nat /\ z \in Nat /\ u \in Nat /\ v \in Nat
      BY <1>2
    <3> HIDE DEF a, z
    <3> QED BY <1>2, <2>1, <2>2, <3>1
  <2>4. O(u) < O(c) /\ O(b) < O(v)
    <3>1. O(u) < O(c)
      BY <1>2, <2>3, OutIs
    <3>2. O(b) < O(v)
      BY <1>2, <2>3, OutIs
    <3> QED BY <3>1, <3>2
  <2> DEFINE ch == ChunkOf(text, T, a, u, v)
  <2>5. ch.outputStart = O(u) /\ ch.outputEnd = O(v)
    BY DEF ChunkOf
  <2>6. IsChunk(text, T, a, z, ch)
    <3>1. Chunked(text, T, a, z, u, v)
      BY <2>1, <2>3 DEF Chunked
    <3> QED BY <3>1 DEF IsChunk
  <2>7. \A x : x \in cmp.chunks <=> IsChunk(text, T, a, z, x)
    BY <1>2, <1>3, ComparisonIs
  <2>8. ch \in cmp.chunks
    BY <2>6, <2>7
  <2>9. Overlap(<<ch.outputStart, ch.outputEnd>>, m)
    BY <2>4, <2>5 DEF Overlap
  <2> HIDE DEF ch, cmp, m
  <2> QED BY <2>8, <2>9, Zenon DEF OverlapsChunk
<1> HIDE DEF cmp, quote, q, all
<1>10. m \in found
  <2>1. quote # <<>>
    BY <1>5
  <2>2. m \in {<<o, o + Len(q)>> : o \in 0 .. Len(cmp.text) - Len(q)}
    <3>1. PICK o \in 0 .. Len(cmp.text) - Len(q) : o = O(b)
      <4> HIDE DEF O
      <4> QED BY <1>4, <1>5, <1>6
    <3>2. m = <<o, o + Len(q)>>
      <4>1. o + Len(q) = O(c)
        <5> HIDE DEF O
        <5> QED BY <1>5, <1>6, <3>1
      <4> QED BY <3>1, <4>1
    <3> HIDE DEF m
    <3> QED BY <3>1, <3>2
  <2>3. Slice(cmp.text, m) = q /\ OverlapsChunk(cmp, m)
    BY <1>5, <1>7, <1>9
  <2> HIDE DEF m
  <2> QED BY <1>5, <1>8, <2>1, <2>2, <2>3 DEF TransformedMatches
<1> DEFINE t == TraceOf(text, cmp, T, m)
<1>11. t \in all
  <2> HIDE DEF m, found
  <2> QED BY <1>1, <1>10
<1>12. t.cover = <<b, c>>
  <2>1. ~InsideChunk(cmp, O(b)) /\ MapToSource(cmp, O(b)) = b
    <3>1. O(b) <= O(z) /\ O(b) \in Nat
      <4> HIDE DEF O
      <4> QED BY <1>5, <1>6
    <3> QED BY <1>2, <1>3, <3>1, MapIs DEF cmp
  <2>2. ~InsideChunk(cmp, O(c)) /\ MapToSource(cmp, O(c)) = c
    BY <1>2, <1>3, <1>6, MapIs DEF cmp
  <2>3. FloorBoundary(text, b) = b /\ CeilBoundary(text, c) = c
    BY NearestBoundary
  <2>4. m[1] = O(b) /\ m[2] = O(c)
    OBVIOUS
  <2> HIDE DEF m, O
  <2>5. CoverSource(text, cmp, m) = <<b, c>>
    BY <2>1, <2>2, <2>3, <2>4 DEF CoverSource
  <2>6. t.cover = CoverSource(text, cmp, m)
    BY DEF TraceOf
  <2> QED BY <2>5, <2>6
<1> HIDE DEF t
<1>13. \E e \in all : e.cover = <<b, c>>
  BY <1>11, <1>12
<1> QED BY <1>13 DEF all, quote

(* What is collected under all transforms: of each place the first trace.   *)
LEMMA CollectedIs ==
  ASSUME NEW text \in Seq(Units), NEW input, NEW quote \in Seq(Units),
         input[1] \in Boundaries(text), input[2] \in Boundaries(text), input[1] <= input[2]
  PROVE  LET found == Collected(text, input, quote) IN
         /\ IsFiniteSet(found)
         /\ \A c \in found : c.range # Null =>
              ApplyTransform(Slice(text, c.range), c.transform) = ApplyTransform(quote, c.transform)
         /\ \A T \in ToSet(Transforms) : \A t \in Traces(text, input, quote, T) :
              \E c \in found : c.cover = t.cover
<1> DEFINE Under(i) == Traces(text, input, quote, Transforms[i])
           Fresh(i) == {t \in Under(i) :
                          /\ \A j \in 1 .. i - 1 : \A e \in Under(j) : e.cover # t.cover
                          /\ \A e \in Under(i) : e.cover = t.cover => t.found <= e.found}
           found == Collected(text, input, quote)
<1>1. found = UNION {Fresh(i) : i \in 1 .. 3}
  <2>1. DOMAIN Transforms = 1 .. 3
    BY DEF Transforms
  <2> QED BY <2>1 DEF Collected
<1>2. \A i \in 1 .. 3 : Transforms[i] \in ToSet(Transforms)
  <2>1. DOMAIN Transforms = 1 .. 3
    BY DEF Transforms
  <2> QED BY <2>1 DEF ToSet
<1>3. \A T \in ToSet(Transforms) : \E i \in 1 .. 3 : T = Transforms[i]
  <2>1. DOMAIN Transforms = 1 .. 3
    BY DEF Transforms
  <2> QED BY <2>1 DEF ToSet
<1>4. ASSUME NEW i \in 1 .. 3
      PROVE  /\ IsFiniteSet(Under(i))
             /\ \A t \in Under(i) :
                  /\ t.found \in Nat
                  /\ t.range # Null =>
                       ApplyTransform(Slice(text, t.range), t.transform)
                         = ApplyTransform(quote, t.transform)
  <2>1. PICK T \in ToSet(Transforms) : T = Transforms[i]
    BY <1>2
  <2>2. /\ IsFiniteSet(Traces(text, input, quote, T))
        /\ \A t \in Traces(text, input, quote, T) :
             /\ t.found \in Nat /\ t.transform = T
             /\ t.range # Null =>
                  ApplyTransform(Slice(text, t.range), T) = ApplyTransform(quote, T)
    BY TracesRead
  <2> QED BY <2>1, <2>2
<1> HIDE DEF Under, found
<1>5. IsFiniteSet(found)
  <2>1. \A i \in 1 .. 3 : IsFiniteSet(Fresh(i))
    BY <1>4, FS_Subset
  <2> HIDE DEF Fresh
  <2>2. found = UNION {Fresh(1), Fresh(2), Fresh(3)}
    <3>1. {Fresh(i) : i \in 1 .. 3} = {Fresh(1), Fresh(2), Fresh(3)}
      OBVIOUS
    <3> QED BY <1>1, <3>1
  <2>3. IsFiniteSet({Fresh(1), Fresh(2), Fresh(3)})
    <3>1. IsFiniteSet({Fresh(1)})
      BY FS_Singleton, Zenon
    <3>2. IsFiniteSet({Fresh(1)} \cup {Fresh(2)})
      BY <3>1, FS_AddElement, Zenon
    <3>3. IsFiniteSet(({Fresh(1)} \cup {Fresh(2)}) \cup {Fresh(3)})
      BY <3>2, FS_AddElement, Zenon
    <3>4. {Fresh(1), Fresh(2), Fresh(3)} = ({Fresh(1)} \cup {Fresh(2)}) \cup {Fresh(3)}
      OBVIOUS
    <3> QED BY <3>3, <3>4, Zenon
  <2>4. \A S \in {Fresh(1), Fresh(2), Fresh(3)} : IsFiniteSet(S)
    BY <2>1
  <2> QED BY <2>2, <2>3, <2>4, FS_UNION, Zenon
<1>6. ASSUME NEW c \in found, c.range # Null
      PROVE  ApplyTransform(Slice(text, c.range), c.transform) = ApplyTransform(quote, c.transform)
  <2>1. PICK i \in 1 .. 3 : c \in Fresh(i)
    BY <1>1
  <2>2. c \in Under(i)
    BY <2>1
  <2> HIDE DEF Fresh
  <2> QED BY <1>4, <1>6, <2>2
<1>7. ASSUME NEW T \in ToSet(Transforms), NEW t \in Traces(text, input, quote, T)
      PROVE  \E c \in found : c.cover = t.cover
  <2> DEFINE I == {i \in 1 .. 3 : \E e \in Under(i) : e.cover = t.cover}
  <2>1. PICK l \in 1 .. 3 : T = Transforms[l]
    BY <1>3
  <2>2. l \in I
    BY <2>1 DEF Under
  <2>3. I \subseteq Nat /\ I # {}
    BY <2>2
  <2>4. PICK i \in I : \A j \in I : i <= j
    <3> HIDE DEF I
    <3> QED BY <2>3, LeastNumber, Zenon
  <2>5. i \in 1 .. 3 /\ \A j \in 1 .. i - 1 : \A e \in Under(j) : e.cover # t.cover
    <3>1. i \in 1 .. 3
      OBVIOUS
    <3>2. ASSUME NEW j \in 1 .. i - 1, NEW e \in Under(j), e.cover = t.cover PROVE FALSE
      <4>1. j \in 1 .. 3 /\ ~(i <= j)
        BY <3>1
      <4>2. j \in I
        BY <3>2, <4>1
      <4> QED BY <2>4, <4>1, <4>2
    <3> QED BY <3>1, <3>2
  <2> DEFINE N == {k \in Nat : \E e \in Under(i) : e.cover = t.cover /\ e.found = k}
  <2>6. N \subseteq Nat /\ N # {}
    <3>1. PICK e \in Under(i) : e.cover = t.cover
      OBVIOUS
    <3>2. e.found \in Nat
      BY <1>4, <2>5
    <3>3. e.found \in N
      BY <3>1, <3>2
    <3> QED BY <3>3
  <2>7. PICK k \in N : \A h \in N : k <= h
    <3> HIDE DEF N
    <3> QED BY <2>6, LeastNumber, Zenon
  <2>8. PICK c \in Under(i) : c.cover = t.cover /\ c.found = k
    BY <2>7
  <2>9. ASSUME NEW e \in Under(i), e.cover = c.cover PROVE c.found <= e.found
    <3>1. e.found \in Nat
      BY <1>4, <2>5
    <3>2. e.found \in N
      BY <2>8, <2>9, <3>1
    <3> HIDE DEF N
    <3> QED BY <2>7, <2>8, <3>2
  <2> HIDE DEF I, N
  <2>10. c \in Fresh(i)
    BY <2>5, <2>8, <2>9
  <2>11. c \in found
    <3> HIDE DEF Fresh
    <3> QED BY <1>1, <2>5, <2>10
  <2> QED BY <2>8, <2>11
<1> QED BY <1>5, <1>6, <1>7 DEF found

(* A diagnosis that omits nothing tells of all that was found.              *)
LEMMA NothingOmitted ==
  ASSUME NEW text, NEW ref, NEW found, IsFiniteSet(found),
         Diagnosis(text, ref, found).omitted = 0
  PROVE  Diagnosis(text, ref, found).candidates = found
<1> DEFINE told == Diagnosis(text, ref, found)
<1>1. told.candidates \subseteq found
  BY DEF Diagnosis
<1>2. told.omitted = Cardinality(found) - Cardinality(told.candidates)
  BY DEF Diagnosis
<1> HIDE DEF told
<1>3. told.candidates \in SUBSET found
  BY <1>1
<1>4. Cardinality(found) = Cardinality(told.candidates) => found = told.candidates
  BY <1>3, FS_Subset
<1>5. Cardinality(found) \in Nat /\ Cardinality(told.candidates) \in Nat
  BY <1>3, FS_Subset, FS_CardinalityType
<1>6. told.omitted = 0
  BY DEF told
<1>7. told.candidates = found
  BY <1>2, <1>4, <1>5, <1>6
<1> QED BY <1>7 DEF told

(* Every manuscript that can be cut into targets has its misquotes traced.  *)
THEOREM TracedHolds ==
  ASSUME NEW text \in Seq(Units), NEW s \in Settings, ValidSettings(s)
  PROVE  Traced(text, s)
<1>1. ASSUME NEW t \in ToSet(PlanTargets(text, s)),
             NEW r \in Passages(text, BuildCheckInput(text, t, s)),
             NEW T \in ToSet(Transforms)
      PROVE  LET in    == BuildCheckInput(text, t, s)
                 ref   == [paragraph |-> ParagraphOf(text, r[1]), before |-> <<>>, after |-> <<>>,
                           quote |-> ApplyTransform(Slice(text, r), T)]
                 told  == DiagnoseQuote(text, in.input, ref)
                 found == Collected(text, in.input, ref.quote)
             IN LocateQuote(text, in, ref).locate = "not-found" =>
                  /\ r \in {c.cover : c \in found}
                  /\ told.omitted = 0 => told.candidates = found
                  /\ \A c \in found : c.range # Null =>
                       ApplyTransform(Slice(text, c.range), c.transform)
                         = ApplyTransform(ref.quote, c.transform)
  <2> DEFINE in    == BuildCheckInput(text, t, s)
             input == in.input
             ref   == [paragraph |-> ParagraphOf(text, r[1]), before |-> <<>>, after |-> <<>>,
                       quote |-> ApplyTransform(Slice(text, r), T)]
             told  == DiagnoseQuote(text, in.input, ref)
             found == Collected(text, in.input, ref.quote)
             B     == Boundaries(text)
             b     == r[1]
             c     == r[2]
             quote == ReadAs(text, T, b, c)
  <2>1. t[1] \in B /\ t[2] \in B
    BY TargetsAre
  <2>2. in.target = t /\ input[1] \in B /\ input[2] \in B /\ input[1] <= t[1]
    BY <2>1, CheckInputIs
  <2>3. \A x \in B : x \in Nat /\ x <= Len(text) /\ x \in 0 .. Len(text)
    <3>1. B \subseteq 0 .. Len(text) /\ Len(text) \in Nat
      BY BoundariesAre
    <3>2. \A x \in 0 .. Len(text) : x \in Nat /\ x <= Len(text)
      BY <3>1
    <3> HIDE DEF B
    <3> QED BY <3>1, <3>2
  <2>4. r \in B \X B /\ Within(r[1], t) /\ r[1] < r[2] /\ r[2] <= input[2]
    <3> HIDE DEF in, B
    <3> QED BY <2>2 DEF Passages, in, B
  <2>5. b \in B /\ c \in B /\ r = <<b, c>> /\ b < c /\ c <= input[2] /\ t[1] <= b
    <3> HIDE DEF B
    <3> QED BY <2>4 DEF Within
  <2> HIDE DEF in, b, c, B
  <2>6. input[1] <= b /\ input[1] <= input[2] /\ b <= c
    <3>1. /\ input[1] \in Nat /\ input[2] \in Nat /\ t[1] \in Nat /\ b \in Nat /\ c \in Nat
      BY <2>1, <2>2, <2>3, <2>5
    <3> QED BY <2>2, <2>5, <3>1
  <2>7. Slice(text, r) = Slice(text, <<b, c>>) /\ ref.quote = quote
    <3>1. Slice(text, r) = Slice(text, <<b, c>>)
      BY <2>5
    <3>2. ApplyTransform(Slice(text, <<b, c>>), T) = quote
      BY DEF ReadAs
    <3> QED BY <3>1, <3>2
  <2>8. quote \in Seq(Units) /\ Len(quote) > 0 /\ quote # <<>>
    <3>1. quote \in Seq(Units) /\ Len(quote) > 0
      BY <2>5, <2>6, ReadIs DEF B
    <3> HIDE DEF quote
    <3> QED BY <3>1
  <2> HIDE DEF quote, ref, input
  <2>9. ASSUME LocateQuote(text, in, ref).locate = "not-found" PROVE quote # Slice(text, <<b, c>>)
    <3> DEFINE matches == IF ref.quote = <<>> THEN {} ELSE Occurrences(text, in.input, ref.quote)
               left    == Narrowed(matches, Hints(text, in.input, ref, matches))
               inside  == {x \in left : Within(x[1], in.target)}
    <3>1. LocateQuote(text, in, ref) =
            CASE matches = {} -> [locate |-> "not-found", at |-> Null]
              [] matches # {} /\ inside = {} -> [locate |-> "outside-target", at |-> Null]
              [] inside # {} /\ Cardinality(left) = 1 ->
                   [locate |-> "located", at |-> CHOOSE x \in left : TRUE]
              [] inside # {} /\ Cardinality(left) # 1 -> [locate |-> "ambiguous", at |-> Null]
      BY DEF LocateQuote
    <3>2. matches = {} \/ inside = {} \/ Cardinality(left) = 1 \/ Cardinality(left) # 1
      OBVIOUS
    <3>3. inside # {} => matches # {}
      <4>1. matches = {} => inside = {}
        <5>1. \A hints : Narrowed({}, hints) = {}
          BY DEF Narrowed
        <5> QED BY <5>1, Zenon
      <4> QED BY <4>1
    <3> DEFINE n == Cardinality(left)
               w == CHOOSE x \in left : TRUE
    <3>4. matches = {}
      <4> HIDE DEF matches, left, inside, n, w
      <4>1. LocateQuote(text, in, ref) =
              CASE matches = {} -> [locate |-> "not-found", at |-> Null]
                [] matches # {} /\ inside = {} -> [locate |-> "outside-target", at |-> Null]
                [] inside # {} /\ n = 1 -> [locate |-> "located", at |-> w]
                [] inside # {} /\ n # 1 -> [locate |-> "ambiguous", at |-> Null]
        BY <3>1 DEF n, w
      <4> QED BY <2>9, <3>3, <4>1
    <3>5. Occurrences(text, input, quote) = {}
      <4>1. ref.quote # <<>> /\ matches = Occurrences(text, in.input, ref.quote)
        BY <2>7, <2>8
      <4> HIDE DEF matches
      <4> QED BY <2>7, <3>4, <4>1 DEF input
    <3> HIDE DEF matches, left, inside, n, w
    <3>6. Occurrences(text, input, quote) =
            {m \in Boundaries(text) \X Boundaries(text) :
               /\ input[1] <= m[1] /\ m[1] < m[2] /\ m[2] <= input[2]
               /\ Slice(text, m) = quote}
      <4>1. input[1] \in Nat /\ input[2] \in 0 .. Len(text)
        BY <2>2, <2>3
      <4> QED BY <2>8, <4>1, OccurrencesAre
    <3>7. r[1] = b /\ r[2] = c
      BY DEF b, c
    <3>8. Slice(text, r) # quote
      <4>1. r \in Boundaries(text) \X Boundaries(text)
        BY <2>4 DEF B
      <4>2. input[1] <= r[1] /\ r[1] < r[2] /\ r[2] <= input[2]
        BY <2>5, <2>6, <3>7
      <4> QED BY <3>5, <3>6, <4>1, <4>2
    <3> QED BY <2>7, <3>8
  <2>10. /\ IsFiniteSet(found)
         /\ \A e \in found : e.range # Null =>
              ApplyTransform(Slice(text, e.range), e.transform) = ApplyTransform(quote, e.transform)
         /\ \A e \in Traces(text, input, quote, T) : \E h \in found : h.cover = e.cover
    <3>1. found = Collected(text, input, quote)
      BY <2>7 DEF input
    <3> DEFINE all == Collected(text, input, quote)
    <3>2. /\ IsFiniteSet(all)
          /\ \A e \in all : e.range # Null =>
               ApplyTransform(Slice(text, e.range), e.transform) = ApplyTransform(quote, e.transform)
          /\ \A e \in Traces(text, input, quote, T) : \E h \in all : h.cover = e.cover
      BY <2>2, <2>6, <2>8, CollectedIs DEF B
    <3> QED BY <3>1, <3>2
  <2>11. told.omitted = 0 => told.candidates = found
    <3>1. told = Diagnosis(text, ref, found)
      BY DEF DiagnoseQuote
    <3> HIDE DEF told, found
    <3> QED BY <2>10, <3>1, NothingOmitted
  <2> HIDE DEF told, found
  <2>12. ASSUME LocateQuote(text, in, ref).locate = "not-found" PROVE r \in {h.cover : h \in found}
    <3>1. quote # Slice(text, <<b, c>>)
      BY <2>9, <2>12
    <3>2. \E e \in Traces(text, input, quote, T) : e.cover = <<b, c>>
      BY <2>2, <2>5, <2>6, <3>1, TraceExists, Zenon DEF quote, B
    <3>3. PICK h \in found : h.cover = <<b, c>>
      BY <2>10, <3>2
    <3> QED BY <2>5, <3>3
  <2>13. LocateQuote(text, in, ref).locate = "not-found" =>
           /\ r \in {h.cover : h \in found}
           /\ told.omitted = 0 => told.candidates = found
           /\ \A e \in found : e.range # Null =>
                ApplyTransform(Slice(text, e.range), e.transform)
                  = ApplyTransform(ref.quote, e.transform)
    BY <2>7, <2>10, <2>11, <2>12
  <2> QED BY <2>13 DEF in, ref, told, found
<1> QED BY <1>1 DEF Traced

(* However the manuscript is cut, a quote the checks transformed is traced.  *)
THEOREM TextTraced == ProofreadingSpec => []MisquotesAreTraced
<1>1. sample \in Samples => MisquotesAreTraced
  BY ProofreadingAssumption, TracedHolds DEF MisquotesAreTraced
<1> QED BY <1>1, SampleKept, PTL

=============================================================================
