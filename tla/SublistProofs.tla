--------------------------- MODULE SublistProofs ---------------------------
(***************************************************************************)
(* Lemmas that the proofs share: what Pick and Among return, for every     *)
(* list, and induction.                                                    *)
(***************************************************************************)
EXTENDS Sublists, FiniteSetTheorems, WellFoundedInduction, TLAPS

\* Rank numbers the positions of a finite set 1, 2, ... in increasing order.
LEMMA RankBijective ==
  ASSUME NEW K \in SUBSET Int, IsFiniteSet(K)
  PROVE  /\ \A i \in K : Rank(K, i) \in 1..Cardinality(K)
         /\ \A i, j \in K : Rank(K, i) = Rank(K, j) => i = j
         /\ \A n \in 1..Cardinality(K) : \E i \in K : Rank(K, i) = n
  <1> DEFINE B(i) == { j \in K : j <= i }
  <1>1. Cardinality(K) \in Nat
    BY FS_CardinalityType
  <1>2. \A i \in K : /\ IsFiniteSet(B(i)) /\ Cardinality(B(i)) \in Nat
                     /\ Cardinality(B(i)) <= Cardinality(K) /\ Cardinality(B(i)) # 0
    <2> TAKE i \in K
    <2>1. B(i) \in SUBSET K /\ i \in B(i)
      OBVIOUS
    <2>2. IsFiniteSet(B(i)) /\ Cardinality(B(i)) <= Cardinality(K)
      BY <2>1, FS_Subset
    <2>3. Cardinality(B(i)) \in Nat /\ Cardinality(B(i)) # 0
      BY <2>1, <2>2, FS_CardinalityType, FS_EmptySet
    <2> QED BY <2>2, <2>3
  <1>3. \A i \in K : Rank(K, i) \in 1..Cardinality(K)
    BY <1>1, <1>2 DEF Rank
  <1>4. ASSUME NEW i \in K, NEW j \in K, i < j
        PROVE  Rank(K, i) # Rank(K, j)
    <2>0. i \in Int /\ j \in Int /\ j <= j /\ ~(j <= i) /\ \A k \in K : k <= i => k <= j
      BY <1>4
    <2>1. B(i) \in SUBSET B(j) /\ j \in B(j) /\ j \notin B(i)
      BY <2>0
    <2>2. Cardinality(B(j)) # Cardinality(B(i))
      BY <1>2, <2>1, FS_Subset
    <2> QED BY <2>2 DEF Rank
  <1>5. \A i, j \in K : Rank(K, i) = Rank(K, j) => i = j
    BY <1>4
  <1>6. \A n \in 1..Cardinality(K) : \E i \in K : Rank(K, i) = n
    <2> DEFINE N == 1..Cardinality(K)
               f == [i \in K |-> Rank(K, i)]
    <2>1. f \in [K -> N]
      BY <1>3
    <2>2. f \in Injection(K, N)
      BY <1>5, <2>1 DEF Injection, IsInjective
    <2>3. IsFiniteSet(N) /\ Cardinality(N) = Cardinality(K)
      BY <1>1, FS_Interval
    <2>4. f \in Surjection(K, N)
      BY <2>2, <2>3, FS_Injection
    <2> QED BY <2>4 DEF Surjection
  <1> QED BY <1>3, <1>5, <1>6

\* A finite set of integers that is not empty has a least element.
LEMMA LeastElement ==
  ASSUME NEW K \in SUBSET Int, IsFiniteSet(K), K # {}
  PROVE  \E i \in K : \A j \in K : i <= j
  <1>1. Cardinality(K) \in Nat /\ Cardinality(K) # 0
    BY FS_CardinalityType, FS_EmptySet
  <1>2. PICK i \in K : Rank(K, i) = 1
    BY <1>1, RankBijective
  <1>3. ASSUME NEW j \in K, j < i PROVE FALSE
    <2>0. i \in Int /\ j \in Int /\ \A x \in K : x \in Int /\ (x <= j => x <= i)
      BY <1>3
    <2>1. { x \in K : x <= j } \in SUBSET { x \in K : x <= i }
      BY <2>0
    <2>2. IsFiniteSet({ x \in K : x <= i })
      BY FS_Subset
    <2>3. Rank(K, j) <= Rank(K, i)
      BY <2>1, <2>2, FS_Subset DEF Rank
    <2>4. Rank(K, j) \in 1..Cardinality(K)
      BY RankBijective
    <2>5. Rank(K, j) = Rank(K, i)
      BY <1>1, <1>2, <2>3, <2>4
    <2> QED BY <1>3, <2>5, RankBijective
  <1> QED BY <1>3

\* Pick(s, K) holds exactly the elements of s at the positions K.
LEMMA PickElements ==
  ASSUME NEW S, NEW s \in Seq(S), NEW K \in SUBSET DOMAIN s
  PROVE  /\ Pick(s, K) \in Seq(S)
         /\ \A n \in DOMAIN Pick(s, K) : \E i \in K : Pick(s, K)[n] = s[i]
         /\ \A i \in K : \E n \in DOMAIN Pick(s, K) : Pick(s, K)[n] = s[i]
  <1> DEFINE C == Cardinality(K)
             at(n) == CHOOSE i \in K : Rank(K, i) = n
  <1>1. DOMAIN s = 1..Len(s) /\ Len(s) \in Nat /\ \A i \in DOMAIN s : s[i] \in S
    OBVIOUS
  <1>2. IsFiniteSet(K) /\ K \in SUBSET Int
    <2>1. IsFiniteSet(1..Len(s))
      BY <1>1, FS_Interval
    <2> QED BY <1>1, <2>1, FS_Subset
  <1>3. C \in Nat
    BY <1>2, FS_CardinalityType
  <1>4. \A n \in 1..C : at(n) \in K /\ Rank(K, at(n)) = n
    BY <1>2, RankBijective
  <1>5. \A i \in K : Rank(K, i) \in 1..C /\ at(Rank(K, i)) = i
    BY <1>2, <1>4, RankBijective
  <1>6. Pick(s, K) = [n \in 1..C |-> s[at(n)]]
    BY DEF Pick
  <1> HIDE DEF at, C
  <1>7. Pick(s, K) \in [1..C -> S]
    BY <1>1, <1>4, <1>6
  <1>8. Pick(s, K) \in Seq(S) /\ DOMAIN Pick(s, K) = 1..C
    BY <1>3, <1>7
  <1>9. \A n \in 1..C : Pick(s, K)[n] = s[at(n)]
    BY <1>6
  <1> QED BY <1>4, <1>5, <1>8, <1>9

\* Pick(s, K) walks the positions K of s in increasing order.
LEMMA PickOrder ==
  ASSUME NEW S, NEW s \in Seq(S), NEW K \in SUBSET DOMAIN s
  PROVE  \E at \in [DOMAIN Pick(s, K) -> K] :
           /\ \A n \in DOMAIN Pick(s, K) : Pick(s, K)[n] = s[at[n]]
           /\ \A n, m \in DOMAIN Pick(s, K) : n < m => at[n] < at[m]
           /\ \A i \in K : \E n \in DOMAIN Pick(s, K) : at[n] = i
  <1> DEFINE C == Cardinality(K)
             at == [n \in 1..C |-> CHOOSE i \in K : Rank(K, i) = n]
  <1>1. IsFiniteSet(K) /\ K \in SUBSET Int
    <2>1. DOMAIN s = 1..Len(s) /\ Len(s) \in Nat
      OBVIOUS
    <2>2. IsFiniteSet(1..Len(s))
      BY <2>1, FS_Interval
    <2> QED BY <2>1, <2>2, FS_Subset
  <1>2. C \in Nat
    BY <1>1, FS_CardinalityType
  <1>3. \A n \in 1..C : at[n] \in K /\ Rank(K, at[n]) = n
    BY <1>1, RankBijective
  <1>4. \A i \in K : Rank(K, i) \in 1..C /\ at[Rank(K, i)] = i
    BY <1>1, <1>3, RankBijective
  <1>5. DOMAIN Pick(s, K) = 1..C /\ \A n \in 1..C : Pick(s, K)[n] = s[at[n]]
    BY DEF Pick
  <1>6. at \in [1..C -> K]
    BY <1>3
  <1> HIDE DEF at, C
  <1>7. ASSUME NEW n \in 1..C, NEW m \in 1..C, n < m PROVE at[n] < at[m]
    <2>1. at[n] \in K /\ at[m] \in K /\ Rank(K, at[n]) = n /\ Rank(K, at[m]) = m
      BY <1>3
    <2>2. CASE at[m] <= at[n]
      <3>1. { x \in K : x <= at[m] } \in SUBSET { x \in K : x <= at[n] }
        BY <1>1, <2>1, <2>2
      <3>2. IsFiniteSet({ x \in K : x <= at[n] })
        BY <1>1, FS_Subset
      <3>3. Rank(K, at[m]) <= Rank(K, at[n])
        BY <3>1, <3>2, FS_Subset DEF Rank
      <3> QED BY <1>2, <1>7, <2>1, <3>3
    <2> QED BY <1>1, <2>1, <2>2
  <1>8. \A i \in K : \E n \in 1..C : at[n] = i
    BY <1>4
  <1>9. at \in [DOMAIN Pick(s, K) -> K]
    BY <1>5, <1>6
  <1> WITNESS at \in [DOMAIN Pick(s, K) -> K]
  <1> QED BY <1>5, <1>7, <1>8

\* Among(s, S) holds exactly the elements of s that are in S.
LEMMA AmongElements ==
  ASSUME NEW T, NEW s \in Seq(T), NEW S
  PROVE  /\ Among(s, S) \in Seq(T)
         /\ \A n \in DOMAIN Among(s, S) : Among(s, S)[n] \in S /\ \E i \in DOMAIN s : Among(s, S)[n] = s[i]
         /\ \A i \in DOMAIN s : s[i] \in S => \E n \in DOMAIN Among(s, S) : Among(s, S)[n] = s[i]
  <1> DEFINE K == { i \in DOMAIN s : s[i] \in S }
  <1>1. Among(s, S) = Pick(s, K)
    BY DEF Among
  <1>2. K \in SUBSET DOMAIN s
    OBVIOUS
  <1>3. \A i \in K : i \in DOMAIN s /\ s[i] \in S
    OBVIOUS
  <1>4. \A i \in DOMAIN s : s[i] \in S => i \in K
    OBVIOUS
  <1> HIDE DEF K
  <1>5. /\ Pick(s, K) \in Seq(T)
        /\ \A n \in DOMAIN Pick(s, K) : \E i \in K : Pick(s, K)[n] = s[i]
        /\ \A i \in K : \E n \in DOMAIN Pick(s, K) : Pick(s, K)[n] = s[i]
    BY <1>2, PickElements
  <1> QED BY <1>1, <1>3, <1>4, <1>5

-----------------------------------------------------------------------------
(* Induction.  The library's theorems take the statement as an operator,   *)
(* this one as the set of the numbers it holds of; and what is defined by  *)
(* recursion on a number is what goes on by its step.                      *)

\* A set of naturals has a least element.
LEMMA LeastOfSet ==
  ASSUME NEW T, T \subseteq Nat, T # {}
  PROVE  \E x \in T : \A y \in T : x <= y
<1> DEFINE R == OpToRel(<, Nat)
<1>1. IsWellFoundedOn(R, Nat)
  BY NatLessThanWellFounded
<1>2. \A i, j \in Nat : i < j => <<i, j>> \in R
  BY DEF OpToRel
<1> HIDE DEF R
<1>3. PICK x \in T : \A y \in T : ~(<<y, x>> \in R)
  BY WFMin, <1>1
<1>4. ASSUME NEW y \in T  PROVE x <= y
  <2>1. x \in Nat /\ y \in Nat
    OBVIOUS
  <2>2. ~(y < x)
    BY <1>2, <1>3, <2>1
  <2> QED BY <2>1, <2>2
<1> QED BY <1>4

\* Induction, over a set.
LEMMA Induction ==
  ASSUME NEW S, 0 \in S, \A n \in Nat : n \in S => n + 1 \in S
  PROVE  \A n \in Nat : n \in S
<1> DEFINE T == { n \in Nat : n \notin S }
<1> SUFFICES ASSUME T # {}  PROVE FALSE
  OBVIOUS
<1>1. PICK x \in T : \A y \in T : x <= y
  <2>1. T \subseteq Nat
    OBVIOUS
  <2> HIDE DEF T
  <2> QED BY <2>1, LeastOfSet
<1>2. x # 0 /\ x \in Nat
  OBVIOUS
<1>3. x - 1 \in Nat /\ x - 1 \notin T
  BY <1>1, <1>2
<1>4. (x - 1) + 1 \in S
  BY <1>3
<1> QED BY <1>2, <1>4

\* f starts at first and goes on by the step F.
Iteration(f, S, n, first, F) ==
  /\ f \in [0..n -> S] /\ f[0] = first
  /\ \A i \in 1..n : f[i] = F[<<i, f[i - 1]>>]

\* A function that is defined by the value before it exists.
LEMMA Iterates ==
  ASSUME NEW S, NEW n \in Nat, NEW first \in S, NEW F \in [Nat \X S -> S]
  PROVE  \E f : Iteration(f, S, n, first, F)
<1> DEFINE T == { m \in Nat : \E f : Iteration(f, S, m, first, F) }
<1>1. 0 \in T
  <2> DEFINE f == [i \in 0..0 |-> first]
  <2>1. Iteration(f, S, 0, first, F)
    BY DEF Iteration
  <2> QED BY <2>1
<1>2. ASSUME NEW m \in Nat, m \in T  PROVE m + 1 \in T
  <2>1. PICK f : Iteration(f, S, m, first, F)
    BY <1>2
  <2> DEFINE g == [i \in 0..(m + 1) |-> IF i = m + 1 THEN F[<<i, f[i - 1]>>] ELSE f[i]]
  <2>2. m \in 0..m /\ (m + 1) - 1 = m
    OBVIOUS
  <2>3. f[m] \in S
    BY <2>1, <2>2 DEF Iteration
  <2>4. \A i \in 0..(m + 1) : i # m + 1 => i \in 0..m
    OBVIOUS
  <2>5. g \in [0..(m + 1) -> S]
    <3>1. \A i \in 0..(m + 1) : i # m + 1 => f[i] \in S
      BY <2>1, <2>4 DEF Iteration
    <3>2. F[<<m + 1, f[(m + 1) - 1]>>] \in S
      BY <2>2, <2>3
    <3> QED BY <3>1, <3>2
  <2>6. ASSUME NEW i \in 1..(m + 1)  PROVE g[i] = F[<<i, g[i - 1]>>]
    <3>1. i \in 0..(m + 1) /\ i - 1 \in 0..m /\ i - 1 # m + 1 /\ i - 1 \in 0..(m + 1)
      OBVIOUS
    <3>2. g[i - 1] = f[i - 1]
      BY <3>1
    <3>3. CASE i = m + 1
      BY <3>1, <3>2, <3>3
    <3>4. CASE i # m + 1
      <4>1. i \in 1..m
        BY <3>4
      <4>2. f[i] = F[<<i, f[i - 1]>>]
        BY <2>1, <4>1 DEF Iteration
      <4> QED BY <3>1, <3>2, <3>4, <4>2
    <3> QED BY <3>3, <3>4
  <2>7. g[0] = first
    <3>1. 0 \in 0..(m + 1) /\ 0 \in 0..m /\ 0 # m + 1
      OBVIOUS
    <3> QED BY <2>1, <3>1 DEF Iteration
  <2>8. m + 1 \in Nat
    OBVIOUS
  <2> HIDE DEF g
  <2>9. Iteration(g, S, m + 1, first, F)
    BY <2>5, <2>6, <2>7 DEF Iteration
  <2> QED BY <2>8, <2>9
<1> HIDE DEF T
<1>3. n \in T
  BY <1>1, <1>2, Induction
<1> QED BY <1>3 DEF T
=============================================================================
