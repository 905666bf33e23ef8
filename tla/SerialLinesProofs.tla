-------------------------- MODULE SerialLinesProofs --------------------------
(***************************************************************************)
(* Theorems about SerialLines, for every set of letters, every size of the *)
(* buffers and streams of every length.  The lines of a stream are found   *)
(* by counting, so that what is known of them comes from few facts about   *)
(* the k-th element of a set of positions; the first of those rests on     *)
(* the least element of a set of natural numbers.                          *)
(***************************************************************************)
EXTENDS SerialLines, Integers, FiniteSetTheorems, SequenceTheorems, TLAPS

-----------------------------------------------------------------------------
(* Natural numbers.                                                        *)

\* A nonempty set of natural numbers has a least one.
LEMMA Least ==
    ASSUME NEW T, T \subseteq Nat, T # {}
    PROVE  \E n \in T : \A m \in T : n <= m
<1> DEFINE R == {ss \in Nat \X Nat : ss[1] < ss[2]}
<1>1. IsWellFoundedOn(R, Nat)
  BY NatLessThanWellFounded, Zenon DEF OpToRel
<1>2. PICK n \in T : \A m \in T : ~(<<m, n>> \in R)
  <2> HIDE DEF R
  <2> QED BY <1>1, WFMin
<1>3. ASSUME NEW m \in T PROVE n <= m
  <2>1. m \in Nat /\ n \in Nat
    OBVIOUS
  <2>2. m < n => <<m, n>> \in R
    BY <2>1
  <2> QED BY <1>2, <2>1, <2>2
<1> QED BY <1>3

\* Induction, over a set of natural numbers.
LEMMA AllNat ==
    ASSUME NEW T, 0 \in T, \A n \in Nat : n \in T => n + 1 \in T
    PROVE  Nat \subseteq T
<1> DEFINE F == Nat \ T
<1> SUFFICES ASSUME F # {} PROVE FALSE
  OBVIOUS
<1>1. PICK n \in F : \A m \in F : n <= m
  <2>1. F \subseteq Nat
    OBVIOUS
  <2> HIDE DEF F
  <2> QED BY <2>1, Least
<1>2. n # 0 /\ n - 1 \in Nat /\ n - 1 \notin F
  BY <1>1
<1> QED BY <1>2

-----------------------------------------------------------------------------
(* The k-th element of a set of positions.                                 *)

\* How many elements are not after i.
Count(K, i) == Cardinality({j \in K : j <= i})

\* Positions are numbers.
LEMMA SetFacts ==
    ASSUME NEW n \in Nat, NEW K \in SUBSET (1..n)
    PROVE  \A j \in K : j \in Nat /\ 1 <= j /\ j <= n
<1> SUFFICES ASSUME NEW j \in K PROVE j \in Nat /\ 1 <= j /\ j <= n
  OBVIOUS
<1>1. j \in 1..n
  OBVIOUS
<1> QED BY <1>1

\* It begins at 0, grows by one at every element, and ends at the number of all.
LEMMA CountFacts ==
    ASSUME NEW n \in Nat, NEW K \in SUBSET (1..n)
    PROVE  /\ Cardinality(K) \in Nat
           /\ Count(K, 0) = 0
           /\ \A i \in Nat : /\ Count(K, i) \in Nat
                             /\ Count(K, i) <= Cardinality(K)
                             /\ Count(K, i + 1) = IF i + 1 \in K THEN Count(K, i) + 1
                                                  ELSE Count(K, i)
                             /\ i >= n => Count(K, i) = Cardinality(K)
<1>0. \A j \in K : j \in Nat /\ 1 <= j /\ j <= n
  BY SetFacts
<1>1. IsFiniteSet(K) /\ Cardinality(K) \in Nat
  <2>1. IsFiniteSet(1..n)
    BY FS_Interval
  <2> QED BY <2>1, FS_Subset, FS_CardinalityType
<1>2. {j \in K : j <= 0} = {}
  <2>1. ASSUME NEW j \in K PROVE ~(j <= 0)
    <3>1. j \in Nat /\ 1 <= j
      BY <1>0
    <3> QED BY <3>1
  <2> QED BY <2>1, Zenon
<1>3. ASSUME NEW i \in Nat
      PROVE  /\ Count(K, i) \in Nat
             /\ Count(K, i) <= Cardinality(K)
             /\ Count(K, i + 1) = IF i + 1 \in K THEN Count(K, i) + 1 ELSE Count(K, i)
             /\ i >= n => Count(K, i) = Cardinality(K)
  <2> DEFINE L == {j \in K : j <= i}
             M == {j \in K : j <= i + 1}
  <2>1. L \in SUBSET K
    OBVIOUS
  <2>2. IsFiniteSet(L) /\ Cardinality(L) \in Nat /\ Cardinality(L) <= Cardinality(K)
    <3> HIDE DEF L
    <3> QED BY <1>1, <2>1, FS_Subset, FS_CardinalityType
  <2>0. ASSUME NEW j \in K
        PROVE  (j <= i + 1 <=> j <= i \/ j = i + 1) /\ (i >= n => j <= i)
    <3>1. j \in Nat /\ j <= n
      BY <1>0
    <3> QED BY <3>1
  <2>3. i + 1 \in K => M = L \cup {i + 1} /\ i + 1 \notin L
    <3>1. ~(i + 1 <= i)
      OBVIOUS
    <3> QED BY <2>0, <3>1, Zenon
  <2>4. i + 1 \notin K => M = L
    BY <2>0, Zenon
  <2>5. i >= n => L = K
    BY <2>0, Zenon
  <2>6. Count(K, i) = Cardinality(L) /\ Count(K, i + 1) = Cardinality(M)
    BY DEF Count
  <2> HIDE DEF L, M
  <2>7. i + 1 \in K => Cardinality(M) = Cardinality(L) + 1
    BY <2>2, <2>3, FS_AddElement
  <2> QED BY <2>2, <2>4, <2>5, <2>6, <2>7
<1> QED BY <1>1, <1>2, <1>3, FS_EmptySet DEF Count

\* One position further.
LEMMA CountStep ==
    ASSUME NEW n \in Nat, NEW K \in SUBSET (1..n), NEW i \in Nat
    PROVE  /\ Count(K, i) \in Nat
           /\ Count(K, i + 1) = IF i + 1 \in K THEN Count(K, i) + 1 ELSE Count(K, i)
<1>1. \A j \in Nat : /\ Count(K, j) \in Nat
                     /\ Count(K, j + 1) = IF j + 1 \in K THEN Count(K, j) + 1
                                          ELSE Count(K, j)
  BY CountFacts
<1> QED BY <1>1, Zenon

\* It never falls, and it is larger at an element than anywhere before.
LEMMA CountGrows ==
    ASSUME NEW n \in Nat, NEW K \in SUBSET (1..n), NEW i \in Nat, NEW j \in Nat, i <= j
    PROVE  /\ Count(K, i) <= Count(K, j)
           /\ i < j /\ j \in K => Count(K, i) < Count(K, j)
<1> DEFINE L == {x \in K : x <= i}
           M == {x \in K : x <= j}
<1>1. L \in SUBSET M /\ (i < j /\ j \in K => L # M) /\ M \in SUBSET K
  <2>1. ASSUME NEW x \in K, x <= i PROVE x <= j
    <3>1. x \in Nat
      BY SetFacts
    <3> QED BY <2>1, <3>1
  <2>2. i < j => ~(j <= i)
    OBVIOUS
  <2>3. j <= j
    OBVIOUS
  <2>4. L \subseteq M
    BY <2>1, Zenon
  <2>5. i < j /\ j \in K => j \in M /\ j \notin L
    BY <2>2, <2>3, Zenon
  <2> QED BY <2>4, <2>5, Zenon
<1>2. Count(K, i) = Cardinality(L) /\ Count(K, j) = Cardinality(M)
  BY DEF Count
<1>3. Count(K, i) \in Nat /\ Count(K, j) \in Nat
  BY CountFacts
<1>4. IsFiniteSet(K)
  <2>1. IsFiniteSet(1..n)
    BY FS_Interval
  <2> QED BY <2>1, FS_Subset
<1> HIDE DEF L, M
<1>5. IsFiniteSet(M)
  BY <1>1, <1>4, FS_Subset
<1>6. Cardinality(L) <= Cardinality(M) /\ (Cardinality(M) = Cardinality(L) => M = L)
  BY <1>1, <1>5, FS_Subset
<1>7. i < j /\ j \in K => Cardinality(M) # Cardinality(L)
  BY <1>1, <1>6, Zenon
<1> QED BY <1>2, <1>3, <1>6, <1>7

\* The element at which the count is k is the k-th.
LEMMA KthIs ==
    ASSUME NEW n \in Nat, NEW K \in SUBSET (1..n), NEW i \in K
    PROVE  /\ Count(K, i) \in 1..Cardinality(K)
           /\ Kth(K, Count(K, i)) = i
<1>1. i \in Nat /\ i - 1 \in Nat
  <2>1. i \in Nat /\ 1 <= i
    BY SetFacts
  <2> QED BY <2>1
<1>2. Count(K, i) \in 1..Cardinality(K)
  <2>1. Count(K, i - 1) \in Nat /\ Count(K, i - 1 + 1) = Count(K, i - 1) + 1
    BY <1>1, CountFacts
  <2> QED BY <1>1, <2>1, CountFacts
<1>3. ASSUME NEW j \in K, Count(K, j) = Count(K, i) PROVE j = i
  <2>0. j \in Nat
    BY SetFacts
  <2>1. ~(j < i) /\ ~(i < j)
    <3>1. Count(K, i) \in Nat /\ Count(K, j) \in Nat
      BY <1>1, <2>0, CountFacts
    <3>2. j < i => Count(K, j) < Count(K, i)
      BY <1>1, <2>0, CountGrows
    <3>3. i < j => Count(K, i) < Count(K, j)
      BY <1>1, <2>0, CountGrows
    <3> QED BY <1>3, <3>1, <3>2, <3>3
  <2> QED BY <1>1, <2>0, <2>1
<1>4. Kth(K, Count(K, i)) = CHOOSE j \in K : Count(K, j) = Count(K, i)
  <2>1. Count(K, i) # 0
    BY <1>2
  <2> QED BY <2>1 DEF Kth, Count
<1> QED BY <1>2, <1>3, <1>4

\* There is one for every k.
LEMMA KthExists ==
    ASSUME NEW n \in Nat, NEW K \in SUBSET (1..n), NEW k \in 1..Cardinality(K)
    PROVE  /\ Kth(K, k) \in K
           /\ Count(K, Kth(K, k)) = k
<1> DEFINE T == {i \in Nat : Count(K, i) >= k}
<1>1. n \in T
  BY CountFacts
<1>2. PICK i \in T : \A j \in T : i <= j
  <2>1. T \subseteq Nat
    OBVIOUS
  <2> HIDE DEF T
  <2> QED BY <1>1, <2>1, Least
<1>3. i \in Nat /\ Count(K, i) >= k
  BY <1>2
<1>4. i # 0 /\ i - 1 \in Nat
  <2>1. Count(K, 0) = 0 /\ k > 0
    BY CountFacts
  <2>2. i # 0
    BY <1>3, <2>1
  <2> QED BY <1>3, <2>2
<1>5. Count(K, i - 1) \in Nat /\ Count(K, i - 1) < k
  <2>1. i - 1 \notin T
    BY <1>2, <1>3
  <2>2. Count(K, i - 1) \in Nat
    BY <1>4, CountFacts
  <2> QED BY <1>4, <2>1, <2>2
<1>6. Count(K, i - 1 + 1) = IF i - 1 + 1 \in K THEN Count(K, i - 1) + 1
                            ELSE Count(K, i - 1)
  BY <1>4, CountFacts
<1>7. i \in K /\ Count(K, i) = k
  <2>1. i - 1 + 1 = i
    BY <1>3
  <2> QED BY <1>3, <1>5, <1>6, <2>1
<1> QED BY <1>7, KthIs

\* They are in order.
LEMMA KthOrder ==
    ASSUME NEW n \in Nat, NEW K \in SUBSET (1..n),
           NEW l \in 1..Cardinality(K), NEW k \in 0..(l - 1)
    PROVE  Kth(K, k) \in Nat /\ Kth(K, l) \in K /\ Kth(K, k) < Kth(K, l)
<1>0. Cardinality(K) \in Nat /\ l \in Nat /\ k \in Nat /\ k < l
  BY CountFacts
<1>1. Kth(K, l) \in K /\ Kth(K, l) \in Nat /\ 1 <= Kth(K, l) /\ Count(K, Kth(K, l)) = l
  <2>1. Kth(K, l) \in K /\ Count(K, Kth(K, l)) = l
    BY KthExists
  <2> QED BY <2>1, SetFacts
<1>2. CASE k = 0
  <2>1. Kth(K, k) = 0
    BY <1>2 DEF Kth
  <2> QED BY <1>1, <2>1
<1>3. CASE k # 0
  <2>1. k \in 1..Cardinality(K)
    BY <1>0, <1>3
  <2>2. Kth(K, k) \in K /\ Count(K, Kth(K, k)) = k
    BY <2>1, KthExists
  <2>3. Kth(K, k) \in Nat
    BY <2>2, SetFacts
  <2>4. Kth(K, l) <= Kth(K, k) => Count(K, Kth(K, l)) <= Count(K, Kth(K, k))
    BY <1>1, <2>3, CountGrows
  <2> QED BY <1>0, <1>1, <2>2, <2>3, <2>4
<1> QED BY <1>2, <1>3

\* The last is the one that none exceeds.
LEMMA LastFacts ==
    ASSUME NEW n \in Nat, NEW K \in SUBSET (1..n)
    PROVE  /\ LastOf(K) \in 0..n
           /\ K = {} => LastOf(K) = 0
           /\ K # {} => LastOf(K) \in K
           /\ \A j \in K : j <= LastOf(K)
           /\ \A l \in K : (\A j \in K : j <= l) => LastOf(K) = l
<1>1. CASE K = {}
  BY <1>1, FS_EmptySet DEF LastOf, Kth
<1>2. CASE K # {}
  <2>1. PICK x \in K : TRUE
    BY <1>2
  <2>2. Cardinality(K) \in 1..Cardinality(K)
    <3>1. Count(K, x) \in 1..Cardinality(K)
      BY KthIs
    <3>2. Cardinality(K) \in Nat
      BY CountFacts
    <3> QED BY <3>1, <3>2
  <2>3. LastOf(K) \in K /\ Count(K, LastOf(K)) = Cardinality(K)
    BY <2>2, KthExists DEF LastOf
  <2>4. LastOf(K) \in Nat /\ 1 <= LastOf(K) /\ LastOf(K) <= n
    BY <2>3, SetFacts
  <2>5. ASSUME NEW j \in K PROVE j <= LastOf(K)
    <3>1. j \in Nat
      BY SetFacts
    <3>2. Count(K, j) \in Nat /\ Count(K, j) <= Cardinality(K)
      BY <3>1, CountFacts
    <3>3. LastOf(K) < j => Count(K, LastOf(K)) < Count(K, j)
      <4> SUFFICES ASSUME LastOf(K) < j PROVE Count(K, LastOf(K)) < Count(K, j)
        OBVIOUS
      <4>1. LastOf(K) <= j
        BY <2>4, <3>1
      <4> QED BY <2>4, <3>1, <4>1, CountGrows
    <3>4. Cardinality(K) \in Nat
      BY CountFacts
    <3> QED BY <2>3, <2>4, <3>1, <3>2, <3>3, <3>4
  <2>6. ASSUME NEW l \in K, \A j \in K : j <= l PROVE LastOf(K) = l
    <3>1. l \in Nat /\ l <= LastOf(K) /\ LastOf(K) <= l
      BY <2>3, <2>5, <2>6, SetFacts
    <3> QED BY <2>4, <3>1
  <2> QED BY <1>2, <2>3, <2>4, <2>5, <2>6
<1> QED BY <1>1, <1>2

\* Where the positions K in a whole of d + m are those A in its first part and
\* those B, moved by d, in its second, the elements of K are those of A and then
\* those of B.
Joins(K, A, B, d, m) ==
    /\ A \in SUBSET (1..d)
    /\ B \in SUBSET (1..m)
    /\ K \in SUBSET (1..(d + m))
    /\ \A i \in 1..d : i \in K <=> i \in A
    /\ \A i \in 1..m : d + i \in K <=> i \in B

\* Their counts.
LEMMA CountJoins ==
    ASSUME NEW d \in Nat, NEW m \in Nat, NEW K, NEW A, NEW B, Joins(K, A, B, d, m)
    PROVE  /\ \A i \in 0..d : Count(K, i) = Count(A, i)
           /\ \A i \in 0..m : Count(K, d + i) = Cardinality(A) + Count(B, i)
           /\ Cardinality(K) = Cardinality(A) + Cardinality(B)
<1>1. /\ A \in SUBSET (1..d) /\ B \in SUBSET (1..m) /\ K \in SUBSET (1..(d + m))
      /\ d + m \in Nat
  BY DEF Joins
<1>2. \A i \in Nat : i + 1 <= d => (i + 1 \in K <=> i + 1 \in A)
  BY DEF Joins
<1>3. \A i \in Nat : i + 1 <= m => (d + i + 1 \in K <=> i + 1 \in B)
  <2> SUFFICES ASSUME NEW i \in Nat, i + 1 <= m PROVE d + i + 1 \in K <=> i + 1 \in B
    OBVIOUS
  <2>1. i + 1 \in 1..m /\ d + i + 1 = d + (i + 1)
    OBVIOUS
  <2> QED BY <2>1 DEF Joins
<1>4. \A i \in 0..d : Count(K, i) = Count(A, i)
  <2> DEFINE T == {i \in Nat : i <= d => Count(K, i) = Count(A, i)}
  <2>1. 0 \in T
    <3>1. Count(K, 0) = 0 /\ Count(A, 0) = 0
      BY <1>1, CountFacts
    <3> QED BY <3>1
  <2>2. ASSUME NEW i \in Nat, i \in T PROVE i + 1 \in T
    <3>1. Count(K, i + 1) = IF i + 1 \in K THEN Count(K, i) + 1 ELSE Count(K, i)
      <4> HIDE DEF T
      <4> QED BY <1>1, CountStep
    <3>2. Count(A, i + 1) = IF i + 1 \in A THEN Count(A, i) + 1 ELSE Count(A, i)
      <4> HIDE DEF T
      <4> QED BY <1>1, CountStep
    <3>3. i + 1 <= d => Count(K, i) = Count(A, i)
      BY <2>2
    <3> QED BY <1>2, <3>1, <3>2, <3>3
  <2>3. Nat \subseteq T
    <3> HIDE DEF T
    <3> QED BY <2>1, <2>2, AllNat
  <2> QED BY <2>3
<1>5. \A i \in 0..m : Count(K, d + i) = Cardinality(A) + Count(B, i)
  <2> DEFINE T == {i \in Nat : i <= m => Count(K, d + i) = Cardinality(A) + Count(B, i)}
  <2>1. 0 \in T
    <3>1. Count(A, d) = Cardinality(A) /\ Count(B, 0) = 0 /\ Cardinality(A) \in Nat
      BY <1>1, CountFacts
    <3>2. Count(K, d + 0) = Count(A, d)
      BY <1>4
    <3> QED BY <3>1, <3>2
  <2>2. ASSUME NEW i \in Nat, i \in T PROVE i + 1 \in T
    <3>0. d + i \in Nat /\ d + i + 1 = d + (i + 1)
      OBVIOUS
    <3>1. Count(K, d + i + 1) = IF d + i + 1 \in K THEN Count(K, d + i) + 1
                                ELSE Count(K, d + i)
      <4> HIDE DEF T
      <4> QED BY <1>1, <3>0, CountStep
    <3>2. Count(B, i + 1) = IF i + 1 \in B THEN Count(B, i) + 1 ELSE Count(B, i)
      <4> HIDE DEF T
      <4> QED BY <1>1, CountStep
    <3>3. i + 1 <= m => Count(K, d + i) = Cardinality(A) + Count(B, i)
      BY <2>2
    <3>4. Count(B, i) \in Nat /\ Cardinality(A) \in Nat
      BY <1>1, CountFacts
    <3>5. i + 1 <= m => Count(K, d + i + 1) = Cardinality(A) + Count(B, i + 1)
      BY <1>3, <3>1, <3>2, <3>3, <3>4
    <3> QED BY <3>0, <3>5
  <2>3. Nat \subseteq T
    <3> HIDE DEF T
    <3> QED BY <2>1, <2>2, AllNat
  <2> QED BY <2>3
<1>6. Count(K, d + m) = Cardinality(K) /\ Count(B, m) = Cardinality(B)
  BY <1>1, CountFacts
<1> QED BY <1>4, <1>5, <1>6

\* Their elements.
LEMMA KthJoins ==
    ASSUME NEW d \in Nat, NEW m \in Nat, NEW K, NEW A, NEW B, Joins(K, A, B, d, m)
    PROVE  /\ \A k \in 0..Cardinality(A) : Kth(K, k) = Kth(A, k)
           /\ \A k \in 1..Cardinality(B) : Kth(K, Cardinality(A) + k) = d + Kth(B, k)
<1>1. /\ A \in SUBSET (1..d) /\ B \in SUBSET (1..m) /\ K \in SUBSET (1..(d + m))
      /\ d + m \in Nat
  BY DEF Joins
<1>2. ASSUME NEW k \in 0..Cardinality(A) PROVE Kth(K, k) = Kth(A, k)
  <2>1. CASE k = 0
    BY <2>1 DEF Kth
  <2>2. CASE k # 0
    <3>1. k \in 1..Cardinality(A)
      BY <2>2
    <3>2. Kth(A, k) \in A /\ Count(A, Kth(A, k)) = k
      BY <1>1, <3>1, KthExists
    <3>3. Kth(A, k) \in 1..d
      BY <1>1, <3>2
    <3>4. Kth(A, k) \in K
      BY <3>2, <3>3 DEF Joins
    <3>5. Count(K, Kth(A, k)) = Count(A, Kth(A, k))
      <4>1. Kth(A, k) \in 0..d
        BY <3>3
      <4> QED BY <4>1, CountJoins
    <3>6. Kth(K, Count(K, Kth(A, k))) = Kth(A, k)
      BY <1>1, <3>4, KthIs
    <3> QED BY <3>2, <3>5, <3>6
  <2> QED BY <2>1, <2>2
<1>3. ASSUME NEW k \in 1..Cardinality(B)
      PROVE  Kth(K, Cardinality(A) + k) = d + Kth(B, k)
  <2>1. Kth(B, k) \in B /\ Count(B, Kth(B, k)) = k
    BY <1>1, KthExists
  <2>2. Kth(B, k) \in 1..m
    BY <1>1, <2>1
  <2>3. d + Kth(B, k) \in K
    BY <2>1, <2>2 DEF Joins
  <2>4. Count(K, d + Kth(B, k)) = Cardinality(A) + k
    BY <2>1, <2>2, CountJoins
  <2> QED BY <1>1, <2>3, <2>4, KthIs
<1> QED BY <1>2, <1>3

-----------------------------------------------------------------------------
(* The elements of a sequence at a set of positions.                       *)

\* As many as there are positions, in their order.
LEMMA AtEachFacts ==
    ASSUME NEW S, NEW s \in Seq(S), NEW K \in SUBSET (1..Len(s))
    PROVE  /\ AtEach(s, K) \in Seq(S)
           /\ Len(AtEach(s, K)) = Cardinality(K)
           /\ \A k \in 1..Cardinality(K) : AtEach(s, K)[k] = s[Kth(K, k)]
<1>1. Cardinality(K) \in Nat /\ Len(s) \in Nat
  <2>1. Len(s) \in Nat
    OBVIOUS
  <2> QED BY <2>1, CountFacts
<1>2. ASSUME NEW k \in 1..Cardinality(K) PROVE s[Kth(K, k)] \in S
  <2>1. Kth(K, k) \in 1..Len(s)
    BY <1>1, KthExists
  <2> QED BY <2>1, ElementOfSeq
<1> QED BY <1>1, <1>2 DEF AtEach

\* Of a concatenation, the concatenation.
LEMMA AtEachJoins ==
    ASSUME NEW S, NEW s \in Seq(S), NEW t \in Seq(S), NEW K, NEW A, NEW B,
           Joins(K, A, B, Len(s), Len(t))
    PROVE  AtEach(s \o t, K) = AtEach(s, A) \o AtEach(t, B)
<1> DEFINE d == Len(s)
           m == Len(t)
           a == AtEach(s, A)
           b == AtEach(t, B)
           u == AtEach(s \o t, K)
<1>1. d \in Nat /\ m \in Nat /\ s \o t \in Seq(S) /\ Len(s \o t) = d + m
  BY ConcatProperties
<1>2. A \in SUBSET (1..d) /\ B \in SUBSET (1..m) /\ K \in SUBSET (1..(d + m))
  BY DEF Joins
<1>3. a \in Seq(S) /\ Len(a) = Cardinality(A)
      /\ \A k \in 1..Cardinality(A) : a[k] = s[Kth(A, k)]
  BY <1>2, AtEachFacts
<1>4. b \in Seq(S) /\ Len(b) = Cardinality(B)
      /\ \A k \in 1..Cardinality(B) : b[k] = t[Kth(B, k)]
  BY <1>2, AtEachFacts
<1>5. u \in Seq(S) /\ Len(u) = Cardinality(K)
      /\ \A k \in 1..Cardinality(K) : u[k] = (s \o t)[Kth(K, k)]
  <2>1. s \o t \in Seq(S) /\ K \in SUBSET (1..Len(s \o t))
    BY <1>1, <1>2
  <2> QED BY <2>1, AtEachFacts, Zenon
<1>6. /\ Cardinality(A) \in Nat /\ Cardinality(B) \in Nat
      /\ Cardinality(K) = Cardinality(A) + Cardinality(B)
  <2>1. Cardinality(A) \in Nat /\ Cardinality(B) \in Nat
    BY <1>1, <1>2, CountFacts
  <2> QED BY <1>1, <2>1, CountJoins
<1>7. a \o b \in Seq(S) /\ Len(a \o b) = Cardinality(K)
      /\ \A k \in 1..Cardinality(K) :
            (a \o b)[k] = IF k <= Cardinality(A) THEN a[k] ELSE b[k - Cardinality(A)]
  <2> HIDE DEF a, b
  <2>1. a \o b \in Seq(S) /\ Len(a \o b) = Len(a) + Len(b)
        /\ \A k \in 1..(Len(a) + Len(b)) :
              (a \o b)[k] = IF k <= Len(a) THEN a[k] ELSE b[k - Len(a)]
    BY <1>3, <1>4, ConcatProperties
  <2> QED BY <1>3, <1>4, <1>6, <2>1
<1>8. \A i \in 1..(d + m) : (s \o t)[i] = IF i <= d THEN s[i] ELSE t[i - d]
  BY ConcatProperties
<1>9. ASSUME NEW k \in 1..Cardinality(K) PROVE u[k] = (a \o b)[k]
  <2>1. CASE k <= Cardinality(A)
    <3>1. k \in 1..Cardinality(A) /\ k \in 0..Cardinality(A)
      BY <1>6, <2>1
    <3>2. Kth(K, k) = Kth(A, k)
      BY <1>1, <3>1, KthJoins
    <3>3. Kth(A, k) \in 1..d
      BY <1>1, <1>2, <3>1, KthExists
    <3>4. (s \o t)[Kth(A, k)] = s[Kth(A, k)]
      BY <1>1, <1>8, <3>3
    <3> HIDE DEF a, b, u, d, m
    <3> QED BY <1>3, <1>5, <1>7, <2>1, <3>1, <3>2, <3>4
  <2>2. CASE k > Cardinality(A)
    <3> DEFINE l == k - Cardinality(A)
    <3>1. l \in 1..Cardinality(B) /\ k = Cardinality(A) + l
      BY <1>6, <2>2
    <3>2. Kth(K, k) = d + Kth(B, l)
      BY <1>1, <3>1, KthJoins
    <3>3. Kth(B, l) \in 1..m
      BY <1>1, <1>2, <3>1, KthExists
    <3>4. (s \o t)[d + Kth(B, l)] = t[Kth(B, l)]
      BY <1>1, <1>8, <3>3
    <3>5. (a \o b)[k] = b[l]
      BY <1>6, <1>7, <2>2
    <3> HIDE DEF a, b, u, d, m, l
    <3> QED BY <1>4, <1>5, <3>1, <3>2, <3>4, <3>5
  <2>3. k <= Cardinality(A) \/ k > Cardinality(A)
    BY <1>6
  <2> QED BY <2>1, <2>2, <2>3, Zenon
<1>10. u = a \o b
  <2> HIDE DEF a, b, u
  <2> QED BY <1>5, <1>7, <1>9, SeqEqual
<1> QED BY <1>10

\* One element more is taken or not.
LEMMA AtEachAppend ==
    ASSUME NEW S, NEW s \in Seq(S), NEW e \in S, NEW A \in SUBSET (1..Len(s))
    PROVE  /\ AtEach(Append(s, e), A) = AtEach(s, A)
           /\ AtEach(Append(s, e), A \cup {Len(s) + 1}) = Append(AtEach(s, A), e)
<1> DEFINE d == Len(s)
           t == <<e>>
<1>1. d \in Nat /\ t \in Seq(S) /\ Len(t) = 1 /\ Append(s, e) = s \o t
  BY AppendIsConcat
<1>2. AtEach(s, A) \in Seq(S)
  BY AtEachFacts
<1>3. \A i \in A : i \in Nat /\ 1 <= i /\ i <= d
  BY <1>1, SetFacts
<1>4. \A i \in 1..1 : i = 1
  OBVIOUS
<1>5. AtEach(s \o t, A) = AtEach(s, A)
  <2>1. Joins(A, A, {}, d, 1)
    <3>1. \A i \in 1..1 : d + i \notin A
      BY <1>1, <1>3
    <3>2. A \in SUBSET (1..(d + 1))
      BY <1>1, <1>3
    <3> QED BY <3>1, <3>2 DEF Joins
  <2>2. AtEach(t, {}) = <<>>
    <3>1. AtEach(t, {}) \in Seq(S) /\ Len(AtEach(t, {})) = 0
      <4>1. {} \in SUBSET (1..Len(t))
        OBVIOUS
      <4>2. AtEach(t, {}) \in Seq(S) /\ Len(AtEach(t, {})) = Cardinality({})
        BY <1>1, <4>1, AtEachFacts, Zenon
      <4> QED BY <4>2, FS_EmptySet
    <3> QED BY <3>1, EmptySeq
  <2>3. AtEach(s \o t, A) = AtEach(s, A) \o AtEach(t, {})
    <3>1. Joins(A, A, {}, Len(s), Len(t))
      BY <1>1, <2>1
    <3> HIDE DEF t, d
    <3> QED BY <1>1, <3>1, AtEachJoins
  <2> QED BY <1>2, <2>2, <2>3, ConcatEmptySeq
<1>6. AtEach(s \o t, A \cup {d + 1}) = Append(AtEach(s, A), e)
  <2>1. Joins(A \cup {d + 1}, A, {1}, d, 1)
    <3>1. \A i \in 1..d : i \in A \cup {d + 1} <=> i \in A
      BY <1>1
    <3>2. A \cup {d + 1} \in SUBSET (1..(d + 1))
      <4>1. \A i \in A : i \in 1..(d + 1)
        BY <1>1, <1>3
      <4>2. d + 1 \in 1..(d + 1)
        BY <1>1
      <4> QED BY <4>1, <4>2, Zenon
    <3>3. \A i \in 1..1 : d + i \in A \cup {d + 1} <=> i \in {1}
      BY <1>1, <1>4
    <3>4. {1} \in SUBSET (1..1)
      OBVIOUS
    <3> QED BY <3>1, <3>2, <3>3, <3>4 DEF Joins
  <2>2. AtEach(t, {1}) = t
    <3>1. {1} \in SUBSET (1..Len(t)) /\ {1} \in SUBSET (1..1)
      OBVIOUS
    <3>2. Cardinality({1}) = 1
      BY FS_Singleton
    <3>3. /\ AtEach(t, {1}) \in Seq(S) /\ Len(AtEach(t, {1})) = 1
          /\ \A k \in 1..1 : AtEach(t, {1})[k] = t[Kth({1}, k)]
      BY <1>1, <3>1, <3>2, AtEachFacts
    <3>4. Kth({1}, 1) = 1
      <4>1. 1 \in Nat /\ 1 \in 1..Cardinality({1})
        BY <3>2
      <4>2. Kth({1}, 1) \in {1}
        BY <3>1, <4>1, KthExists
      <4> QED BY <4>2
    <3>5. \A k \in 1..1 : AtEach(t, {1})[k] = t[k]
      BY <1>4, <3>3, <3>4
    <3> QED BY <1>1, <3>3, <3>5, SeqEqual
  <2>3. AtEach(s \o t, A \cup {d + 1}) = AtEach(s, A) \o AtEach(t, {1})
    <3> DEFINE K == A \cup {d + 1}
               B == {1}
    <3>1. Joins(K, A, B, Len(s), Len(t))
      BY <1>1, <2>1
    <3>2. AtEach(s \o t, K) = AtEach(s, A) \o AtEach(t, B)
      <4> HIDE DEF t, d, K, B
      <4> QED BY <1>1, <3>1, AtEachJoins
    <3> QED BY <3>2
  <2> QED BY <1>2, <2>2, <2>3, AppendIsConcat
<1> QED BY <1>1, <1>5, <1>6

-----------------------------------------------------------------------------
(* The text of a line, and the lines of a stream that grows by a byte.     *)

Plain(s) == {i \in DOMAIN s : s[i] # CR}

\* The text of a line that grows by a byte.
LEMMA TextFacts ==
    ASSUME NEW S, NEW s \in Seq(S), NEW c \in S
    PROVE  /\ Text(s) \in Seq(S)
           /\ Text(Append(s, c)) = IF c = CR THEN Text(s) ELSE Append(Text(s), c)
<1>1. Len(s) \in Nat /\ DOMAIN s = 1..Len(s) /\ Plain(s) \in SUBSET (1..Len(s))
  BY LenProperties DEF Plain
<1>2. Text(s) = AtEach(s, Plain(s))
  BY DEF Text, Plain
<1>3. Append(s, c) \in Seq(S) /\ DOMAIN Append(s, c) = 1..(Len(s) + 1)
      /\ (\A i \in 1..Len(s) : Append(s, c)[i] = s[i]) /\ Append(s, c)[Len(s) + 1] = c
  BY AppendProperties, LenProperties
<1>4. \A i : i \in 1..(Len(s) + 1) <=> i \in 1..Len(s) \/ i = Len(s) + 1
  BY <1>1
<1>5. Plain(Append(s, c)) = IF c = CR THEN Plain(s) ELSE Plain(s) \cup {Len(s) + 1}
  <2>1. \A i : i \in Plain(Append(s, c)) <=>
                  \/ i \in Plain(s)
                  \/ i = Len(s) + 1 /\ c # CR
    <3>1. Len(s) + 1 \notin 1..Len(s)
      BY <1>1
    <3> QED BY <1>1, <1>3, <1>4, <3>1, Zenon DEF Plain
  <2> QED BY <2>1, Zenon
<1>6. Text(Append(s, c)) = AtEach(Append(s, c), Plain(Append(s, c)))
  BY DEF Text, Plain
<1>7. Text(s) \in Seq(S)
  BY <1>1, <1>2, AtEachFacts
<1>8. /\ AtEach(Append(s, c), Plain(s)) = AtEach(s, Plain(s))
      /\ AtEach(Append(s, c), Plain(s) \cup {Len(s) + 1}) = Append(AtEach(s, Plain(s)), c)
  BY <1>1, AtEachAppend
<1> QED BY <1>2, <1>5, <1>6, <1>7, <1>8

\* A part of a sequence.
LEMMA PartFacts ==
    ASSUME NEW S, NEW s \in Seq(S), NEW a \in Nat, NEW x \in Int, x <= Len(s)
    PROVE  /\ SubSeq(s, a + 1, x) \in Seq(S)
           /\ Len(SubSeq(s, a + 1, x)) = IF a < x THEN x - a ELSE 0
           /\ a <= x => Len(SubSeq(s, a + 1, x)) = x - a
           /\ \A i \in 1..(x - a) : SubSeq(s, a + 1, x)[i] = s[a + i]
<1>1. \A i \in (a + 1)..x : s[i] \in S
  <2>1. \A i \in (a + 1)..x : i \in 1..Len(s)
    OBVIOUS
  <2> QED BY <2>1, ElementOfSeq
<1>2. /\ SubSeq(s, a + 1, x) \in Seq(S)
      /\ Len(SubSeq(s, a + 1, x)) = IF a + 1 <= x THEN x - (a + 1) + 1 ELSE 0
      /\ \A i \in 1..(x - (a + 1) + 1) : SubSeq(s, a + 1, x)[i] = s[a + 1 + i - 1]
  BY <1>1, SubSeqProperties
<1>3. /\ x - (a + 1) + 1 = x - a
      /\ a + 1 <= x <=> a < x
      /\ \A i \in 1..(x - a) : a + 1 + i - 1 = a + i
      /\ a = x => x - a = 0
      /\ a <= x => a < x \/ a = x
  OBVIOUS
<1>4. /\ SubSeq(s, a + 1, x) \in Seq(S)
      /\ Len(SubSeq(s, a + 1, x)) = IF a < x THEN x - a ELSE 0
      /\ \A i \in 1..(x - a) : SubSeq(s, a + 1, x)[i] = s[a + i]
  BY <1>2, <1>3
<1>5. ASSUME a <= x PROVE Len(SubSeq(s, a + 1, x)) = x - a
  <2>1. CASE a < x
    BY <1>4, <2>1
  <2>2. CASE a = x
    <3>1. ~(a < x) /\ x - a = 0
      BY <2>2
    <3> QED BY <1>4, <3>1, Zenon
  <2> QED BY <1>3, <1>5, <2>1, <2>2
<1> QED BY <1>4, <1>5

\* The same part of two sequences.
LEMMA SamePart ==
    ASSUME NEW S, NEW s \in Seq(S), NEW t \in Seq(S),
           NEW a \in Nat, NEW x \in Int, x <= Len(s), x <= Len(t),
           \A i \in 1..(x - a) : s[a + i] = t[a + i]
    PROVE  SubSeq(s, a + 1, x) = SubSeq(t, a + 1, x)
<1> DEFINE u == SubSeq(s, a + 1, x)
           v == SubSeq(t, a + 1, x)
<1>1. /\ u \in Seq(S) /\ Len(u) = IF a < x THEN x - a ELSE 0
      /\ \A i \in 1..(x - a) : u[i] = s[a + i]
  BY PartFacts
<1>2. /\ v \in Seq(S) /\ Len(v) = IF a < x THEN x - a ELSE 0
      /\ \A i \in 1..(x - a) : v[i] = t[a + i]
  BY PartFacts
<1> HIDE DEF u, v
<1>3. Len(u) = Len(v) /\ \A i \in 1..Len(u) : i \in 1..(x - a)
  BY <1>1, <1>2
<1>4. u = v
  BY <1>1, <1>2, <1>3, SeqEqual
<1> QED BY <1>4 DEF u, v

\* The lines are as many as their ends, and the rest is what follows the last.
LEMMA SplitFacts ==
    ASSUME NEW S, NEW s \in Seq(S)
    PROVE  /\ Len(s) \in Nat
           /\ Ends(s) \in SUBSET (1..Len(s))
           /\ Cardinality(Ends(s)) \in Nat
           /\ LastOf(Ends(s)) \in 0..Len(s)
           /\ Split(s) \in Seq(Seq(S))
           /\ Len(Split(s)) = Cardinality(Ends(s))
           /\ DOMAIN Split(s) = 1..Cardinality(Ends(s))
           /\ \A k \in 1..Cardinality(Ends(s)) :
                 Split(s)[k] = SubSeq(s, Kth(Ends(s), k - 1) + 1, Kth(Ends(s), k) - 1)
           /\ Rest(s) \in Seq(S)
           /\ Len(Rest(s)) = Len(s) - LastOf(Ends(s))
<1>1. Len(s) \in Nat /\ Ends(s) \in SUBSET (1..Len(s))
  BY LenProperties DEF Ends
<1>2. Cardinality(Ends(s)) \in Nat
  BY <1>1, CountFacts
<1>3. LastOf(Ends(s)) \in 0..Len(s)
  BY <1>1, LastFacts
<1>4. ASSUME NEW k \in 1..Cardinality(Ends(s))
      PROVE  SubSeq(s, Kth(Ends(s), k - 1) + 1, Kth(Ends(s), k) - 1) \in Seq(S)
  <2>1. k - 1 \in 0..(k - 1)
    BY <1>2
  <2>2. Kth(Ends(s), k - 1) \in Nat /\ Kth(Ends(s), k) \in Ends(s)
    BY <1>1, <2>1, KthOrder
  <2>3. Kth(Ends(s), k) \in 1..Len(s)
    BY <1>1, <2>2
  <2>4. Kth(Ends(s), k) - 1 \in Int /\ Kth(Ends(s), k) - 1 <= Len(s)
    BY <1>1, <2>3
  <2> QED BY <2>2, <2>4, PartFacts
<1>5. /\ Rest(s) \in Seq(S)
      /\ Len(Rest(s)) = Len(s) - LastOf(Ends(s))
  <2>1. LastOf(Ends(s)) \in Nat /\ LastOf(Ends(s)) <= Len(s) /\ Len(s) <= Len(s)
    BY <1>1, <1>3
  <2> QED BY <1>1, <2>1, PartFacts DEF Rest
<1>6. /\ Split(s) \in Seq(Seq(S))
      /\ Len(Split(s)) = Cardinality(Ends(s))
      /\ DOMAIN Split(s) = 1..Cardinality(Ends(s))
  <2> DEFINE f(k) == SubSeq(s, Kth(Ends(s), k - 1) + 1, Kth(Ends(s), k) - 1)
  <2>1. \A k \in 1..Cardinality(Ends(s)) : f(k) \in Seq(S)
    BY <1>4
  <2>2. Split(s) = [k \in 1..Cardinality(Ends(s)) |-> f(k)]
    BY DEF Split
  <2> HIDE DEF f
  <2> QED BY <1>2, <2>1, <2>2
<1>7. \A k \in 1..Cardinality(Ends(s)) :
         Split(s)[k] = SubSeq(s, Kth(Ends(s), k - 1) + 1, Kth(Ends(s), k) - 1)
  BY DEF Split
<1> QED BY <1>1, <1>2, <1>3, <1>5, <1>6, <1>7

\* A byte of a line belongs to what is left.
LEMMA SplitByte ==
    ASSUME NEW S, NEW s \in Seq(S), NEW c \in S, c # NL
    PROVE  /\ Split(Append(s, c)) = Split(s)
           /\ Rest(Append(s, c)) = Append(Rest(s), c)
<1> DEFINE t == Append(s, c)
<1>1. t \in Seq(S) /\ Len(t) = Len(s) + 1 /\ DOMAIN t = 1..(Len(s) + 1)
      /\ (\A i \in 1..Len(s) : t[i] = s[i]) /\ t[Len(s) + 1] = c
  BY AppendProperties, LenProperties
<1>2. Len(s) \in Nat /\ DOMAIN s = 1..Len(s)
  BY LenProperties
<1>3. Ends(t) = Ends(s)
  <2>1. \A i : i \in 1..(Len(s) + 1) <=> i \in 1..Len(s) \/ i = Len(s) + 1
    BY <1>2
  <2> HIDE DEF t
  <2>2. \A i : i \in Ends(t) <=> i \in Ends(s)
    BY <1>1, <1>2, <2>1, Zenon DEF Ends
  <2> QED BY <2>2, Zenon
<1> HIDE DEF t
<1>4. Split(t) = Split(s)
  <2>1. ASSUME NEW k \in 1..Cardinality(Ends(s))
        PROVE  SubSeq(t, Kth(Ends(s), k - 1) + 1, Kth(Ends(s), k) - 1)
                 = SubSeq(s, Kth(Ends(s), k - 1) + 1, Kth(Ends(s), k) - 1)
    <3>0. Cardinality(Ends(s)) \in Nat
      BY SplitFacts
    <3>1. Ends(s) \in SUBSET (1..Len(s)) /\ k - 1 \in 0..(k - 1)
      <4>1. Ends(s) \in SUBSET (1..Len(s))
        BY SplitFacts
      <4>2. k - 1 \in 0..(k - 1)
        BY <3>0
      <4> QED BY <4>1, <4>2
    <3> DEFINE a == Kth(Ends(s), k - 1)
               x == Kth(Ends(s), k) - 1
    <3>2. Kth(Ends(s), k - 1) \in Nat /\ Kth(Ends(s), k) \in Ends(s)
      BY <1>2, <3>1, KthOrder
    <3>3. Kth(Ends(s), k) \in 1..Len(s)
      BY <3>1, <3>2
    <3>4. a \in Nat /\ x \in Int /\ x <= Len(s) /\ x <= Len(t)
      BY <1>1, <1>2, <3>2, <3>3
    <3> HIDE DEF a, x
    <3>5. \A i \in 1..(x - a) : a + i \in 1..Len(s)
      BY <1>2, <3>4
    <3>6. \A i \in 1..(x - a) : t[a + i] = s[a + i]
      BY <1>1, <3>5
    <3>7. SubSeq(t, a + 1, x) = SubSeq(s, a + 1, x)
      BY <1>1, <3>4, <3>6, SamePart
    <3> QED BY <3>7 DEF a, x
  <2> QED BY <1>3, <2>1, Zenon DEF Split
<1>5. Rest(t) = Append(Rest(s), c)
  <2> DEFINE e == LastOf(Ends(s))
             u == Rest(t)
             v == Append(Rest(s), c)
  <2>1. e \in Nat /\ e <= Len(s) /\ Rest(s) \in Seq(S) /\ Len(Rest(s)) = Len(s) - e
    BY SplitFacts
  <2>2. u \in Seq(S) /\ Len(u) = Len(s) + 1 - e
        /\ \A i \in 1..(Len(s) + 1 - e) : u[i] = t[e + i]
    <3>0. Rest(t) = SubSeq(t, e + 1, Len(s) + 1)
      BY <1>1, <1>3, Zenon DEF Rest
    <3>1. Len(s) + 1 \in Int /\ Len(s) + 1 <= Len(t) /\ e < Len(s) + 1
      BY <1>1, <1>2, <2>1
    <3> HIDE DEF e
    <3> QED BY <1>1, <2>1, <3>0, <3>1, PartFacts
  <2>3. \A i \in 1..(Len(s) - e) : Rest(s)[i] = s[e + i]
    <3>0. Rest(s) = SubSeq(s, e + 1, Len(s))
      BY DEF Rest
    <3>1. Len(s) \in Int /\ Len(s) <= Len(s)
      BY <1>2
    <3> HIDE DEF e, u, v
    <3> QED BY <2>1, <3>0, <3>1, PartFacts
  <2>4. v \in Seq(S) /\ Len(v) = Len(s) - e + 1
        /\ (\A i \in 1..(Len(s) - e) : v[i] = Rest(s)[i]) /\ v[Len(s) - e + 1] = c
    <3> HIDE DEF e
    <3> QED BY <2>1, AppendProperties
  <2> HIDE DEF e, u, v
  <2>5. ASSUME NEW i \in 1..Len(u) PROVE u[i] = v[i]
    <3>1. CASE i = Len(s) - e + 1
      <4>1. e + i = Len(s) + 1
        BY <1>2, <2>1, <3>1
      <4> QED BY <1>1, <2>2, <2>4, <3>1, <4>1
    <3>2. CASE i # Len(s) - e + 1
      <4>0. i \in Nat /\ 1 <= i /\ i <= Len(s) + 1 - e
        BY <1>2, <2>1, <2>2
      <4>1. i \in 1..(Len(s) - e) /\ e + i \in 1..Len(s)
        BY <1>2, <2>1, <3>2, <4>0
      <4> QED BY <1>1, <2>2, <2>3, <2>4, <4>1
    <3> QED BY <3>1, <3>2
  <2>6. Len(u) = Len(v)
    BY <1>2, <2>1, <2>2, <2>4
  <2>7. u = v
    BY <2>2, <2>4, <2>5, <2>6, SeqEqual
  <2> QED BY <2>7 DEF u, v
<1> QED BY <1>4, <1>5 DEF t

\* The end of a line makes a line of what was left.
LEMMA SplitEnd ==
    ASSUME NEW S, NEW s \in Seq(S), NL \in S
    PROVE  /\ Split(Append(s, NL)) = Append(Split(s), Rest(s))
           /\ Rest(Append(s, NL)) = <<>>
<1> DEFINE t == Append(s, NL)
           d == Len(s)
           E == Ends(s)
           F == Ends(t)
           C == Cardinality(Ends(s))
<1>1. t \in Seq(S) /\ Len(t) = d + 1 /\ DOMAIN t = 1..(d + 1)
      /\ (\A i \in 1..d : t[i] = s[i]) /\ t[d + 1] = NL
  BY AppendProperties, LenProperties
<1>2. d \in Nat /\ DOMAIN s = 1..d /\ E \in SUBSET (1..d) /\ C \in Nat
  BY SplitFacts, LenProperties
<1>3. F = E \cup {d + 1}
  <2>1. \A i : i \in 1..(d + 1) <=> i \in 1..d \/ i = d + 1
    BY <1>2
  <2>2. d + 1 \notin 1..d
    BY <1>2
  <2> HIDE DEF t, d
  <2>3. \A i : i \in Ends(t) <=> i \in Ends(s) \/ i = d + 1
    BY <1>1, <1>2, <2>1, <2>2, Zenon DEF Ends
  <2> QED BY <2>3, Zenon
<1>4. Joins(F, E, {1}, d, 1)
  <2> HIDE DEF t, d, E, F
  <2>1. \A i \in E : i \in Nat /\ 1 <= i /\ i <= d
    BY <1>2, SetFacts
  <2>2. \A i \in 1..d : i \in F <=> i \in E
    BY <1>2, <1>3
  <2>3. F \in SUBSET (1..(d + 1))
    <3>1. \A i \in E : i \in 1..(d + 1)
      BY <1>2, <2>1
    <3>2. d + 1 \in 1..(d + 1)
      BY <1>2
    <3> QED BY <1>3, <3>1, <3>2, Zenon
  <2>4. \A i \in 1..1 : d + i \in F <=> i \in {1}
    <3>1. \A i \in 1..1 : i = 1
      OBVIOUS
    <3> QED BY <1>3, <3>1
  <2>5. {1} \in SUBSET (1..1)
    OBVIOUS
  <2> QED BY <1>2, <2>2, <2>3, <2>4, <2>5 DEF Joins
<1> HIDE DEF t, d, E, F, C
<1>5. Cardinality(F) = C + 1 /\ (\A k \in 0..C : Kth(F, k) = Kth(E, k))
      /\ Kth(F, C + 1) = d + 1
  <2> DEFINE B == {1}
  <2>1. Cardinality(B) = 1
    BY FS_Singleton
  <2>2. Kth(B, 1) = 1
    <3>1. B \in SUBSET (1..1) /\ 1 \in 1..Cardinality(B) /\ 1 \in Nat
      BY <2>1
    <3>2. Kth(B, 1) \in B
      <4> HIDE DEF B
      <4> QED BY <3>1, KthExists
    <3> QED BY <3>2
  <2>3. Joins(F, E, B, d, 1) /\ 1 \in Nat
    BY <1>4
  <2> HIDE DEF B
  <2>4. Cardinality(F) = C + Cardinality(B)
    BY <1>2, <2>3, CountJoins DEF C, E
  <2>5. /\ \A k \in 0..C : Kth(F, k) = Kth(E, k)
        /\ \A k \in 1..Cardinality(B) : Kth(F, C + k) = d + Kth(B, k)
    BY <1>2, <2>3, KthJoins DEF C, E
  <2>6. 1 \in 1..Cardinality(B)
    BY <2>1
  <2> QED BY <2>1, <2>2, <2>4, <2>5, <2>6
<1>6. LastOf(F) = d + 1 /\ LastOf(E) = Kth(E, C) /\ LastOf(E) \in 0..d
  BY <1>2, <1>5, SplitFacts DEF LastOf, C, E, d
<1>7. Rest(t) = <<>>
  <2>1. Rest(t) \in Seq(S) /\ Len(Rest(t)) = Len(t) - LastOf(Ends(t))
    BY <1>1, SplitFacts
  <2>2. Len(Rest(t)) = 0
    BY <1>1, <1>2, <1>6, <2>1 DEF F
  <2> QED BY <2>1, <2>2, EmptySeq
<1>8. /\ Split(s) \in Seq(Seq(S)) /\ Len(Split(s)) = C
      /\ \A k \in 1..C : Split(s)[k] = SubSeq(s, Kth(E, k - 1) + 1, Kth(E, k) - 1)
  BY SplitFacts DEF C, E
<1>9. /\ Split(t) \in Seq(Seq(S)) /\ Len(Split(t)) = C + 1
      /\ \A k \in 1..(C + 1) : Split(t)[k] = SubSeq(t, Kth(F, k - 1) + 1, Kth(F, k) - 1)
  BY <1>1, <1>5, SplitFacts DEF F
<1>10. Rest(s) \in Seq(S) /\ Rest(s) = SubSeq(s, LastOf(E) + 1, d)
  BY SplitFacts DEF Rest, E, d
<1>11. /\ Append(Split(s), Rest(s)) \in Seq(Seq(S))
       /\ Len(Append(Split(s), Rest(s))) = C + 1
       /\ \A k \in 1..C : Append(Split(s), Rest(s))[k] = Split(s)[k]
       /\ Append(Split(s), Rest(s))[C + 1] = Rest(s)
  BY <1>8, <1>10, AppendProperties
<1>12. ASSUME NEW a \in 0..d, NEW x \in 0..d
       PROVE  SubSeq(t, a + 1, x) = SubSeq(s, a + 1, x)
  <2>1. a \in Nat /\ x \in Int /\ x <= Len(s) /\ x <= Len(t)
    BY <1>1, <1>2 DEF d
  <2>2. \A i \in 1..(x - a) : a + i \in 1..d
    BY <1>2
  <2>3. \A i \in 1..(x - a) : t[a + i] = s[a + i]
    BY <1>1, <2>2
  <2>4. t \in Seq(S)
    BY <1>1
  <2> QED BY <2>1, <2>3, <2>4, SamePart
<1>13. ASSUME NEW k \in 1..(C + 1) PROVE Split(t)[k] = Append(Split(s), Rest(s))[k]
  <2>1. CASE k = C + 1
    <3>1. Kth(F, k - 1) = LastOf(E) /\ Kth(F, k) - 1 = d
      <4>1. k - 1 = C /\ C \in 0..C /\ (d + 1) - 1 = d
        BY <1>2, <2>1
      <4>2. Kth(F, C) = LastOf(E)
        BY <1>5, <1>6, <4>1, Zenon
      <4>3. Kth(F, k - 1) = LastOf(E)
        BY <4>1, <4>2, Zenon
      <4>4. Kth(F, k) = d + 1
        BY <1>5, <2>1, Zenon
      <4>5. Kth(F, k) - 1 = d
        BY <4>1, <4>4, Zenon
      <4> QED BY <4>3, <4>5, Zenon
    <3>2. d \in 0..d
      BY <1>2
    <3>3. Split(t)[k] = SubSeq(t, LastOf(E) + 1, d)
      BY <1>9, <3>1, Zenon
    <3>4. SubSeq(t, LastOf(E) + 1, d) = SubSeq(s, LastOf(E) + 1, d)
      BY <1>6, <1>12, <3>2, Zenon
    <3> QED BY <1>10, <1>11, <2>1, <3>3, <3>4, Zenon
  <2>2. CASE k # C + 1
    <3>1. k \in 1..C /\ k \in 0..C /\ k - 1 \in 0..C /\ k - 1 \in 0..(k - 1)
      BY <1>2, <2>2
    <3>2. Kth(E, k - 1) \in Nat /\ Kth(E, k) \in E /\ Kth(E, k - 1) < Kth(E, k)
      BY <1>2, <3>1, KthOrder DEF C, E
    <3>3. Kth(E, k) \in Nat /\ 1 <= Kth(E, k) /\ Kth(E, k) <= d
      BY <1>2, <3>2, SetFacts
    <3>4. Kth(E, k - 1) \in 0..d /\ Kth(E, k) - 1 \in 0..d
      BY <1>2, <3>2, <3>3
    <3>5. Split(t)[k] = SubSeq(t, Kth(E, k - 1) + 1, Kth(E, k) - 1)
      BY <1>5, <1>9, <3>1, Zenon
    <3>6. SubSeq(t, Kth(E, k - 1) + 1, Kth(E, k) - 1)
            = SubSeq(s, Kth(E, k - 1) + 1, Kth(E, k) - 1)
      BY <1>12, <3>4, Zenon
    <3>7. Split(s)[k] = SubSeq(s, Kth(E, k - 1) + 1, Kth(E, k) - 1)
      BY <1>8, <3>1, Zenon
    <3> QED BY <1>11, <3>1, <3>5, <3>6, <3>7, Zenon
  <2> QED BY <2>1, <2>2
<1>14. Split(t) = Append(Split(s), Rest(s))
  BY <1>9, <1>11, <1>13, SeqEqual
<1> QED BY <1>7, <1>14 DEF t

-----------------------------------------------------------------------------
(* The device.                                                             *)

Bytes == Letters \cup {NL, CR}

StreamOK ==
    /\ stream \in Seq(Bytes)
    /\ read \in 0..Len(stream)

\* What the buffer holds is the text since the last end of a line, as long as it
\* fits; that it does not is what overflow remembers.
ReaderInv ==
    /\ overflow \in BOOLEAN
    /\ overflow <=> Len(Text(Rest(stream))) >= LineSize
    /\ ~overflow => line = Text(Rest(stream))

\* No more is read than was sent.
LEMMA StreamCorrect == LinesSpec => []StreamOK
<1>1. LinesInit => StreamOK
  BY DEF LinesInit, StreamOK
<1>2. StreamOK /\ [LinesNext]_linesVars => StreamOK'
  <2> SUFFICES ASSUME StreamOK, [LinesNext]_linesVars PROVE StreamOK'
    OBVIOUS
  <2>1. ASSUME NEW c \in Letters \cup {NL, CR}, Byte(c) PROVE StreamOK'
    <3>1. c \in Bytes /\ stream' = Append(stream, c) /\ read' = read
      BY <2>1 DEF Byte, Bytes
    <3> QED BY <3>1 DEF StreamOK
  <2>2. ASSUME NEW n \in 1..MaxStream, Chunk(n) PROVE StreamOK'
    BY <2>2, LinesAssumption DEF LinesAssumption, Chunk, StreamOK
  <2>3. CASE AllRead \/ UNCHANGED linesVars
    BY <2>3 DEF AllRead, linesVars, StreamOK
  <2> QED BY <2>1, <2>2, <2>3 DEF LinesNext
<1> QED BY <1>1, <1>2, PTL DEF LinesSpec

\* An empty stream.
LEMMA EmptyFacts ==
    /\ Ends(<<>>) = {} /\ Split(<<>>) = <<>> /\ Rest(<<>>) = <<>>
    /\ Text(<<>>) = <<>>
    /\ LastOf({}) = 0
<1>1. Ends(<<>>) = {} /\ Plain(<<>>) = {}
  BY DEF Ends, Plain
<1>2. Cardinality({}) = 0
  BY FS_EmptySet
<1>3. LastOf({}) = 0
  BY <1>2 DEF LastOf, Kth
<1>4. <<>> \in Seq(Bytes) /\ Len(<<>>) = 0
  BY EmptySeq
<1>5. Split(<<>>) = <<>>
  <2>1. Split(<<>>) \in Seq(Seq(Bytes)) /\ Len(Split(<<>>)) = 0
    BY <1>1, <1>2, <1>4, SplitFacts
  <2> QED BY <2>1, EmptySeq
<1>6. Rest(<<>>) = <<>>
  <2>1. Rest(<<>>) \in Seq(Bytes) /\ Len(Rest(<<>>)) = Len(<<>>) - LastOf(Ends(<<>>))
    BY <1>4, SplitFacts
  <2>2. Len(Rest(<<>>)) = 0
    <3>1. LastOf(Ends(<<>>)) = 0
      BY <1>1, <1>3, Zenon
    <3> QED BY <1>4, <2>1, <3>1
  <2> QED BY <2>1, <2>2, EmptySeq
<1>7. Text(<<>>) = <<>>
  <2>1. {} \in SUBSET (1..Len(<<>>))
    OBVIOUS
  <2>2. AtEach(<<>>, {}) \in Seq(Bytes) /\ Len(AtEach(<<>>, {})) = 0
    BY <1>2, <1>4, <2>1, AtEachFacts
  <2>3. Text(<<>>) = AtEach(<<>>, Plain(<<>>))
    BY DEF Text, Plain
  <2> QED BY <1>1, <2>2, <2>3, EmptySeq
<1> QED BY <1>1, <1>3, <1>5, <1>6, <1>7

\* The device hands on just the lines that fit, whole and in order, however long
\* the line between them was that did not (pc_control.c:141).
THEOREM WholeLinesHolds == LinesSpec => []WholeLines
<1> DEFINE Sent(s) == [k \in DOMAIN Split(s) |-> Text(Split(s)[k])]
           Fit(s) == {k \in DOMAIN Split(s) : Fits(Split(s)[k])}
<1>0. WholeLines <=> queued = AtEach(Sent(stream), Fit(stream))
  BY DEF WholeLines
<1>1. LinesInit => ReaderInv /\ WholeLines
  <2> SUFFICES ASSUME LinesInit PROVE ReaderInv /\ WholeLines
    OBVIOUS
  <2>1. stream = <<>> /\ line = <<>> /\ overflow = FALSE /\ queued = <<>>
    BY DEF LinesInit
  <2>2. ReaderInv
    <3>1. Text(Rest(stream)) = <<>>
      BY <2>1, EmptyFacts, Zenon
    <3>2. ~(Len(<<>>) >= LineSize)
      BY LinesAssumption DEF LinesAssumption
    <3> QED BY <2>1, <3>1, <3>2, Zenon DEF ReaderInv
  <2>3. AtEach(Sent(stream), Fit(stream)) = <<>>
    <3>1. Split(stream) = <<>>
      BY <2>1, EmptyFacts
    <3>2. Sent(stream) = <<>> /\ Fit(stream) = {}
      BY <3>1
    <3>3. {} \in SUBSET (1..Len(<<>>)) /\ <<>> \in Seq(Bytes)
      OBVIOUS
    <3>4. AtEach(<<>>, {}) \in Seq(Bytes) /\ Len(AtEach(<<>>, {})) = 0
      BY <3>3, AtEachFacts, FS_EmptySet
    <3> HIDE DEF Sent, Fit
    <3> QED BY <3>2, <3>4, EmptySeq
  <2> HIDE DEF Sent, Fit
  <2> QED BY <1>0, <2>1, <2>2, <2>3
<1>2. StreamOK /\ ReaderInv /\ WholeLines /\ [LinesNext]_linesVars
      => ReaderInv' /\ WholeLines'
  <2> SUFFICES ASSUME StreamOK, ReaderInv, WholeLines, [LinesNext]_linesVars
               PROVE  ReaderInv' /\ WholeLines'
    OBVIOUS
  <2>1. CASE UNCHANGED <<stream, line, overflow, queued>>
    BY <2>1 DEF ReaderInv, WholeLines
  <2>2. ASSUME NEW c \in Letters \cup {NL, CR}, Byte(c)
        PROVE  ReaderInv' /\ WholeLines'
    <3>1. /\ stream \in Seq(Bytes) /\ c \in Bytes /\ stream' = Append(stream, c)
          /\ ReadsByte(c)
      BY <2>2 DEF Byte, Bytes, StreamOK
    <3>2. /\ Rest(stream) \in Seq(Bytes) /\ Split(stream) \in Seq(Seq(Bytes))
          /\ Text(Rest(stream)) \in Seq(Bytes)
      BY <3>1, SplitFacts, TextFacts
    <3>3. NL # CR /\ NL \notin Letters /\ CR \notin Letters /\ LineSize \in Nat \ {0}
      BY LinesAssumption DEF LinesAssumption
    <3>4. CASE c # NL
      <4>1. Split(stream') = Split(stream) /\ Rest(stream') = Append(Rest(stream), c)
        BY <3>1, <3>4, SplitByte
      <4>2. Text(Rest(stream')) = IF c = CR THEN Text(Rest(stream))
                                  ELSE Append(Text(Rest(stream)), c)
        BY <3>1, <3>2, <4>1, TextFacts
      <4>3. queued' = queued
        BY <3>1, <3>4 DEF ReadsByte
      <4>4. WholeLines'
        BY <4>1, <4>3 DEF WholeLines
      <4>5. CASE c = CR
        <5>1. UNCHANGED <<line, overflow>>
          BY <3>1, <3>3, <4>5 DEF ReadsByte
        <5>2. Text(Rest(stream')) = Text(Rest(stream))
          BY <4>2, <4>5
        <5>3. ReaderInv'
          BY <5>1, <5>2 DEF ReaderInv
        <5> QED BY <4>4, <5>3
      <4>6. CASE c # CR
        <5> DEFINE T == Text(Rest(stream))
        <5>1. /\ Text(Rest(stream')) = Append(T, c)
              /\ Len(Append(T, c)) = Len(T) + 1
              /\ Len(T) \in Nat
          BY <3>1, <3>2, <4>2, <4>6
        <5>2. IF Len(line) < LineSize - 1 /\ ~overflow
              THEN line' = Append(line, c) /\ UNCHANGED overflow
              ELSE overflow' = TRUE /\ UNCHANGED line
          BY <3>1, <3>4, <4>6 DEF ReadsByte
        <5>3. /\ overflow \in BOOLEAN /\ overflow <=> Len(T) >= LineSize
              /\ ~overflow => line = T
          BY DEF ReaderInv
        <5> HIDE DEF T
        <5>4. CASE ~overflow /\ Len(line) < LineSize - 1
          <6>1. line' = Append(T, c) /\ overflow' = overflow
                /\ ~(Len(Append(T, c)) >= LineSize)
            BY <3>3, <5>1, <5>2, <5>3, <5>4
          <6>2. ReaderInv'
            BY <5>1, <5>4, <6>1 DEF ReaderInv
          <6> QED BY <4>4, <6>2
        <5>5. CASE ~(~overflow /\ Len(line) < LineSize - 1)
          <6>1. overflow' = TRUE
            BY <5>2, <5>5
          <6>2. Len(Append(T, c)) >= LineSize
            <7>1. CASE Len(T) >= LineSize
              BY <3>3, <5>1, <7>1
            <7>2. CASE ~(Len(T) >= LineSize)
              <8>1. line = T /\ ~(Len(line) < LineSize - 1)
                BY <5>3, <5>5, <7>2, Zenon
              <8> QED BY <3>3, <5>1, <8>1
            <7> QED BY <7>1, <7>2
          <6>3. ReaderInv'
            BY <5>1, <6>1, <6>2 DEF ReaderInv
          <6> QED BY <4>4, <6>3
        <5> QED BY <5>4, <5>5
      <4> QED BY <4>5, <4>6
    <3>5. CASE c = NL
      <4>1. /\ Split(stream') = Append(Split(stream), Rest(stream))
            /\ Rest(stream') = <<>>
        BY <3>1, <3>5, SplitEnd
      <4>2. /\ queued' = IF ~overflow /\ line # <<>> THEN Append(queued, line) ELSE queued
            /\ line' = <<>> /\ overflow' = FALSE
        BY <3>1, <3>3, <3>5 DEF ReadsByte
      <4>3. ReaderInv'
        <5>1. Text(Rest(stream')) = <<>>
          BY <4>1, EmptyFacts, Zenon
        <5>2. ~(Len(<<>>) >= LineSize)
          BY <3>3
        <5> QED BY <4>2, <5>1, <5>2, Zenon DEF ReaderInv
      <4>4. WholeLines'
        <5> DEFINE R == Rest(stream)
                   L == Len(Split(stream))
        <5>1. queued = AtEach(Sent(stream), Fit(stream))
          BY <1>0
        <5>2. ~overflow /\ line # <<>> <=> Fits(R)
          <6>1. Len(Text(R)) \in Nat
            BY <3>2
          <6>2. overflow <=> ~(Len(Text(R)) < LineSize)
            BY <3>3, <6>1 DEF ReaderInv
          <6> QED BY <6>2 DEF ReaderInv, Fits
        <5>3. ~overflow => line = Text(R)
          BY DEF ReaderInv
        <5>4. /\ L \in Nat /\ DOMAIN Split(stream) = 1..L
              /\ DOMAIN Split(stream') = 1..(L + 1)
              /\ \A k \in 1..L : Split(stream')[k] = Split(stream)[k]
              /\ Split(stream')[L + 1] = R
          BY <3>2, <4>1, AppendProperties, LenProperties
        <5>5. \A k : k \in 1..(L + 1) <=> k \in 1..L \/ k = L + 1
          BY <5>4
        <5>6. Fit(stream') = IF Fits(R) THEN Fit(stream) \cup {L + 1} ELSE Fit(stream)
          <6>1. L + 1 \notin 1..L
            BY <5>4
          <6> HIDE DEF R, L
          <6>2. \A k : k \in Fit(stream') <=> k \in Fit(stream) \/ (k = L + 1 /\ Fits(R))
            BY <5>4, <5>5, <6>1, Zenon
          <6> HIDE DEF Fit
          <6> QED BY <6>2, Zenon
        <5>7. /\ Sent(stream) \in Seq(Seq(Bytes)) /\ Len(Sent(stream)) = L
              /\ Fit(stream) \in SUBSET (1..L)
          <6>1. \A k \in 1..L : Text(Split(stream)[k]) \in Seq(Bytes)
            <7>1. ASSUME NEW k \in 1..L PROVE Text(Split(stream)[k]) \in Seq(Bytes)
              <8>1. Split(stream)[k] \in Seq(Bytes)
                BY <3>2, ElementOfSeq
              <8> QED BY <3>1, <8>1, TextFacts
            <7> QED BY <7>1
          <6> HIDE DEF L
          <6> QED BY <5>4, <6>1
        <5>8. Sent(stream') = Append(Sent(stream), Text(R))
          <6> DEFINE u == Sent(stream')
                     v == Append(Sent(stream), Text(R))
          <6>1. /\ v \in Seq(Seq(Bytes)) /\ Len(v) = L + 1
                /\ (\A k \in 1..L : v[k] = Sent(stream)[k]) /\ v[L + 1] = Text(R)
            <7> HIDE DEF Sent, L
            <7> QED BY <3>2, <5>7, AppendProperties
          <6>2. \A k \in 1..(L + 1) : u[k] = v[k]
            <7> HIDE DEF R, L, v
            <7> QED BY <5>4, <5>5, <6>1
          <6>3. u = [k \in 1..(L + 1) |-> u[k]]
            BY <5>4
          <6>4. v = [k \in 1..(L + 1) |-> v[k]]
            <7> HIDE DEF v, L
            <7>1. DOMAIN v = 1..(L + 1)
              BY <6>1, LenProperties
            <7> QED BY <6>1, <7>1
          <6> HIDE DEF u, v, L
          <6>5. u = v
            BY <6>2, <6>3, <6>4
          <6> QED BY <6>5 DEF u, v
        <5>9. AtEach(Sent(stream'), Fit(stream'))
                = IF Fits(R) THEN Append(queued, Text(R)) ELSE queued
          <6> HIDE DEF Sent, Fit, R, L
          <6>0. Text(R) \in Seq(Bytes)
            BY <3>2 DEF R
          <6>1. /\ AtEach(Append(Sent(stream), Text(R)), Fit(stream)) = queued
                /\ AtEach(Append(Sent(stream), Text(R)), Fit(stream) \cup {L + 1})
                     = Append(queued, Text(R))
            <7> DEFINE W == Seq(Bytes)
                       u == Sent(stream)
                       A == Fit(stream)
                       e == Text(R)
            <7>1. u \in Seq(W) /\ e \in W /\ A \in SUBSET (1..Len(u)) /\ Len(u) = L
              BY <5>7, <6>0
            <7>2. queued = AtEach(u, A)
              BY <5>1
            <7> HIDE DEF W, u, A, e
            <7>3. /\ AtEach(Append(u, e), A) = AtEach(u, A)
                  /\ AtEach(Append(u, e), A \cup {Len(u) + 1}) = Append(AtEach(u, A), e)
              BY <7>1, AtEachAppend
            <7> QED BY <7>1, <7>2, <7>3 DEF u, A, e
          <6> QED BY <5>6, <5>8, <6>1
        <5>10. queued' = AtEach(Sent(stream'), Fit(stream'))
          <6> HIDE DEF Sent, Fit, R, L
          <6> QED BY <4>2, <5>2, <5>3, <5>9
        <5> QED BY <5>10 DEF WholeLines
      <4> QED BY <4>3, <4>4
    <3> QED BY <3>4, <3>5
  <2>3. ASSUME NEW n \in 1..MaxStream, Chunk(n) PROVE ReaderInv' /\ WholeLines'
    BY <2>1, <2>3 DEF Chunk
  <2>4. CASE AllRead \/ UNCHANGED linesVars
    BY <2>1, <2>4 DEF AllRead, linesVars
  <2> QED BY <2>2, <2>3, <2>4 DEF LinesNext
<1> QED BY <1>1, <1>2, StreamCorrect, PTL DEF LinesSpec

-----------------------------------------------------------------------------
(* The PC: the lines of a longer stream, found in the part of it after d.  *)

\* The first part of a sequence.
LEMMA PrefixFacts ==
    ASSUME NEW S, NEW s \in Seq(S), NEW x \in 0..Len(s)
    PROVE  /\ SubSeq(s, 1, x) \in Seq(S)
           /\ Len(SubSeq(s, 1, x)) = x
           /\ \A i \in 1..x : SubSeq(s, 1, x)[i] = s[i]
<1>1. 0 \in Nat /\ x \in Int /\ x <= Len(s) /\ x \in Nat
  OBVIOUS
<1>2. /\ SubSeq(s, 0 + 1, x) \in Seq(S)
      /\ Len(SubSeq(s, 0 + 1, x)) = IF 0 < x THEN x - 0 ELSE 0
      /\ \A i \in 1..(x - 0) : SubSeq(s, 0 + 1, x)[i] = s[0 + i]
  BY <1>1, PartFacts
<1>3. 0 + 1 = 1 /\ x - 0 = x /\ (\A i \in 1..x : 0 + i = i)
      /\ (IF 0 < x THEN x - 0 ELSE 0) = x
  BY <1>1
<1> QED BY <1>2, <1>3

\* What rstrip() leaves of the end of a sequence is an end of what it leaves of
\* the whole.
LEMMA StrippedEnd ==
    ASSUME NEW S, NEW s \in Seq(S), NEW n \in 0..Len(s), NEW u,
           u = SubSeq(s, n + 1, Len(s))
    PROVE  \E l \in 0..Len(Stripped(s)) :
              /\ Stripped(u) = SubSeq(Stripped(s), l + 1, Len(Stripped(s)))
              /\ n = 0 => l = 0
<1> DEFINE l == LastOf(Plain(s))
           whole == Stripped(s)
<1>1. /\ Len(s) \in Nat /\ n \in Nat /\ n <= Len(s) /\ DOMAIN s = 1..Len(s)
      /\ Len(s) \in Int /\ Len(s) <= Len(s)
  BY LenProperties
<1>2. /\ u \in Seq(S) /\ Len(u) = Len(s) - n
      /\ \A i \in 1..(Len(s) - n) : u[i] = s[n + i]
  <2> HIDE DEF l, whole
  <2> QED BY <1>1, PartFacts
<1>3. DOMAIN u = 1..(Len(s) - n)
  BY <1>2, LenProperties
<1>4. Plain(s) \in SUBSET (1..Len(s)) /\ Plain(u) \in SUBSET (1..Len(u))
  BY <1>1, <1>2, <1>3 DEF Plain
<1>5. /\ l \in 0..Len(s) /\ l \in Nat /\ l <= Len(s)
      /\ \A j \in Plain(s) : j <= l
      /\ Plain(s) # {} => l \in Plain(s)
      /\ Plain(s) = {} => l = 0
  <2>1. /\ l \in 0..Len(s)
        /\ \A j \in Plain(s) : j <= l
        /\ Plain(s) # {} => l \in Plain(s)
        /\ Plain(s) = {} => l = 0
    BY <1>1, <1>4, LastFacts
  <2> HIDE DEF l
  <2> QED BY <1>1, <2>1
<1>6. /\ whole = SubSeq(s, 1, l) /\ whole \in Seq(S) /\ Len(whole) = l
      /\ \A i \in 1..l : whole[i] = s[i]
  <2>1. whole = SubSeq(s, 1, l)
    BY DEF Stripped, Plain
  <2> HIDE DEF l, whole
  <2> QED BY <1>5, <2>1, PrefixFacts
<1>7. Stripped(u) = SubSeq(u, 1, LastOf(Plain(u)))
  BY DEF Stripped, Plain
<1> HIDE DEF l, whole
<1>8. \A i \in 1..(Len(s) - n) : n + i \in 1..Len(s)
  BY <1>1
<1>9. \A i \in 1..(Len(s) - n) : i \in Plain(u) <=> n + i \in Plain(s)
  BY <1>1, <1>2, <1>3, <1>8 DEF Plain
<1>10. CASE l <= n
  <2>1. Plain(u) = {}
    <3>1. ASSUME NEW i \in Plain(u) PROVE FALSE
      <4>1. i \in 1..(Len(s) - n)
        BY <1>2, <1>4
      <4>2. n + i <= l
        BY <1>5, <1>9, <4>1
      <4> QED BY <1>1, <1>5, <1>10, <4>1, <4>2
    <3> QED BY <3>1
  <2>2. Stripped(u) = <<>>
    <3>1. Stripped(u) = SubSeq(u, 1, 0)
      BY <1>7, <2>1, EmptyFacts, Zenon
    <3>2. 1 \in Int /\ 0 \in Int /\ 0 < 1
      OBVIOUS
    <3> QED BY <3>1, <3>2, SubSeqEmpty
  <2>3. SubSeq(whole, l + 1, l) = <<>>
    <3>1. l + 1 \in Int /\ l \in Int /\ l < l + 1
      BY <1>5
    <3> QED BY <3>1, SubSeqEmpty
  <2>4. l \in 0..Len(whole) /\ (n = 0 => l = 0)
    BY <1>1, <1>5, <1>6, <1>10
  <2>5. Stripped(u) = SubSeq(whole, l + 1, Len(whole))
    BY <1>6, <2>2, <2>3
  <2> QED BY <2>4, <2>5 DEF whole
<1>11. CASE l > n
  <2>1. l - n \in 1..(Len(s) - n) /\ n + (l - n) = l
    BY <1>1, <1>5, <1>11
  <2>2. Plain(s) # {}
    BY <1>1, <1>5, <1>11
  <2>3. l - n \in Plain(u)
    BY <1>5, <1>9, <2>1, <2>2
  <2>4. ASSUME NEW j \in Plain(u) PROVE j <= l - n
    <3>1. j \in 1..(Len(s) - n)
      BY <1>2, <1>4
    <3>2. n + j <= l
      BY <1>5, <1>9, <3>1
    <3> QED BY <1>1, <1>5, <3>1, <3>2
  <2>5. LastOf(Plain(u)) = l - n
    <3>1. Len(u) \in Nat
      BY <1>2
    <3> QED BY <1>4, <2>3, <2>4, <3>1, LastFacts
  <2> DEFINE v == SubSeq(u, 1, l - n)
             w == SubSeq(whole, n + 1, l)
  <2>6. v \in Seq(S) /\ Len(v) = l - n /\ \A i \in 1..(l - n) : v[i] = u[i]
    <3>1. l - n \in 0..Len(u)
      <4>1. l - n \in 0..(Len(s) - n)
        BY <1>1, <1>5, <2>1
      <4> QED BY <1>2, <4>1, Zenon
    <3> QED BY <1>2, <3>1, PrefixFacts
  <2>7. w \in Seq(S) /\ Len(w) = l - n /\ \A i \in 1..(l - n) : w[i] = whole[n + i]
    <3>1. l \in Int /\ l <= Len(whole) /\ n < l
      BY <1>1, <1>5, <1>6, <1>11
    <3> QED BY <1>1, <1>6, <3>1, PartFacts
  <2>8. \A i \in 1..(l - n) : v[i] = w[i]
    <3>1. \A i \in 1..(l - n) : i \in 1..(Len(s) - n) /\ n + i \in 1..l
      BY <1>1, <1>5
    <3> HIDE DEF v, w
    <3> QED BY <1>2, <1>6, <2>6, <2>7, <3>1
  <2>9. v = w
    <3> HIDE DEF v, w
    <3> QED BY <2>6, <2>7, <2>8, SeqEqual
  <2>10. Stripped(u) = SubSeq(whole, n + 1, Len(whole)) /\ n \in 0..Len(whole)
    <3>1. Stripped(u) = v
      BY <1>7, <2>5
    <3>2. w = SubSeq(whole, n + 1, Len(whole))
      BY <1>6
    <3>3. n \in 0..Len(whole)
      BY <1>1, <1>5, <1>6, <1>11
    <3> QED BY <2>9, <3>1, <3>2, <3>3
  <2> QED BY <2>10 DEF whole
<1>12. l <= n \/ l > n
  BY <1>1, <1>5
<1> QED BY <1>10, <1>11, <1>12

\* Of the stream s, p is what had been read before, and w what is after d; no
\* line that had been read ends after d.
Window(S, s, p, d, w) ==
    /\ s \in Seq(S) /\ p \in Seq(S) /\ w \in Seq(S)
    /\ d \in Nat /\ d <= Len(p) /\ Len(p) <= Len(s)
    /\ Len(w) = Len(s) - d
    /\ \A i \in 1..Len(p) : p[i] = s[i]
    /\ \A i \in 1..Len(w) : w[i] = s[d + i]
    /\ LastOf(Ends(p)) <= d

\* d is where the line being read begins, unless that is longer than the limit.
Begins(p, d, limit) == Len(p) - LastOf(Ends(p)) <= limit => d = LastOf(Ends(p))

\* A line, that has lost its beginning only if it is longer than the limit.
EndOf(part, whole, limit) ==
    \E n \in 0..Len(whole) :
        /\ part = SubSeq(whole, n + 1, Len(whole))
        /\ Len(whole) <= limit => n = 0

\* The ends of lines are those of the first part and then those of the second.
LEMMA WindowJoins ==
    ASSUME NEW S, NEW s, NEW p, NEW d, NEW w, Window(S, s, p, d, w)
    PROVE  Joins(Ends(s), Ends(p), Ends(w), d, Len(w))
<1>1. /\ s \in Seq(S) /\ p \in Seq(S) /\ w \in Seq(S)
      /\ d \in Nat /\ d <= Len(p) /\ Len(p) <= Len(s)
      /\ Len(w) = Len(s) - d /\ LastOf(Ends(p)) <= d
  BY DEF Window
<1>2. /\ \A i \in 1..Len(p) : p[i] = s[i]
      /\ \A i \in 1..Len(w) : w[i] = s[d + i]
  BY DEF Window
<1>3. /\ Len(s) \in Nat /\ Len(p) \in Nat /\ Len(w) \in Nat
      /\ DOMAIN s = 1..Len(s) /\ DOMAIN p = 1..Len(p) /\ DOMAIN w = 1..Len(w)
  BY <1>1, LenProperties
<1>4. /\ Ends(s) \in SUBSET (1..Len(s)) /\ Ends(p) \in SUBSET (1..Len(p))
      /\ Ends(w) \in SUBSET (1..Len(w))
  BY <1>3 DEF Ends
<1>5. Ends(p) \in SUBSET (1..d)
  <2>1. ASSUME NEW i \in Ends(p) PROVE i \in 1..d
    <3>1. i \in Nat /\ 1 <= i
      BY <1>3, <1>4, SetFacts
    <3>2. i <= LastOf(Ends(p)) /\ LastOf(Ends(p)) \in 0..Len(p)
      BY <1>3, <1>4, LastFacts
    <3>3. LastOf(Ends(p)) \in Nat
      BY <1>3, <3>2
    <3> QED BY <1>1, <3>1, <3>2, <3>3
  <2> QED BY <2>1
<1>6. d + Len(w) = Len(s)
  BY <1>1, <1>3
<1>7. ASSUME NEW i \in 1..d PROVE i \in Ends(s) <=> i \in Ends(p)
  <2>1. i \in 1..Len(p) /\ i \in 1..Len(s)
    BY <1>1, <1>3
  <2> QED BY <1>2, <1>3, <2>1, Zenon DEF Ends
<1>8. ASSUME NEW i \in 1..Len(w) PROVE d + i \in Ends(s) <=> i \in Ends(w)
  <2>1. d + i \in 1..Len(s)
    BY <1>1, <1>3
  <2> QED BY <1>2, <1>3, <2>1, Zenon DEF Ends
<1> QED BY <1>4, <1>5, <1>6, <1>7, <1>8, Zenon DEF Joins

\* There are the lines of the two parts.
LEMMA WindowCount ==
    ASSUME NEW S, NEW s, NEW p, NEW d, NEW w, Window(S, s, p, d, w)
    PROVE  /\ Len(Split(s)) = Len(Split(p)) + Len(Split(w))
           /\ Len(Split(p)) \in Nat /\ Len(Split(w)) \in Nat
           /\ Len(Split(s)) = Cardinality(Ends(s))
           /\ Len(Split(p)) = Cardinality(Ends(p))
           /\ Len(Split(w)) = Cardinality(Ends(w))
           /\ \A k \in 0..Len(Split(p)) : Kth(Ends(s), k) = Kth(Ends(p), k)
           /\ \A k \in 1..Len(Split(w)) :
                 Kth(Ends(s), Len(Split(p)) + k) = d + Kth(Ends(w), k)
<1>1. s \in Seq(S) /\ p \in Seq(S) /\ w \in Seq(S) /\ d \in Nat /\ Len(w) \in Nat
  BY DEF Window
<1>2. /\ Len(Split(s)) = Cardinality(Ends(s))
      /\ Len(Split(p)) = Cardinality(Ends(p)) /\ Len(Split(p)) \in Nat
      /\ Len(Split(w)) = Cardinality(Ends(w)) /\ Len(Split(w)) \in Nat
  BY <1>1, SplitFacts
<1>3. Joins(Ends(s), Ends(p), Ends(w), d, Len(w))
  BY WindowJoins
<1>4. Cardinality(Ends(s)) = Cardinality(Ends(p)) + Cardinality(Ends(w))
  BY <1>1, <1>3, CountJoins
<1>5. /\ \A k \in 0..Cardinality(Ends(p)) : Kth(Ends(s), k) = Kth(Ends(p), k)
      /\ \A k \in 1..Cardinality(Ends(w)) :
            Kth(Ends(s), Cardinality(Ends(p)) + k) = d + Kth(Ends(w), k)
  BY <1>1, <1>3, KthJoins
<1> QED BY <1>2, <1>4, <1>5

\* Those that had been found are found.
LEMMA WindowBefore ==
    ASSUME NEW S, NEW s, NEW p, NEW d, NEW w, Window(S, s, p, d, w),
           NEW k \in 1..Len(Split(p))
    PROVE  Split(s)[k] = Split(p)[k]
<1>1. /\ s \in Seq(S) /\ p \in Seq(S) /\ Len(s) \in Nat /\ Len(p) \in Nat
      /\ Len(p) <= Len(s)
  BY DEF Window
<1>2. \A i \in 1..Len(p) : p[i] = s[i]
  BY DEF Window
<1> DEFINE a == Kth(Ends(p), k - 1)
           x == Kth(Ends(p), k) - 1
<1>3. /\ Len(Split(p)) \in Nat /\ Len(Split(w)) \in Nat
      /\ Len(Split(s)) = Len(Split(p)) + Len(Split(w))
  BY WindowCount
<1>4. k \in 1..Len(Split(s)) /\ k - 1 \in 0..Len(Split(p)) /\ k \in 0..Len(Split(p))
      /\ k - 1 \in 0..(k - 1)
  BY <1>3
<1>5. Kth(Ends(s), k - 1) = Kth(Ends(p), k - 1) /\ Kth(Ends(s), k) = Kth(Ends(p), k)
  BY <1>4, WindowCount
<1>6. Split(p)[k] = SubSeq(p, a + 1, x)
  BY <1>1, SplitFacts
<1>7. Split(s)[k] = SubSeq(s, a + 1, x)
  <2>1. Split(s)[k] = SubSeq(s, Kth(Ends(s), k - 1) + 1, Kth(Ends(s), k) - 1)
    BY <1>1, <1>4, SplitFacts
  <2> QED BY <1>5, <2>1
<1>8. a \in Nat /\ x \in Int /\ x <= Len(p) /\ x <= Len(s)
  <2>1. Ends(p) \in SUBSET (1..Len(p)) /\ k \in 1..Cardinality(Ends(p))
    BY <1>1, SplitFacts
  <2>2. a \in Nat /\ Kth(Ends(p), k) \in Ends(p)
    BY <1>1, <1>4, <2>1, KthOrder
  <2>3. Kth(Ends(p), k) \in Nat /\ Kth(Ends(p), k) <= Len(p)
    BY <1>1, <2>1, <2>2, SetFacts
  <2> QED BY <1>1, <2>2, <2>3
<1> HIDE DEF a, x
<1>9. \A i \in 1..(x - a) : s[a + i] = p[a + i]
  <2>1. \A i \in 1..(x - a) : a + i \in 1..Len(p)
    BY <1>1, <1>8
  <2> QED BY <1>2, <2>1
<1>10. SubSeq(s, a + 1, x) = SubSeq(p, a + 1, x)
  BY <1>1, <1>8, <1>9, SamePart
<1> QED BY <1>6, <1>7, <1>10

\* The others are those of the second part, but that the first may have begun
\* before it.
LEMMA WindowAfter ==
    ASSUME NEW S, NEW s, NEW p, NEW d, NEW w, Window(S, s, p, d, w),
           NEW limit \in Nat,
           Begins(p, d, limit),
           NEW k \in 1..Len(Split(w)), NEW whole,
           whole = Split(s)[Len(Split(p)) + k]
    PROVE  EndOf(Split(w)[k], whole, limit)
<1>0. /\ Len(Split(s)) = Len(Split(p)) + Len(Split(w))
      /\ Len(Split(p)) \in Nat /\ Len(Split(w)) \in Nat
      /\ Len(Split(s)) = Cardinality(Ends(s))
      /\ Len(Split(p)) = Cardinality(Ends(p))
      /\ Len(Split(w)) = Cardinality(Ends(w))
      /\ \A l \in 0..Len(Split(p)) : Kth(Ends(s), l) = Kth(Ends(p), l)
      /\ \A l \in 1..Len(Split(w)) :
            Kth(Ends(s), Len(Split(p)) + l) = d + Kth(Ends(w), l)
  BY WindowCount
<1> DEFINE E == Ends(p)
           F == Ends(s)
           W == Ends(w)
           C == Len(Split(p))
           D == Len(Split(w))
           e == LastOf(Ends(p))
<1>1. /\ s \in Seq(S) /\ p \in Seq(S) /\ w \in Seq(S)
      /\ Len(s) \in Nat /\ Len(p) \in Nat /\ Len(w) \in Nat
      /\ d \in Nat /\ d <= Len(p) /\ Len(p) <= Len(s)
      /\ Len(w) = Len(s) - d /\ e <= d
  BY DEF Window
<1>2. /\ \A i \in 1..Len(p) : p[i] = s[i]
      /\ \A i \in 1..Len(w) : w[i] = s[d + i]
  BY DEF Window
<1>3. /\ C \in Nat /\ D \in Nat
      /\ C = Cardinality(E) /\ D = Cardinality(W) /\ C + D = Cardinality(F)
      /\ \A l \in 0..C : Kth(F, l) = Kth(E, l)
      /\ \A l \in 1..D : Kth(F, C + l) = d + Kth(W, l)
  <2>1. /\ Len(Split(s)) = C + D /\ C \in Nat /\ D \in Nat
        /\ Len(Split(s)) = Cardinality(F) /\ C = Cardinality(E) /\ D = Cardinality(W)
        /\ \A l \in 0..C : Kth(F, l) = Kth(E, l)
        /\ \A l \in 1..D : Kth(F, C + l) = d + Kth(W, l)
    BY <1>0
  <2> HIDE DEF C, D, E, F, W
  <2> QED BY <2>1
<1>4. /\ E \in SUBSET (1..Len(p)) /\ F \in SUBSET (1..Len(s)) /\ W \in SUBSET (1..Len(w))
      /\ e \in 0..Len(p)
  BY <1>1, SplitFacts
<1>5. e \in Nat /\ \A j \in E : j <= e
  <2>1. \A j \in E : j <= e
    BY <1>1, <1>4, LastFacts
  <2> HIDE DEF e, E
  <2> QED BY <1>1, <1>4, <2>1
<1>6. /\ whole = SubSeq(s, Kth(F, C + k - 1) + 1, Kth(F, C + k) - 1)
      /\ Split(w)[k] = SubSeq(w, Kth(W, k - 1) + 1, Kth(W, k) - 1)
  <2>1. C + k \in 1..Cardinality(F) /\ k \in 1..Cardinality(W)
    BY <1>3
  <2>2. Split(s)[C + k] = SubSeq(s, Kth(F, (C + k) - 1) + 1, Kth(F, C + k) - 1)
    BY <1>1, <2>1, SplitFacts
  <2>3. Split(w)[k] = SubSeq(w, Kth(W, k - 1) + 1, Kth(W, k) - 1)
    BY <1>1, <2>1, SplitFacts
  <2>4. (C + k) - 1 = C + k - 1
    BY <1>3
  <2> QED BY <2>2, <2>3, <2>4
<1>7. Kth(F, 0 + C) = e
  <2>1. e = Kth(E, C) /\ 0 + C = C /\ C \in 0..C
    BY <1>3 DEF LastOf
  <2> HIDE DEF e, C, E, F
  <2> QED BY <1>3, <2>1
<1> HIDE DEF E, F, W, C, D, e
<1> DEFINE b == Kth(W, k - 1)
           y == Kth(W, k)
           a == Kth(F, C + k - 1)
           n == d + b - a
           x == d + y - 1
<1>8. k \in Nat /\ k - 1 \in 0..(k - 1) /\ k \in 1..D /\ k \in 1..Cardinality(W)
  BY <1>3 DEF D
<1>9. b \in Nat /\ y \in W /\ y \in Nat /\ b < y /\ y <= Len(w)
  <2>1. b \in Nat /\ y \in W /\ b < y
    BY <1>1, <1>4, <1>8, KthOrder
  <2> HIDE DEF b, y
  <2> QED BY <1>1, <1>4, <2>1, SetFacts
<1>10. Kth(F, C + k) = d + y
  BY <1>3, <1>8
<1>11. /\ k # 1 => a = d + b
       /\ k = 1 => a = e /\ b = 0
  <2>1. CASE k = 1
    <3>1. C + k - 1 = 0 + C /\ k - 1 = 0
      BY <1>3, <2>1
    <3>2. a = e
      BY <1>7, <3>1
    <3>3. b = 0
      BY <3>1 DEF Kth
    <3> QED BY <2>1, <3>2, <3>3
  <2>2. CASE k # 1
    <3>1. k - 1 \in 1..D /\ C + (k - 1) = C + k - 1
      BY <1>3, <1>8, <2>2
    <3> QED BY <1>3, <2>2, <3>1
  <2> QED BY <2>1, <2>2
<1> HIDE DEF a, b, y
<1>12. a \in Nat /\ n \in Nat /\ a + n = d + b /\ x \in Int /\ a <= x
       /\ n <= x - a /\ x <= Len(s)
  <2>1. a \in Nat /\ a <= d + b
    BY <1>1, <1>5, <1>9, <1>11
  <2> QED BY <1>1, <1>9, <2>1
<1>13. /\ whole \in Seq(S) /\ Len(whole) = x - a
       /\ \A i \in 1..(x - a) : whole[i] = s[a + i]
  <2>1. whole = SubSeq(s, a + 1, (d + y) - 1)
    BY <1>6, <1>10 DEF a
  <2>2. (d + y) - 1 = x
    BY <1>1, <1>9
  <2>3. whole = SubSeq(s, a + 1, x)
    BY <2>1, <2>2, Zenon
  <2>4. a \in Nat /\ x \in Int /\ a <= x /\ x <= Len(s) /\ s \in Seq(S)
    BY <1>1, <1>12
  <2> HIDE DEF n, x
  <2> QED BY <2>3, <2>4, PartFacts
<1>14. Len(whole) <= limit => n = 0
  <2> SUFFICES ASSUME x - a <= limit, k = 1 PROVE n = 0
    BY <1>1, <1>9, <1>11, <1>13
  <2>1. a = e /\ b = 0
    BY <1>11
  <2>2. d + y > Len(p)
    <3>1. ASSUME d + y <= Len(p) PROVE FALSE
      <4>1. d + y \in 1..Len(p) /\ d + y \in 1..Len(s)
        BY <1>1, <1>9, <3>1
      <4>2. s[d + y] = NL
        <5>1. y \in 1..Len(w) /\ w[y] = NL
          BY <1>4, <1>9 DEF W, Ends
        <5> QED BY <1>2, <5>1
      <4>3. d + y \in E
        <5>1. DOMAIN p = 1..Len(p)
          BY <1>1, LenProperties
        <5> QED BY <1>2, <4>1, <4>2, <5>1 DEF E, Ends
      <4>4. d + y <= e
        BY <1>5, <4>3
      <4> QED BY <1>1, <1>5, <1>9, <4>4
    <3> QED BY <1>1, <1>9, <3>1
  <2>3. Len(p) - e <= limit
    BY <1>1, <1>5, <1>9, <2>1, <2>2
  <2>4. d = e
    BY <2>3 DEF e, Begins
  <2> QED BY <1>1, <1>5, <2>1, <2>4
<1>15. Split(w)[k] = SubSeq(whole, n + 1, Len(whole))
  <2> DEFINE u == SubSeq(w, b + 1, y - 1)
             v == SubSeq(whole, n + 1, x - a)
  <2>1. /\ u \in Seq(S) /\ Len(u) = (y - 1) - b
        /\ \A i \in 1..((y - 1) - b) : u[i] = w[b + i]
    <3>1. y - 1 \in Int /\ y - 1 <= Len(w) /\ b <= y - 1
      BY <1>1, <1>9
    <3> QED BY <1>1, <1>9, <3>1, PartFacts
  <2>2. x - a \in Int /\ (x - a) - n = (y - 1) - b
    BY <1>1, <1>9, <1>12
  <2>3. /\ v \in Seq(S) /\ Len(v) = (y - 1) - b
        /\ \A i \in 1..((y - 1) - b) : v[i] = whole[n + i]
    <3>1. /\ v \in Seq(S) /\ Len(v) = (x - a) - n
          /\ \A i \in 1..((x - a) - n) : v[i] = whole[n + i]
      <4>1. x - a <= Len(whole)
        BY <1>12, <1>13
      <4> HIDE DEF x, n
      <4> QED BY <1>12, <1>13, <2>2, <4>1, PartFacts
    <3> QED BY <2>2, <3>1
  <2>4. ASSUME NEW i \in 1..((y - 1) - b) PROVE u[i] = v[i]
    <3>1. /\ i \in Nat /\ b + i \in 1..Len(w) /\ n + i \in 1..(x - a)
          /\ d + (b + i) = a + (n + i)
      BY <1>1, <1>9, <1>12
    <3> HIDE DEF u, v, n, x
    <3>2. u[i] = s[d + (b + i)]
      BY <1>2, <2>1, <3>1
    <3>3. v[i] = s[a + (n + i)]
      BY <1>13, <2>3, <3>1
    <3> QED BY <3>1, <3>2, <3>3
  <2>5. u = v
    <3> HIDE DEF u, v, n, x
    <3> QED BY <2>1, <2>3, <2>4, SeqEqual
  <2> QED BY <1>6, <1>13, <2>5 DEF b, y
<1>16. n \in 0..Len(whole)
  BY <1>12, <1>13
<1> QED BY <1>14, <1>15, <1>16 DEF EndOf

\* The last end of a line.
LEMMA WindowLast ==
    ASSUME NEW S, NEW s, NEW p, NEW d, NEW w, Window(S, s, p, d, w)
    PROVE  LastOf(Ends(s)) = IF Ends(w) = {} THEN LastOf(Ends(p))
                             ELSE d + LastOf(Ends(w))
<1>1. /\ Len(Split(s)) = Len(Split(p)) + Len(Split(w))
      /\ Len(Split(p)) \in Nat /\ Len(Split(w)) \in Nat
      /\ Len(Split(s)) = Cardinality(Ends(s))
      /\ Len(Split(p)) = Cardinality(Ends(p))
      /\ Len(Split(w)) = Cardinality(Ends(w))
      /\ \A k \in 0..Len(Split(p)) : Kth(Ends(s), k) = Kth(Ends(p), k)
      /\ \A k \in 1..Len(Split(w)) :
            Kth(Ends(s), Len(Split(p)) + k) = d + Kth(Ends(w), k)
  BY WindowCount
<1>2. CASE Ends(w) = {}
  <2>1. Len(Split(w)) = 0
    BY <1>1, <1>2, FS_EmptySet
  <2>2. Len(Split(s)) = Len(Split(p)) /\ Len(Split(p)) \in 0..Len(Split(p))
    BY <1>1, <2>1
  <2> QED BY <1>1, <1>2, <2>2 DEF LastOf
<1>3. CASE Ends(w) # {}
  <2>1. Len(Split(w)) \in 1..Len(Split(w))
    <3>1. w \in Seq(S) /\ Len(w) \in Nat
      BY DEF Window
    <3>2. Ends(w) \in SUBSET (1..Len(w))
      BY <3>1, SplitFacts
    <3>3. PICK i \in Ends(w) : TRUE
      BY <1>3
    <3>4. Count(Ends(w), i) \in 1..Cardinality(Ends(w))
      BY <3>1, <3>2, KthIs
    <3> QED BY <1>1, <3>4
  <2> QED BY <1>1, <1>3, <2>1 DEF LastOf
<1> QED BY <1>2, <1>3

\* What is left is the end of the line being read, all of it unless it is too long.
LeavesEnd(left, s, limit) ==
    \E q \in LastOf(Ends(s))..Len(s) :
        /\ left = SubSeq(s, q + 1, Len(s))
        /\ Len(s) - LastOf(Ends(s)) <= limit => q = LastOf(Ends(s))

\* What feed() leaves in the buffer is again the stream after some position, and
\* nothing of the line it is in is lost unless more of it than the limit is read.
LEMMA WindowRest ==
    ASSUME NEW S, NEW s, NEW p, NEW d, NEW w, Window(S, s, p, d, w),
           NEW limit \in Nat,
           Begins(p, d, limit),
           NEW left, left = IF Len(Rest(w)) > limit THEN <<>> ELSE Rest(w)
    PROVE  LeavesEnd(left, s, limit)
<1> SUFFICES \E q \in LastOf(Ends(s))..Len(s) :
                /\ left = SubSeq(s, q + 1, Len(s))
                /\ Len(s) - LastOf(Ends(s)) <= limit => q = LastOf(Ends(s))
  BY DEF LeavesEnd
<1> DEFINE e == LastOf(Ends(p))
           f == LastOf(Ends(s))
           g == LastOf(Ends(w))
           m == Len(s)
<1>1. /\ s \in Seq(S) /\ p \in Seq(S) /\ w \in Seq(S)
      /\ m \in Nat /\ Len(p) \in Nat /\ Len(w) \in Nat
      /\ d \in Nat /\ d <= Len(p) /\ Len(p) <= m
      /\ Len(w) = m - d /\ e <= d
  BY DEF Window
<1>2. \A i \in 1..Len(w) : w[i] = s[d + i]
  BY DEF Window
<1>3. e \in 0..Len(p) /\ f \in 0..m /\ g \in 0..Len(w)
  BY <1>1, SplitFacts
<1>4. Rest(w) = SubSeq(w, g + 1, Len(w)) /\ Rest(w) \in Seq(S)
      /\ Len(Rest(w)) = Len(w) - g
  BY <1>1, SplitFacts DEF Rest
<1>5. /\ Ends(w) = {} => f = e /\ g = 0
      /\ Ends(w) # {} => f = d + g
  <2>1. LastOf(Ends(s)) = IF Ends(w) = {} THEN LastOf(Ends(p)) ELSE d + LastOf(Ends(w))
    BY WindowLast
  <2>2. Ends(w) = {} => LastOf(Ends(w)) = 0
    BY EmptyFacts, Zenon
  <2> QED BY <2>1, <2>2
<1> HIDE DEF e, f, g, m
<1>6. e \in Nat /\ f \in Nat /\ g \in Nat /\ g <= Len(w) /\ f <= d + g /\ d + g <= m
  <2>1. e \in Nat /\ f \in Nat /\ g \in Nat /\ g <= Len(w) /\ d + g <= m
    BY <1>1, <1>3
  <2>2. CASE Ends(w) = {}
    BY <1>1, <1>5, <2>1, <2>2
  <2>3. CASE Ends(w) # {}
    BY <1>1, <1>5, <2>1, <2>3
  <2> QED BY <2>1, <2>2, <2>3
<1>7. Len(p) - e <= limit => d = e
  BY DEF e, Begins
<1>8. CASE Len(Rest(w)) > limit
  <2>1. left = <<>>
    BY <1>8
  <2>2. SubSeq(s, m + 1, m) = <<>>
    <3>1. m + 1 \in Int /\ m \in Int /\ m < m + 1
      BY <1>1
    <3> QED BY <3>1, SubSeqEmpty
  <2>3. m \in f..m /\ ~(m - f <= limit)
    BY <1>1, <1>4, <1>6, <1>8
  <2> QED BY <2>1, <2>2, <2>3 DEF f, m
<1>9. CASE ~(Len(Rest(w)) > limit)
  <2>1. left = SubSeq(w, g + 1, Len(w))
    BY <1>4, <1>9
  <2>2. SubSeq(w, g + 1, Len(w)) = SubSeq(s, (d + g) + 1, m)
    <3> DEFINE u == SubSeq(w, g + 1, Len(w))
               v == SubSeq(s, (d + g) + 1, m)
    <3>1. u \in Seq(S) /\ Len(u) = Len(w) - g
          /\ \A i \in 1..(Len(w) - g) : u[i] = w[g + i]
      <4>1. Len(w) \in Int /\ Len(w) <= Len(w)
        BY <1>1
      <4> QED BY <1>1, <1>6, <4>1, PartFacts
    <3>2. v \in Seq(S) /\ Len(v) = m - (d + g)
          /\ \A i \in 1..(m - (d + g)) : v[i] = s[(d + g) + i]
      <4> DEFINE a == d + g
      <4>1. a \in Nat /\ m \in Int /\ m <= Len(s) /\ a <= m
        BY <1>1, <1>6 DEF m
      <4> HIDE DEF a
      <4>2. /\ SubSeq(s, a + 1, m) \in Seq(S) /\ Len(SubSeq(s, a + 1, m)) = m - a
            /\ \A i \in 1..(m - a) : SubSeq(s, a + 1, m)[i] = s[a + i]
        BY <1>1, <4>1, PartFacts
      <4> QED BY <4>2 DEF a
    <3>3. m - (d + g) = Len(w) - g
      BY <1>1, <1>6
    <3> HIDE DEF u, v
    <3>4. ASSUME NEW i \in 1..(Len(w) - g) PROVE u[i] = v[i]
      <4>1. g + i \in 1..Len(w) /\ d + (g + i) = (d + g) + i
        BY <1>1, <1>6
      <4>2. v[i] = s[(d + g) + i]
        BY <3>2, <3>3
      <4> QED BY <1>2, <3>1, <4>1, <4>2
    <3>5. u = v
      BY <3>1, <3>2, <3>3, <3>4, SeqEqual
    <3> QED BY <3>5 DEF u, v
  <2>3. d + g \in f..m
    BY <1>1, <1>6
  <2>4. ASSUME m - f <= limit PROVE d + g = f
    <3>1. CASE Ends(w) = {}
      <4>1. Len(p) - e <= limit
        BY <1>1, <1>5, <1>6, <2>4, <3>1
      <4> QED BY <1>1, <1>5, <1>7, <3>1, <4>1
    <3>2. CASE Ends(w) # {}
      BY <1>5, <3>2
    <3> QED BY <3>1, <3>2
  <2> QED BY <2>1, <2>2, <2>3, <2>4 DEF f, m
<1> QED BY <1>8, <1>9

\* What is found of a line, as LinesPreserved has it.
FoundOf(part, whole, limit) ==
    \E l \in 0..Len(Stripped(whole)) :
        /\ part = SubSeq(Stripped(whole), l + 1, Len(Stripped(whole)))
        /\ Len(whole) <= limit => l = 0

\* The lines found are again lines of the stream, in order, but for the beginnings
\* that were given up.
LEMMA WindowFound ==
    ASSUME NEW S, NEW s, NEW p, NEW d, NEW w, Window(S, s, p, d, w),
           NEW limit \in Nat,
           Begins(p, d, limit),
           NEW k \in 1..Len(Split(w)), NEW whole,
           whole = Split(s)[Len(Split(p)) + k]
    PROVE  FoundOf(Stripped(Split(w)[k]), whole, limit)
<1>1. PICK n \in 0..Len(whole) : /\ Split(w)[k] = SubSeq(whole, n + 1, Len(whole))
                                 /\ Len(whole) <= limit => n = 0
  <2>1. EndOf(Split(w)[k], whole, limit)
    BY WindowAfter
  <2> QED BY <2>1 DEF EndOf
<1>2. whole \in Seq(S)
  <2>1. /\ Len(Split(s)) = Len(Split(p)) + Len(Split(w))
        /\ Len(Split(p)) \in Nat /\ Len(Split(w)) \in Nat
    BY WindowCount
  <2>2. Len(Split(p)) + k \in 1..Len(Split(s))
    BY <2>1
  <2>3. s \in Seq(S)
    BY DEF Window
  <2>4. Split(s) \in Seq(Seq(S))
    BY <2>3, SplitFacts
  <2> QED BY <2>2, <2>4, ElementOfSeq
<1>3. \E l \in 0..Len(Stripped(whole)) :
         /\ Stripped(Split(w)[k]) = SubSeq(Stripped(whole), l + 1, Len(Stripped(whole)))
         /\ n = 0 => l = 0
  <2> DEFINE u == Split(w)[k]
  <2>1. u = SubSeq(whole, n + 1, Len(whole))
    BY <1>1
  <2> HIDE DEF u
  <2>2. \E l \in 0..Len(Stripped(whole)) :
         /\ Stripped(u) = SubSeq(Stripped(whole), l + 1, Len(Stripped(whole)))
         /\ n = 0 => l = 0
    BY <1>2, <2>1, StrippedEnd
  <2> QED BY <2>2 DEF u
<1> QED BY <1>1, <1>3 DEF FoundOf

\* rstrip() leaves a line.
LEMMA StrippedType ==
    ASSUME NEW S, NEW s \in Seq(S)
    PROVE  Stripped(s) \in Seq(S)
<1>1. Len(s) \in Nat /\ Plain(s) \in SUBSET (1..Len(s))
  BY LenProperties DEF Plain
<1>2. LastOf(Plain(s)) \in 0..Len(s)
  BY <1>1, LastFacts
<1>3. Stripped(s) = SubSeq(s, 1, LastOf(Plain(s)))
  BY DEF Stripped, Plain
<1> QED BY <1>2, <1>3, PrefixFacts

-----------------------------------------------------------------------------

Taken == SubSeq(stream, 1, read)

\* The buffer holds what was read after some position of the line being read: its
\* beginning, unless more of it than the limit was read.
BufferInv ==
    /\ got \in Seq(Seq(Bytes))
    /\ \E d \in LastOf(Ends(Taken))..read :
          /\ buffer = SubSeq(Taken, d + 1, read)
          /\ Begins(Taken, d, BufferLimit)

\* LinesPreserved, by the names of the proofs.
AllFound ==
    /\ Len(got) = Len(Split(Taken))
    /\ \A k \in 1..Len(Split(Taken)) : FoundOf(got[k], Split(Taken)[k], BufferLimit)

\* It is the same.
LEMMA LinesPreservedIs ==
    ASSUME Taken \in Seq(Bytes)
    PROVE  LinesPreserved <=> AllFound
<1>1. DOMAIN Split(Taken) = 1..Len(Split(Taken))
  BY SplitFacts
<1> QED BY <1>1, Zenon DEF LinesPreserved, AllFound, FoundOf, Taken

\* What was read is the first part of the stream.
LEMMA TakenFacts ==
    ASSUME StreamOK
    PROVE  /\ Taken \in Seq(Bytes) /\ Len(Taken) = read /\ read \in Nat
           /\ \A i \in 1..read : Taken[i] = stream[i]
BY PrefixFacts DEF StreamOK, Taken

\* A read from the port.
LEMMA ChunkStep ==
    ASSUME StreamOK, BufferInv, AllFound, NEW n \in 1..MaxStream, Chunk(n), StreamOK'
    PROVE  BufferInv' /\ AllFound'
<1> DEFINE s == Taken'
           chunk == SubSeq(stream, read + 1, read + n)
           w == buffer \o chunk
           lines == Split(w)
           more == [k \in DOMAIN lines |-> Stripped(lines[k])]
<1>1. /\ stream \in Seq(Bytes) /\ read \in Nat /\ n \in Nat /\ read + n <= Len(stream)
      /\ Len(stream) \in Nat /\ read' = read + n /\ stream' = stream
  BY LinesAssumption DEF LinesAssumption, StreamOK, Chunk
<1>2. /\ got' = got \o more
      /\ buffer' = IF Len(Rest(w)) > BufferLimit THEN <<>> ELSE Rest(w)
  BY DEF Chunk, Feed
<1>3. /\ Taken \in Seq(Bytes) /\ Len(Taken) = read
      /\ \A i \in 1..read : Taken[i] = stream[i]
  BY TakenFacts
<1>4. /\ s \in Seq(Bytes) /\ Len(s) = read + n
      /\ \A i \in 1..(read + n) : s[i] = stream[i]
  <2>1. s = SubSeq(stream, 1, read + n) /\ read + n \in 0..Len(stream)
    BY <1>1 DEF Taken
  <2> HIDE DEF s
  <2> QED BY <1>1, <2>1, PrefixFacts
<1>5. /\ chunk \in Seq(Bytes) /\ Len(chunk) = n
      /\ \A i \in 1..n : chunk[i] = stream[read + i]
  <2>1. read + n \in Int /\ read <= read + n /\ (read + n) - read = n
    BY <1>1
  <2>2. /\ chunk \in Seq(Bytes) /\ Len(chunk) = (read + n) - read
        /\ \A i \in 1..((read + n) - read) : chunk[i] = stream[read + i]
    BY <1>1, <2>1, PartFacts
  <2> HIDE DEF chunk
  <2> QED BY <2>1, <2>2
<1>6. PICK d \in LastOf(Ends(Taken))..read :
         /\ buffer = SubSeq(Taken, d + 1, read)
         /\ Begins(Taken, d, BufferLimit)
  BY DEF BufferInv
<1>7. d \in Nat /\ d <= read /\ LastOf(Ends(Taken)) <= d
  <2>1. LastOf(Ends(Taken)) \in 0..Len(Taken)
    BY <1>3, SplitFacts
  <2>2. LastOf(Ends(Taken)) \in Nat
    BY <1>1, <1>3, <2>1
  <2> QED BY <1>1, <2>2
<1>8. /\ buffer \in Seq(Bytes) /\ Len(buffer) = read - d
      /\ \A i \in 1..(read - d) : buffer[i] = Taken[d + i]
  <2>1. read \in Int /\ read <= Len(Taken)
    BY <1>1, <1>3
  <2> QED BY <1>3, <1>6, <1>7, <2>1, PartFacts
<1> HIDE DEF s, chunk
<1>9. Window(Bytes, s, Taken, d, w)
  <2>1. /\ w \in Seq(Bytes) /\ Len(w) = Len(buffer) + Len(chunk)
        /\ \A i \in 1..(Len(buffer) + Len(chunk)) :
              w[i] = IF i <= Len(buffer) THEN buffer[i] ELSE chunk[i - Len(buffer)]
    BY <1>5, <1>8, ConcatProperties
  <2> HIDE DEF w
  <2>2. Len(w) = Len(s) - d
    BY <1>1, <1>4, <1>5, <1>7, <1>8, <2>1
  <2>3. ASSUME NEW i \in 1..Len(w) PROVE w[i] = s[d + i]
    <3>0. i \in Nat /\ 1 <= i /\ i <= (read + n) - d
      BY <1>1, <1>4, <1>7, <2>2
    <3>1. d + i \in 1..(read + n)
      BY <1>1, <1>7, <3>0
    <3>2. CASE i <= Len(buffer)
      <4>1. i \in 1..(read - d) /\ d + i \in 1..read
        BY <1>1, <1>7, <1>8, <3>0, <3>2
      <4>2. w[i] = buffer[i]
        BY <2>1, <3>2
      <4> QED BY <1>3, <1>4, <1>8, <3>1, <4>1, <4>2
    <3>3. CASE ~(i <= Len(buffer))
      <4>1. i - Len(buffer) \in 1..n /\ read + (i - Len(buffer)) = d + i
        BY <1>1, <1>7, <1>8, <3>0, <3>3
      <4>2. w[i] = chunk[i - Len(buffer)]
        BY <2>1, <3>3
      <4> QED BY <1>4, <1>5, <3>1, <4>1, <4>2
    <3> QED BY <3>2, <3>3
  <2>4. \A i \in 1..Len(Taken) : Taken[i] = s[i]
    <3>1. \A i \in 1..read : i \in 1..(read + n)
      BY <1>1
    <3> QED BY <1>3, <1>4, <3>1
  <2>5. Len(Taken) <= Len(s) /\ d <= Len(Taken)
    BY <1>1, <1>3, <1>4, <1>7
  <2> QED BY <1>3, <1>4, <1>7, <2>1, <2>2, <2>3, <2>4, <2>5 DEF Window
<1>10. BufferLimit \in Nat
  BY LinesAssumption DEF LinesAssumption
<1> DEFINE left == buffer'
<1>11. \E q \in LastOf(Ends(s))..Len(s) :
          /\ left = SubSeq(s, q + 1, Len(s))
          /\ Len(s) - LastOf(Ends(s)) <= BufferLimit => q = LastOf(Ends(s))
  <2>1. left = IF Len(Rest(w)) > BufferLimit THEN <<>> ELSE Rest(w)
    BY <1>2
  <2>2. Begins(Taken, d, BufferLimit)
    BY <1>6
  <2> HIDE DEF left, w
  <2>3. LeavesEnd(left, s, BufferLimit)
    BY <1>9, <1>10, <2>1, <2>2, WindowRest
  <2> QED BY <2>3, Zenon DEF LeavesEnd
<1>12. w \in Seq(Bytes)
  BY <1>9 DEF Window
<1> DEFINE C == Len(Split(Taken))
           D == Len(lines)
<1>13. Len(Split(s)) = C + D /\ C \in Nat /\ D \in Nat
  <2> HIDE DEF w
  <2> QED BY <1>9, WindowCount
<1>14. /\ more \in Seq(Seq(Bytes)) /\ Len(more) = D
       /\ \A k \in 1..D : more[k] = Stripped(lines[k])
  <2>1. DOMAIN lines = 1..D /\ lines \in Seq(Seq(Bytes))
    <3> HIDE DEF w
    <3> QED BY <1>12, SplitFacts, LenProperties
  <2>2. \A k \in 1..D : Stripped(lines[k]) \in Seq(Bytes)
    <3>1. ASSUME NEW k \in 1..D PROVE Stripped(lines[k]) \in Seq(Bytes)
      <4>1. lines[k] \in Seq(Bytes)
        <5> HIDE DEF w, lines
        <5> QED BY <2>1, ElementOfSeq DEF D
      <4> QED BY <4>1, StrippedType
    <3> QED BY <3>1
  <2>3. more = [k \in 1..D |-> Stripped(lines[k])]
    BY <2>1
  <2> HIDE DEF w, lines, D
  <2> QED BY <1>13, <2>2, <2>3
<1>15. /\ got \in Seq(Seq(Bytes)) /\ Len(got) = C
       /\ \A k \in 1..C : FoundOf(got[k], Split(Taken)[k], BufferLimit)
  BY DEF BufferInv, AllFound
<1> HIDE DEF w, lines, more, C, D
<1>16. /\ got' \in Seq(Seq(Bytes)) /\ Len(got') = C + D
       /\ \A k \in 1..(C + D) : got'[k] = IF k <= C THEN got[k] ELSE more[k - C]
  BY <1>2, <1>14, <1>15, ConcatProperties
<1>17. ASSUME NEW k \in 1..(C + D)
       PROVE  FoundOf(got'[k], Split(s)[k], BufferLimit)
  <2>1. CASE k <= C
    <3>1. k \in 1..C
      BY <1>13, <2>1
    <3>2. Split(s)[k] = Split(Taken)[k]
      BY <1>9, <3>1, WindowBefore DEF C
    <3>3. got'[k] = got[k]
      BY <1>16, <2>1
    <3> QED BY <1>15, <3>1, <3>2, <3>3
  <2>2. CASE ~(k <= C)
    <3> DEFINE j == k - C
    <3>1. j \in 1..D /\ k = C + j
      BY <1>13, <2>2
    <3>2. got'[k] = Stripped(lines[j])
      BY <1>14, <1>16, <2>2, <3>1
    <3> HIDE DEF j
    <3>3. FoundOf(Stripped(Split(w)[j]), Split(s)[C + j], BufferLimit)
      <4> DEFINE whole == Split(s)[C + j]
      <4>1. whole = Split(s)[Len(Split(Taken)) + j] /\ j \in 1..Len(Split(w))
        BY <3>1 DEF C, D, lines
      <4>2. Begins(Taken, d, BufferLimit)
        BY <1>6
      <4> HIDE DEF whole
      <4>3. FoundOf(Stripped(Split(w)[j]), whole, BufferLimit)
        BY <1>9, <1>10, <4>1, <4>2, WindowFound
      <4> QED BY <4>3 DEF whole
    <3> QED BY <3>1, <3>2, <3>3 DEF lines
  <2> QED BY <2>1, <2>2
<1>18. AllFound'
  <2>1. AllFound' <=> /\ Len(got') = Len(Split(s))
                      /\ \A k \in 1..Len(Split(s)) :
                            FoundOf(got'[k], Split(s)[k], BufferLimit)
    BY DEF AllFound, s
  <2> QED BY <1>13, <1>16, <1>17, <2>1
<1>19. BufferInv'
  <2>1. PICK q \in LastOf(Ends(s))..Len(s) :
           /\ buffer' = SubSeq(s, q + 1, Len(s))
           /\ Len(s) - LastOf(Ends(s)) <= BufferLimit => q = LastOf(Ends(s))
    BY <1>11
  <2>2. Len(s) = read'
    BY <1>1, <1>4
  <2>3. Begins(s, q, BufferLimit)
    BY <2>1 DEF Begins
  <2>4. q \in LastOf(Ends(s))..read' /\ buffer' = SubSeq(s, q + 1, read')
    BY <2>1, <2>2
  <2>5. BufferInv' <=> /\ got' \in Seq(Seq(Bytes))
                       /\ \E x \in LastOf(Ends(s))..read' :
                             /\ buffer' = SubSeq(s, x + 1, read')
                             /\ Begins(s, x, BufferLimit)
    BY DEF BufferInv, s
  <2> QED BY <1>16, <2>3, <2>4, <2>5
<1> QED BY <1>18, <1>19

\* However the bytes were cut into chunks, the PC finds every line, and only a
\* longer one than the limit may have lost its beginning (serial_link.py:1).
THEOREM LinesPreservedHolds == LinesSpec => []LinesPreserved
<1>1. LinesInit => BufferInv /\ AllFound
  <2> SUFFICES ASSUME LinesInit PROVE BufferInv /\ AllFound
    OBVIOUS
  <2>1. stream = <<>> /\ read = 0 /\ buffer = <<>> /\ got = <<>>
    BY DEF LinesInit
  <2>2. SubSeq(<<>>, 1, 0) = <<>>
    <3>1. 1 \in Int /\ 0 \in Int /\ 0 < 1
      OBVIOUS
    <3> QED BY <3>1, SubSeqEmpty
  <2>3. Taken = <<>>
    BY <2>1, <2>2, Zenon DEF Taken
  <2>4. AllFound
    <3>1. Split(Taken) = <<>> /\ Len(<<>>) = 0
      BY <2>3, EmptyFacts
    <3> QED BY <2>1, <3>1 DEF AllFound
  <2>5. BufferInv
    <3>1. LastOf(Ends(Taken)) = 0
      BY <2>3, EmptyFacts, Zenon
    <3>2. 0 \in 0..0 /\ 0 + 1 = 1
      OBVIOUS
    <3>3. 0 \in LastOf(Ends(Taken))..read /\ buffer = SubSeq(Taken, 0 + 1, read)
      BY <2>1, <2>2, <2>3, <3>1, <3>2
    <3>4. Begins(Taken, 0, BufferLimit)
      BY <3>1 DEF Begins
    <3>5. got \in Seq(Seq(Bytes))
      BY <2>1
    <3> QED BY <3>3, <3>4, <3>5 DEF BufferInv
  <2> QED BY <2>4, <2>5
<1>2. StreamOK /\ StreamOK' /\ BufferInv /\ AllFound /\ [LinesNext]_linesVars
      => BufferInv' /\ AllFound'
  <2> SUFFICES ASSUME StreamOK, StreamOK', BufferInv, AllFound, [LinesNext]_linesVars
               PROVE  BufferInv' /\ AllFound'
    OBVIOUS
  <2>1. CASE Taken' = Taken /\ UNCHANGED <<read, buffer, got>>
    BY <2>1 DEF BufferInv, AllFound
  <2>2. ASSUME NEW c \in Letters \cup {NL, CR}, Byte(c) PROVE BufferInv' /\ AllFound'
    <3>1. /\ stream \in Seq(Bytes) /\ read \in 0..Len(stream) /\ c \in Bytes
          /\ stream' = Append(stream, c) /\ UNCHANGED <<read, buffer, got>>
      BY <2>2 DEF Byte, Bytes, StreamOK
    <3>2. /\ stream' \in Seq(Bytes) /\ Len(stream') = Len(stream) + 1
          /\ \A i \in 1..Len(stream) : stream'[i] = stream[i]
      BY <3>1, AppendProperties
    <3>3. /\ SubSeq(stream, 1, read) \in Seq(Bytes) /\ Len(SubSeq(stream, 1, read)) = read
          /\ \A i \in 1..read : SubSeq(stream, 1, read)[i] = stream[i]
      BY <3>1, PrefixFacts
    <3>4. /\ SubSeq(stream', 1, read) \in Seq(Bytes)
          /\ Len(SubSeq(stream', 1, read)) = read
          /\ \A i \in 1..read : SubSeq(stream', 1, read)[i] = stream'[i]
      <4>1. read \in 0..Len(stream')
        BY <3>1, <3>2
      <4> QED BY <3>2, <4>1, PrefixFacts
    <3>5. \A i \in 1..read : SubSeq(stream', 1, read)[i] = SubSeq(stream, 1, read)[i]
      <4>1. \A i \in 1..read : i \in 1..Len(stream)
        BY <3>1
      <4> QED BY <3>2, <3>3, <3>4, <4>1
    <3>6. SubSeq(stream', 1, read) = SubSeq(stream, 1, read)
      BY <3>3, <3>4, <3>5, SeqEqual
    <3>7. Taken' = Taken
      BY <3>1, <3>6 DEF Taken
    <3> QED BY <2>1, <3>1, <3>7
  <2>3. ASSUME NEW n \in 1..MaxStream, Chunk(n) PROVE BufferInv' /\ AllFound'
    BY <2>3, ChunkStep
  <2>4. CASE AllRead \/ UNCHANGED linesVars
    <3>1. UNCHANGED linesVars
      BY <2>4 DEF AllRead
    <3> QED BY <2>1, <3>1 DEF linesVars, Taken
  <2> QED BY <2>2, <2>3, <2>4 DEF LinesNext
<1>3. StreamOK /\ AllFound => LinesPreserved
  BY TakenFacts, LinesPreservedIs
<1> QED BY <1>1, <1>2, <1>3, StreamCorrect, PTL DEF LinesSpec
=============================================================================
