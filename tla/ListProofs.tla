------------------------------ MODULE ListProofs ------------------------------
(***************************************************************************)
(* What the proofs of several components need of numbers and lists.        *)
(***************************************************************************)
EXTENDS Ranks, FiniteSetTheorems, SequenceTheorems, WellFoundedInduction, TLAPS

-----------------------------------------------------------------------------
(* Numbers and lists.                                                      *)

\* Naturals, if there are any, have a least one; this stands for an induction.
LEMMA Least ==
    ASSUME NEW S, S \subseteq Nat, S # {}
    PROVE  \E m \in S : \A k \in S : m <= k
<1>. DEFINE R == OpToRel(<, Nat)
<1>1. IsWellFoundedOn(R, Nat)
  BY NatLessThanWellFounded
<1>2. \A i, j \in Nat : i < j => <<i, j>> \in R
  BY DEF OpToRel
<1>. HIDE DEF R
<1>3. PICK m \in S : \A k \in S : <<k, m>> \notin R
  BY <1>1, WFMin
<1>4. ASSUME NEW k \in S PROVE m <= k
  <2>1. m \in Nat /\ k \in Nat /\ <<k, m>> \notin R
    BY <1>3
  <2>. QED  BY <1>2, <2>1
<1>. QED  BY <1>4

\* And a greatest one if it has a bound.
LEMMA Greatest ==
    ASSUME NEW n \in Nat, NEW S, S \subseteq 1 .. n, S # {}
    PROVE  \E m \in S : \A k \in S : k <= m
<1>. DEFINE T == {n - k : k \in S}
<1>1. T \subseteq Nat
  BY \A k \in S : k \in 1 .. n /\ n - k \in Nat
<1>2. T # {}
  OBVIOUS
<1>3. PICK d \in T : \A e \in T : d <= e
  <2>. HIDE DEF T
  <2>. QED  BY <1>1, <1>2, Least
<1>4. PICK m \in S : d = n - m
  OBVIOUS
<1>5. ASSUME NEW k \in S PROVE k <= m
  <2>1. k \in 1 .. n /\ m \in 1 .. n /\ n - m <= n - k
    BY <1>3, <1>4
  <2>. QED  BY <2>1
<1>. QED  BY <1>5

\* Two lists, one behind the other.
LEMMA Joined ==
    ASSUME NEW T, NEW s \in Seq(T), NEW r \in Seq(T)
    PROVE  LET l == Len(s)
               both == s \o r
           IN  /\ l \in Nat /\ Len(r) \in Nat
               /\ both \in Seq(T) /\ Len(both) = l + Len(r)
               /\ \A i \in 1 .. l : both[i] = s[i]
               /\ \A i \in l + 1 .. Len(both) : i - l \in 1 .. Len(r) /\ both[i] = r[i - l]
<1>. DEFINE l == Len(s)
            k == Len(r)
            both == s \o r
<1>1. l \in Nat /\ k \in Nat
  OBVIOUS
<1>2. /\ both \in Seq(T) /\ Len(both) = l + k
      /\ \A i \in 1 .. l + k : both[i] = IF i <= l THEN s[i] ELSE r[i - l]
  BY ConcatProperties
<1>. HIDE DEF l, k, both
<1>3. \A i \in 1 .. l : i \in 1 .. l + k /\ i <= l
  BY <1>1
<1>4. \A i \in l + 1 .. l + k : i \in 1 .. l + k /\ ~(i <= l) /\ i - l \in 1 .. k
  BY <1>1
<1>. QED  BY <1>1, <1>2, <1>3, <1>4 DEF l, k, both

\* What is left of a sequence when the part of it before n + 1 is cut off.
LEMMA CutOff ==
    ASSUME NEW S, NEW s \in Seq(S), NEW n \in 0 .. Len(s)
    PROVE  /\ SubSeq(s, n + 1, Len(s)) \in Seq(S)
           /\ Len(SubSeq(s, n + 1, Len(s))) = Len(s) - n
           /\ \A k \in 1 .. Len(s) - n : SubSeq(s, n + 1, Len(s))[k] = s[n + k]
OBVIOUS

-----------------------------------------------------------------------------
(***************************************************************************)
(* What sorting by rank gives: every element once, and in order.  An       *)
(* element's rank is the number of those before it; ranks differ and are   *)
(* fewer than the elements, so each is the rank of somebody.               *)
(***************************************************************************)

\* R puts the elements of S in one order.
Orders(S, R) ==
    /\ \A x \in S : <<x, x>> \notin R
    /\ \A x, y, z \in S : <<x, y>> \in R /\ <<y, z>> \in R => <<x, z>> \in R
    /\ \A x, y \in S : x = y \/ <<x, y>> \in R \/ <<y, x>> \in R

Above(S, R, x) == {y \in S : <<y, x>> \in R}

\* Somebody has each rank, and whoever comes first has a smaller one.
LEMMA RanksDiffer ==
    ASSUME NEW S, IsFiniteSet(S), NEW R, Orders(S, R)
    PROVE  /\ Cardinality(S) \in Nat
           /\ \A x \in S : Cardinality(Above(S, R, x)) \in 0 .. Cardinality(S) - 1
           /\ \A x, y \in S : <<x, y>> \in R =>
                 Cardinality(Above(S, R, x)) < Cardinality(Above(S, R, y))
<1>1. Cardinality(S) \in Nat
  BY FS_CardinalityType
<1>2. ASSUME NEW x \in S
      PROVE  /\ IsFiniteSet(Above(S, R, x)) /\ Cardinality(Above(S, R, x)) \in Nat
             /\ Cardinality(Above(S, R, x)) \in 0 .. Cardinality(S) - 1
  <2>. DEFINE T == Above(S, R, x)
  <2>1. T \in SUBSET S /\ T # S
    BY DEF Above, Orders
  <2>. HIDE DEF T
  <2>2. /\ IsFiniteSet(T) /\ Cardinality(T) <= Cardinality(S)
        /\ Cardinality(T) # Cardinality(S)
    BY <2>1, FS_Subset
  <2>3. Cardinality(T) \in Nat
    BY <2>2, FS_CardinalityType
  <2>4. Cardinality(T) \in 0 .. Cardinality(S) - 1
    BY ONLY <1>1, <2>2, <2>3
  <2>. QED  BY <2>2, <2>3, <2>4 DEF T
<1>3. ASSUME NEW x \in S, NEW y \in S, <<x, y>> \in R
      PROVE  Cardinality(Above(S, R, x)) < Cardinality(Above(S, R, y))
  <2>. DEFINE T == Above(S, R, x)
              U == Above(S, R, y)
  <2>1. T \in SUBSET U /\ T # U
    BY <1>3 DEF Above, Orders
  <2>2. IsFiniteSet(U) /\ Cardinality(T) \in Nat /\ Cardinality(U) \in Nat
    BY <1>2
  <2>. HIDE DEF T, U
  <2>3. Cardinality(T) <= Cardinality(U) /\ Cardinality(T) # Cardinality(U)
    BY <2>1, <2>2, FS_Subset
  <2>4. Cardinality(T) < Cardinality(U)
    BY ONLY <2>2, <2>3
  <2>. QED  BY <2>4 DEF T, U
<1>. QED  BY <1>1, <1>2, <1>3

\* A sorted list has each element of the set once, whoever comes first first.
LEMMA Sorting ==
    ASSUME NEW S, IsFiniteSet(S), NEW R, Orders(S, R)
    PROVE  LET s == InOrder(S, R)
               c == Cardinality(S)
           IN  /\ c \in Nat /\ s \in [1 .. c -> S] /\ s \in Seq(S) /\ Len(s) = c
               /\ \A x \in S : \E n \in 1 .. c : s[n] = x
               /\ \A m, n \in 1 .. c : m < n => <<s[m], s[n]>> \in R
               /\ \A m, n \in 1 .. c : s[m] = s[n] => m = n
<1>. DEFINE c == Cardinality(S)
            rank == [x \in S |-> Cardinality(Above(S, R, x))]
            s == InOrder(S, R)
            f == [x \in S |-> rank[x] + 1]
<1>1. /\ c \in Nat /\ \A x \in S : rank[x] \in 0 .. c - 1
      /\ \A x, y \in S : <<x, y>> \in R => rank[x] < rank[y]
  BY RanksDiffer
<1>2. \A n \in 1 .. c : s[n] = CHOOSE x \in S : rank[x] = n - 1
  BY DEF InOrder, Above
<1>3. DOMAIN s = 1 .. c /\ s = [n \in 1 .. c |-> s[n]]
  <2>. DEFINE one(n) == CHOOSE x \in S : Cardinality({y \in S : <<y, x>> \in R}) = n - 1
  <2>1. s = [n \in 1 .. c |-> one(n)]
    BY DEF InOrder
  <2>. HIDE DEF one, s, c
  <2>. QED  BY ONLY <2>1
<1>4. \A x, y \in S : rank[x] = rank[y] => x = y
  <2>1. \A x, y \in S : x = y \/ <<x, y>> \in R \/ <<y, x>> \in R
    BY DEF Orders
  <2>2. \A x, y \in S : <<x, y>> \in R => rank[x] # rank[y]
    <3>. HIDE DEF rank, c
    <3>. QED  BY ONLY <1>1
  <2>. HIDE DEF rank, c
  <2>. QED  BY ONLY <2>1, <2>2
<1>. HIDE DEF rank, c, s
<1>5. f \in Injection(S, 1 .. c)
  <2>1. f \in [S -> 1 .. c]
    BY <1>1
  <2>2. \A x, y \in S : f[x] = f[y] => x = y
    BY <1>1, <1>4
  <2>. QED  BY <2>1, <2>2 DEF Injection, IsInjective
<1>6. f \in Surjection(S, 1 .. c)
  <2>. HIDE DEF f
  <2>1. IsFiniteSet(1 .. c) /\ Cardinality(1 .. c) = c
    BY <1>1, FS_Interval
  <2>2. Cardinality(S) = Cardinality(1 .. c)
    BY <2>1 DEF c
  <2>. QED  BY <1>5, <2>1, <2>2, FS_Injection
<1>7. \A n \in 1 .. c : \E x \in S : rank[x] = n - 1
  <2>1. \A x \in S : f[x] = rank[x] + 1 /\ rank[x] \in Nat
    BY <1>1
  <2>. HIDE DEF f
  <2>2. \A n \in 1 .. c : \E x \in S : f[x] = n
    BY <1>6 DEF Surjection
  <2>3. ASSUME NEW n \in 1 .. c PROVE \E x \in S : rank[x] = n - 1
    <3>1. PICK x \in S : f[x] = n
      BY <2>2
    <3>2. rank[x] \in Nat /\ n = rank[x] + 1
      BY <2>1, <3>1
    <3>3. rank[x] = n - 1
      BY ONLY <3>2
    <3>. QED  BY <3>3
  <2>. QED  BY <2>3
<1>8. \A n \in 1 .. c : s[n] \in S /\ rank[s[n]] = n - 1
  BY <1>2, <1>7
<1>9. s \in [1 .. c -> S]
  BY <1>3, <1>8
<1>10. s \in Seq(S) /\ Len(s) = c
  BY <1>1, <1>9
<1>11. ASSUME NEW x \in S PROVE \E n \in 1 .. c : s[n] = x
  <2>1. PICK k \in 0 .. c - 1 : k = rank[x]
    BY <1>1
  <2>2. k + 1 \in 1 .. c /\ k + 1 - 1 = k
    BY <1>1
  <2>3. s[k + 1] \in S /\ rank[s[k + 1]] = rank[x]
    BY <1>8, <2>1, <2>2
  <2>4. s[k + 1] = x
    BY <1>4, <2>3
  <2>. QED  BY <2>2, <2>4
<1>12. ASSUME NEW m \in 1 .. c, NEW n \in 1 .. c, s[m] = s[n] PROVE m = n
  BY <1>1, <1>8, <1>12
<1>13. ASSUME NEW m \in 1 .. c, NEW n \in 1 .. c, m < n PROVE <<s[m], s[n]>> \in R
  <2>1. s[m] \in S /\ s[n] \in S /\ rank[s[m]] = m - 1 /\ rank[s[n]] = n - 1
    BY <1>8
  <2>2. s[m] # s[n] /\ ~(rank[s[n]] < rank[s[m]])
    BY <1>13, <2>1
  <2>. QED  BY <1>1, <2>1, <2>2 DEF Orders
<1>. QED  BY <1>1, <1>9, <1>10, <1>11, <1>12, <1>13 DEF s, c

\* The places that a list keeps come in their order, and each has its element.
LEMMA Filtering ==
    ASSUME NEW T, NEW s \in Seq(T), NEW K, K \subseteq 1 .. Len(s)
    PROVE  LET a == Ascending(K)
               r == OnlyAt(s, K)
               c == Len(r)
           IN  /\ c \in Nat /\ r \in Seq(T) /\ a \in [1 .. c -> K]
               /\ \A n \in 1 .. c : r[n] = s[a[n]]
               /\ \A i \in K : \E n \in 1 .. c : a[n] = i
               /\ \A m, n \in 1 .. c : m < n => a[m] < a[n]
<1>. DEFINE R == {p \in K \X K : p[1] < p[2]}
            a == Ascending(K)
            c == Cardinality(K)
            r == OnlyAt(s, K)
<1>1. Len(s) \in Nat /\ DOMAIN s = 1 .. Len(s) /\ \A i \in K : i \in Nat /\ s[i] \in T
  OBVIOUS
<1>2. IsFiniteSet(K)
  <2>1. IsFiniteSet(1 .. Len(s))
    BY <1>1, FS_Interval
  <2>. QED  BY <2>1, FS_Subset
<1>3. \A x, y \in K : <<x, y>> \in R <=> x < y
  OBVIOUS
<1>4. Orders(K, R)
  <2>. HIDE DEF R
  <2>. QED  BY <1>1, <1>3 DEF Orders
<1>5. a = InOrder(K, R)
  BY DEF Ascending
<1>. HIDE DEF R, a
<1>6. /\ c \in Nat /\ a \in [1 .. c -> K]
      /\ \A i \in K : \E n \in 1 .. c : a[n] = i
      /\ \A m, n \in 1 .. c : m < n => <<a[m], a[n]>> \in R
  BY <1>2, <1>4, <1>5, Sorting
<1>7. r = [n \in 1 .. c |-> s[a[n]]]
  BY <1>6 DEF OnlyAt, a
<1>. HIDE DEF c, r
<1>8. \A n \in 1 .. c : a[n] \in K /\ r[n] = s[a[n]] /\ r[n] \in T
  BY <1>1, <1>6, <1>7
<1>9. r \in Seq(T) /\ Len(r) = c
  <2>1. r \in [1 .. c -> T]
    BY <1>7, <1>8
  <2>. QED  BY ONLY <1>6, <2>1
<1>10. \A m, n \in 1 .. c : m < n => a[m] < a[n]
  BY <1>3, <1>6
<1>. QED  BY <1>6, <1>8, <1>9, <1>10 DEF a, r

===============================================================================
