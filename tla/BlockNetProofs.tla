-------------------------- MODULE BlockNetProofs ---------------------------
(***************************************************************************)
(* Proofs about the HTTP block device, for every geometry of blocks and    *)
(* clusters, every size of the cache and every prefetch list.              *)
(***************************************************************************)
EXTENDS BlockNet, FiniteSetTheorems, WellFoundedInduction, TLAPS

-----------------------------------------------------------------------------
(* Division                                                                *)

LEMMA DivMod ==
    ASSUME NEW x \in Int, NEW m \in Nat \ {0}
    PROVE  /\ x \div m \in Int /\ x % m \in 0 .. m - 1
           /\ x = m * (x \div m) + (x % m)
  BY Z3

LEMMA DivUnique ==
    ASSUME NEW m \in Nat \ {0}, NEW q \in Int, NEW r \in 0 .. m - 1
    PROVE  (m * q + r) \div m = q /\ (m * q + r) % m = r
  BY Z3

LEMMA MulMono ==
    ASSUME NEW m \in Nat \ {0}, NEW a \in Int, NEW b \in Int, a < b
    PROVE  m * a + m <= m * b
<1>1. b - a >= 1 /\ b - a \in Int
  OBVIOUS
<1>2. m * (b - a) >= m
  BY <1>1, Z3
<1>3. m * (b - a) = m * b - m * a
  BY Z3
<1> QED
  BY <1>2, <1>3, Z3

\* The numbers of the geometry, and where a sector lies in it.
LEMMA Numbers ==
    /\ BlockSize \in Nat \ {0} /\ SectorsPerCluster \in Nat \ {0}
    /\ NbBlocks \in Nat \ {0} /\ MaxLen \in Nat
    /\ NbSectors \in Nat /\ NClusters \in Nat
    /\ NbSectors = SectorsPerCluster * NClusters
    /\ NbSectors = BlockSize * NbBlocks
<1>1. /\ BlockSize \in Nat \ {0} /\ SectorsPerCluster \in Nat \ {0}
      /\ NbBlocks \in Nat \ {0} /\ MaxLen \in Nat
      /\ NbSectors % SectorsPerCluster = 0
      /\ NbSectors = BlockSize * NbBlocks
  BY GeometryAssumption DEF NbSectors
<1>2. NbSectors \in Nat
  BY <1>1, Z3
<1>3. NbSectors = SectorsPerCluster * (NbSectors \div SectorsPerCluster) + 0
      /\ NbSectors \div SectorsPerCluster \in Int
  BY <1>1, <1>2, DivMod
<1>4. NClusters >= 0
  BY <1>1, <1>2, Z3 DEF NClusters
<1> QED
  BY <1>1, <1>2, <1>3, <1>4 DEF NClusters

LEMMA InCluster ==
    ASSUME NEW s \in Sector
    PROVE  /\ s \div SectorsPerCluster \in 0 .. NClusters - 1
           /\ s % SectorsPerCluster \in 0 .. SectorsPerCluster - 1
           /\ s = SectorsPerCluster * (s \div SectorsPerCluster) + (s % SectorsPerCluster)
<1> DEFINE q == s \div SectorsPerCluster
           r == s % SectorsPerCluster
<1>1. s \in Nat /\ s < NbSectors
  BY Numbers DEF Sector
<1>2. q \in Int /\ r \in 0 .. SectorsPerCluster - 1 /\ s = SectorsPerCluster * q + r
  BY <1>1, Numbers, DivMod
<1>3. q >= 0
  BY <1>1, Numbers, Z3
<1> HIDE DEF q, r
<1>4. q < NClusters
  <2> SUFFICES ASSUME q >= NClusters PROVE FALSE
    BY <1>2, Numbers
  <2>1. SectorsPerCluster * q >= SectorsPerCluster * NClusters
    BY <1>2, Numbers, Z3
  <2> QED
    BY <2>1, <1>1, <1>2, Numbers, Z3
<1> QED
  BY <1>2, <1>3, <1>4, Numbers DEF q, r

LEMMA InBlock ==
    ASSUME NEW s \in Sector
    PROVE  /\ s \div BlockSize \in Block
           /\ s % BlockSize \in 0 .. BlockSize - 1
           /\ s = BlockSize * (s \div BlockSize) + (s % BlockSize)
<1> DEFINE q == s \div BlockSize
           r == s % BlockSize
<1>1. s \in Nat /\ s < NbSectors
  BY Numbers DEF Sector
<1>2. q \in Int /\ r \in 0 .. BlockSize - 1 /\ s = BlockSize * q + r
  BY <1>1, Numbers, DivMod
<1>3. q >= 0
  BY <1>1, Numbers, Z3
<1> HIDE DEF q, r
<1>4. q < NbBlocks
  <2> SUFFICES ASSUME q >= NbBlocks PROVE FALSE
    BY <1>2, Numbers
  <2>1. BlockSize * q >= BlockSize * NbBlocks
    BY <1>2, Numbers, Z3
  <2> QED
    BY <2>1, <1>1, <1>2, Numbers, Z3
<1> QED
  BY <1>2, <1>3, <1>4, Numbers DEF q, r, Block

\* Sectors that follow s in its cluster or block.
LEMMA SameCluster ==
    ASSUME NEW s \in Sector, NEW k \in Nat,
           k < SectorsPerCluster - (s % SectorsPerCluster)
    PROVE  /\ (s + k) \div SectorsPerCluster = s \div SectorsPerCluster
           /\ (s + k) % SectorsPerCluster = (s % SectorsPerCluster) + k
           /\ s + k \in Sector
<1> DEFINE q == s \div SectorsPerCluster
           r == s % SectorsPerCluster
<1>1. q \in 0 .. NClusters - 1 /\ r \in 0 .. SectorsPerCluster - 1
      /\ s = SectorsPerCluster * q + r
  BY InCluster
<1>2. k < SectorsPerCluster - r
  OBVIOUS
<1> HIDE DEF q, r
<1>3. s + k = SectorsPerCluster * q + (r + k)
  BY <1>1, Numbers, Z3
<1>4. r + k \in 0 .. SectorsPerCluster - 1
  BY <1>1, <1>2, Numbers
<1>5. (s + k) \div SectorsPerCluster = q /\ (s + k) % SectorsPerCluster = r + k
  <2>1. /\ (SectorsPerCluster * q + (r + k)) \div SectorsPerCluster = q
        /\ (SectorsPerCluster * q + (r + k)) % SectorsPerCluster = r + k
    <3>1. q \in Int /\ SectorsPerCluster \in Nat \ {0}
      BY <1>1, Numbers
    <3> QED
      BY <3>1, <1>4, DivUnique, Zenon
  <2> QED
    BY <1>3, <2>1, Zenon
<1>6. s + k < NbSectors
  <2>1. SectorsPerCluster * q + SectorsPerCluster <= SectorsPerCluster * NClusters
    BY <1>1, Numbers, MulMono
  <2>2. SectorsPerCluster * q \in Int
    BY <1>1, Numbers, Z3
  <2> QED
    BY <1>3, <1>4, <2>1, <2>2, Numbers
<1>7. s + k \in Sector
  BY <1>6, Numbers DEF Sector
<1> QED
  BY <1>5, <1>7 DEF q, r

-----------------------------------------------------------------------------
(* Picking the entries of a sequence at a set of positions                 *)

LEMMA LeastElement ==
    ASSUME NEW T, T \subseteq Nat, T # {}
    PROVE  \E n \in T : \A m \in T : n <= m
<1>1. PICK n \in T : \A m \in T : ~(<<m, n>> \in OpToRel(<, Nat))
  BY WFMin, NatLessThanWellFounded
<1>2. ASSUME NEW m \in T PROVE n <= m
  <2>1. n \in Nat /\ m \in Nat
    OBVIOUS
  <2>2. m < n => <<m, n>> \in OpToRel(<, Nat)
    BY <2>1, SMT DEF OpToRel
  <2>3. ~(m < n)
    BY <1>1, <2>2, Zenon
  <2> QED
    BY <2>1, <2>3
<1> QED
  BY <1>2

\* The rank of a position.
Rank(K, i) == Cardinality({j \in K : j <= i})

LEMMA RankFinite ==
    ASSUME NEW n \in Nat, NEW K, \A j \in K : j \in 1 .. n, NEW i \in Int
    PROVE  /\ IsFiniteSet(K) /\ Cardinality(K) \in Nat
           /\ IsFiniteSet({j \in K : j <= i}) /\ Rank(K, i) \in Nat
           /\ Rank(K, i) <= Cardinality(K)
<1>1. IsFiniteSet(1 .. n) /\ K \in SUBSET (1 .. n)
  BY FS_Interval
<1>2. IsFiniteSet(K)
  BY <1>1, FS_Subset
<1>3. {j \in K : j <= i} \in SUBSET K
  OBVIOUS
<1>4. IsFiniteSet({j \in K : j <= i}) /\ Cardinality({j \in K : j <= i}) <= Cardinality(K)
  BY <1>2, <1>3, FS_Subset
<1> QED
  BY <1>2, <1>4, FS_CardinalityType DEF Rank

LEMMA RankStep ==
    ASSUME NEW n \in Nat, NEW K, \A j \in K : j \in 1 .. n, NEW i \in Int
    PROVE  Rank(K, i) = IF i \in K THEN Rank(K, i - 1) + 1 ELSE Rank(K, i - 1)
<1> DEFINE A == {j \in K : j <= i - 1}
           B == {j \in K : j <= i}
<1>1. IsFiniteSet(A) /\ Cardinality(A) = Rank(K, i - 1) /\ Rank(K, i - 1) \in Nat
  BY RankFinite DEF Rank
<1>2. Cardinality(B) = Rank(K, i)
  BY DEF Rank
<1>3. \A j \in K : j \in Int
  OBVIOUS
<1>4. CASE i \in K
  <2>1. \A j \in K : j <= i <=> (j <= i - 1 \/ j = i)
    BY <1>3
  <2>2. i \notin A
    OBVIOUS
  <2>3. B = A \cup {i}
    BY <1>4, <2>1, Zenon
  <2> HIDE DEF A, B
  <2> QED
    BY <1>1, <1>2, <1>4, <2>2, <2>3, FS_AddElement
<1>5. CASE i \notin K
  <2>1. \A j : j \in B <=> j \in A
    BY <1>3, <1>5
  <2> HIDE DEF A, B
  <2>2. B = A
    BY <2>1
  <2> QED
    BY <1>1, <1>2, <1>5, <2>2
<1> QED
  BY <1>4, <1>5

LEMMA RankMonotone ==
    ASSUME NEW n \in Nat, NEW K, \A j \in K : j \in 1 .. n,
           NEW i \in K, NEW k \in K, i < k
    PROVE  Rank(K, i) < Rank(K, k)
<1> DEFINE A == {j \in K : j <= i}
           B == {j \in K : j <= k - 1}
<1>1. i \in Int /\ k \in Int /\ k - 1 \in Int /\ \A j \in K : j \in Int
  OBVIOUS
<1>2. Rank(K, k) = Rank(K, k - 1) + 1
  BY <1>1, RankStep
<1>3. A \in SUBSET B
  <2>1. \A j \in K : j <= i => j <= k - 1
    BY <1>1
  <2> QED
    BY <2>1, Zenon
<1>4. IsFiniteSet(A) /\ IsFiniteSet(B) /\ Cardinality(A) = Rank(K, i)
      /\ Cardinality(B) = Rank(K, k - 1) /\ Rank(K, i) \in Nat /\ Rank(K, k - 1) \in Nat
  BY <1>1, RankFinite DEF Rank
<1> HIDE DEF A, B
<1>5. Cardinality(A) <= Cardinality(B)
  BY <1>3, <1>4, FS_Subset
<1> QED
  BY <1>2, <1>4, <1>5

\* Every number up to the size of K is the rank of one position of K.
LEMMA RankOnto ==
    ASSUME NEW n \in Nat, NEW K, \A j \in K : j \in 1 .. n, NEW k \in 1 .. Cardinality(K)
    PROVE  \E i \in K : Rank(K, i) = k
<1> DEFINE T == {i \in Nat : Rank(K, i) >= k}
<1>1. Cardinality(K) \in Nat /\ k \in Nat /\ k >= 1 /\ k <= Cardinality(K)
  <2>1. Cardinality(K) \in Nat
    BY RankFinite, 0 \in Int
  <2> QED
    BY <2>1
<1>2. \A j \in K : j \in Nat /\ 1 <= j /\ j <= n
  OBVIOUS
<1>3. n \in T
  <2>1. {j \in K : j <= n} = K
    BY <1>2
  <2>2. Rank(K, n) = Cardinality(K)
    BY <2>1 DEF Rank
  <2> QED
    BY <1>1, <2>2
<1>4. PICK i \in T : \A m \in T : i <= m
  BY <1>3, LeastElement
<1>5. i \in Nat /\ Rank(K, i) >= k /\ Rank(K, i) \in Nat
  <2>1. i \in Nat /\ i \in Int /\ Rank(K, i) >= k
    BY <1>4
  <2> QED
    BY <2>1, RankFinite
<1>6. i # 0
  <2>1. {j \in K : j <= 0} = {}
    BY <1>2
  <2>2. Rank(K, 0) = 0
    BY <2>1, FS_EmptySet DEF Rank
  <2> QED
    BY <1>1, <1>5, <2>2
<1>7. i - 1 \in Nat /\ ~(i <= i - 1)
  BY <1>5, <1>6
<1>8. i - 1 \notin T
  BY <1>4, <1>7
<1>9. Rank(K, i - 1) \in Nat
  BY <1>7, RankFinite, i - 1 \in Int
<1>10. Rank(K, i - 1) < k
  BY <1>1, <1>7, <1>8, <1>9
<1>11. Rank(K, i) = IF i \in K THEN Rank(K, i - 1) + 1 ELSE Rank(K, i - 1)
  BY <1>5, RankStep
<1> QED
  BY <1>1, <1>5, <1>9, <1>10, <1>11

\* Pick returns the entries at the positions, and no others.
LEMMA PickMembers ==
    ASSUME NEW S, NEW c \in Seq(S), NEW K, K \subseteq DOMAIN c
    PROVE  Pick(c, K) \in Seq(S) /\ ToSet(Pick(c, K)) = {c[i] : i \in K}
<1> DEFINE n == Len(c)
           C == Cardinality(K)
           p(k) == CHOOSE i \in K : Rank(K, i) = k
<1>1. n \in Nat /\ DOMAIN c = 1 .. n
  OBVIOUS
<1>2. \A j \in K : j \in 1 .. n
  BY <1>1
<1> HIDE DEF n
<1>3. C \in Nat
  BY <1>1, <1>2, RankFinite, 0 \in Int
<1>4. Pick(c, K) = [k \in 1 .. C |-> c[p(k)]]
  BY DEF Pick, Rank
<1>5. \A k \in 1 .. C : p(k) \in K /\ Rank(K, p(k)) = k
  <2> SUFFICES ASSUME NEW k \in 1 .. C PROVE p(k) \in K /\ Rank(K, p(k)) = k
    OBVIOUS
  <2>1. \E i \in K : Rank(K, i) = k
    BY <1>1, <1>2, RankOnto
  <2> QED
    BY <2>1, Zenon
<1>6. ASSUME NEW i \in K PROVE \E k \in 1 .. C : p(k) = i
  <2>1. i \in Int /\ i - 1 \in Int
    BY <1>2
  <2>2. Rank(K, i) = Rank(K, i - 1) + 1
    BY <1>1, <1>2, <2>1, RankStep
  <2>3. Rank(K, i) \in Nat /\ Rank(K, i - 1) \in Nat /\ Rank(K, i) <= C
    BY <1>1, <1>2, <2>1, RankFinite
  <2>4. Rank(K, i) \in 1 .. C
    BY <1>3, <2>2, <2>3
  <2>5. PICK x \in K : x = p(Rank(K, i)) /\ Rank(K, x) = Rank(K, i)
    BY <1>5, <2>4
  <2>6. ~(x < i) /\ ~(i < x)
    BY <1>1, <1>2, <2>3, <2>5, RankMonotone
  <2>7. x = i
    BY <1>2, <2>1, <2>6
  <2> QED
    BY <2>4, <2>5, <2>7
<1> HIDE DEF p, C
<1>7. \A k \in 1 .. C : c[p(k)] \in S
  BY <1>1, <1>2, <1>5
<1>8. Pick(c, K) \in [1 .. C -> S]
  BY <1>4, <1>7
<1>9. Pick(c, K) \in Seq(S)
  BY <1>3, <1>8
<1>10. ToSet(Pick(c, K)) = {c[p(k)] : k \in 1 .. C}
  BY <1>4 DEF ToSet
<1> QED
  BY <1>5, <1>6, <1>9, <1>10

-----------------------------------------------------------------------------
(* The cache                                                               *)

Entry(b) == [block_num |-> b, state |-> "LOADING"]

LEMMA LoadingMember == ASSUME NEW b PROVE Loading(b) <=> Entry(b) \in ToSet(cached_blocks)
  BY DEF Loading, Entry, ToSet

LEMMA Concat ==
    ASSUME NEW S, NEW s \in Seq(S), NEW t \in Seq(S)
    PROVE  /\ s \o t \in Seq(S) /\ Len(s \o t) = Len(s) + Len(t)
           /\ \A k \in 1 .. Len(s) : (s \o t)[k] = s[k]
           /\ \A k \in 1 .. Len(t) : (s \o t)[Len(s) + k] = t[k]
  OBVIOUS

\* Moving an entry to the front keeps the entries.
LEMMA MoveToFront ==
    ASSUME NEW S, NEW c \in Seq(S), NEW i \in DOMAIN c
    PROVE  /\ <<c[i]>> \o RemoveAt(c, i) \in Seq(S)
           /\ ToSet(<<c[i]>> \o RemoveAt(c, i)) = ToSet(c)
<1> DEFINE n == Len(c)
           a == SubSeq(c, 1, i - 1)
           z == SubSeq(c, i + 1, n)
           e == a \o z
           f == <<c[i]>>
           d == f \o e
<1>1. n \in Nat /\ DOMAIN c = 1 .. n /\ i \in 1 .. n /\ c[i] \in S
  OBVIOUS
<1>2. a \in Seq(S) /\ Len(a) = i - 1 /\ \A k \in 1 .. i - 1 : a[k] = c[k]
  BY <1>1
<1>3. z \in Seq(S) /\ Len(z) = n - i /\ \A k \in 1 .. n - i : z[k] = c[i + k]
  BY <1>1
<1> HIDE DEF a, z, n
<1>4. /\ e \in Seq(S) /\ Len(e) = n - 1
      /\ \A k \in 1 .. i - 1 : e[k] = c[k]
      /\ \A k \in 1 .. n - i : e[(i - 1) + k] = c[i + k]
  <2>1. /\ e \in Seq(S) /\ Len(e) = Len(a) + Len(z)
        /\ \A k \in 1 .. Len(a) : e[k] = a[k]
        /\ \A k \in 1 .. Len(z) : e[Len(a) + k] = z[k]
    <3>1. a \in Seq(S) /\ z \in Seq(S)
      BY <1>2, <1>3
    <3> QED
      BY <3>1
  <2>2. (i - 1) + (n - i) = n - 1
    BY <1>1
  <2>3. /\ Len(e) = (i - 1) + (n - i)
        /\ \A k \in 1 .. i - 1 : e[k] = a[k]
        /\ \A k \in 1 .. n - i : e[(i - 1) + k] = z[k]
    BY <1>2, <1>3, <2>1, Zenon
  <2> QED
    BY <1>2, <1>3, <2>1, <2>2, <2>3, Zenon
<1>5. f \in Seq(S) /\ Len(f) = 1 /\ f[1] = c[i]
  BY <1>1
<1> HIDE DEF e, f
<1>6. /\ d \in Seq(S) /\ Len(d) = n /\ d[1] = c[i]
      /\ \A k \in 1 .. n - 1 : d[1 + k] = e[k]
  <2>1. e \in Seq(S) /\ f \in Seq(S)
    BY <1>4, <1>5
  <2>2. /\ d \in Seq(S) /\ Len(d) = Len(f) + Len(e)
        /\ \A k \in 1 .. Len(f) : d[k] = f[k]
        /\ \A k \in 1 .. Len(e) : d[Len(f) + k] = e[k]
    BY <2>1
  <2> HIDE DEF d
  <2> QED
    BY <1>1, <1>4, <1>5, <2>2
<1> HIDE DEF d
<1>7. \A k \in 1 .. n : /\ k < i => d[1 + k] = c[k]
                        /\ k > i => d[k] = c[k]
  <2> SUFFICES ASSUME NEW k \in 1 .. n
               PROVE  (k < i => d[1 + k] = c[k]) /\ (k > i => d[k] = c[k])
    OBVIOUS
  <2>1. CASE k < i
    <3>1. k \in 1 .. i - 1 /\ k \in 1 .. n - 1 /\ ~(k > i)
      BY <1>1, <2>1
    <3>2. e[k] = c[k] /\ d[1 + k] = e[k]
      BY <1>4, <1>6, <3>1
    <3> QED
      BY <3>1, <3>2
  <2>2. CASE k > i
    <3>1. k - i \in 1 .. n - i /\ k - 1 \in 1 .. n - 1
          /\ (i - 1) + (k - i) = k - 1 /\ i + (k - i) = k /\ 1 + (k - 1) = k
      BY <1>1, <2>2
    <3>2. e[k - 1] = c[k]
      BY <1>4, <3>1
    <3> QED
      BY <1>1, <1>6, <2>2, <3>1, <3>2
  <2> QED
    BY <1>1, <2>1, <2>2
<1>8. \A k \in 1 .. n : \E l \in 1 .. n : d[k] = c[l]
  <2> SUFFICES ASSUME NEW k \in 1 .. n PROVE \E l \in 1 .. n : d[k] = c[l]
    OBVIOUS
  <2>1. CASE k = 1
    BY <1>1, <1>6, <2>1
  <2>2. CASE k # 1 /\ k <= i
    <3>1. k - 1 \in 1 .. n /\ k - 1 < i /\ 1 + (k - 1) = k
      BY <1>1, <2>2
    <3>2. d[1 + (k - 1)] = c[k - 1]
      BY <1>7, <3>1, Zenon
    <3> QED
      BY <3>1, <3>2, Zenon
  <2>3. CASE k > i
    BY <1>7, <2>3
  <2> QED
    BY <1>1, <2>1, <2>2, <2>3
<1>9. \A l \in 1 .. n : \E k \in 1 .. n : d[k] = c[l]
  <2> SUFFICES ASSUME NEW l \in 1 .. n PROVE \E k \in 1 .. n : d[k] = c[l]
    OBVIOUS
  <2>1. CASE l = i
    BY <1>1, <1>6, <2>1
  <2>2. CASE l < i
    <3>1. 1 + l \in 1 .. n
      BY <1>1, <2>2
    <3>2. d[1 + l] = c[l]
      BY <1>7, <2>2, Zenon
    <3> QED
      BY <3>1, <3>2, Zenon
  <2>3. CASE l > i
    BY <1>7, <2>3
  <2> QED
    BY <1>1, <2>1, <2>2, <2>3
<1>10. ToSet(d) = {d[k] : k \in 1 .. n} /\ ToSet(c) = {c[k] : k \in 1 .. n}
  BY <1>1, <1>6 DEF ToSet
<1>11. ToSet(d) = ToSet(c)
  BY <1>8, <1>9, <1>10
<1> QED
  BY <1>6, <1>11 DEF RemoveAt, d, e, f, a, z, n

LEMMA FindMembers ==
    ASSUME NEW b, cached_blocks \in Seq(CachedBlock)
    PROVE  /\ bf_find_block(b) \in Seq(CachedBlock)
           /\ ToSet(bf_find_block(b)) = ToSet(cached_blocks)
<1>1. CASE Found(b)
  <2> DEFINE i == CHOOSE i \in DOMAIN cached_blocks : cached_blocks[i].block_num = b
  <2>1. i \in DOMAIN cached_blocks
    BY <1>1, Zenon DEF Found
  <2>2. bf_find_block(b) = <<cached_blocks[i]>> \o RemoveAt(cached_blocks, i)
    BY <1>1, Zenon DEF bf_find_block
  <2> HIDE DEF i
  <2> QED
    BY <2>1, <2>2, MoveToFront
<1>2. CASE ~Found(b)
  BY <1>2 DEF bf_find_block
<1> QED
  BY <1>1, <1>2

\* Eviction keeps every block that is loading.
LEMMA EvictLoading ==
    ASSUME NEW c \in Seq(CachedBlock)
    PROVE  /\ Evict(c) \in Seq(CachedBlock)
           /\ \A x : Entry(x) \in ToSet(Evict(c)) <=> Entry(x) \in ToSet(c)
<1> DEFINE excess == Len(c) - CacheMax + 1
           loaded == {i \in DOMAIN c : c[i].state = "LOADED"}
           freed  == {i \in loaded : Cardinality({j \in loaded : j >= i}) <= excess}
           K      == DOMAIN c \ freed
<1>1. Evict(c) = Pick(c, K) /\ K \subseteq DOMAIN c
  BY DEF Evict
<1>2. \A i \in DOMAIN c : i \notin K => c[i].state = "LOADED"
  OBVIOUS
<1> HIDE DEF K
<1>3. Pick(c, K) \in Seq(CachedBlock) /\ ToSet(Pick(c, K)) = {c[i] : i \in K}
  BY <1>1, PickMembers
<1>4. ToSet(c) = {c[i] : i \in DOMAIN c}
  BY DEF ToSet
<1>5. \A x : Entry(x).state # "LOADED"
  BY DEF Entry
<1>6. \A x : Entry(x) \in {c[i] : i \in K} <=> Entry(x) \in {c[i] : i \in DOMAIN c}
  BY <1>1, <1>2, <1>5, Zenon
<1> QED
  BY <1>1, <1>3, <1>4, <1>6

LEMMA AddLoading ==
    ASSUME NEW b \in Block, cached_blocks \in Seq(CachedBlock)
    PROVE  /\ bf_add_block(b) \in Seq(CachedBlock)
           /\ \A x : Entry(x) \in ToSet(bf_add_block(b))
                        <=> (x = b \/ Entry(x) \in ToSet(cached_blocks))
<1> DEFINE e == Evict(cached_blocks)
           d == <<Entry(b)>> \o e
<1>1. e \in Seq(CachedBlock)
      /\ \A x : Entry(x) \in ToSet(e) <=> Entry(x) \in ToSet(cached_blocks)
  BY EvictLoading
<1>2. bf_add_block(b) = d
  BY DEF bf_add_block, Entry
<1>3. Entry(b) \in CachedBlock
  BY DEF Entry, CachedBlock
<1> HIDE DEF e
<1>4. /\ d \in Seq(CachedBlock) /\ Len(d) = Len(e) + 1 /\ d[1] = Entry(b)
      /\ \A k \in 1 .. Len(e) : d[k + 1] = e[k]
  BY <1>1, <1>3
<1>5. \A k \in 1 .. Len(d) : k = 1 \/ (k - 1 \in 1 .. Len(e) /\ d[k] = e[k - 1])
  BY <1>1, <1>4
<1> HIDE DEF d
<1>6. \A y : y \in ToSet(d) <=> (y = Entry(b) \/ y \in ToSet(e))
  <2>1. Len(e) \in Nat /\ DOMAIN d = 1 .. Len(d) /\ DOMAIN e = 1 .. Len(e) /\ 1 \in DOMAIN d
    BY <1>1, <1>4
  <2>2. \A k \in DOMAIN d : d[k] = Entry(b) \/ d[k] \in ToSet(e)
    BY <1>4, <1>5, <2>1 DEF ToSet
  <2>3. \A k \in DOMAIN e : k + 1 \in DOMAIN d /\ d[k + 1] = e[k]
    BY <1>4, <2>1
  <2> QED
    BY <1>4, <2>1, <2>2, <2>3 DEF ToSet
<1>7. \A x : Entry(x) = Entry(b) <=> x = b
  BY DEF Entry
<1> QED
  BY <1>1, <1>2, <1>4, <1>6, <1>7

LEMMA SetLoadedMembers ==
    ASSUME NEW b, cached_blocks \in Seq(CachedBlock)
    PROVE  /\ SetLoaded(b) \in Seq(CachedBlock)
           /\ \A x : Entry(x) \in ToSet(SetLoaded(b))
                        <=> (x # b /\ Entry(x) \in ToSet(cached_blocks))
<1> DEFINE c == cached_blocks
           d == SetLoaded(b)
<1>1. c \in Seq(CachedBlock) /\ Len(c) \in Nat /\ DOMAIN c = 1 .. Len(c)
  OBVIOUS
<1>2. /\ DOMAIN d = DOMAIN c
      /\ \A i \in DOMAIN c : d[i] = IF c[i].block_num = b THEN [c[i] EXCEPT !.state = "LOADED"]
                                    ELSE c[i]
  BY Zenon DEF SetLoaded
<1>3. \A i \in DOMAIN c : c[i] \in CachedBlock
  BY <1>1
<1> HIDE DEF d
<1>4. \A e \in CachedBlock : /\ [e EXCEPT !.state = "LOADED"] \in CachedBlock
                             /\ \A x : [e EXCEPT !.state = "LOADED"] # Entry(x)
                             /\ \A x : e = Entry(x) => e.block_num = x
  BY DEF CachedBlock, Entry
<1>5. \A i \in DOMAIN c : d[i] \in CachedBlock
  BY <1>2, <1>3, <1>4, Zenon
<1>6. d = [i \in 1 .. Len(c) |-> d[i]]
  BY <1>1, <1>2 DEF d, SetLoaded
<1>7. d \in Seq(CachedBlock)
  BY <1>1, <1>5, <1>6
<1>8. \A x : (\E i \in DOMAIN d : d[i] = Entry(x))
             <=> (x # b /\ \E i \in DOMAIN c : c[i] = Entry(x))
  BY <1>2, <1>3, <1>4, Zenon
<1> QED
  BY <1>7, <1>8 DEF ToSet, d

-----------------------------------------------------------------------------
(* The request being served and the blocks that are awaited                *)

\* The request stays on the disk: what is left of it fits behind sector_num.
RequestOK ==
    /\ pc \in {"init", "rw", "client", "out"} /\ busy \in BOOLEAN
    /\ sector_count \in 0 .. MaxLen
    /\ sector_index \in 0 .. sector_count
    /\ sector_num \in sector_index .. NbSectors - Remaining

CacheTypes ==
    /\ cached_blocks \in Seq(CachedBlock)
    /\ \A r \in wget : r \in Seq(Block)
    /\ onload \in Seq(Block) /\ tab_block \in Seq(Block)
    /\ prefetch_idx \in 0 .. Len(Prefetch)
    /\ cur_block_num \in Block \cup {None}

Apart(r1, r2) == ToSet(r1) \cap ToSet(r2) = {}

\* The loading blocks L are those that some answer brings, each once.  The
\* answers are the requests W, the rest o of the one that arrived, and the
\* group t that is being put together.
Answers(L, W, o, t) ==
    /\ \A b : b \in L <=> \E r \in W \cup {o, t} : b \in ToSet(r)
    /\ \A r \in W \cup {o, t} : IsInjective(r)
    /\ \A r1, r2 \in W : r1 # r2 => Apart(r1, r2)
    /\ \A r \in W : Apart(r, o) /\ Apart(r, t)
    /\ Apart(o, t)

LoadingBlocks == {b \in Block : Loading(b)}

AnswersOK == Answers(LoadingBlocks, wget, onload, tab_block)

\* A request is parked exactly while the block that cur_block_num names is
\* loading: a number left over from an ended request names no such block.
WaitOK ==
    /\ pc = "rw" => busy
    /\ Waiting <=> Loading(cur_block_num)
    /\ pc = "init" => cur_block_num = None /\ ~busy

ResumeInv == RequestOK /\ CacheTypes /\ AnswersOK /\ WaitOK

LEMMA InitResume == Init => ResumeInv
<1> SUFFICES ASSUME Init PROVE ResumeInv
  OBVIOUS
<1>1. RequestOK
  BY Numbers DEF Init, RequestOK, Remaining
<1>2. CacheTypes
  <2>1. Len(Prefetch) \in Nat
    BY PrefetchAssumption
  <2> QED
    BY <2>1 DEF Init, CacheTypes
<1>3. \A b : ~Loading(b)
  BY DEF Init, Loading
<1>4. ToSet(<< >>) = {} /\ IsInjective(<< >>)
  BY DEF ToSet, IsInjective
<1>5. AnswersOK
  BY <1>3, <1>4 DEF Init, AnswersOK, Answers, LoadingBlocks, Apart
<1>6. WaitOK
  BY <1>3 DEF Init, WaitOK, Waiting
<1> QED
  BY <1>1, <1>2, <1>5, <1>6 DEF ResumeInv

LEMMA ResumeImplies == ResumeInv => NoSpuriousResume
<1> SUFFICES ASSUME ResumeInv PROVE NoSpuriousResume
  OBVIOUS
<1>1. \A r \in Due : r \in Seq(Block)
  BY DEF ResumeInv, CacheTypes, Due
<1>2. \A r \in Due : \A b : Contains(r, b) <=> b \in ToSet(r)
  BY <1>1 DEF Contains, ToSet
<1>3. \A r1, r2 \in Due : r1 # r2 => ToSet(r1) \cap ToSet(r2) = {}
  <2>1. \A r1, r2 : Apart(r1, r2) => Apart(r2, r1)
    BY DEF Apart
  <2>2. \A r1, r2 \in Due : r1 # r2 => Apart(r1, r2)
    BY <2>1 DEF ResumeInv, AnswersOK, Answers, Due
  <2> QED
    BY <2>2 DEF Apart
<1>4. \A b \in Block : Loading(b) <=> \E r \in Due : Contains(r, b)
  BY <1>2, Zenon DEF ResumeInv, AnswersOK, Answers, LoadingBlocks, Due
<1>5. \A r \in Due : IsInjective(r)
  BY Zenon DEF ResumeInv, AnswersOK, Answers, Due
<1>6. (pc = "rw" => busy) /\ (Waiting => Loading(cur_block_num))
  BY DEF ResumeInv, WaitOK
<1> QED
  BY <1>3, <1>4, <1>5, <1>6, Zenon DEF NoSpuriousResume

LEMMA OneBlock == ASSUME NEW b PROVE ToSet(<<b>>) = {b} /\ IsInjective(<<b>>)
  BY DEF ToSet, IsInjective

LEMMA NoBlocks == ToSet(<< >>) = {} /\ IsInjective(<< >>)
  BY DEF ToSet, IsInjective

LEMMA AppendBlock ==
    ASSUME NEW S, NEW t \in Seq(S), NEW b \in S
    PROVE  /\ ToSet(Append(t, b)) = ToSet(t) \cup {b}
           /\ IsInjective(t) /\ b \notin ToSet(t) => IsInjective(Append(t, b))
<1> DEFINE u == Append(t, b)
<1>1. /\ Len(t) \in Nat /\ DOMAIN t = 1 .. Len(t) /\ DOMAIN u = 1 .. Len(t) + 1
      /\ u[Len(t) + 1] = b /\ \A i \in 1 .. Len(t) : u[i] = t[i]
  OBVIOUS
<1>2. \A i \in 1 .. Len(t) + 1 : i \in 1 .. Len(t) \/ i = Len(t) + 1
  BY <1>1
<1>3. \A i \in 1 .. Len(t) : i \in 1 .. Len(t) + 1
  BY <1>1
<1> HIDE DEF u
<1>4. ToSet(u) = ToSet(t) \cup {b}
  BY <1>1, <1>2, <1>3 DEF ToSet
<1>5. ASSUME IsInjective(t), b \notin ToSet(t) PROVE IsInjective(u)
  BY <1>1, <1>2, <1>5 DEF IsInjective, ToSet
<1> QED
  BY <1>4, <1>5 DEF u

LEMMA TailBlock ==
    ASSUME NEW S, NEW t \in Seq(S), t # << >>, IsInjective(t)
    PROVE  ToSet(Tail(t)) = ToSet(t) \ {Head(t)} /\ IsInjective(Tail(t))
<1> DEFINE u == Tail(t)
<1>1. /\ Len(t) \in Nat \ {0} /\ DOMAIN t = 1 .. Len(t) /\ DOMAIN u = 1 .. Len(t) - 1
      /\ Head(t) = t[1] /\ \A i \in 1 .. Len(t) - 1 : u[i] = t[i + 1]
  OBVIOUS
<1> HIDE DEF u
<1>2. \A i \in 1 .. Len(t) - 1 : i + 1 \in 1 .. Len(t) /\ i + 1 # 1
  BY <1>1
<1>3. \A i \in 1 .. Len(t) : i # 1 => i - 1 \in 1 .. Len(t) - 1 /\ (i - 1) + 1 = i
  BY <1>1
<1>4. 1 \in DOMAIN t
  BY <1>1
<1>5. \A x : x \in ToSet(u) <=> x \in ToSet(t) /\ x # t[1]
  <2>1. ASSUME NEW i \in DOMAIN u PROVE u[i] \in ToSet(t) /\ u[i] # t[1]
    BY <1>1, <1>2, <1>4, <2>1 DEF ToSet, IsInjective
  <2>2. ASSUME NEW i \in DOMAIN t, t[i] # t[1] PROVE t[i] \in ToSet(u)
    <3>1. i - 1 \in DOMAIN u /\ u[i - 1] = t[i]
      BY <1>1, <1>3, <2>2
    <3> QED
      BY <3>1, Zenon DEF ToSet
  <2> QED
    BY <2>1, <2>2 DEF ToSet
<1>6. IsInjective(u)
  <2> SUFFICES ASSUME NEW i \in DOMAIN u, NEW j \in DOMAIN u, u[i] = u[j] PROVE i = j
    BY DEF IsInjective
  <2>1. t[i + 1] = t[j + 1] /\ i + 1 \in DOMAIN t /\ j + 1 \in DOMAIN t
    BY <1>1, <1>2
  <2>2. i + 1 = j + 1
    BY <2>1, Zenon DEF IsInjective
  <2> QED
    BY <1>1, <2>2
<1> QED
  BY <1>1, <1>5, <1>6 DEF u

-----------------------------------------------------------------------------
(* How the answers change                                                  *)

\* A block that nothing brings joins the group being put together.
LEMMA AnswersAppend ==
    ASSUME NEW L, NEW W, NEW o, NEW t \in Seq(Block), NEW b \in Block,
           Answers(L, W, o, t), b \notin L
    PROVE  Answers(L \cup {b}, W, o, Append(t, b))
<1> DEFINE u == Append(t, b)
<1>1. \A r \in W \cup {o, t} : b \notin ToSet(r)
  BY Zenon DEF Answers
<1>2. ToSet(u) = ToSet(t) \cup {b} /\ IsInjective(u)
  BY <1>1, AppendBlock DEF Answers
<1> HIDE DEF u
<1>3. \A x : x \in L \cup {b} <=> \E r \in W \cup {o, u} : x \in ToSet(r)
  BY <1>2, Zenon DEF Answers
<1>4. \A r \in W : Apart(r, u)
  BY <1>1, <1>2 DEF Answers, Apart
<1>5. Apart(o, u)
  BY <1>1, <1>2 DEF Answers, Apart
<1> QED
  BY <1>2, <1>3, <1>4, <1>5 DEF Answers, u

\* The group is sent.
LEMMA AnswersSend ==
    ASSUME NEW L, NEW W, NEW o, NEW t, Answers(L, W, o, t)
    PROVE  Answers(L, W \cup {t}, o, << >>)
<1> DEFINE e == << >>
<1>1. ToSet(e) = {} /\ IsInjective(e)
  BY NoBlocks
<1> HIDE DEF e
<1>2. \A x : x \in L <=> \E r \in (W \cup {t}) \cup {o, e} : x \in ToSet(r)
  BY <1>1, Zenon DEF Answers
<1>3. \A r : Apart(r, e)
  BY <1>1 DEF Apart
<1>4. \A r1, r2 : Apart(r1, r2) => Apart(r2, r1)
  BY DEF Apart
<1> QED
  BY <1>1, <1>2, <1>3, <1>4 DEF Answers, e

\* bf_start_load_block: a block that nothing brings is asked for.
LEMMA AnswersMiss ==
    ASSUME NEW L, NEW W, NEW o, NEW t, NEW b, Answers(L, W, o, t), b \notin L
    PROVE  Answers(L \cup {b}, W \cup {<<b>>}, o, t)
<1> DEFINE u == <<b>>
<1>1. \A r \in W \cup {o, t} : b \notin ToSet(r)
  BY Zenon DEF Answers
<1>2. ToSet(u) = {b} /\ IsInjective(u)
  BY OneBlock
<1> HIDE DEF u
<1>3. \A x : x \in L \cup {b} <=> \E r \in (W \cup {u}) \cup {o, t} : x \in ToSet(r)
  BY <1>2, Zenon DEF Answers
<1>4. \A r \in W \cup {o, t} : Apart(r, u) /\ Apart(u, r)
  BY <1>1, <1>2 DEF Apart
<1> QED
  BY <1>2, <1>3, <1>4 DEF Answers, u

\* An answer arrives.
LEMMA AnswersArrive ==
    ASSUME NEW L, NEW W, NEW t, NEW r \in W, Answers(L, W, << >>, t)
    PROVE  Answers(L, W \ {r}, r, t)
<1> DEFINE e == << >>
<1>1. ToSet(e) = {} /\ Answers(L, W, e, t)
  BY NoBlocks
<1> HIDE DEF e
<1>2. \A x : x \in L <=> \E q \in (W \ {r}) \cup {r, t} : x \in ToSet(q)
  BY <1>1, Zenon DEF Answers
<1> QED
  BY <1>1, <1>2, Zenon DEF Answers

\* A block is delivered.
LEMMA AnswersDeliver ==
    ASSUME NEW L, NEW W, NEW o \in Seq(Block), NEW t, o # << >>, Answers(L, W, o, t)
    PROVE  Answers(L \ {Head(o)}, W, Tail(o), t)
<1> DEFINE u == Tail(o)
           h == Head(o)
<1>1. ToSet(u) = ToSet(o) \ {h} /\ IsInjective(u)
  BY TailBlock DEF Answers
<1>2. h \in ToSet(o)
  <2>1. 1 \in DOMAIN o /\ h = o[1]
    OBVIOUS
  <2> QED
    BY <2>1, Zenon DEF ToSet
<1> HIDE DEF u, h
<1>3. \A r \in W \cup {t} : h \notin ToSet(r)
  BY <1>2 DEF Answers, Apart
<1>4. \A x : x \in L \ {h} <=> \E r \in W \cup {u, t} : x \in ToSet(r)
  BY <1>1, <1>3, Zenon DEF Answers
<1>5. \A r \in W : Apart(r, u)
  BY <1>1 DEF Answers, Apart
<1>6. Apart(u, t)
  BY <1>1 DEF Answers, Apart
<1> QED
  BY <1>1, <1>4, <1>5, <1>6 DEF Answers, u, h

-----------------------------------------------------------------------------
(* How the cache changes                                                   *)

LEMMA LoadingNext == \A x : Loading(x)' <=> Entry(x) \in ToSet(cached_blocks')
  BY DEF Loading, Entry, ToSet

LEMMA FindStep ==
    ASSUME CacheTypes, NEW b, cached_blocks' = bf_find_block(b)
    PROVE  cached_blocks' \in Seq(CachedBlock) /\ \A x : Loading(x)' <=> Loading(x)
  BY FindMembers, LoadingNext, LoadingMember DEF CacheTypes

LEMMA AddStep ==
    ASSUME CacheTypes, NEW b \in Block, cached_blocks' = bf_add_block(b)
    PROVE  cached_blocks' \in Seq(CachedBlock) /\ \A x : Loading(x)' <=> (x = b \/ Loading(x))
  BY AddLoading, LoadingNext, LoadingMember DEF CacheTypes

LEMMA LoadedStep ==
    ASSUME CacheTypes, NEW b, cached_blocks' = SetLoaded(b)
    PROVE  cached_blocks' \in Seq(CachedBlock) /\ \A x : Loading(x)' <=> (x # b /\ Loading(x))
  BY SetLoadedMembers, LoadingNext, LoadingMember DEF CacheTypes

\* Only blocks of the disk are loading.
LEMMA LoadingIsBlock == ASSUME CacheTypes, NEW x, Loading(x) PROVE x \in Block
<1>1. PICK i \in DOMAIN cached_blocks :
          cached_blocks[i] = [block_num |-> x, state |-> "LOADING"]
  BY DEF Loading
<1>2. cached_blocks[i] \in CachedBlock
  BY DEF CacheTypes
<1> QED
  BY <1>1, <1>2 DEF CachedBlock

LEMMA LoadingIsBlockNext ==
    ASSUME cached_blocks' \in Seq(CachedBlock), NEW x, Loading(x)'
    PROVE  x \in Block
<1>1. PICK i \in DOMAIN cached_blocks' :
          cached_blocks'[i] = [block_num |-> x, state |-> "LOADING"]
  BY DEF Loading
<1>2. cached_blocks'[i] \in CachedBlock
  OBVIOUS
<1> QED
  BY <1>1, <1>2 DEF CachedBlock

LEMMA FrameAnswers ==
    ASSUME AnswersOK, \A x : Loading(x)' <=> Loading(x), UNCHANGED <<wget, onload, tab_block>>
    PROVE  AnswersOK'
<1>1. LoadingBlocks' = LoadingBlocks
  BY DEF LoadingBlocks
<1> QED
  BY <1>1 DEF AnswersOK

\* The sector at which the loop stands.
LEMMA LoopSector ==
    ASSUME RequestOK, InLoop
    PROVE  /\ sector_num \in Sector /\ block_num \in Block
           /\ cluster_num \in 0 .. NClusters - 1
           /\ Remaining \in Nat \ {0}
<1>1. sector_num \in Sector /\ Remaining \in Nat \ {0}
  BY Numbers DEF RequestOK, InLoop, Sector, Remaining
<1> QED
  BY <1>1, InBlock, InCluster DEF block_num, cluster_num

LEMMA MinOfBounds ==
    ASSUME NEW a \in Nat \ {0}, NEW b \in Nat \ {0}
    PROVE  MinOf(a, b) \in Nat \ {0} /\ MinOf(a, b) <= a /\ MinOf(a, b) <= b
  BY DEF MinOf

\* The run that an iteration moves.
LEMMA ClusterRun ==
    ASSUME RequestOK, InLoop, NEW n,
           n = MinOf(Remaining, SectorsPerCluster - (sector_num % SectorsPerCluster))
    PROVE  /\ n \in Nat \ {0} /\ n <= Remaining
           /\ n <= SectorsPerCluster - (sector_num % SectorsPerCluster)
<1> DEFINE m == SectorsPerCluster - (sector_num % SectorsPerCluster)
<1>1. sector_num % SectorsPerCluster \in 0 .. SectorsPerCluster - 1
  BY LoopSector, InCluster
<1>2. m \in Nat \ {0}
  BY <1>1, Numbers
<1> HIDE DEF m
<1>3. n = MinOf(Remaining, m)
  BY DEF m
<1>4. n \in Nat \ {0} /\ n <= Remaining /\ n <= m
  BY <1>2, <1>3, LoopSector, MinOfBounds
<1> QED
  BY <1>4 DEF m

LEMMA BlockRun ==
    ASSUME RequestOK, InLoop, NEW n,
           n = MinOf(Remaining, BlockSize - (sector_num % BlockSize))
    PROVE  /\ n \in Nat \ {0} /\ n <= Remaining
           /\ n <= BlockSize - (sector_num % BlockSize)
<1> DEFINE m == BlockSize - (sector_num % BlockSize)
<1>1. sector_num % BlockSize \in 0 .. BlockSize - 1
  BY LoopSector, InBlock
<1>2. m \in Nat \ {0}
  BY <1>1, Numbers
<1> HIDE DEF m
<1>3. n = MinOf(Remaining, m)
  BY DEF m
<1>4. n \in Nat \ {0} /\ n <= Remaining /\ n <= m
  BY <1>2, <1>3, LoopSector, MinOfBounds
<1> QED
  BY <1>4 DEF m

LEMMA MovedRequest ==
    ASSUME RequestOK, NEW n \in Nat, n <= Remaining, Moved(n),
           UNCHANGED <<pc, sector_count, busy>>
    PROVE  RequestOK'
<1>1. Remaining' = Remaining - n
  BY DEF RequestOK, Moved, Remaining
<1> QED
  BY <1>1, Numbers DEF RequestOK, Moved, Remaining

-----------------------------------------------------------------------------
(* The invariant is preserved                                              *)

\* bf_init_onload.
LEMMA PrefetchResume == ASSUME ResumeInv, bf_start_load_prefetch_group PROVE ResumeInv'
<1> USE DEF ResumeInv
<1> DEFINE b    == Prefetch[prefetch_idx + 1]
           tab  == IF Found(b) THEN tab_block ELSE Append(tab_block, b)
           last == prefetch_idx' = Len(Prefetch) \/ prefetch_idx' % PrefetchGroupLen = 0
<1>1. Len(Prefetch) \in Nat /\ prefetch_idx + 1 \in 1 .. Len(Prefetch) /\ b \in Block
  <2>1. prefetch_idx \in 0 .. Len(Prefetch) /\ prefetch_idx < Len(Prefetch)
    BY DEF bf_start_load_prefetch_group, CacheTypes
  <2>2. Prefetch \in Seq(Block) /\ Len(Prefetch) \in Nat
    BY PrefetchAssumption DEF Block
  <2> QED
    BY <2>1, <2>2
<1>2. /\ cached_blocks' = IF Found(b) THEN bf_find_block(b) ELSE bf_add_block(b)
      /\ tab_block' = IF last THEN << >> ELSE tab
      /\ wget' = IF last /\ tab # << >> THEN wget \cup {tab} ELSE wget
      /\ prefetch_idx' = prefetch_idx + 1
      /\ UNCHANGED <<pc, onload, cur_block_num, reqVars, busy>>
      /\ pc = "init"
  BY DEF bf_start_load_prefetch_group
<1> HIDE DEF b
<1>3. tab \in Seq(Block)
  BY <1>1 DEF CacheTypes
<1>4. Loading(b) => Found(b)
  BY DEF Loading, Found
<1>5. cached_blocks' \in Seq(CachedBlock) /\ Answers(LoadingBlocks', wget, onload, tab)
  <2>1. CASE Found(b)
    <3>1. cached_blocks' = bf_find_block(b)
      BY <1>2, <2>1
    <3>2. cached_blocks' \in Seq(CachedBlock) /\ LoadingBlocks' = LoadingBlocks
      BY <3>1, FindStep DEF LoadingBlocks
    <3> QED
      BY <2>1, <3>2 DEF AnswersOK
  <2>2. CASE ~Found(b)
    <3>1. cached_blocks' = bf_add_block(b)
      BY <1>2, <2>2
    <3>2. cached_blocks' \in Seq(CachedBlock) /\ LoadingBlocks' = LoadingBlocks \cup {b}
      BY <1>1, <3>1, AddStep DEF LoadingBlocks
    <3>3. b \notin LoadingBlocks
      BY <1>4, <2>2 DEF LoadingBlocks
    <3>4. Answers(LoadingBlocks \cup {b}, wget, onload, Append(tab_block, b))
      BY <1>1, <3>3, AnswersAppend DEF AnswersOK, CacheTypes
    <3> QED
      BY <2>2, <3>2, <3>4
  <2> QED
    BY <2>1, <2>2
<1> HIDE DEF tab, last
<1>6. AnswersOK'
  <2>1. CASE ~last
    BY <1>2, <1>5, <2>1 DEF AnswersOK
  <2>2. CASE last /\ tab # << >>
    <3>1. Answers(LoadingBlocks', wget \cup {tab}, onload, << >>)
      BY <1>5, AnswersSend
    <3> QED
      BY <1>2, <2>2, <3>1 DEF AnswersOK
  <2>3. CASE last /\ tab = << >>
    BY <1>2, <1>5, <2>3 DEF AnswersOK
  <2> QED
    BY <2>1, <2>2, <2>3
<1>7. CacheTypes'
  <2>1. tab_block' \in Seq(Block)
    BY <1>2, <1>3
  <2>2. \A r \in wget' : r \in Seq(Block)
    BY <1>2, <1>3 DEF CacheTypes
  <2> QED
    BY <1>1, <1>2, <1>5, <2>1, <2>2 DEF CacheTypes
<1>8. WaitOK'
  <2>1. ~Loading(None)'
    <3>1. None \notin Block
      BY DEF None, Block
    <3> QED
      BY <1>5, <3>1, LoadingIsBlockNext DEF None, Loading
  <2> QED
    BY <1>2, <2>1 DEF WaitOK, Waiting
<1>9. RequestOK'
  BY <1>2 DEF RequestOK, Remaining, reqVars
<1> QED
  BY <1>6, <1>7, <1>8, <1>9

\* An iteration that parks the request.
LEMMA WaitResume == ASSUME ResumeInv, RwWait PROVE ResumeInv'
<1> USE DEF ResumeInv
<1>1. /\ pc = "rw" /\ busy /\ pc' = "out" /\ cached_blocks' = bf_find_block(block_num)
      /\ cur_block_num' = block_num /\ Loading(block_num)
      /\ UNCHANGED <<wget, onload, tab_block, prefetch_idx, sector_num, sector_index,
                     sector_count, busy>>
  BY DEF RwWait, InLoop, WaitOK, ReturnWaiting
<1>2. block_num \in Block
  BY LoopSector DEF RwWait
<1>3. cached_blocks' \in Seq(CachedBlock) /\ \A x : Loading(x)' <=> Loading(x)
  BY <1>1, FindStep
<1>4. AnswersOK'
  BY <1>1, <1>3, FrameAnswers
<1>5. CacheTypes'
  BY <1>1, <1>2, <1>3 DEF CacheTypes
<1>6. Loading(cur_block_num)'
  BY <1>1, <1>3 DEF Loading
<1>7. WaitOK'
  BY <1>1, <1>6 DEF WaitOK, Waiting
<1>8. RequestOK'
  BY <1>1 DEF RequestOK, Remaining
<1> QED
  BY <1>4, <1>5, <1>7, <1>8

LEMMA MissResume == ASSUME ResumeInv, RwMiss PROVE ResumeInv'
<1> USE DEF ResumeInv
<1>1. /\ pc = "rw" /\ busy /\ pc' = "out" /\ cached_blocks' = bf_add_block(block_num)
      /\ cur_block_num' = block_num /\ ~Found(block_num)
      /\ wget' = wget \cup {<<block_num>>}
      /\ UNCHANGED <<onload, tab_block, prefetch_idx, sector_num, sector_index,
                     sector_count, busy>>
  BY DEF RwMiss, InLoop, WaitOK, ReturnWaiting
<1>2. block_num \in Block
  BY LoopSector DEF RwMiss
<1>3. cached_blocks' \in Seq(CachedBlock) /\ \A x : Loading(x)' <=> (x = block_num \/ Loading(x))
  BY <1>1, <1>2, AddStep
<1>4. AnswersOK'
  <2>1. block_num \notin LoadingBlocks
    BY <1>1 DEF LoadingBlocks, Loading, Found
  <2>2. LoadingBlocks' = LoadingBlocks \cup {block_num}
    BY <1>2, <1>3 DEF LoadingBlocks
  <2>3. Answers(LoadingBlocks \cup {block_num}, wget \cup {<<block_num>>}, onload, tab_block)
    BY <2>1, AnswersMiss DEF AnswersOK
  <2> QED
    BY <1>1, <2>2, <2>3 DEF AnswersOK
<1>5. CacheTypes'
  <2>1. <<block_num>> \in Seq(Block)
    BY <1>2
  <2>2. \A r \in wget' : r \in Seq(Block)
    BY <1>1, <2>1, Zenon DEF CacheTypes
  <2> QED
    BY <1>1, <1>2, <1>3, <2>2 DEF CacheTypes
<1>6. Loading(cur_block_num)'
  BY <1>1, <1>3 DEF Loading
<1>7. WaitOK'
  BY <1>1, <1>6 DEF WaitOK, Waiting
<1>8. RequestOK'
  BY <1>1 DEF RequestOK, Remaining
<1> QED
  BY <1>4, <1>5, <1>7, <1>8

\* An iteration that works on a loaded block.
LEMMA LoadedResume == ASSUME ResumeInv, RwAlloc \/ RwRead PROVE ResumeInv'
<1> USE DEF ResumeInv
<1>1. /\ InLoop /\ pc = "rw" /\ busy /\ pc' = pc /\ cached_blocks' = bf_find_block(block_num)
      /\ (cur_block_num' = block_num \/ cur_block_num' = None) /\ ~Loading(block_num)
      /\ UNCHANGED <<wget, onload, tab_block, prefetch_idx, sector_count, busy>>
  <2>1. CASE RwAlloc
    BY <2>1 DEF RwAlloc, InLoop, WaitOK, reqVars
  <2>2. CASE RwRead
    BY <2>2 DEF RwRead, InLoop, WaitOK
  <2> QED
    BY <2>1, <2>2
<1>2. block_num \in Block
  BY <1>1, LoopSector
<1>3. cached_blocks' \in Seq(CachedBlock) /\ \A x : Loading(x)' <=> Loading(x)
  BY <1>1, FindStep
<1>4. AnswersOK'
  BY <1>1, <1>3, FrameAnswers
<1>5. CacheTypes'
  BY <1>1, <1>2, <1>3 DEF CacheTypes
<1>6. ~Loading(cur_block_num)'
  <2>1. None \notin Block
    BY DEF None, Block
  <2>2. ~Loading(None)
    BY <2>1, LoadingIsBlock
  <2>3. \A x : Loading(x)' => x # block_num /\ x # None
    BY <1>1, <1>3, <2>2
  <2> QED
    BY <1>1, <2>3 DEF Loading
<1>7. WaitOK'
  BY <1>1, <1>6 DEF WaitOK, Waiting
<1>8. RequestOK'
  <2>1. CASE RwAlloc
    BY <1>1, <2>1 DEF RwAlloc, RequestOK, Remaining, reqVars
  <2>2. CASE RwRead
    <3> DEFINE n == MinOf(Remaining, BlockSize - (sector_num % BlockSize))
    <3>1. Moved(n)
      BY <2>2 DEF RwRead
    <3>2. n \in Nat /\ n <= Remaining
      BY <1>1, BlockRun
    <3> HIDE DEF n
    <3> QED
      BY <1>1, <3>1, <3>2, MovedRequest
  <2> QED
    BY <2>1, <2>2
<1> QED
  BY <1>4, <1>5, <1>7, <1>8

\* An iteration on a written cluster leaves the cache alone.
LEMMA ClusterResume == ASSUME ResumeInv, RwCluster PROVE ResumeInv'
<1> USE DEF ResumeInv
<1> DEFINE n == MinOf(Remaining, SectorsPerCluster - (sector_num % SectorsPerCluster))
<1>1. /\ InLoop /\ pc = "rw" /\ Moved(n)
      /\ UNCHANGED <<pc, cached_blocks, wget, onload, tab_block, prefetch_idx,
                     cur_block_num, sector_count, busy>>
  BY DEF RwCluster, InLoop
<1>2. n \in Nat /\ n <= Remaining
  BY <1>1, ClusterRun
<1> HIDE DEF n
<1>3. RequestOK'
  BY <1>1, <1>2, MovedRequest
<1>4. \A x : Loading(x)' <=> Loading(x)
  BY <1>1 DEF Loading
<1>5. AnswersOK'
  BY <1>1, <1>4, FrameAnswers
<1>6. CacheTypes'
  BY <1>1 DEF CacheTypes
<1>7. WaitOK'
  BY <1>1 DEF WaitOK, Waiting, Loading
<1> QED
  BY <1>3, <1>5, <1>6, <1>7

\* A block arrives: the request that waits for it continues, and no other.
LEMMA UpdateResume == ASSUME ResumeInv, bf_update_block PROVE ResumeInv'
<1> USE DEF ResumeInv
<1> DEFINE h == Head(onload)
<1>1. /\ pc = "out" /\ onload # << >> /\ onload' = Tail(onload)
      /\ cached_blocks' = SetLoaded(h)
      /\ IF h = cur_block_num THEN pc' = "rw" ELSE pc' = pc
      /\ UNCHANGED <<wget, tab_block, prefetch_idx, cur_block_num, sector_num,
                     sector_index, sector_count, busy>>
  BY DEF bf_update_block
<1>2. onload \in Seq(Block) /\ Tail(onload) \in Seq(Block)
  BY <1>1 DEF CacheTypes
<1>3. cached_blocks' \in Seq(CachedBlock) /\ \A x : Loading(x)' <=> (x # h /\ Loading(x))
  BY <1>1, LoadedStep
<1>4. Answers(LoadingBlocks \ {h}, wget, Tail(onload), tab_block)
  BY <1>1, <1>2, AnswersDeliver DEF AnswersOK
<1>5. Loading(h)
  <2>1. 1 \in DOMAIN onload /\ h = onload[1]
    BY <1>1, <1>2
  <2>2. h \in ToSet(onload)
    BY <2>1, Zenon DEF ToSet
  <2> QED
    BY <2>2, Zenon DEF AnswersOK, Answers, LoadingBlocks
<1> HIDE DEF h
<1>6. AnswersOK'
  <2>1. LoadingBlocks' = LoadingBlocks \ {h}
    BY <1>3 DEF LoadingBlocks
  <2> QED
    BY <1>1, <1>4, <2>1 DEF AnswersOK
<1>7. CacheTypes'
  BY <1>1, <1>2, <1>3 DEF CacheTypes
<1>8. WaitOK'
  <2>1. Loading(cur_block_num)' <=> (cur_block_num # h /\ Loading(cur_block_num))
    BY <1>1, <1>3 DEF Loading
  <2>2. CASE h = cur_block_num
    BY <1>1, <1>5, <2>1, <2>2 DEF WaitOK, Waiting
  <2>3. CASE h # cur_block_num
    BY <1>1, <2>1, <2>3 DEF WaitOK, Waiting
  <2> QED
    BY <2>2, <2>3
<1>9. RequestOK'
  BY <1>1 DEF RequestOK, Remaining
<1> QED
  BY <1>6, <1>7, <1>8, <1>9

LEMMA ArriveResume == ASSUME ResumeInv, NEW r \in wget, WgetOnload(r) PROVE ResumeInv'
<1> USE DEF ResumeInv
<1>1. /\ onload = << >> /\ onload' = r /\ wget' = wget \ {r} /\ r \in Seq(Block)
      /\ UNCHANGED <<pc, cached_blocks, tab_block, prefetch_idx, cur_block_num, reqVars, busy>>
  BY DEF WgetOnload, CacheTypes
<1>2. Answers(LoadingBlocks, wget \ {r}, r, tab_block)
  BY <1>1, AnswersArrive DEF AnswersOK
<1>3. LoadingBlocks' = LoadingBlocks
  BY <1>1 DEF LoadingBlocks, Loading
<1>4. AnswersOK'
  BY <1>1, <1>2, <1>3 DEF AnswersOK
<1>5. CacheTypes'
  BY <1>1 DEF CacheTypes
<1>6. WaitOK' /\ RequestOK'
  BY <1>1 DEF WaitOK, Waiting, Loading, RequestOK, Remaining, reqVars
<1> QED
  BY <1>4, <1>5, <1>6

LEMMA StartResume ==
    ASSUME ResumeInv, NEW w \in BOOLEAN, NEW s \in Sector, NEW n \in 0 .. MaxLen,
           StartRequest(w, s, n)
    PROVE  ResumeInv'
<1> USE DEF ResumeInv
<1>1. /\ pc # "rw" /\ pc # "init" /\ ~busy /\ busy' = TRUE /\ pc' = "rw" /\ s + n <= NbSectors
      /\ sector_num' = s /\ sector_index' = 0 /\ sector_count' = n
      /\ UNCHANGED <<cached_blocks, wget, onload, tab_block, prefetch_idx, cur_block_num>>
  BY DEF StartRequest, ClientHasControl
<1>2. AnswersOK' /\ CacheTypes'
  BY <1>1 DEF AnswersOK, LoadingBlocks, Loading, CacheTypes
<1>3. WaitOK'
  BY <1>1 DEF WaitOK, Waiting, Loading
<1>4. RequestOK'
  <2>1. Remaining' = n
    BY <1>1, Numbers DEF Remaining
  <2> QED
    BY <1>1, <2>1, Numbers DEF RequestOK, Sector
<1> QED
  BY <1>2, <1>3, <1>4

\* The other steps leave the cache and the answers alone.
LEMMA ControlResume ==
    ASSUME ResumeInv,
           \/ StartCb \/ ClientReturn \/ RwDone \/ UNCHANGED vars
           \/ \E r \in wget : WgetError(r)
    PROVE  ResumeInv'
<1> USE DEF ResumeInv
<1>1. /\ UNCHANGED <<cached_blocks, wget, onload, tab_block, prefetch_idx, cur_block_num,
                     sector_num, sector_index, sector_count>>
      /\ \/ pc' = pc /\ busy' = busy
         \/ pc = "init" /\ pc' = "out" /\ busy' = busy
         \/ pc = "client" /\ pc' = "out" /\ busy' = busy
         \/ pc = "rw" /\ pc' = "client" /\ busy' = FALSE
  <2>1. CASE StartCb
    BY <2>1 DEF StartCb, reqVars
  <2>2. CASE ClientReturn
    BY <2>2 DEF ClientReturn, reqVars
  <2>3. CASE RwDone
    BY <2>3 DEF RwDone
  <2>4. CASE UNCHANGED vars
    BY <2>4 DEF vars, reqVars
  <2>5. CASE \E r \in wget : WgetError(r)
    BY <2>5 DEF WgetError, reqVars
  <2> QED
    BY <2>1, <2>2, <2>3, <2>4, <2>5
<1>2. AnswersOK' /\ CacheTypes'
  BY <1>1 DEF AnswersOK, LoadingBlocks, Loading, CacheTypes
<1>3. WaitOK'
  BY <1>1 DEF WaitOK, Waiting, Loading
<1>4. RequestOK'
  BY <1>1 DEF RequestOK, Remaining
<1> QED
  BY <1>2, <1>3, <1>4

LEMMA NextResume == ResumeInv /\ [Next]_vars => ResumeInv'
<1> SUFFICES ASSUME ResumeInv, [Next]_vars PROVE ResumeInv'
  OBVIOUS
<1>1. CASE Start
  BY <1>1, StartResume DEF Start, bf_read_async, bf_write_async
<1>2. CASE Loop
  BY <1>2, ClusterResume, WaitResume, MissResume, LoadedResume, ControlResume DEF Loop
<1>3. CASE \E r \in wget : WgetOnload(r) \/ WgetError(r)
  BY <1>3, ArriveResume, ControlResume
<1>4. CASE UNCHANGED vars
  BY <1>4, ControlResume
<1> QED
  BY <1>1, <1>2, <1>3, <1>4, PrefetchResume, UpdateResume, ControlResume
     DEF Next, Terminating

(* A request that has ended is never resumed and one that waits always     *)
(* will be, whatever the cache evicts: bf_update_block and cur_block_num   *)
(* agree about who waits, for every geometry, cache and prefetch list.     *)
THEOREM ResumesAreWanted == Spec => []NoSpuriousResume
  BY InitResume, NextResume, ResumeImplies, PTL DEF Spec

-----------------------------------------------------------------------------
(* The data                                                                *)

DataTypes ==
    /\ clusters \in [0 .. NClusters - 1 -> Contents \cup {NullCluster}]
    /\ is_write \in BOOLEAN /\ is_sync \in BOOLEAN /\ halted \in BOOLEAN
    /\ io_buf \in [0 .. BufLen - 1 -> Vals]
    /\ data \in [0 .. BufLen - 1 -> Vals]

LEMMA NotNull == ASSUME NEW c \in Contents PROVE c # NullCluster
<1>1. 0 \in DOMAIN c
  BY Numbers DEF Contents
<1>2. 0 \notin DOMAIN NullCluster
  BY DEF NullCluster
<1> QED
  BY <1>1, <1>2

LEMMA EmptyBuffer == << >> \in [0 .. 0 - 1 -> Vals]
  OBVIOUS

LEMMA ValsType ==
    /\ \A s \in Sector : Image(s) \in Vals
    /\ \A i \in 0 .. MaxLen - 1 : Tag(i) \in Vals
    /\ Garbage \in Vals
  BY Numbers DEF Sector, Image, Tag, Garbage, Vals

\* What the guest sees of a sector.
LEMMA DiskAt ==
    ASSUME NEW s \in Sector
    PROVE  disk[s] = IF clusters[s \div SectorsPerCluster] # NullCluster
                     THEN clusters[s \div SectorsPerCluster][s % SectorsPerCluster]
                     ELSE Image(s)
  BY Zenon DEF disk

LEMMA DiskAtNext ==
    ASSUME NEW s \in Sector
    PROVE  disk'[s] = IF clusters'[s \div SectorsPerCluster] # NullCluster
                      THEN clusters'[s \div SectorsPerCluster][s % SectorsPerCluster]
                      ELSE Image(s)
  BY Zenon DEF disk, NullCluster, Image, Sector, NbSectors

LEMMA DiskFrame == ASSUME clusters' = clusters PROVE disk' = disk
  BY DEF disk, NullCluster, Image, Sector, NbSectors

LEMMA DiskType == ASSUME DataTypes PROVE disk \in [Sector -> Vals]
<1>1. ASSUME NEW s \in Sector PROVE disk[s] \in Vals
  <2>1. s \div SectorsPerCluster \in 0 .. NClusters - 1
        /\ s % SectorsPerCluster \in 0 .. SectorsPerCluster - 1
    BY InCluster
  <2>2. clusters[s \div SectorsPerCluster] \in Contents \cup {NullCluster}
    BY <2>1, Zenon DEF DataTypes
  <2> QED
    BY <2>1, <2>2, DiskAt, ValsType DEF Contents
<1>2. disk = [s \in Sector |-> disk[s]]
  BY DEF disk
<1> QED
  BY <1>1, <1>2, Zenon

\* Two sectors of one cluster are as far apart as their offsets.
LEMMA OffsetsDiffer ==
    ASSUME NEW s \in Sector, NEW t \in Sector,
           s \div SectorsPerCluster = t \div SectorsPerCluster
    PROVE  s - t = (s % SectorsPerCluster) - (t % SectorsPerCluster)
<1> DEFINE q == s \div SectorsPerCluster
           r == s % SectorsPerCluster
           u == t % SectorsPerCluster
           p == SectorsPerCluster * q
<1>1. q \in Int /\ r \in Int /\ u \in Int
  BY InCluster, Numbers
<1>2. s = p + r
  BY InCluster
<1>3. t = p + u
  BY InCluster, Zenon
<1>4. p \in Int
  BY <1>1, Numbers, Z3
<1> HIDE DEF q, r, u, p
<1>5. s - t = r - u
  BY <1>1, <1>2, <1>3, <1>4
<1> QED
  BY <1>5 DEF r, u

\* A write to an allocated cluster changes the run of sectors it moves.
LEMMA WriteRun ==
    ASSUME RequestOK, DataTypes, RwCluster, is_write, NEW n,
           n = MinOf(Remaining, SectorsPerCluster - (sector_num % SectorsPerCluster))
    PROVE  /\ \A s \in Sector :
                 disk'[s] = IF s - sector_num \in 0 .. n - 1
                            THEN io_buf[sector_index + (s - sector_num)]
                            ELSE disk[s]
           /\ \A c \in 0 .. NClusters - 1 :
                 clusters'[c] = NullCluster <=> clusters[c] = NullCluster
<1> DEFINE offset == sector_num % SectorsPerCluster
           old    == clusters[cluster_num]
           new    == [i \in DOMAIN old |-> IF i \in offset .. offset + n - 1
                                           THEN io_buf[sector_index + i - offset]
                                           ELSE old[i]]
<1>1. InLoop /\ old # NullCluster /\ clusters' = [clusters EXCEPT ![cluster_num] = new]
  BY DEF RwCluster
<1>2. sector_num \in Sector /\ cluster_num \in 0 .. NClusters - 1
  BY <1>1, LoopSector
<1>3. n \in Nat \ {0} /\ n <= SectorsPerCluster - offset
  BY <1>1, ClusterRun
<1>4. offset \in 0 .. SectorsPerCluster - 1
  BY <1>2, InCluster
<1>5. old \in Contents
  BY <1>1, <1>2 DEF DataTypes
<1>6. DOMAIN old = 0 .. SectorsPerCluster - 1
  BY <1>5 DEF Contents
<1>7. new # NullCluster
  <2>1. 0 \in DOMAIN new
    BY <1>6, Numbers
  <2>2. 0 \notin DOMAIN NullCluster
    BY DEF NullCluster
  <2> QED
    BY <2>1, <2>2, Zenon
<1>8. /\ clusters'[cluster_num] = new
      /\ \A c \in 0 .. NClusters - 1 : c # cluster_num => clusters'[c] = clusters[c]
  BY <1>1, <1>2 DEF DataTypes
<1>9. \A i \in 0 .. SectorsPerCluster - 1 :
          new[i] = IF i \in offset .. offset + n - 1
                   THEN io_buf[sector_index + i - offset] ELSE old[i]
  BY <1>6
<1> HIDE DEF new
<1>10. ASSUME NEW s \in Sector
       PROVE  disk'[s] = IF s - sector_num \in 0 .. n - 1
                         THEN io_buf[sector_index + (s - sector_num)]
                         ELSE disk[s]
  <2> DEFINE q == s \div SectorsPerCluster
             r == s % SectorsPerCluster
  <2>1. q \in 0 .. NClusters - 1 /\ r \in 0 .. SectorsPerCluster - 1
    BY InCluster
  <2>2. CASE q = cluster_num
    <3>1. disk'[s] = new[r] /\ disk[s] = old[r]
      BY <1>1, <1>7, <1>8, <2>2, DiskAt, DiskAtNext
    <3>2. s - sector_num = r - offset
      BY <1>2, <2>2, OffsetsDiffer DEF cluster_num
    <3>3. sector_num \in Int /\ sector_index \in Int /\ s \in Int /\ r \in Int /\ offset \in Int
      BY <1>2, <1>4, <2>1, Numbers DEF RequestOK, Sector
    <3>4. sector_index + (s - sector_num) = sector_index + r - offset
      BY <3>2, <3>3
    <3>5. s - sector_num \in 0 .. n - 1 <=> r \in offset .. offset + n - 1
      BY <1>3, <3>2, <3>3
    <3> HIDE DEF r, offset
    <3> QED
      BY <1>9, <2>1, <3>1, <3>4, <3>5
  <2>3. CASE q # cluster_num
    <3>1. disk'[s] = disk[s]
      BY <1>8, <2>1, <2>3, DiskAt, DiskAtNext
    <3>2. ~(s - sector_num \in 0 .. n - 1)
      <4> SUFFICES ASSUME s - sector_num \in 0 .. n - 1 PROVE FALSE
        OBVIOUS
      <4> DEFINE k == s - sector_num
      <4>1. s \in Int /\ sector_num \in Int
        BY <1>2, Numbers DEF Sector
      <4>2. k \in Nat /\ k < SectorsPerCluster - offset /\ sector_num + k = s
        BY <1>3, <1>4, <4>1, Numbers
      <4> HIDE DEF k
      <4>3. (sector_num + k) \div SectorsPerCluster = sector_num \div SectorsPerCluster
        BY <1>2, <4>2, SameCluster
      <4> QED
        BY <2>3, <4>2, <4>3 DEF cluster_num
    <3> QED
      BY <3>1, <3>2
  <2> QED
    BY <2>2, <2>3
<1> QED
  BY <1>1, <1>7, <1>8, <1>10

\* The sectors from which a cluster is filled, when blocks hold whole
\* clusters.
LEMMA FillGeometry ==
    ASSUME BlockSize % SectorsPerCluster = 0, NEW s \in Sector,
           NEW c, c = s \div SectorsPerCluster, NEW b, b = s \div BlockSize
    PROVE  /\ (c * SectorsPerCluster) % BlockSize \in Nat
           /\ ((c * SectorsPerCluster) % BlockSize) + SectorsPerCluster <= BlockSize
           /\ b * BlockSize + ((c * SectorsPerCluster) % BlockSize) = SectorsPerCluster * c
<1> DEFINE m == SectorsPerCluster
           k == BlockSize \div m
           r == s % BlockSize
           j == r \div m
           u == r % m
<1>1. m \in Nat \ {0} /\ BlockSize \in Nat \ {0} /\ s \in Int
  BY Numbers DEF Sector
<1>2. k \in Int /\ BlockSize = m * k
  <2>1. k \in Int /\ BlockSize = m * k + 0
    BY <1>1, DivMod
  <2>2. m * k \in Int
    BY <1>1, <2>1, Z3
  <2> HIDE DEF k
  <2> QED
    BY <2>1, <2>2
<1>3. b \in Int /\ r \in 0 .. BlockSize - 1 /\ s = BlockSize * b + r
  BY InBlock, Numbers DEF Block
<1>4. j \in Int /\ u \in 0 .. m - 1 /\ r = m * j + u
  BY <1>1, <1>3, DivMod
<1> HIDE DEF m, k, r, j, u
<1>5. m * j \in Int /\ m * k \in Int
  BY <1>1, <1>2, <1>4, Z3
<1>6. j < k
  <2> SUFFICES ASSUME j >= k PROVE FALSE
    BY <1>2, <1>4
  <2>1. m * j >= m * k
    BY <1>1, <1>2, <1>4, Z3
  <2> QED
    BY <1>1, <1>2, <1>3, <1>4, <1>5, <2>1
<1>7. m * j >= 0
  <2> SUFFICES ASSUME j < 0 PROVE FALSE
    BY <1>1, <1>4, Z3
  <2>1. m * j + m <= m * 0
    BY <1>1, <1>4, MulMono
  <2>2. m * 0 = 0
    BY <1>1
  <2> QED
    BY <1>1, <1>3, <1>4, <1>5, <2>1, <2>2
<1>8. m * j + m <= BlockSize
  BY <1>1, <1>2, <1>4, <1>6, MulMono
<1>9. s = m * (k * b + j) + u
  <2>0. m * (k * b + j) = (m * k) * b + m * j /\ (m * k) * b \in Int /\ u \in Int
    <3>1. m \in Int /\ k \in Int /\ b \in Int /\ j \in Int /\ u \in Int
      BY <1>1, <1>2, <1>3, <1>4
    <3>2. m * (k * b + j) = (m * k) * b + m * j
      BY <3>1, Z3
    <3>3. (m * k) * b \in Int
      BY <3>1, Z3
    <3> QED
      BY <3>1, <3>2, <3>3
  <2>1. m * (k * b + j) + u = (m * k) * b + (m * j + u)
    <3> DEFINE x == (m * k) * b
               y == m * j
    <3>1. x \in Int /\ y \in Int /\ m * (k * b + j) = x + y
      BY <1>5, <2>0
    <3> HIDE DEF x, y
    <3>2. (x + y) + u = x + (y + u)
      BY <2>0, <3>1
    <3> QED
      BY <3>1, <3>2 DEF x, y
  <2> QED
    BY <1>2, <1>3, <1>4, <2>1, Zenon
<1>10. c = k * b + j
  <2>1. k * b + j \in Int
    BY <1>2, <1>3, <1>4, Z3
  <2>2. (m * (k * b + j) + u) \div m = k * b + j
    BY <1>1, <1>4, <2>1, DivUnique
  <2> QED
    BY <1>9, <2>2 DEF m
<1>11. c * m = BlockSize * b + m * j
  <2>1. (k * b + j) * m = (m * k) * b + m * j
    BY <1>1, <1>2, <1>3, <1>4, Z3
  <2> QED
    BY <1>2, <1>10, <2>1, Zenon
<1>12. (c * m) % BlockSize = m * j
  <2>1. m * j \in 0 .. BlockSize - 1
    BY <1>1, <1>5, <1>7, <1>8
  <2>2. (BlockSize * b + m * j) % BlockSize = m * j
    BY <1>1, <1>3, <2>1, DivUnique
  <2> QED
    BY <1>11, <2>2
<1>13. b * BlockSize + m * j = m * c
  <2>1. b * BlockSize = BlockSize * b
    BY <1>1, <1>3, Z3
  <2>2. m * (k * b + j) = (k * b + j) * m
    BY <1>1, <1>2, <1>3, <1>4, Z3
  <2>3. m * c = c * m
    BY <1>10, <2>2, Zenon
  <2> QED
    BY <1>11, <2>1, <2>3, Zenon
<1> QED
  BY <1>5, <1>7, <1>8, <1>12, <1>13 DEF m

\* Filling a cluster from its block leaves the disk as it is.
LEMMA AllocRun ==
    ASSUME RequestOK, DataTypes, RwAlloc
    PROVE  /\ \A c \in 0 .. NClusters - 1 :
                 clusters[c] # NullCluster => clusters'[c] = clusters[c]
           /\ BlockSize % SectorsPerCluster = 0 => disk' = disk
<1> DEFINE offset == (cluster_num * SectorsPerCluster) % BlockSize
           new    == [i \in 0 .. SectorsPerCluster - 1 |->
                         IF offset + i < BlockSize
                         THEN Image(block_num * BlockSize + offset + i)
                         ELSE Garbage]
<1>1. InLoop /\ clusters[cluster_num] = NullCluster
      /\ clusters' = [clusters EXCEPT ![cluster_num] = new]
  BY DEF RwAlloc
<1>2. sector_num \in Sector /\ cluster_num \in 0 .. NClusters - 1 /\ block_num \in Block
  BY <1>1, LoopSector
<1>3. /\ clusters'[cluster_num] = new
      /\ \A c \in 0 .. NClusters - 1 : c # cluster_num => clusters'[c] = clusters[c]
  BY <1>1, <1>2 DEF DataTypes
<1>4. ASSUME BlockSize % SectorsPerCluster = 0 PROVE disk' = disk
  <2>1. ASSUME NEW s \in Sector PROVE disk'[s] = disk[s]
    <3> DEFINE q == s \div SectorsPerCluster
               r == s % SectorsPerCluster
    <3>1. q \in 0 .. NClusters - 1 /\ r \in 0 .. SectorsPerCluster - 1
          /\ s = SectorsPerCluster * q + r
      BY InCluster
    <3>2. CASE q # cluster_num
      BY <1>3, <3>1, <3>2, DiskAt, DiskAtNext
    <3>3. CASE q = cluster_num
      <4>1. /\ offset \in Nat /\ offset + SectorsPerCluster <= BlockSize
            /\ block_num * BlockSize + offset = SectorsPerCluster * q
        BY <1>2, <1>4, <3>3, FillGeometry DEF cluster_num, block_num
      <4>2. new[r] = IF offset + r < BlockSize
                     THEN Image(block_num * BlockSize + offset + r) ELSE Garbage
        BY <3>1
      <4>3. block_num * BlockSize \in Int /\ SectorsPerCluster * q \in Int
        BY <1>2, <3>1, Numbers, Z3 DEF Block
      <4>4. offset + r < BlockSize /\ block_num * BlockSize + offset + r = s
        <5> HIDE DEF offset, q, r
        <5> QED
          BY <3>1, <4>1, <4>3, Numbers
      <4>5. new[r] = Image(s)
        BY <4>2, <4>4
      <4>6. disk[s] = Image(s)
        BY <1>1, <3>3, DiskAt
      <4>7. disk'[s] = Image(s)
        BY <1>3, <3>3, <4>5, DiskAtNext
      <4> QED
        BY <4>6, <4>7
    <3> QED
      BY <3>2, <3>3
  <2>2. disk = [s \in Sector |-> disk[s]] /\ disk' = [s \in Sector |-> disk'[s]]
    BY DEF disk, Sector, NbSectors
  <2> QED
    BY <2>1, <2>2, Zenon
<1> HIDE DEF new
<1> QED
  BY <1>1, <1>3, <1>4

-----------------------------------------------------------------------------
(* Type correctness                                                        *)

LEMMA InitData == Init => DataTypes
<1> SUFFICES ASSUME Init PROVE DataTypes
  OBVIOUS
<1>1. BufLen = 0
  BY DEF Init, BufLen
<1>2. io_buf \in [0 .. BufLen - 1 -> Vals] /\ data \in [0 .. BufLen - 1 -> Vals]
  BY <1>1, EmptyBuffer DEF Init
<1> QED
  BY <1>2 DEF Init, DataTypes

\* The run read from a written cluster.
LEMMA ClusterValue ==
    ASSUME RequestOK, DataTypes, InLoop, clusters[cluster_num] # NullCluster, NEW n,
           n = MinOf(Remaining, SectorsPerCluster - (sector_num % SectorsPerCluster)),
           NEW i \in sector_index .. sector_index + n - 1
    PROVE  /\ start + i \in Sector
           /\ clusters[cluster_num][(sector_num % SectorsPerCluster) + i - sector_index]
                 = disk[start + i]
<1> DEFINE offset == sector_num % SectorsPerCluster
           k      == i - sector_index
<1>1. sector_num \in Sector /\ sector_num \in Int /\ sector_index \in Int
      /\ i \in Int /\ n \in Nat \ {0} /\ n <= SectorsPerCluster - offset
      /\ offset \in Int /\ offset \in 0 .. SectorsPerCluster - 1
  BY LoopSector, ClusterRun, InCluster, Numbers DEF RequestOK, Sector
<1>2. k \in Nat /\ k < SectorsPerCluster - offset
  BY <1>1, Numbers
<1>3. start + i = sector_num + k /\ offset + i - sector_index = offset + k
  BY <1>1 DEF start
<1> HIDE DEF k, offset
<1>4. /\ (sector_num + k) \div SectorsPerCluster = cluster_num
      /\ (sector_num + k) % SectorsPerCluster = offset + k
      /\ sector_num + k \in Sector
  BY <1>1, <1>2, SameCluster DEF cluster_num, offset
<1>5. disk[sector_num + k] = clusters[cluster_num][offset + k]
  BY <1>4, DiskAt
<1> QED
  BY <1>3, <1>4, <1>5 DEF offset

\* The types after each iteration.
LEMMA ClusterData == ASSUME ResumeInv, DataTypes, RwCluster PROVE DataTypes'
<1> DEFINE offset == sector_num % SectorsPerCluster
           n      == MinOf(Remaining, SectorsPerCluster - offset)
           old    == clusters[cluster_num]
<1>1. InLoop /\ old # NullCluster /\ RequestOK /\ busy
      /\ UNCHANGED <<is_write, sector_count, is_sync, data, busy, halted>>
  BY DEF RwCluster, ResumeInv, WaitOK, InLoop
<1>2. BufLen' = BufLen /\ BufLen = sector_count
  BY <1>1 DEF BufLen
<1>3. sector_num \in Sector /\ cluster_num \in 0 .. NClusters - 1 /\ n \in Nat
      /\ n <= SectorsPerCluster - offset /\ n <= Remaining
      /\ sector_index \in Nat /\ sector_count \in Nat
      /\ offset \in 0 .. SectorsPerCluster - 1
  BY <1>1, LoopSector, ClusterRun, InCluster DEF RequestOK
<1>4. old \in Contents
  BY <1>1, <1>3 DEF DataTypes
<1>5. CASE is_write
  <2> DEFINE new == [i \in DOMAIN old |-> IF i \in offset .. offset + n - 1
                                          THEN io_buf[sector_index + i - offset]
                                          ELSE old[i]]
  <2>1. clusters' = [clusters EXCEPT ![cluster_num] = new] /\ io_buf' = io_buf
    BY <1>5 DEF RwCluster
  <2>2. new \in Contents
    <3> SUFFICES ASSUME NEW i \in 0 .. SectorsPerCluster - 1,
                        i \in offset .. offset + n - 1
                 PROVE  io_buf[sector_index + i - offset] \in Vals
      BY <1>4 DEF Contents
    <3>1. sector_index + i - offset \in 0 .. sector_count - 1
      BY <1>3, Numbers DEF Remaining
    <3> QED
      BY <1>2, <3>1 DEF DataTypes
  <2> HIDE DEF new
  <2> QED
    BY <1>1, <1>2, <1>3, <2>1, <2>2 DEF DataTypes
<1>6. CASE ~is_write
  <2>1. clusters' = clusters
        /\ io_buf' = [i \in DOMAIN io_buf |->
               IF i \in sector_index .. sector_index + n - 1
               THEN old[offset + i - sector_index] ELSE io_buf[i]]
    BY <1>6 DEF RwCluster
  <2>2. \A i \in sector_index .. sector_index + n - 1 : old[offset + i - sector_index] \in Vals
    BY <1>1, ClusterValue, DiskType
  <2> HIDE DEF n, old, offset
  <2>3. io_buf' \in [0 .. BufLen - 1 -> Vals]
    BY <2>1, <2>2 DEF DataTypes
  <2> QED
    BY <1>1, <1>2, <2>1, <2>3 DEF DataTypes
<1> QED
  BY <1>5, <1>6

LEMMA AllocData == ASSUME ResumeInv, DataTypes, RwAlloc PROVE DataTypes'
<1> DEFINE offset == (cluster_num * SectorsPerCluster) % BlockSize
           new    == [i \in 0 .. SectorsPerCluster - 1 |->
                         IF offset + i < BlockSize
                         THEN Image(block_num * BlockSize + offset + i)
                         ELSE Garbage]
<1>1. InLoop /\ clusters' = [clusters EXCEPT ![cluster_num] = new]
      /\ UNCHANGED <<reqVars, busy, halted>>
  BY DEF RwAlloc
<1>2. cluster_num \in 0 .. NClusters - 1 /\ block_num \in Block
  BY <1>1, LoopSector DEF ResumeInv
<1>3. offset \in Nat
  <2>1. cluster_num * SectorsPerCluster \in Int
    BY <1>2, Numbers, Z3
  <2>2. offset \in 0 .. BlockSize - 1
    BY <2>1, Numbers, DivMod
  <2> HIDE DEF offset
  <2> QED
    BY <2>2, Numbers
<1>4. new \in Contents
  <2> SUFFICES ASSUME NEW i \in 0 .. SectorsPerCluster - 1, offset + i < BlockSize
               PROVE  Image(block_num * BlockSize + offset + i) \in Vals
    BY ValsType DEF Contents
  <2>1. BlockSize * block_num + BlockSize <= BlockSize * NbBlocks
    BY <1>2, Numbers, MulMono DEF Block
  <2>2. block_num * BlockSize = BlockSize * block_num /\ block_num * BlockSize \in Nat
    BY <1>2, Numbers, Z3 DEF Block
  <2> DEFINE x == block_num * BlockSize
  <2>3. x \in Nat /\ x + BlockSize <= NbSectors
    BY <2>1, <2>2, Numbers
  <2> HIDE DEF x, offset
  <2>4. x + offset + i \in Sector
    BY <1>3, <2>3, Numbers DEF Sector
  <2> QED
    BY <2>4, ValsType DEF x
<1> HIDE DEF new
<1> QED
  BY <1>1, <1>2, <1>4 DEF DataTypes, reqVars, BufLen

LEMMA ReadData == ASSUME ResumeInv, DataTypes, RwRead PROVE DataTypes'
<1> DEFINE n == MinOf(Remaining, BlockSize - (sector_num % BlockSize))
<1>1. /\ InLoop /\ busy /\ RequestOK
      /\ io_buf' = [i \in DOMAIN io_buf |->
              IF i \in sector_index .. sector_index + n - 1
              THEN Image(sector_num + i - sector_index) ELSE io_buf[i]]
      /\ UNCHANGED <<clusters, is_write, sector_count, is_sync, data, busy, halted>>
  BY DEF RwRead, ResumeInv, WaitOK, InLoop
<1>2. n \in Nat /\ n <= Remaining
  BY <1>1, BlockRun
<1> HIDE DEF n
<1>3. \A i \in sector_index .. sector_index + n - 1 : sector_num + i - sector_index \in Sector
  BY <1>1, <1>2, Numbers DEF RequestOK, Remaining, Sector
<1>4. io_buf' \in [0 .. BufLen - 1 -> Vals]
  BY <1>1, <1>3, ValsType DEF DataTypes
<1> QED
  BY <1>1, <1>4 DEF DataTypes, BufLen

LEMMA StartData ==
    ASSUME DataTypes, NEW w \in BOOLEAN, NEW s \in Sector, NEW n \in 0 .. MaxLen,
           StartRequest(w, s, n)
    PROVE  DataTypes'
<1>1. /\ busy' = TRUE /\ sector_count' = n /\ is_write' = w /\ is_sync' = TRUE
      /\ data' = [i \in 0 .. n - 1 |-> IF w THEN Tag(i) ELSE Garbage]
      /\ io_buf' = data' /\ UNCHANGED <<clusters, halted>>
  BY DEF StartRequest
<1>2. \A i \in 0 .. n - 1 : i \in 0 .. MaxLen - 1
  BY Numbers
<1>3. data' \in [0 .. n - 1 -> Vals]
  BY <1>1, <1>2, ValsType
<1> QED
  BY <1>1, <1>3 DEF DataTypes, BufLen

LEMMA DoneData == ASSUME DataTypes, RwDone PROVE DataTypes'
<1>1. /\ busy' = FALSE /\ io_buf' = << >> /\ data' = << >>
      /\ UNCHANGED <<clusters, is_write, is_sync, halted>>
  BY DEF RwDone
<1>2. BufLen' = 0
  BY <1>1 DEF BufLen
<1>3. io_buf' \in [0 .. BufLen' - 1 -> Vals] /\ data' \in [0 .. BufLen' - 1 -> Vals]
  BY <1>1, <1>2, EmptyBuffer
<1> QED
  BY <1>1, <1>3 DEF DataTypes

\* The other steps move no data; the buffer may be freed.
Idle ==
    \/ bf_start_load_prefetch_group \/ StartCb \/ ClientReturn \/ RwWait \/ RwMiss
    \/ (\E r \in wget : WgetOnload(r) \/ WgetError(r)) \/ bf_update_block \/ UNCHANGED vars

LEMMA IdleFrame ==
    ASSUME DataTypes, Idle
    PROVE  /\ UNCHANGED <<clusters, is_write, sector_num, sector_index, sector_count, data, busy>>
           /\ io_buf' = io_buf \/ (is_write /\ ~ClientKeepsBuffer
                                   /\ io_buf' = [i \in DOMAIN io_buf |-> Garbage])
           /\ is_sync' \in BOOLEAN /\ halted' \in BOOLEAN
<1>1. CASE bf_start_load_prefetch_group
  BY <1>1 DEF bf_start_load_prefetch_group, reqVars, DataTypes
<1>2. CASE StartCb \/ ClientReturn
  BY <1>2 DEF StartCb, ClientReturn, reqVars, DataTypes
<1>3. CASE RwWait
  BY <1>3 DEF RwWait, ReturnWaiting, DataTypes
<1>4. CASE RwMiss
  BY <1>4 DEF RwMiss, ReturnWaiting, DataTypes
<1>5. CASE \E r \in wget : WgetOnload(r) \/ WgetError(r)
  BY <1>5 DEF WgetOnload, WgetError, reqVars, DataTypes
<1>6. CASE bf_update_block
  BY <1>6 DEF bf_update_block, DataTypes
<1>7. CASE UNCHANGED vars
  BY <1>7 DEF vars, reqVars, DataTypes
<1> QED
  BY <1>1, <1>2, <1>3, <1>4, <1>5, <1>6, <1>7 DEF Idle

LEMMA IdleData == ASSUME DataTypes, Idle PROVE DataTypes'
<1>1. io_buf' \in [0 .. BufLen - 1 -> Vals]
  BY IdleFrame, ValsType DEF DataTypes
<1>2. BufLen' = BufLen
  BY IdleFrame DEF BufLen
<1> QED
  BY <1>1, <1>2, IdleFrame DEF DataTypes

\* Every step is one of these.
LEMMA Steps ==
    ASSUME [Next]_vars
    PROVE  \/ \E w \in BOOLEAN, s \in Sector, n \in 0 .. MaxLen : StartRequest(w, s, n)
           \/ RwCluster \/ RwAlloc \/ RwRead \/ RwDone \/ Idle
<1>1. CASE Start
  BY <1>1 DEF Start, bf_read_async, bf_write_async
<1> QED
  BY <1>1 DEF Next, Loop, Idle, Terminating

LEMMA NextData == ResumeInv /\ DataTypes /\ [Next]_vars => DataTypes'
  BY Steps, StartData, ClusterData, AllocData, ReadData, DoneData, IdleData

\* Both invariants give the types.
LEMMA DataImplies == ResumeInv /\ DataTypes => TypeOK
<1> SUFFICES ASSUME ResumeInv, DataTypes PROVE TypeOK
  OBVIOUS
<1>1. sector_num \in 0 .. NbSectors
  BY Numbers DEF ResumeInv, RequestOK, Remaining
<1> QED
  BY <1>1 DEF ResumeInv, RequestOK, CacheTypes, DataTypes, TypeOK

(* Type correctness of the HTTP block device, for every geometry: no       *)
(* iteration of bf_rw_async1 leaves the disk, its cluster or the caller's  *)
(* buffer.                                                                 *)
THEOREM TypeCorrect == Spec => []TypeOK
  BY InitResume, NextResume, InitData, NextData, DataImplies, PTL DEF Spec

-----------------------------------------------------------------------------
(* What a write stores                                                     *)

\* The sectors moved so far lie in allocated clusters, which later fills do
\* not touch, and hold the data; the buffer still holds the rest.
WriteInv ==
    busy /\ is_write =>
        /\ io_buf = data
        /\ \A i \in 0 .. sector_index - 1 :
              /\ clusters[(start + i) \div SectorsPerCluster] # NullCluster
              /\ disk[start + i] = data[i]

\* A sector of the request that has been moved.
LEMMA MovedSector ==
    ASSUME RequestOK, NEW i \in 0 .. sector_index - 1
    PROVE  /\ start + i \in Sector /\ start + i < sector_num
           /\ (start + i) \div SectorsPerCluster \in 0 .. NClusters - 1
<1>1. start + i \in Sector /\ start + i < sector_num
  BY Numbers DEF RequestOK, Remaining, start, Sector
<1> QED
  BY <1>1, InCluster

\* Sectors in allocated clusters are out of reach of a step that keeps these
\* clusters and the request.
LEMMA KeepsMoved ==
    ASSUME RequestOK, WriteInv, busy, is_write,
           \A c \in 0 .. NClusters - 1 : clusters[c] # NullCluster => clusters'[c] = clusters[c],
           UNCHANGED <<sector_num, sector_index, data, io_buf>>
    PROVE  WriteInv'
<1>1. start' = start
  BY DEF start
<1>2. ASSUME NEW i \in 0 .. sector_index - 1
      PROVE  /\ clusters'[(start + i) \div SectorsPerCluster] # NullCluster
             /\ disk'[start + i] = data[i]
  <2>1. start + i \in Sector /\ (start + i) \div SectorsPerCluster \in 0 .. NClusters - 1
    BY MovedSector
  <2>2. clusters[(start + i) \div SectorsPerCluster] # NullCluster /\ disk[start + i] = data[i]
    BY DEF WriteInv
  <2>3. clusters'[(start + i) \div SectorsPerCluster] = clusters[(start + i) \div SectorsPerCluster]
    BY <2>1, <2>2
  <2>4. disk'[start + i] = disk[start + i]
    BY <2>1, <2>3, DiskAt, DiskAtNext
  <2> QED
    BY <2>2, <2>3, <2>4
<1> QED
  BY <1>1, <1>2 DEF WriteInv, NullCluster

LEMMA ClusterWrite ==
    ASSUME ResumeInv, DataTypes, WriteInv, RwCluster
    PROVE  WriteInv'
<1> DEFINE n == MinOf(Remaining, SectorsPerCluster - (sector_num % SectorsPerCluster))
<1>1. /\ RequestOK /\ InLoop /\ busy /\ clusters[cluster_num] # NullCluster
      /\ Moved(n) /\ UNCHANGED <<is_write, data, busy>>
  BY DEF RwCluster, ResumeInv, WaitOK, InLoop
<1>2. CASE ~is_write
  BY <1>1, <1>2 DEF WriteInv
<1>3. CASE is_write
  <2>1. /\ n \in Nat \ {0} /\ n <= Remaining
        /\ n <= SectorsPerCluster - (sector_num % SectorsPerCluster)
    BY <1>1, ClusterRun
  <2>2. /\ \A s \in Sector :
               disk'[s] = IF s - sector_num \in 0 .. n - 1
                          THEN io_buf[sector_index + (s - sector_num)]
                          ELSE disk[s]
        /\ \A c \in 0 .. NClusters - 1 : clusters'[c] = NullCluster <=> clusters[c] = NullCluster
    BY <1>1, <1>3, WriteRun
  <2>3. io_buf' = io_buf /\ io_buf = data
    BY <1>1, <1>3 DEF RwCluster, WriteInv
  <2>4. sector_num \in Sector /\ sector_num \in Int /\ sector_index \in Nat
        /\ start = sector_num - sector_index
    BY <1>1, LoopSector, Numbers DEF RequestOK, Sector, start
  <2>5. start' = start /\ sector_index' = sector_index + n
    BY <1>1, <2>1, <2>4 DEF Moved, start
  <2>6. ASSUME NEW i \in 0 .. sector_index + n - 1
        PROVE  /\ clusters'[(start + i) \div SectorsPerCluster] # NullCluster
               /\ disk'[start + i] = data[i]
    <3>1. CASE i \in 0 .. sector_index - 1
      <4>1. /\ start + i \in Sector /\ start + i < sector_num
            /\ (start + i) \div SectorsPerCluster \in 0 .. NClusters - 1
        BY <1>1, <3>1, MovedSector
      <4>2. start + i \in Int
        BY <4>1, Numbers DEF Sector
      <4>3. ~((start + i) - sector_num \in 0 .. n - 1)
        BY <2>4, <4>1, <4>2
      <4>4. disk'[start + i] = disk[start + i]
        BY <2>2, <4>1, <4>3
      <4> QED
        BY <1>1, <1>3, <2>2, <3>1, <4>1, <4>4 DEF WriteInv
    <3>2. CASE i >= sector_index
      <4>1. i \in sector_index .. sector_index + n - 1
        BY <2>1, <2>4, <3>2
      <4>2. start + i \in Sector
        BY <1>1, <4>1, ClusterValue
      <4> DEFINE k == i - sector_index
      <4>3. /\ k \in Nat /\ k < SectorsPerCluster - (sector_num % SectorsPerCluster)
            /\ start + i = sector_num + k
        <5>1. sector_num % SectorsPerCluster \in Int
          BY <2>4, InCluster
        <5> QED
          BY <2>1, <2>4, <4>1, <5>1, Numbers
      <4> HIDE DEF k
      <4>4. (start + i) \div SectorsPerCluster = cluster_num
        BY <2>4, <4>3, SameCluster DEF cluster_num
      <4>5. (start + i) - sector_num \in 0 .. n - 1
            /\ sector_index + ((start + i) - sector_num) = i
        BY <2>1, <2>4, <4>1
      <4>6. disk'[start + i] = data[i]
        BY <2>2, <2>3, <4>2, <4>5
      <4>7. cluster_num \in 0 .. NClusters - 1
        BY <1>1, LoopSector
      <4> QED
        BY <1>1, <2>2, <4>4, <4>6, <4>7
    <3> QED
      BY <2>1, <2>4, <3>1, <3>2
  <2>7. \A i \in 0 .. sector_index' - 1 :
            /\ clusters'[(start' + i) \div SectorsPerCluster] # NullCluster
            /\ disk'[start' + i] = data'[i]
    <3>1. \A i \in 0 .. sector_index + n - 1 :
              /\ clusters'[(start + i) \div SectorsPerCluster] # NullCluster
              /\ disk'[start + i] = data[i]
      BY <2>6, Zenon
    <3>2. data' = data
      BY <1>1
    <3> SUFFICES ASSUME NEW i \in 0 .. sector_index' - 1
                 PROVE  /\ clusters'[(start' + i) \div SectorsPerCluster] # NullCluster
                        /\ disk'[start' + i] = data'[i]
      OBVIOUS
    <3>3. i \in 0 .. sector_index + n - 1
      BY <2>1, <2>4, <2>5
    <3>4. start' + i = start + i
      BY <2>5
    <3> QED
      BY <3>1, <3>2, <3>3, <3>4
  <2>8. io_buf' = data'
    BY <1>1, <2>3
  <2> QED
    BY <2>7, <2>8 DEF WriteInv, NullCluster
<1> QED
  BY <1>2, <1>3

LEMMA NextWrite ==
    ASSUME ClientKeepsBuffer = TRUE, ResumeInv, DataTypes, WriteInv, [Next]_vars
    PROVE  WriteInv'
<1>1. ASSUME NEW w \in BOOLEAN, NEW s \in Sector, NEW n \in 0 .. MaxLen, StartRequest(w, s, n)
      PROVE  WriteInv'
  BY <1>1 DEF StartRequest, WriteInv
<1>2. CASE RwAlloc
  <2>1. UNCHANGED <<is_write, sector_num, sector_index, data, io_buf, busy>>
    BY <1>2 DEF RwAlloc, reqVars
  <2>2. CASE busy /\ is_write
    BY <1>2, <2>1, <2>2, AllocRun, KeepsMoved DEF ResumeInv
  <2>3. CASE ~(busy /\ is_write)
    BY <2>1, <2>3 DEF WriteInv
  <2> QED
    BY <2>2, <2>3
<1>3. CASE RwRead
  BY <1>3 DEF RwRead, WriteInv
<1>4. CASE RwDone
  BY <1>4 DEF RwDone, WriteInv
<1>5. CASE Idle
  <2>1. /\ UNCHANGED <<clusters, is_write, sector_num, sector_index, data, busy>>
        /\ io_buf' = io_buf
    BY <1>5, IdleFrame
  <2>2. CASE busy /\ is_write
    <3>1. \A c \in 0 .. NClusters - 1 : clusters'[c] = clusters[c]
      BY <2>1
    <3> QED
      BY <2>1, <2>2, <3>1, KeepsMoved DEF ResumeInv
  <2>3. CASE ~(busy /\ is_write)
    BY <2>1, <2>3 DEF WriteInv
  <2> QED
    BY <2>2, <2>3
<1> QED
  BY <1>1, <1>2, <1>3, <1>4, <1>5, ClusterWrite, Steps

(* What a write has moved is what the client asked to store, for every     *)
(* size of blocks and clusters, provided the client keeps its buffer until *)
(* the request ends.  (The run http_freed_buffer shows what happens when   *)
(* it does not, as virtio_block_recv_request does.)                        *)
THEOREM WritesStoreData ==
    ASSUME ClientKeepsBuffer = TRUE
    PROVE  Spec => []WriteStoresData
<1>1. Init => WriteInv
  BY DEF Init, WriteInv
<1>2. ResumeInv /\ DataTypes /\ WriteInv /\ [Next]_vars => WriteInv'
  BY NextWrite
<1>3. WriteInv => WriteStoresData
  BY DEF WriteInv, WriteStoresData
<1> QED
  BY <1>1, <1>2, <1>3, InitResume, NextResume, InitData, NextData, PTL DEF Spec

-----------------------------------------------------------------------------
(* What changes on the disk                                                *)

LEMMA StepWrites ==
    ASSUME BlockSize % SectorsPerCluster = 0, ResumeInv, DataTypes, [Next]_vars,
           NEW s \in Sector, disk'[s] # disk[s]
    PROVE  is_write /\ s \in start .. start + sector_count - 1
<1>1. clusters' # clusters
  BY DiskFrame
<1>2. RwCluster \/ RwAlloc
  BY <1>1, Steps, IdleFrame DEF StartRequest, RwRead, RwDone
<1>3. RwCluster
  BY <1>2, AllocRun DEF ResumeInv
<1>4. is_write
  BY <1>1, <1>3 DEF RwCluster
<1> DEFINE n == MinOf(Remaining, SectorsPerCluster - (sector_num % SectorsPerCluster))
<1>5. s - sector_num \in 0 .. n - 1
  BY <1>3, <1>4, WriteRun DEF ResumeInv
<1>6. n \in Nat /\ n <= Remaining
  BY <1>3, ClusterRun DEF ResumeInv, RwCluster
<1> HIDE DEF n
<1>7. s \in start .. start + sector_count - 1
  BY <1>5, <1>6, Numbers DEF ResumeInv, RequestOK, Remaining, start, Sector
<1> QED
  BY <1>4, <1>7

(* A sector changes only if the request being served writes it: loading,   *)
(* evicting and the allocation of clusters leave the disk as it is, when   *)
(* a block holds whole clusters.                                           *)
THEOREM OthersUntouched ==
    ASSUME BlockSize % SectorsPerCluster = 0
    PROVE  Spec => OnlyWrittenSectorsChange
<1>1. ResumeInv /\ DataTypes /\ [Next]_vars =>
          [\A s \in Sector : disk'[s] # disk[s] =>
               is_write /\ s \in start .. start + sector_count - 1]_vars
  BY StepWrites
<1> QED
  BY <1>1, InitResume, NextResume, InitData, NextData, PTL DEF Spec, OnlyWrittenSectorsChange

-----------------------------------------------------------------------------
(* The device behaves like a disk                                          *)

buf == IF is_write THEN data ELSE io_buf

LEMMA InitDisk == Init => AsyncDisk!Init
<1> SUFFICES ASSUME Init PROVE AsyncDisk!Init
  OBVIOUS
<1>1. disk \in [Sector -> Vals]
  BY InitData, DiskType
<1>2. start = 0
  BY DEF Init, start
<1>3. io_buf \in [0 .. 0 - 1 -> Vals]
  BY EmptyBuffer DEF Init
<1> QED
  BY <1>1, <1>2, <1>3 DEF Init, AsyncDisk!Init, AsyncDisk!Sector, AsyncDisk!Buffer, Sector

LEMMA StartDisk ==
    ASSUME DataTypes, NEW w \in BOOLEAN, NEW s \in Sector, NEW n \in 0 .. MaxLen,
           StartRequest(w, s, n)
    PROVE  AsyncDisk!Request
<1>1. /\ ~busy /\ busy' = TRUE /\ sector_count' = n /\ is_write' = w /\ sector_index' = 0
      /\ sector_num' = s /\ s + n <= NbSectors /\ io_buf' = data' /\ clusters' = clusters
  BY DEF StartRequest
<1>2. DataTypes'
  BY StartData
<1>3. buf' \in [0 .. n - 1 -> Vals]
  BY <1>1, <1>2 DEF DataTypes, BufLen, buf
<1>4. start' = s
  BY <1>1, Numbers DEF start, Sector
<1>5. disk' = disk
  BY <1>1, DiskFrame
<1> QED
  BY <1>1, <1>3, <1>4, <1>5 DEF AsyncDisk!Request, AsyncDisk!Buffer, AsyncDisk!Sector, Sector, buf

LEMMA WriteDisk ==
    ASSUME ResumeInv, DataTypes, WriteInv, RwCluster, is_write
    PROVE  AsyncDisk!Transfer
<1> DEFINE n == MinOf(Remaining, SectorsPerCluster - (sector_num % SectorsPerCluster))
<1>1. /\ RequestOK /\ InLoop /\ busy /\ Moved(n)
      /\ UNCHANGED <<is_write, sector_count, data, busy>> /\ io_buf = data
  BY DEF RwCluster, ResumeInv, WaitOK, InLoop, WriteInv
<1>2. n \in Nat \ {0} /\ n <= Remaining
  BY <1>1, ClusterRun
<1>3. \A s \in Sector :
          disk'[s] = IF s - sector_num \in 0 .. n - 1
                     THEN io_buf[sector_index + (s - sector_num)]
                     ELSE disk[s]
  BY <1>1, WriteRun
<1> HIDE DEF n
<1>4. /\ sector_num \in Int /\ sector_index \in Int /\ sector_count \in Int
      /\ sector_index' = sector_index + n /\ sector_index' \in Int
      /\ start = sector_num - sector_index /\ start' = start
  BY <1>1, <1>2, Numbers DEF RequestOK, Moved, start
<1>5. sector_index' \in sector_index + 1 .. sector_count
  BY <1>1, <1>2, <1>4 DEF Remaining
<1>6. ASSUME NEW s \in Sector
      PROVE  disk'[s] = IF s - start \in sector_index .. sector_index' - 1
                        THEN data[s - start] ELSE disk[s]
  <2>1. s \in Int
    BY Numbers DEF Sector
  <2>2. sector_index + (s - sector_num) = s - start
        /\ (s - sector_num \in 0 .. n - 1 <=> s - start \in sector_index .. sector_index' - 1)
    BY <1>2, <1>4, <2>1
  <2> QED
    BY <1>1, <1>3, <2>2
<1>7. disk' = [s \in Sector |-> disk'[s]]
  BY DEF disk, Sector, NbSectors
<1>8. disk' = [s \in Sector |-> IF s - start \in sector_index .. sector_index' - 1
                                THEN data[s - start] ELSE disk[s]]
  BY <1>6, <1>7
<1> QED
  BY <1>1, <1>4, <1>5, <1>8 DEF AsyncDisk!Transfer, AsyncDisk!Sector, Sector

\* A read of a run of sectors that hold what the disk holds.
LEMMA ReadRunDisk ==
    ASSUME RequestOK, busy, ~is_write, NEW n \in Nat \ {0}, n <= Remaining, Moved(n),
           UNCHANGED <<clusters, is_write, sector_count, busy>>,
           io_buf' = [i \in DOMAIN io_buf |-> IF i \in sector_index .. sector_index + n - 1
                                              THEN disk[start + i] ELSE io_buf[i]]
    PROVE  AsyncDisk!Transfer
<1>1. /\ sector_num \in Int /\ sector_index \in Int /\ sector_count \in Int
      /\ sector_index' = sector_index + n /\ start' = start
  BY Numbers DEF RequestOK, Moved, start
<1>2. sector_index' \in sector_index + 1 .. sector_count
  BY <1>1 DEF Remaining
<1>3. disk' = disk
  BY DiskFrame
<1> QED
  BY <1>1, <1>2, <1>3 DEF AsyncDisk!Transfer

LEMMA ClusterReadDisk ==
    ASSUME ResumeInv, DataTypes, RwCluster, ~is_write
    PROVE  AsyncDisk!Transfer
<1> DEFINE offset == sector_num % SectorsPerCluster
           n == MinOf(Remaining, SectorsPerCluster - offset)
<1>1. /\ RequestOK /\ InLoop /\ busy /\ Moved(n) /\ clusters[cluster_num] # NullCluster
      /\ UNCHANGED <<clusters, is_write, sector_count, busy>>
      /\ io_buf' = [i \in DOMAIN io_buf |->
             IF i \in sector_index .. sector_index + n - 1
             THEN clusters[cluster_num][offset + i - sector_index] ELSE io_buf[i]]
  BY DEF RwCluster, ResumeInv, WaitOK, InLoop
<1>2. n \in Nat \ {0} /\ n <= Remaining
  BY <1>1, ClusterRun
<1>3. \A i \in sector_index .. sector_index + n - 1 :
          clusters[cluster_num][offset + i - sector_index] = disk[start + i]
  BY <1>1, ClusterValue
<1> HIDE DEF n, offset
<1>4. io_buf' = [i \in DOMAIN io_buf |-> IF i \in sector_index .. sector_index + n - 1
                                         THEN disk[start + i] ELSE io_buf[i]]
  BY <1>1, <1>3
<1> QED
  BY <1>1, <1>2, <1>4, ReadRunDisk

\* With one cluster per block, a block whose cluster was never written holds
\* the image.
LEMMA BlockReadDisk ==
    ASSUME BlockSize = SectorsPerCluster, ResumeInv, DataTypes, RwRead
    PROVE  AsyncDisk!Transfer
<1> DEFINE n == MinOf(Remaining, BlockSize - (sector_num % BlockSize))
<1>1. /\ RequestOK /\ InLoop /\ busy /\ Moved(n) /\ clusters[cluster_num] = NullCluster
      /\ ~is_write /\ UNCHANGED <<clusters, is_write, sector_count, busy>>
      /\ io_buf' = [i \in DOMAIN io_buf |->
             IF i \in sector_index .. sector_index + n - 1
             THEN Image(sector_num + i - sector_index) ELSE io_buf[i]]
  BY DEF RwRead, ResumeInv, WaitOK, InLoop
<1>2. n \in Nat \ {0} /\ n <= Remaining /\ n <= SectorsPerCluster - (sector_num % SectorsPerCluster)
  BY <1>1, BlockRun
<1>3. ASSUME NEW i \in sector_index .. sector_index + n - 1
      PROVE  Image(sector_num + i - sector_index) = disk[start + i]
  <2> DEFINE k == i - sector_index
  <2>1. sector_num \in Sector /\ sector_num \in Int /\ sector_index \in Int /\ i \in Int
        /\ sector_num % SectorsPerCluster \in Int
    BY <1>1, <1>2, LoopSector, InCluster, Numbers DEF RequestOK, Sector
  <2>2. k \in Nat /\ k < SectorsPerCluster - (sector_num % SectorsPerCluster)
        /\ start + i = sector_num + k /\ sector_num + i - sector_index = sector_num + k
    BY <1>2, <2>1, Numbers DEF start
  <2> HIDE DEF k
  <2>3. sector_num + k \in Sector /\ (sector_num + k) \div SectorsPerCluster = cluster_num
    BY <2>1, <2>2, SameCluster DEF cluster_num
  <2>4. disk[sector_num + k] = Image(sector_num + k)
    BY <1>1, <2>3, DiskAt
  <2> QED
    BY <2>2, <2>4
<1> HIDE DEF n
<1>4. io_buf' = [i \in DOMAIN io_buf |-> IF i \in sector_index .. sector_index + n - 1
                                         THEN disk[start + i] ELSE io_buf[i]]
  BY <1>1, <1>3
<1> QED
  BY <1>1, <1>2, <1>4, ReadRunDisk

LEMMA DoneDisk == ASSUME ResumeInv, DataTypes, RwDone PROVE AsyncDisk!Complete
<1>1. /\ busy /\ busy' = FALSE /\ io_buf' = << >> /\ data' = << >>
      /\ UNCHANGED <<clusters, is_write, sector_num, sector_index, sector_count>>
      /\ sector_count - sector_index = 0 /\ sector_count \in Int /\ sector_index \in Int
  BY DEF RwDone, ResumeInv, WaitOK, RequestOK, Remaining
<1>2. buf' \in [0 .. 0 - 1 -> Vals]
  BY <1>1, EmptyBuffer DEF buf
<1>3. disk' = disk /\ start' = start
  BY <1>1, DiskFrame DEF start
<1> QED
  BY <1>1, <1>2, <1>3 DEF AsyncDisk!Complete, AsyncDisk!Buffer, buf

LEMMA StutterDisk ==
    ASSUME disk' = disk,
           UNCHANGED <<is_write, sector_num, sector_index, sector_count, data, io_buf, busy>>
    PROVE  UNCHANGED AsyncDisk!vars
<1>1. start' = start
  BY DEF start
<1> QED
  BY <1>1 DEF AsyncDisk!vars

LEMMA NextDisk ==
    ASSUME BlockSize = SectorsPerCluster, ClientKeepsBuffer = TRUE,
           ResumeInv, DataTypes, WriteInv, [Next]_vars
    PROVE  [AsyncDisk!Next]_AsyncDisk!vars
<1>1. CASE \E w \in BOOLEAN, s \in Sector, n \in 0 .. MaxLen : StartRequest(w, s, n)
  BY <1>1, StartDisk DEF AsyncDisk!Next
<1>2. CASE RwCluster
  BY <1>2, WriteDisk, ClusterReadDisk DEF AsyncDisk!Next
<1>3. CASE RwAlloc
  <2>1. BlockSize % SectorsPerCluster = 0
    BY Numbers, Z3
  <2>2. disk' = disk
    BY <1>3, <2>1, AllocRun DEF ResumeInv
  <2> QED
    BY <1>3, <2>2, StutterDisk DEF RwAlloc, reqVars
<1>4. CASE RwRead
  BY <1>4, BlockReadDisk DEF AsyncDisk!Next
<1>5. CASE RwDone
  BY <1>5, DoneDisk DEF AsyncDisk!Next
<1>6. CASE Idle
  BY <1>6, IdleFrame, DiskFrame, StutterDisk
<1> QED
  BY <1>1, <1>2, <1>3, <1>4, <1>5, <1>6, Steps

(* The device implements a disk, whatever it caches, evicts, prefetches    *)
(* or allocates: every read returns the current contents and every write   *)
(* changes exactly its sectors.  Two hypotheses say where this is true:    *)
(* one cluster per block (with more, a read runs past the written cluster: *)
(* http_stale_read) and a client that keeps its buffer (otherwise a write  *)
(* that waits stores freed memory: http_freed_buffer).                     *)
THEOREM DeviceIsDisk ==
    ASSUME BlockSize = SectorsPerCluster, ClientKeepsBuffer = TRUE
    PROVE  Spec => RefinesAsyncDisk
<1>1. Init => WriteInv
  BY DEF Init, WriteInv
<1>2. ResumeInv /\ DataTypes /\ WriteInv /\ [Next]_vars => WriteInv'
  BY NextWrite
<1>3. ResumeInv /\ DataTypes /\ WriteInv /\ [Next]_vars => [AsyncDisk!Next]_AsyncDisk!vars
  BY NextDisk
<1> QED
  BY <1>1, <1>2, <1>3, InitDisk, InitResume, NextResume, InitData, NextData, PTL
     DEF Spec, RefinesAsyncDisk, AsyncDisk!Spec
=============================================================================
