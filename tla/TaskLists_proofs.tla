--------------------------- MODULE TaskLists_proofs ---------------------------
(***************************************************************************)
(* Lists without repetition, finite sets of numbers, sums over finite sets *)
(* and remainders.  The proofs about the calls of Assignment3 rest on      *)
(* these.                                                                  *)
(***************************************************************************)
EXTENDS TaskLists, FiniteSetTheorems, SequenceTheorems, TLAPS

Distinct(list) == \A j, k \in DOMAIN list : list[j] = list[k] => j = k

-----------------------------------------------------------------------------
(* Lists                                                                   *)

LEMMA FunctionIsSeq ==
  ASSUME NEW S, NEW n \in Nat, NEW f \in [1 .. n -> S]
  PROVE  f \in Seq(S) /\ DOMAIN f = 1 .. n /\ Len(f) = n
  <1>1. f \in UNION {[1 .. m -> S] : m \in Nat}
    OBVIOUS
  <1>2. f \in Seq(S)
    BY <1>1, SeqDef
  <1>3. DOMAIN f = 1 .. n /\ DOMAIN f = 1 .. Len(f) /\ Len(f) \in Nat
    BY <1>2, LenProperties
  <1> QED
    BY <1>2, <1>3

(* No node is at two places.                                               *)
LEMMA PlaceUnique ==
  ASSUME NEW S, NEW list \in Seq(S), Distinct(list), NEW k \in 1 .. Len(list)
  PROVE  Place(list, list[k]) = k
  BY LenProperties DEF Place, Distinct

LEMMA PlaceIn ==
  ASSUME NEW S, NEW list \in Seq(S), NEW t \in Range(list)
  PROVE  Place(list, t) \in 1 .. Len(list) /\ list[Place(list, t)] = t
  <1>1. \E n \in 1 .. Len(list) : list[n] = t
    BY LenProperties DEF Range
  <1> QED
    BY <1>1 DEF Place

LEMMA AfterPlace ==
  ASSUME NEW S, NEW list \in Seq(S), NEW t \in Range(list)
  PROVE  IF Place(list, t) < Len(list)
           THEN After(list, t) = list[Place(list, t) + 1] /\ After(list, t) \in Range(list)
           ELSE After(list, t) = AtHead /\ Place(list, t) = Len(list)
  <1>1. Place(list, t) \in 1 .. Len(list) /\ Len(list) \in Nat /\ DOMAIN list = 1 .. Len(list)
    BY PlaceIn, LenProperties
  <1> DEFINE n == Place(list, t)
  <1>2. After(list, t) = IF n < Len(list) THEN list[n + 1] ELSE AtHead
    BY DEF After
  <1> HIDE DEF n
  <1>3. n < Len(list) => n + 1 \in DOMAIN list
    BY <1>1 DEF n
  <1>4. n < Len(list) => list[n + 1] \in Range(list)
    BY <1>3 DEF Range
  <1>5. ~(n < Len(list)) => n = Len(list)
    BY <1>1 DEF n
  <1> QED
    BY <1>2, <1>4, <1>5 DEF n

LEMMA AppendList ==
  ASSUME NEW S, NEW list \in Seq(S), NEW t \in S
  PROVE  /\ Append(list, t) \in Seq(S)
         /\ Range(Append(list, t)) = Range(list) \cup {t}
         /\ Distinct(list) /\ t \notin Range(list) => Distinct(Append(list, t))
  <1> DEFINE L == Len(list)
             a == Append(list, t)
  <1>1. a \in Seq(S) /\ Len(a) = L + 1 /\ a[L + 1] = t /\ \A n \in 1 .. L : a[n] = list[n]
    BY AppendProperties
  <1>2. L \in Nat /\ DOMAIN list = 1 .. L /\ DOMAIN a = 1 .. L + 1
    BY <1>1, LenProperties
  <1> HIDE DEF L, a
  <1>3. \A n \in 1 .. L + 1 : n \in 1 .. L \/ n = L + 1
    BY <1>2
  <1>4. \A n \in 1 .. L : n \in 1 .. L + 1
    BY <1>2
  <1>5. L + 1 \in 1 .. L + 1
    BY <1>2
  <1>6. Range(a) = Range(list) \cup {t}
    BY <1>1, <1>2, <1>3, <1>4, <1>5 DEF Range
  <1>7. ASSUME Distinct(list), t \notin Range(list)
        PROVE  Distinct(a)
    <2>1. \A n \in 1 .. L : list[n] # t
      BY <1>2, <1>7 DEF Range
    <2> QED  BY <1>1, <1>2, <1>3, <1>7, <2>1 DEF Distinct
  <1> QED
    BY <1>1, <1>6, <1>7 DEF a

LEMMA AppendPlace ==
  ASSUME NEW S, NEW list \in Seq(S), NEW t \in S, NEW u \in Range(list), Distinct(Append(list, t))
  PROVE  Place(Append(list, t), u) = Place(list, u)
  <1> DEFINE p == Place(list, u)
             a == Append(list, t)
  <1>1. p \in 1 .. Len(list) /\ list[p] = u
    BY PlaceIn
  <1>2. a \in Seq(S) /\ Len(a) = Len(list) + 1 /\ \A n \in 1 .. Len(list) : a[n] = list[n]
    BY AppendProperties
  <1> HIDE DEF p
  <1>3. p \in 1 .. Len(a)
    BY <1>1, <1>2, LenProperties
  <1>4. a[p] = u
    BY <1>1, <1>2
  <1> HIDE DEF a
  <1>5. Place(a, a[p]) = p
    BY <1>2, <1>3, PlaceUnique DEF a
  <1> QED
    BY <1>4, <1>5 DEF a, p

LEMMA ConcatList ==
  ASSUME NEW S, NEW r \in Seq(S), NEW s \in Seq(S)
  PROVE  /\ r \o s \in Seq(S)
         /\ Range(r \o s) = Range(r) \cup Range(s)
         /\ Distinct(r) /\ Distinct(s) /\ Range(r) \cap Range(s) = {} => Distinct(r \o s)
  <1> DEFINE M == Len(r)
             N == Len(s)
             c == r \o s
  <1>1. c \in Seq(S) /\ Len(c) = M + N /\ \A n \in 1 .. M + N : c[n] = IF n <= M THEN r[n] ELSE s[n - M]
    BY ConcatProperties
  <1>2. M \in Nat /\ N \in Nat /\ DOMAIN r = 1 .. M /\ DOMAIN s = 1 .. N /\ DOMAIN c = 1 .. M + N
    BY <1>1, LenProperties
  <1> HIDE DEF M, N, c
  <1>3. ASSUME Distinct(r), Distinct(s), Range(r) \cap Range(s) = {},
               NEW j \in 1 .. M + N, NEW k \in 1 .. M + N, c[j] = c[k]
        PROVE  j = k
    <2>1. \A n \in 1 .. M + N : IF n <= M THEN n \in 1 .. M /\ c[n] = r[n] ELSE n - M \in 1 .. N /\ c[n] = s[n - M]
      BY <1>1, <1>2
    <2>2. \A n \in 1 .. M : r[n] \in Range(r)
      BY <1>2 DEF Range
    <2>3. \A n \in 1 .. N : s[n] \in Range(s)
      BY <1>2 DEF Range
    <2>4. CASE j <= M /\ k <= M
      BY <1>2, <1>3, <2>1, <2>4 DEF Distinct
    <2>5. CASE ~(j <= M) /\ ~(k <= M)
      <3>1. j - M = k - M
        BY <1>2, <1>3, <2>1, <2>5 DEF Distinct
      <3> QED  BY <1>2, <3>1
    <2>6. CASE j <= M /\ ~(k <= M)
      BY <1>3, <2>1, <2>2, <2>3, <2>6
    <2>7. CASE ~(j <= M) /\ k <= M
      BY <1>3, <2>1, <2>2, <2>3, <2>7
    <2> QED  BY <2>4, <2>5, <2>6, <2>7
  <1>4. Range(c) = Range(r) \cup Range(s)
    BY RangeConcatenation DEF c
  <1> QED
    BY <1>1, <1>2, <1>3, <1>4 DEF Distinct, c

LEMMA WithoutList ==
  ASSUME NEW S, NEW list \in Seq(S), Distinct(list), NEW t \in Range(list)
  PROVE  /\ Without(list, t) \in Seq(S) /\ Distinct(Without(list, t))
         /\ Range(Without(list, t)) = Range(list) \ {t}
         /\ Len(Without(list, t)) = Len(list) - 1
  <1> DEFINE L == Len(list)
             p == Place(list, t)
             r == SubSeq(list, 1, p - 1)
             s == SubSeq(list, p + 1, L)
             w == Without(list, t)
  <1>1. p \in 1 .. L /\ list[p] = t /\ L \in Nat /\ DOMAIN list = 1 .. L /\ \A n \in 1 .. L : list[n] \in S
    BY PlaceIn, LenProperties
  <1>2. w = r \o s
    BY DEF Without
  <1> HIDE DEF L, p, w
  <1>3. r \in Seq(S) /\ Len(r) = p - 1 /\ \A n \in 1 .. p - 1 : r[n] = list[n]
    <2>1. \A n \in 1 .. p - 1 : list[n] \in S
      BY <1>1
    <2>2. p - 1 \in Int /\ 1 \in Int /\ (1 <= p - 1 => (p - 1) - 1 + 1 = p - 1) /\ (~(1 <= p - 1) => 0 = p - 1)
          /\ (p - 1) - 1 + 1 = p - 1
      BY <1>1
    <2>3. /\ r \in Seq(S) /\ Len(r) = IF 1 <= p - 1 THEN (p - 1) - 1 + 1 ELSE 0
          /\ \A n \in 1 .. (p - 1) - 1 + 1 : r[n] = list[1 + n - 1]
      BY <2>1, <2>2, SubSeqProperties
    <2>4. \A n \in 1 .. p - 1 : 1 + n - 1 = n
      BY <1>1
    <2> QED  BY <2>2, <2>3, <2>4
  <1>4. s \in Seq(S) /\ Len(s) = L - p /\ \A n \in 1 .. L - p : s[n] = list[n + p]
    <2>1. \A n \in p + 1 .. L : list[n] \in S
      BY <1>1
    <2>2. p + 1 \in Int /\ L \in Int /\ L - (p + 1) + 1 = L - p /\ (~(p + 1 <= L) => 0 = L - p)
      BY <1>1
    <2>3. /\ s \in Seq(S) /\ Len(s) = IF p + 1 <= L THEN L - (p + 1) + 1 ELSE 0
          /\ \A n \in 1 .. L - (p + 1) + 1 : s[n] = list[(p + 1) + n - 1]
      BY <2>1, <2>2, SubSeqProperties
    <2>4. \A n \in 1 .. L - p : (p + 1) + n - 1 = n + p
      BY <1>1
    <2> QED  BY <2>2, <2>3, <2>4
  <1> HIDE DEF r, s
  <1>5. Len(w) = L - 1 /\ w \in Seq(S)
        /\ \A n \in 1 .. L - 1 : w[n] = IF n < p THEN list[n] ELSE list[n + 1]
    <2>1. /\ w \in Seq(S) /\ Len(w) = (p - 1) + (L - p)
          /\ \A n \in 1 .. (p - 1) + (L - p) : w[n] = IF n <= p - 1 THEN r[n] ELSE s[n - (p - 1)]
      BY <1>2, <1>3, <1>4, ConcatProperties
    <2>2. (p - 1) + (L - p) = L - 1
      BY <1>1
    <2>3. ASSUME NEW n \in 1 .. L - 1
          PROVE  w[n] = IF n < p THEN list[n] ELSE list[n + 1]
      <3>1. CASE n < p
        <4>1. n <= p - 1 /\ n \in 1 .. p - 1
          BY <1>1, <3>1
        <4> QED  BY <1>3, <2>1, <2>2, <3>1, <4>1
      <3>2. CASE ~(n < p)
        <4>1. ~(n <= p - 1) /\ n - (p - 1) \in 1 .. L - p /\ (n - (p - 1)) + p = n + 1
          BY <1>1, <3>2
        <4>2. w[n] = s[n - (p - 1)]
          BY <2>1, <2>2, <4>1
        <4>3. s[n - (p - 1)] = list[n + 1]
          BY <1>4, <4>1
        <4> QED  BY <3>2, <4>2, <4>3
      <3> QED  BY <3>1, <3>2
    <2> QED  BY <2>1, <2>2, <2>3
  <1>6. DOMAIN w = 1 .. L - 1
    BY <1>5, LenProperties
  <1> DEFINE at(n) == IF n < p THEN n ELSE n + 1
  <1>7. \A n \in 1 .. L - 1 : at(n) \in 1 .. L /\ at(n) # p /\ w[n] = list[at(n)]
    BY <1>1, <1>5
  <1>8. \A j, k \in 1 .. L - 1 : at(j) = at(k) => j = k
    BY <1>1
  <1>9. \A m \in 1 .. L : m # p => \E n \in 1 .. L - 1 : at(n) = m
    <2>1. ASSUME NEW m \in 1 .. L, m < p PROVE \E n \in 1 .. L - 1 : at(n) = m
      <3>1. m \in 1 .. L - 1 /\ at(m) = m
        BY <1>1, <2>1
      <3> QED  BY <3>1
    <2>2. ASSUME NEW m \in 1 .. L, m > p PROVE \E n \in 1 .. L - 1 : at(n) = m
      <3>1. m - 1 \in 1 .. L - 1 /\ at(m - 1) = m
        BY <1>1, <2>2
      <3> QED  BY <3>1
    <2>3. ASSUME NEW m \in 1 .. L, m # p PROVE m < p \/ m > p
      BY <1>1, <2>3
    <2> HIDE DEF at
    <2> QED  BY <2>1, <2>2, <2>3
  <1> HIDE DEF at
  <1>10. Distinct(w)
    BY <1>1, <1>6, <1>7, <1>8 DEF Distinct
  <1>11. Range(w) = Range(list) \ {t}
    <2>1. ASSUME NEW n \in 1 .. L - 1 PROVE w[n] \in Range(list) \ {t}
      <3>1. at(n) \in 1 .. L /\ at(n) # p /\ w[n] = list[at(n)]
        BY <1>7
      <3>2. list[at(n)] # t
        BY <1>1, <3>1 DEF Distinct
      <3> QED  BY <1>1, <3>1, <3>2 DEF Range
    <2>2. ASSUME NEW x \in Range(list), x # t PROVE x \in Range(w)
      <3>1. PICK m \in 1 .. L : list[m] = x
        BY <1>1 DEF Range
      <3>2. PICK n \in 1 .. L - 1 : at(n) = m
        BY <1>1, <1>9, <2>2, <3>1
      <3>3. w[n] = x
        BY <1>7, <3>1, <3>2
      <3> QED  BY <1>6, <3>3 DEF Range
    <2>3. \A x \in Range(w) : \E n \in 1 .. L - 1 : x = w[n]
      BY <1>6 DEF Range
    <2> QED  BY <2>1, <2>2, <2>3
  <1> QED
    BY <1>5, <1>10, <1>11 DEF L, w

-----------------------------------------------------------------------------
(* Sets of numbers                                                         *)

LEMMA LeastNumber ==
  ASSUME NEW S \in SUBSET Nat, S # {}
  PROVE  \E m \in S : \A n \in S : m <= n
  <1> DEFINE R == OpToRel(<, Nat)
  <1>1. IsWellFoundedOn(R, Nat)
    BY NatLessThanWellFounded
  <1>2. \A x, y \in Nat : y < x => <<y, x>> \in R
    BY DEF OpToRel
  <1> HIDE DEF R
  <1>3. PICK m \in S : \A n \in S : ~(<<n, m>> \in R)
    BY <1>1, WFMin
  <1>4. ASSUME NEW n \in S
        PROVE  m <= n
    <2>1. ~(n < m)
      BY <1>2, <1>3
    <2> QED  BY <2>1
  <1> QED
    BY <1>4

(* Every finite set of pids has an order.                                  *)
Ordered(s, S) ==
  /\ s \in [1 .. Cardinality(S) -> S]
  /\ \A m, n \in 1 .. Cardinality(S) : m < n => s[m] < s[n]
  /\ \A x \in S : \E n \in 1 .. Cardinality(S) : s[n] = x

LEMMA OrderExists ==
  ASSUME NEW S, S \subseteq Nat, IsFiniteSet(S)
  PROVE  \E s : Ordered(s, S)
  <1> DEFINE Bad == {n \in Nat : \E T \in SUBSET Nat : IsFiniteSet(T) /\ Cardinality(T) = n /\ ~\E s : Ordered(s, T)}
  <1>1. ASSUME Bad # {}
        PROVE  FALSE
    <2>1. PICK n \in Bad : \A m \in Bad : n <= m
      BY <1>1, LeastNumber
    <2>2. PICK T \in SUBSET Nat : IsFiniteSet(T) /\ Cardinality(T) = n /\ ~\E s : Ordered(s, T)
      BY <2>1
    <2>3. CASE T = {}
      <3>1. Cardinality(T) = 0
        BY <2>3, FS_EmptySet
      <3>2. Ordered([k \in 1 .. 0 |-> k], T)
        <4>1. 1 .. 0 = {}
          OBVIOUS
        <4> QED  BY <2>3, <3>1, <4>1 DEF Ordered
      <3> QED  BY <2>2, <3>2
    <2>4. CASE T # {}
      <3>1. PICK x \in T : \A y \in T : x <= y
        BY <2>4, LeastNumber
      <3> DEFINE U == T \ {x}
      <3>2. IsFiniteSet(U) /\ Cardinality(U) = n - 1
        BY <2>2, FS_RemoveElement
      <3>3. n \in Nat /\ n > 0 /\ n - 1 \in Nat
        <4>1. n \in Nat /\ Cardinality(U) \in Nat
          BY <2>2, <3>2, FS_CardinalityType
        <4> QED  BY <3>2, <4>1
      <3>4. n - 1 \notin Bad
        BY <2>1, <3>3
      <3>5. PICK s : Ordered(s, U)
        BY <3>2, <3>3, <3>4
      <3> DEFINE r == [k \in 1 .. n |-> IF k = 1 THEN x ELSE s[k - 1]]
      <3>6. \A k \in 2 .. n : k - 1 \in 1 .. n - 1
        BY <3>3
      <3>7. s \in [1 .. n - 1 -> U] /\ \A j, k \in 1 .. n - 1 : j < k => s[j] < s[k]
        BY <3>2, <3>5 DEF Ordered
      <3>8. r \in [1 .. n -> T]
        <4>1. ASSUME NEW k \in 1 .. n PROVE r[k] \in T
          <5>1. CASE k = 1  BY <5>1
          <5>2. CASE k # 1
            <6>1. k - 1 \in 1 .. n - 1
              BY <3>3, <5>2
            <6> QED  BY <3>7, <5>2, <6>1
          <5> QED  BY <5>1, <5>2
        <4> QED  BY <4>1
      <3>9. ASSUME NEW j \in 1 .. n, NEW k \in 1 .. n, j < k
            PROVE  r[j] < r[k]
        <4>1. k - 1 \in 1 .. n - 1 /\ r[k] = s[k - 1]
          BY <3>3, <3>9
        <4>2. CASE j = 1
          <5>1. s[k - 1] \in U
            BY <3>7, <4>1
          <5>2. s[k - 1] \in Nat /\ x \in Nat /\ s[k - 1] # x /\ x <= s[k - 1]
            BY <3>1, <5>1
          <5> QED  BY <4>1, <4>2, <5>2
        <4>3. CASE j # 1
          <5>1. j - 1 \in 1 .. n - 1 /\ r[j] = s[j - 1] /\ j - 1 < k - 1
            BY <3>3, <3>9, <4>3
          <5> QED  BY <3>7, <4>1, <5>1
        <4> QED  BY <4>2, <4>3
      <3>10. ASSUME NEW y \in T
             PROVE  \E k \in 1 .. n : r[k] = y
        <4>1. CASE y = x
          <5>1. 1 \in 1 .. n /\ r[1] = x
            BY <3>3
          <5> QED  BY <4>1, <5>1
        <4>2. CASE y # x
          <5>1. PICK k \in 1 .. n - 1 : s[k] = y
            BY <3>2, <3>5, <4>2 DEF Ordered
          <5>2. k + 1 \in 1 .. n /\ k + 1 # 1 /\ (k + 1) - 1 = k
            BY <3>3
          <5>3. r[k + 1] = y
            BY <5>1, <5>2
          <5> QED  BY <5>2, <5>3
        <4> QED  BY <4>1, <4>2
      <3> HIDE DEF r
      <3>11. Ordered(r, T)
        BY <2>2, <3>8, <3>9, <3>10 DEF Ordered
      <3> QED  BY <2>2, <3>11
    <2> QED  BY <2>3, <2>4
  <1>2. Cardinality(S) \in Nat
    BY FS_CardinalityType
  <1> QED
    BY <1>1, <1>2

-----------------------------------------------------------------------------
(* Sums                                                                    *)

Chosen(s) == CHOOSE x \in s : TRUE

(* The function that SumFunctionOnSet is computed by, on the subsets of S  *)
(* that are in D.                                                          *)
SumOn(g, f, D) ==
  g = [s \in D |-> IF s = {} THEN 0 ELSE f[Chosen(s)] + g[s \ {Chosen(s)}]]

LEMMA ChosenIn ==
  ASSUME NEW S, S # {}
  PROVE  Chosen(S) \in S
  BY DEF Chosen

LEMMA SumUnfold ==
  ASSUME NEW f, NEW S
  PROVE  SumFunctionOnSet(f, S) = (CHOOSE g : SumOn(g, f, SUBSET S))[S]
  BY DEF SumOn, Chosen, SumFunctionOnSet, FoldFunctionOnSet, MapThenFoldSet

LEMMA SumOnValue ==
  ASSUME NEW g, NEW f, NEW D, SumOn(g, f, D), NEW s \in D
  PROVE  g[s] = IF s = {} THEN 0 ELSE f[Chosen(s)] + g[s \ {Chosen(s)}]
  BY DEF SumOn

LEMMA SumOnSub ==
  ASSUME NEW f, NEW S, NEW g, SumOn(g, f, SUBSET S), NEW s, s \subseteq S
  PROVE  /\ s = {} => g[s] = 0
         /\ s # {} => g[s] = f[Chosen(s)] + g[s \ {Chosen(s)}]
  <1>1. s \in SUBSET S
    OBVIOUS
  <1> QED
    BY <1>1, SumOnValue

(* Some function is as wanted, by induction on the number of elements.     *)
LEMMA SumOnExists ==
  ASSUME NEW f, NEW S, IsFiniteSet(S)
  PROVE  \E g : SumOn(g, f, SUBSET S)
  <1> DEFINE Small(n) == {T \in SUBSET S : Cardinality(T) <= n}
             Bad == {n \in Nat : ~\E g : SumOn(g, f, Small(n))}
  <1>1. \A T \in SUBSET S : IsFiniteSet(T) /\ Cardinality(T) \in Nat /\ Cardinality(T) <= Cardinality(S)
    BY FS_Subset, FS_CardinalityType
  <1>2. ASSUME Bad # {}
        PROVE  FALSE
    <2>1. PICK n \in Bad : \A m \in Bad : n <= m
      BY <1>2, LeastNumber
    <2>2. CASE n = 0
      <3>1. \A T \in Small(0) : T = {}
        <4>1. ASSUME NEW T \in Small(0) PROVE Cardinality(T) = 0 /\ IsFiniteSet(T)
          BY <1>1
        <4> QED  BY <4>1, FS_EmptySet
      <3> DEFINE g == [s \in Small(0) |-> 0]
      <3>2. SumOn(g, f, Small(0))
        <4> DEFINE h == [s \in Small(0) |-> IF s = {} THEN 0 ELSE f[Chosen(s)] + g[s \ {Chosen(s)}]]
        <4>1. g = h
          BY <3>1
        <4> HIDE DEF Small
        <4> QED  BY <4>1 DEF SumOn
      <3> QED  BY <2>1, <2>2, <3>2
    <2>3. CASE n # 0
      <3>1. n \in Nat /\ n - 1 \in Nat /\ ~(n <= n - 1)
        BY <2>1, <2>3
      <3>2. PICK h : SumOn(h, f, Small(n - 1))
        BY <2>1, <3>1
      <3> DEFINE g == [s \in Small(n) |-> IF s = {} THEN 0 ELSE f[Chosen(s)] + h[s \ {Chosen(s)}]]
      <3>3. ASSUME NEW s \in Small(n), s # {}
            PROVE  s \ {Chosen(s)} \in Small(n - 1) /\ s \ {Chosen(s)} \in Small(n)
        <4> DEFINE r == s \ {Chosen(s)}
        <4>1. Cardinality(r) = Cardinality(s) - 1
          BY <1>1, <3>3, ChosenIn, FS_RemoveElement
        <4>2. Cardinality(s) \in Nat /\ Cardinality(s) <= n
          BY <1>1
        <4>3. Cardinality(r) <= n - 1 /\ Cardinality(r) <= n
          BY <3>1, <4>1, <4>2
        <4> QED  BY <4>3
      <3> HIDE DEF Small
      <3>4. ASSUME NEW r \in Small(n), r \in Small(n - 1)
            PROVE  g[r] = h[r]
        BY <3>2, <3>4, SumOnValue
      <3>5. ASSUME NEW s \in Small(n)
            PROVE  g[s] = IF s = {} THEN 0 ELSE f[Chosen(s)] + g[s \ {Chosen(s)}]
        BY <3>3, <3>4
      <3>6. SumOn(g, f, Small(n))
        <4>1. g = [s \in Small(n) |-> g[s]]
          OBVIOUS
        <4> HIDE DEF g
        <4>2. [s \in Small(n) |-> g[s]]
                = [s \in Small(n) |-> IF s = {} THEN 0 ELSE f[Chosen(s)] + g[s \ {Chosen(s)}]]
          BY <3>5
        <4> QED  BY <4>1, <4>2 DEF SumOn
      <3> QED  BY <2>1, <3>6
    <2> QED  BY <2>2, <2>3
  <1>3. Cardinality(S) \in Nat
    BY FS_CardinalityType
  <1>4. Small(Cardinality(S)) = SUBSET S
    BY <1>1
  <1> QED
    BY <1>2, <1>3, <1>4

LEMMA SumOnUnique ==
  ASSUME NEW f, NEW S, NEW T, IsFiniteSet(S), NEW g, NEW h,
         SumOn(g, f, SUBSET S), SumOn(h, f, SUBSET T), NEW U, U \subseteq S, U \subseteq T
  PROVE  g[U] = h[U]
  <1> DEFINE Bad == {n \in Nat : \E V \in SUBSET (S \cap T) : Cardinality(V) = n /\ g[V] # h[V]}
  <1>1. \A V \in SUBSET (S \cap T) : IsFiniteSet(V) /\ Cardinality(V) \in Nat
    BY FS_Subset, FS_CardinalityType
  <1>2. ASSUME Bad # {}
        PROVE  FALSE
    <2>1. PICK n \in Bad : \A m \in Bad : n <= m
      BY <1>2, LeastNumber
    <2>2. PICK V \in SUBSET (S \cap T) : Cardinality(V) = n /\ g[V] # h[V]
      BY <2>1
    <2> HIDE DEF Bad
    <2>a. V \subseteq S /\ V \subseteq T
      OBVIOUS
    <2>3. V # {}
      <3>1. V = {} => g[V] = 0
        BY <2>a, SumOnSub
      <3>2. V = {} => h[V] = 0
        BY <2>a, SumOnSub
      <3> QED  BY <2>2, <3>1, <3>2
    <2> DEFINE W == V \ {Chosen(V)}
    <2>4. Cardinality(W) = n - 1 /\ W \in SUBSET (S \cap T) /\ Cardinality(W) \in Nat
      BY <1>1, <2>2, <2>3, ChosenIn, FS_RemoveElement
    <2>5. g[W] = h[W]
      <3>1. n \in Nat
        BY DEF Bad
      <3>2. ~(n <= n - 1)
        BY <3>1
      <3> QED  BY <2>1, <2>4, <3>2 DEF Bad
    <2>6. g[V] = f[Chosen(V)] + g[W]
      BY <2>a, <2>3, SumOnSub
    <2>7. h[V] = f[Chosen(V)] + h[W]
      BY <2>a, <2>3, SumOnSub
    <2> QED  BY <2>2, <2>5, <2>6, <2>7
  <1>3. U \in SUBSET (S \cap T) /\ Cardinality(U) \in Nat
    BY <1>1
  <1> QED
    BY <1>2, <1>3

LEMMA SumEmpty ==
  ASSUME NEW f
  PROVE  SumFunctionOnSet(f, {}) = 0
  <1>1. PICK g : SumOn(g, f, SUBSET {})
    BY SumOnExists, FS_EmptySet
  <1>2. SumOn(CHOOSE h : SumOn(h, f, SUBSET {}), f, SUBSET {})
    BY <1>1
  <1> DEFINE c == CHOOSE h : SumOn(h, f, SUBSET {})
  <1> HIDE DEF c
  <1>3. c[{}] = 0
    BY <1>2, SumOnSub DEF c
  <1> QED
    BY <1>3, SumUnfold DEF c

LEMMA SumChosen ==
  ASSUME NEW f, NEW S, IsFiniteSet(S), S # {}
  PROVE  SumFunctionOnSet(f, S) = f[Chosen(S)] + SumFunctionOnSet(f, S \ {Chosen(S)})
  <1> DEFINE R == S \ {Chosen(S)}
             g == CHOOSE h : SumOn(h, f, SUBSET S)
             r == CHOOSE h : SumOn(h, f, SUBSET R)
  <1>1. IsFiniteSet(R) /\ R \subseteq S
    BY FS_Subset
  <1>2. SumOn(g, f, SUBSET S)
    BY SumOnExists
  <1> HIDE DEF R
  <1>3. SumOn(r, f, SUBSET R)
    BY <1>1, SumOnExists
  <1> HIDE DEF g, r
  <1>4. g[R] = r[R]
    BY <1>1, <1>2, <1>3, SumOnUnique
  <1>5. g[S] = f[Chosen(S)] + g[R]
    BY <1>2, SumOnSub DEF R
  <1>6. SumFunctionOnSet(f, S) = g[S] /\ SumFunctionOnSet(f, R) = r[R]
    BY SumUnfold DEF g, r
  <1> QED
    BY <1>4, <1>5, <1>6 DEF R

(* The sum of naturals is a natural.                                       *)
LEMMA SumNat ==
  ASSUME NEW f, NEW S, IsFiniteSet(S), \A x \in S : f[x] \in Nat
  PROVE  SumFunctionOnSet(f, S) \in Nat
  <1> DEFINE Bad == {n \in Nat : \E T \in SUBSET S : Cardinality(T) = n /\ SumFunctionOnSet(f, T) \notin Nat}
  <1>1. \A T \in SUBSET S : IsFiniteSet(T) /\ Cardinality(T) \in Nat
    BY FS_Subset, FS_CardinalityType
  <1>2. ASSUME Bad # {}
        PROVE  FALSE
    <2>1. PICK n \in Bad : \A m \in Bad : n <= m
      BY <1>2, LeastNumber
    <2>2. PICK T \in SUBSET S : Cardinality(T) = n /\ SumFunctionOnSet(f, T) \notin Nat
      BY <2>1
    <2>3. n \in Nat
      OBVIOUS
    <2> HIDE DEF Bad
    <2>4. T # {}
      BY <2>2, SumEmpty
    <2> DEFINE R == T \ {Chosen(T)}
    <2>5. Cardinality(R) = n - 1 /\ R \in SUBSET S /\ Cardinality(R) \in Nat
      BY <1>1, <2>2, <2>4, ChosenIn, FS_RemoveElement
    <2>6. ~(n <= n - 1)
      BY <2>3
    <2>7. SumFunctionOnSet(f, R) \in Nat
      BY <2>1, <2>5, <2>6 DEF Bad
    <2>8. SumFunctionOnSet(f, T) = f[Chosen(T)] + SumFunctionOnSet(f, R)
      BY <1>1, <2>4, SumChosen
    <2>9. f[Chosen(T)] \in Nat
      BY <2>4, ChosenIn
    <2> QED  BY <2>2, <2>7, <2>8, <2>9
  <1>3. S \in SUBSET S /\ Cardinality(S) \in Nat
    BY <1>1
  <1> QED
    BY <1>2, <1>3

(* Whichever element is taken out first.                                   *)
LEMMA SumRemove ==
  ASSUME NEW f, NEW S, IsFiniteSet(S), \A y \in S : f[y] \in Nat, NEW x \in S
  PROVE  SumFunctionOnSet(f, S) = f[x] + SumFunctionOnSet(f, S \ {x})
  <1> DEFINE Bad == {n \in Nat : \E T \in SUBSET S : \E z \in T :
                       /\ Cardinality(T) = n
                       /\ SumFunctionOnSet(f, T) # f[z] + SumFunctionOnSet(f, T \ {z})}
  <1>1. \A T \in SUBSET S : /\ IsFiniteSet(T) /\ Cardinality(T) \in Nat
                            /\ SumFunctionOnSet(f, T) \in Nat
    <2> TAKE T \in SUBSET S
    <2>1. IsFiniteSet(T)
      BY FS_Subset
    <2> QED  BY <2>1, FS_CardinalityType, SumNat
  <1>2. ASSUME Bad # {}
        PROVE  FALSE
    <2>1. PICK n \in Bad : \A m \in Bad : n <= m
      BY <1>2, LeastNumber
    <2>2. PICK T \in SUBSET S : \E z \in T :
                       /\ Cardinality(T) = n
                       /\ SumFunctionOnSet(f, T) # f[z] + SumFunctionOnSet(f, T \ {z})
      BY <2>1
    <2>3. PICK z \in T : /\ Cardinality(T) = n
                         /\ SumFunctionOnSet(f, T) # f[z] + SumFunctionOnSet(f, T \ {z})
      BY <2>2
    <2>4. n \in Nat
      OBVIOUS
    <2> HIDE DEF Bad
    <2> DEFINE w == Chosen(T)
               A == T \ {w}
               B == T \ {z}
               C == A \ {z}
    <2>5. T # {} /\ w \in T
      BY ChosenIn
    <2> HIDE DEF w
    <2>6. SumFunctionOnSet(f, T) = f[w] + SumFunctionOnSet(f, A)
      BY <1>1, <2>5, SumChosen DEF w
    <2>7. w # z
      BY <2>3, <2>6
    <2>8. z \in A /\ w \in B /\ C = B \ {w} /\ A \in SUBSET S /\ B \in SUBSET S /\ C \in SUBSET S
      BY <2>5, <2>7
    <2>9. Cardinality(A) = n - 1 /\ Cardinality(B) = n - 1
      BY <1>1, <2>3, <2>5, FS_RemoveElement
    <2> HIDE DEF A, B, C
    <2>10. n - 1 \in Nat /\ ~(n <= n - 1)
      <3>1. Cardinality(A) \in Nat
        BY <1>1, <2>8
      <3> QED  BY <2>4, <2>9, <3>1
    <2>11. n - 1 \notin Bad
      BY <2>1, <2>10
    <2>a. \A V \in SUBSET S : Cardinality(V) = n - 1 =>
            \A y \in V : SumFunctionOnSet(f, V) = f[y] + SumFunctionOnSet(f, V \ {y})
      BY <2>10, <2>11 DEF Bad
    <2>12. SumFunctionOnSet(f, A) = f[z] + SumFunctionOnSet(f, C)
      <3>1. C = A \ {z}
        BY DEF C
      <3> QED  BY <2>8, <2>9, <2>a, <3>1
    <2>13. SumFunctionOnSet(f, B) = f[w] + SumFunctionOnSet(f, C)
      BY <2>8, <2>9, <2>a
    <2>14. f[w] \in Nat /\ f[z] \in Nat /\ SumFunctionOnSet(f, C) \in Nat
      BY <1>1, <2>5, <2>8
    <2>15. B = T \ {z}
      BY DEF B
    <2> QED  BY <2>3, <2>6, <2>12, <2>13, <2>14, <2>15
  <1>3. S \in SUBSET S /\ Cardinality(S) \in Nat
    BY <1>1
  <1> QED
    BY <1>2, <1>3

LEMMA SumAdd ==
  ASSUME NEW f, NEW S, IsFiniteSet(S), NEW x, x \notin S, \A y \in S \cup {x} : f[y] \in Nat
  PROVE  SumFunctionOnSet(f, S \cup {x}) = f[x] + SumFunctionOnSet(f, S)
  <1> DEFINE T == S \cup {x}
  <1>1. IsFiniteSet(T) /\ x \in T /\ T \ {x} = S /\ \A y \in T : f[y] \in Nat
    BY FS_AddElement
  <1> HIDE DEF T
  <1>2. SumFunctionOnSet(f, T) = f[x] + SumFunctionOnSet(f, T \ {x})
    BY <1>1, SumRemove
  <1> QED
    BY <1>1, <1>2 DEF T

(* A sum of more, or of greater numbers, is not less.                      *)
LEMMA SumMonotone ==
  ASSUME NEW f, NEW h, NEW T, IsFiniteSet(T), NEW S, S \subseteq T,
         \A x \in T : f[x] \in Nat /\ h[x] \in Nat, \A x \in S : f[x] <= h[x]
  PROVE  SumFunctionOnSet(f, S) <= SumFunctionOnSet(h, T)
  <1> DEFINE Bad == {n \in Nat : \E V \in SUBSET T :
                       /\ Cardinality(V) = n
                       /\ ~(SumFunctionOnSet(f, V \cap S) <= SumFunctionOnSet(h, V))}
  <1>1. \A V \in SUBSET T : /\ IsFiniteSet(V) /\ Cardinality(V) \in Nat
                            /\ SumFunctionOnSet(f, V) \in Nat /\ SumFunctionOnSet(h, V) \in Nat
    <2> TAKE V \in SUBSET T
    <2>1. IsFiniteSet(V)
      BY FS_Subset
    <2> QED  BY <2>1, FS_CardinalityType, SumNat
  <1>2. ASSUME Bad # {}
        PROVE  FALSE
    <2>1. PICK n \in Bad : \A m \in Bad : n <= m
      BY <1>2, LeastNumber
    <2>2. PICK V \in SUBSET T : /\ Cardinality(V) = n
                               /\ ~(SumFunctionOnSet(f, V \cap S) <= SumFunctionOnSet(h, V))
      BY <2>1
    <2>3. n \in Nat
      OBVIOUS
    <2> HIDE DEF Bad
    <2>4. V # {}
      <3>1. V = {} => V \cap S = {}
        OBVIOUS
      <3> QED  BY <2>2, <3>1, SumEmpty
    <2>5. PICK x : x \in V
      BY <2>4
    <2> DEFINE R == V \ {x}
    <2>6. Cardinality(R) = n - 1 /\ R \in SUBSET T /\ Cardinality(R) \in Nat
      BY <1>1, <2>2, <2>5, FS_RemoveElement
    <2>7. ~(n <= n - 1)
      BY <2>3
    <2>8. SumFunctionOnSet(f, R \cap S) <= SumFunctionOnSet(h, R)
      BY <2>1, <2>6, <2>7 DEF Bad
    <2>9. SumFunctionOnSet(h, V) = h[x] + SumFunctionOnSet(h, R)
      BY <1>1, <2>5, SumRemove
    <2>10. R \cap S \in SUBSET T /\ V \cap S \in SUBSET T /\ x \in T
      BY <2>5
    <2>11. /\ SumFunctionOnSet(h, R) \in Nat /\ SumFunctionOnSet(f, R \cap S) \in Nat
           /\ h[x] \in Nat /\ f[x] \in Nat
      BY <1>1, <2>6, <2>10
    <2>12. CASE x \in S
      <3>1. x \in V \cap S /\ (V \cap S) \ {x} = R \cap S
        BY <2>5, <2>12
      <3> DEFINE W == V \cap S
      <3>2. IsFiniteSet(W) /\ \A y \in W : f[y] \in Nat
        BY <1>1, <2>10
      <3> HIDE DEF W
      <3>3. SumFunctionOnSet(f, W) = f[x] + SumFunctionOnSet(f, W \ {x})
        BY <3>1, <3>2, SumRemove DEF W
      <3>4. SumFunctionOnSet(f, V \cap S) = f[x] + SumFunctionOnSet(f, R \cap S)
        BY <3>1, <3>3 DEF W
      <3>5. f[x] <= h[x]
        BY <2>12
      <3> HIDE DEF R
      <3> QED  BY <2>2, <2>8, <2>9, <2>11, <3>4, <3>5
    <2>13. CASE x \notin S
      <3>1. V \cap S = R \cap S
        BY <2>13
      <3> HIDE DEF R
      <3>2. SumFunctionOnSet(f, V \cap S) <= SumFunctionOnSet(h, R)
        BY <2>8, <3>1
      <3>3. SumFunctionOnSet(f, V \cap S) \in Nat
        BY <2>11, <3>1
      <3>4. SumFunctionOnSet(f, V \cap S) <= h[x] + SumFunctionOnSet(h, R)
        BY <2>11, <3>2, <3>3
      <3> QED  BY <2>2, <2>9, <3>4
    <2> QED  BY <2>12, <2>13
  <1>3. T \in SUBSET T /\ Cardinality(T) \in Nat /\ T \cap S = S
    BY <1>1
  <1> QED
    BY <1>2, <1>3

-----------------------------------------------------------------------------
(* Remainders                                                              *)

LEMMA Division ==
  ASSUME NEW U \in Nat, U > 0, NEW s \in Nat
  PROVE  s = U * (s \div U) + (s % U) /\ s \div U \in Int /\ s % U \in 0 .. U - 1
  BY Z3

LEMMA ModUnique ==
  ASSUME NEW U \in Nat, U > 0, NEW q \in Int, NEW r \in 0 .. U - 1,
         NEW p \in Int, NEW t \in 0 .. U - 1, U * q + r = U * p + t
  PROVE  r = t /\ p = q
  <1>1. U * (q - p) = t - r
    OBVIOUS
  <1>2. t - r < U /\ t - r > -U
    OBVIOUS
  <1> DEFINE d == q - p
  <1>3. d \in Int /\ U * d = t - r
    BY <1>1
  <1> HIDE DEF d
  <1>4. d >= 1 => U * d >= U
    BY <1>3, Z3
  <1>5. d <= -1 => U * d <= -U
    BY <1>3, Z3
  <1>6. d = 0
    BY <1>2, <1>3, <1>4, <1>5
  <1> QED
    BY <1>6, <1>1 DEF d

(* A sum that wraps at every step is the sum wrapped at the end.           *)
LEMMA ModPlus ==
  ASSUME NEW U \in Nat, U > 0, NEW s \in Nat, NEW i \in Nat
  PROVE  ((s % U) + i) % U = (s + i) % U
  <1> DEFINE q == s \div U
             r == s % U
  <1>1. s = U * q + r /\ q \in Int /\ r \in 0 .. U - 1
    BY Division
  <1> HIDE DEF q, r
  <1>a. r + i \in Nat /\ s + i \in Nat
    BY <1>1
  <1> DEFINE a == (r + i) \div U
             b == (r + i) % U
             m == (s + i) \div U
             n == (s + i) % U
  <1>2. r + i = U * a + b /\ a \in Int /\ b \in 0 .. U - 1
    BY <1>a, Division
  <1>3. s + i = U * m + n /\ m \in Int /\ n \in 0 .. U - 1
    BY <1>a, Division
  <1> HIDE DEF a, b, m, n
  <1>4. U * (q + a) = U * q + U * a /\ q + a \in Int
    BY <1>1, <1>2
  <1> DEFINE x == U * q
             y == U * a
             z == U * m
  <1>5. x \in Int /\ y \in Int /\ z \in Int
    BY <1>1, <1>2, <1>3
  <1>6. s = x + r /\ r + i = y + b /\ s + i = z + n /\ U * (q + a) = x + y
    BY <1>1, <1>2, <1>3, <1>4
  <1> HIDE DEF x, y
  <1>7. U * (q + a) + b = z + n
    BY <1>1, <1>2, <1>3, <1>5, <1>6
  <1> HIDE DEF z
  <1>8. b = n
    <2> DEFINE e == q + a
    <2>1. e \in Int /\ U * e + b = U * m + n
      BY <1>7, <1>4 DEF z
    <2> HIDE DEF e
    <2>2. m \in Int /\ b \in 0 .. U - 1 /\ n \in 0 .. U - 1
      BY <1>2, <1>3
    <2> QED  BY <2>1, <2>2, ModUnique
  <1> QED
    BY <1>8 DEF b, n, r

LEMMA ModSmall ==
  ASSUME NEW U \in Nat, U > 0, NEW s \in Nat
  PROVE  s % U <= s /\ (s < U => s % U = s) /\ s % U \in 0 .. U - 1
  <1>1. s < U => s % U = s
    OBVIOUS
  <1>2. s % U \in 0 .. U - 1
    OBVIOUS
  <1>3. s % U <= s
    <2>1. CASE s < U
      BY <1>1, <2>1
    <2>2. CASE s >= U
      BY <1>2, <2>2
    <2> QED  BY <2>1, <2>2
  <1> QED
    BY <1>1, <1>2, <1>3

-----------------------------------------------------------------------------
(* Counting, the least and the greatest                                    *)

LEMMA DistinctSize ==
  ASSUME NEW S, NEW list \in Seq(S), Distinct(list)
  PROVE  IsFiniteSet(Range(list)) /\ Cardinality(Range(list)) = Len(list)
  <1> DEFINE n == Len(list)
             R == Range(list)
  <1>1. n \in Nat /\ list \in [1 .. n -> S] /\ DOMAIN list = 1 .. n
    BY LenProperties
  <1>2. list \in Bijection(1 .. n, R)
    <2>1. list \in [1 .. n -> R]
      BY <1>1 DEF Range
    <2> HIDE DEF n
    <2>2. \A j, k \in 1 .. n : list[j] = list[k] => j = k
      BY <1>1 DEF Distinct
    <2>3. \A r \in R : \E k \in 1 .. n : list[k] = r
      BY <1>1 DEF Range
    <2> HIDE DEF R
    <2> QED  BY <2>1, <2>2, <2>3 DEF Bijection, Injection, Surjection, IsInjective
  <1>3. IsFiniteSet(1 .. n) /\ Cardinality(1 .. n) = n
    BY <1>1, FS_Interval
  <1> HIDE DEF n, R
  <1>4. ExistsBijection(1 .. n, R)
    BY <1>2 DEF ExistsBijection
  <1>5. IsFiniteSet(R) /\ Cardinality(R) = n
    BY <1>3, <1>4, FS_Bijection
  <1> QED
    BY <1>5 DEF n, R

(* A finite set of naturals has a greatest and a least number.             *)
LEMMA Greatest ==
  ASSUME NEW S, IsFiniteSet(S), S # {}, S \subseteq Nat
  PROVE  \E x \in S : \A y \in S : x >= y
  <1> DEFINE n == Cardinality(S)
  <1>1. PICK s : Ordered(s, S)
    BY OrderExists
  <1>2. n \in Nat /\ n # 0
    BY FS_CardinalityType, FS_EmptySet
  <1>3. s \in [1 .. n -> S] /\ (\A j, k \in 1 .. n : j < k => s[j] < s[k])
        /\ \A x \in S : \E k \in 1 .. n : s[k] = x
    BY <1>1 DEF Ordered
  <1> HIDE DEF n
  <1>4. n \in 1 .. n /\ s[n] \in S
    BY <1>2, <1>3
  <1>5. ASSUME NEW y \in S
        PROVE  s[n] >= y
    <2>1. PICK k \in 1 .. n : s[k] = y
      BY <1>3
    <2>2. k = n \/ k < n
      BY <1>2
    <2>3. s[n] \in Nat /\ s[k] \in Nat
      BY <1>3, <1>4
    <2> QED  BY <1>3, <1>4, <2>1, <2>2, <2>3
  <1> QED
    BY <1>4, <1>5

=============================================================================
