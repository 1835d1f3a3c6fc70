--------------------------- MODULE DataTheorems ---------------------------
(***************************************************************************)
(* What the other proofs use of finite maps (Maps), of a finite set put in *)
(* some order, and of sequences.                                           *)
(***************************************************************************)
EXTENDS Integers, Maps, SequencesExt, SequenceTheorems, FiniteSetTheorems, NaturalsInduction, TLAPS

(***************************************************************************)
(* Finite maps.                                                            *)
(***************************************************************************)

MapsOf(A, B) == UNION {[S -> B] : S \in SUBSET A}

\* A map is a function whose keys and values are where they should be.
LEMMA MapElim ==
    ASSUME NEW A, NEW B, NEW f \in MapsOf(A, B)
    PROVE  /\ DOMAIN f \subseteq A
           /\ f \in [DOMAIN f -> B]
           /\ \A x \in DOMAIN f : f[x] \in B
<1>1. PICK S \in SUBSET A : f \in [S -> B]
  BY DEF MapsOf
<1>. QED BY <1>1

LEMMA MapIntro ==
    ASSUME NEW A, NEW B, NEW S \in SUBSET A, NEW f \in [S -> B]
    PROVE  f \in MapsOf(A, B)
BY DEF MapsOf

\* The keys and values of a map without some keys, updated by another, and with
\* one more entry.
LEMMA MinusValues ==
    ASSUME NEW f, NEW S
    PROVE  /\ DOMAIN Minus(f, S) = DOMAIN f \ S
           /\ \A x \in DOMAIN f \ S : Minus(f, S)[x] = f[x]
BY DEF Minus

LEMMA UpdatedValues ==
    ASSUME NEW f, NEW g
    PROVE  /\ DOMAIN Updated(f, g) = DOMAIN f \cup DOMAIN g
           /\ \A x \in DOMAIN g : Updated(f, g)[x] = g[x]
           /\ \A x \in DOMAIN f \ DOMAIN g : Updated(f, g)[x] = f[x]
BY DEF Updated

LEMMA WithValues ==
    ASSUME NEW f, NEW k, NEW v
    PROVE  /\ DOMAIN With(f, k, v) = DOMAIN f \cup {k}
           /\ With(f, k, v)[k] = v
           /\ \A x \in DOMAIN f \ {k} : With(f, k, v)[x] = f[x]
BY DEF With

\* They are maps of the same kind.
LEMMA MinusMap ==
    ASSUME NEW A, NEW B, NEW f \in MapsOf(A, B), NEW S
    PROVE  Minus(f, S) \in MapsOf(A, B)
<1>1. Minus(f, S) \in [DOMAIN f \ S -> B]
  BY MapElim DEF Minus
<1>2. DOMAIN f \ S \in SUBSET A
  BY MapElim
<1>. QED BY <1>1, <1>2, MapIntro

LEMMA UpdatedMap ==
    ASSUME NEW A, NEW B, NEW f \in MapsOf(A, B), NEW g \in MapsOf(A, B)
    PROVE  Updated(f, g) \in MapsOf(A, B)
<1>1. Updated(f, g) \in [DOMAIN f \cup DOMAIN g -> B]
  BY MapElim DEF Updated
<1>2. DOMAIN f \cup DOMAIN g \in SUBSET A
  BY MapElim
<1>. QED BY <1>1, <1>2, MapIntro

LEMMA WithMap ==
    ASSUME NEW A, NEW B, NEW f \in MapsOf(A, B), NEW k \in A, NEW v \in B
    PROVE  With(f, k, v) \in MapsOf(A, B)
<1>1. With(f, k, v) \in [DOMAIN f \cup {k} -> B]
  BY MapElim DEF With
<1>2. DOMAIN f \cup {k} \in SUBSET A
  BY MapElim
<1>. QED BY <1>1, <1>2, MapIntro

LEMMA EmptyMap == ASSUME NEW A, NEW B PROVE <<>> \in MapsOf(A, B) /\ DOMAIN <<>> = {}
<1>1. <<>> \in [{} -> B]
  OBVIOUS
<1>. QED BY <1>1, MapIntro

(***************************************************************************)
(* Finite sets in some order.                                              *)
(***************************************************************************)

\* SetToSeq has each element of a finite set once.
LEMMA SetToSeqOnce ==
    ASSUME NEW S, IsFiniteSet(S)
    PROVE  /\ Cardinality(S) \in Nat
           /\ SetToSeq(S) \in [1..Cardinality(S) -> S]
           /\ Len(SetToSeq(S)) = Cardinality(S)
           /\ \A i, j \in 1..Cardinality(S) : SetToSeq(S)[i] = SetToSeq(S)[j] => i = j
           /\ \A x \in S : \E i \in 1..Cardinality(S) : SetToSeq(S)[i] = x
<1> DEFINE n == Cardinality(S)
           f == SetToSeq(S)
<1>1. n \in Nat /\ ExistsBijection(1..n, S)
  BY FS_CardinalityType
<1> HIDE DEF n
<1>2. \E g \in [1..n -> S] : IsInjective(g)
  BY <1>1 DEF ExistsBijection, Bijection, Injection
<1>3. f = CHOOSE g \in [1..n -> S] : IsInjective(g)
  BY DEF SetToSeq, n
<1> HIDE DEF f
<1>4. f \in [1..n -> S] /\ IsInjective(f)
  BY <1>2, <1>3
<1>5. f \in Injection(1..n, S)
  BY <1>4 DEF Injection
<1>6. Cardinality(1..n) = n
  BY <1>1, FS_Interval
<1>7. f \in Surjection(1..n, S)
  BY <1>5, <1>6, FS_Injection DEF n
<1>8. \A x \in S : \E i \in 1..n : f[i] = x
  BY <1>7 DEF Surjection
<1>9. \A i, j \in 1..n : f[i] = f[j] => i = j
  BY <1>4 DEF IsInjective
<1>10. Len(f) = n
  BY <1>1, <1>4
<1>. QED BY <1>1, <1>4, <1>8, <1>9, <1>10 DEF n, f

(***************************************************************************)
(* Sequences.                                                              *)
(***************************************************************************)

\* What a sequence has, and a sequence that has it once.
Has(s, x) == \E i \in DOMAIN s : s[i] = x
Once(s) == \A i, j \in DOMAIN s : s[i] = s[j] => i = j

LEMMA RemoveAtPosition ==
    ASSUME NEW S, NEW s \in Seq(S), NEW k \in 1..Len(s)
    PROVE  LET t == RemoveAt(s, k)
           IN  /\ t \in Seq(S) /\ Len(t) = Len(s) - 1
               /\ \A i \in 1..Len(t) : t[i] = IF i < k THEN s[i] ELSE s[i + 1]
<1> DEFINE a == SubSeq(s, 1, k - 1)
           b == SubSeq(s, k + 1, Len(s))
           t == RemoveAt(s, k)
<1>1. Len(s) \in Nat /\ k \in Nat /\ 1 <= k /\ k <= Len(s)
  OBVIOUS
<1>2. a \in Seq(S) /\ Len(a) = k - 1 /\ \A i \in 1..k - 1 : a[i] = s[i]
  BY <1>1
<1>3. b \in Seq(S) /\ Len(b) = Len(s) - k /\ \A i \in 1..Len(s) - k : b[i] = s[k + i]
  BY <1>1
<1>4. t = a \o b
  BY DEF RemoveAt
<1> HIDE DEF a, b
<1>5. /\ t \in Seq(S) /\ Len(t) = Len(a) + Len(b)
      /\ \A i \in 1..Len(t) : t[i] = IF i <= Len(a) THEN a[i] ELSE b[i - Len(a)]
  <2>1. a \in Seq(S) /\ b \in Seq(S)
    BY <1>2, <1>3
  <2>. QED BY <1>4, <2>1
<1>6. Len(t) = Len(s) - 1
  BY <1>1, <1>2, <1>3, <1>5
<1>7. ASSUME NEW i \in 1..Len(t)
      PROVE  t[i] = IF i < k THEN s[i] ELSE s[i + 1]
  <2>1. CASE i < k
    BY <1>1, <1>2, <1>5, <1>6, <1>7, <2>1
  <2>2. CASE ~(i < k)
    <3>1. i - (k - 1) \in 1..Len(s) - k /\ k + (i - (k - 1)) = i + 1
      BY <1>1, <1>6, <1>7, <2>2
    <3>. QED BY <1>1, <1>2, <1>3, <1>5, <1>7, <2>2, <3>1
  <2>. QED BY <2>1, <2>2
<1>. QED BY <1>5, <1>6, <1>7

\* Removing an element of a sequence that has each once.
LEMMA RemoveFirstOnce ==
    ASSUME NEW S, NEW s \in Seq(S), Once(s), NEW e
    PROVE  LET t == RemoveFirst(s, e)
           IN  /\ t \in Seq(S) /\ Once(t)
               /\ \A x : Has(t, x) <=> (x # e /\ Has(s, x))
<1> DEFINE t == RemoveFirst(s, e)
<1>1. Len(s) \in Nat /\ DOMAIN s = 1..Len(s)
  OBVIOUS
<1>2. CASE ~\E i \in 1..Len(s) : s[i] = e
  <2>1. t = s
    BY <1>2 DEF RemoveFirst
  <2>. QED BY <1>1, <1>2, <2>1 DEF Has
<1>3. CASE \E i \in 1..Len(s) : s[i] = e
  <2>1. PICK k \in 1..Len(s) : s[k] = e
    BY <1>3
  <2>2. {i \in 1..Len(s) : s[i] = e} = {k}
    BY <1>1, <2>1 DEF Once
  <2>3. Min({k}) = k
    BY DEF Min
  <2>4. t = RemoveAt(s, k)
    <3>1. t = RemoveAt(s, SelectInSeq(s, LAMBDA v : v = e))
      BY <1>3 DEF RemoveFirst
    <3>2. SelectInSeq(s, LAMBDA v : v = e) = k
      BY <2>2, <2>3 DEF SelectInSeq
    <3>. QED BY <3>1, <3>2
  <2>5. /\ t \in Seq(S) /\ Len(t) = Len(s) - 1 /\ DOMAIN t = 1..Len(s) - 1
        /\ \A i \in 1..Len(s) - 1 : t[i] = IF i < k THEN s[i] ELSE s[i + 1]
    <3>1. /\ t \in Seq(S) /\ Len(t) = Len(s) - 1
          /\ \A i \in 1..Len(t) : t[i] = IF i < k THEN s[i] ELSE s[i + 1]
      BY <2>1, <2>4, RemoveAtPosition
    <3>2. DOMAIN t = 1..Len(t)
      BY <3>1
    <3>. QED BY <3>1, <3>2
  <2>6. \A i \in 1..Len(s) - 1 : IF i < k THEN i \in 1..Len(s) /\ i # k
                                 ELSE i + 1 \in 1..Len(s) /\ i + 1 # k
    BY <1>1
  <2>7. Once(t)
    <3>1. ASSUME NEW i \in 1..Len(s) - 1, NEW j \in 1..Len(s) - 1, t[i] = t[j]
          PROVE  i = j
      <4> DEFINE at(l) == IF l < k THEN l ELSE l + 1
      <4>1. at(i) \in 1..Len(s) /\ at(j) \in 1..Len(s)
        BY <2>6
      <4>2. t[i] = s[at(i)] /\ t[j] = s[at(j)]
        BY <2>5
      <4>3. at(i) = at(j)
        BY <1>1, <3>1, <4>1, <4>2 DEF Once
      <4>. QED BY <1>1, <2>1, <4>3
    <3>. QED BY <2>5, <3>1 DEF Once
  <2>8. ASSUME NEW x, NEW i \in DOMAIN t, t[i] = x
        PROVE  x # e /\ \E j \in DOMAIN s : s[j] = x
    BY <1>1, <2>1, <2>5, <2>6, <2>8 DEF Once
  <2>9. ASSUME NEW x, x # e, NEW j \in DOMAIN s, s[j] = x
        PROVE  \E i \in DOMAIN t : t[i] = x
    <3>1. CASE j < k
      BY <1>1, <2>1, <2>5, <2>9, <3>1
    <3>2. CASE j > k
      <4>1. j - 1 \in 1..Len(s) - 1 /\ ~(j - 1 < k) /\ (j - 1) + 1 = j
        BY <1>1, <2>1, <2>9, <3>2
      <4>. QED BY <2>5, <2>9, <4>1
    <3>. QED BY <1>1, <2>1, <2>9, <3>1, <3>2
  <2>. QED BY <2>5, <2>7, <2>8, <2>9 DEF Has
<1>. QED BY <1>2, <1>3

\* What is left of a sequence without its first n elements.
LEMMA RestOnce ==
    ASSUME NEW S, NEW s \in Seq(S), Once(s), NEW n \in 0..Len(s)
    PROVE  LET t == SubSeq(s, n + 1, Len(s))
           IN  /\ t \in Seq(S) /\ Once(t)
               /\ \A x : Has(t, x)
                         <=> (Has(s, x) /\ x \notin {s[i] : i \in 1..n})
<1> DEFINE t == SubSeq(s, n + 1, Len(s))
<1>1. Len(s) \in Nat /\ DOMAIN s = 1..Len(s) /\ n \in Nat /\ n <= Len(s)
  OBVIOUS
<1>2. /\ t \in Seq(S) /\ DOMAIN t = 1..Len(s) - n
      /\ \A i \in 1..Len(s) - n : t[i] = s[n + i]
  BY <1>1
<1>3. \A i \in 1..Len(s) - n : n + i \in 1..Len(s) /\ i \in Nat /\ n + i \notin 1..n
  BY <1>1
<1>4. Once(t)
  <2>1. ASSUME NEW i \in DOMAIN t, NEW j \in DOMAIN t, t[i] = t[j] PROVE i = j
    <3>1. n + i = n + j
      BY <1>1, <1>2, <1>3, <2>1 DEF Once
    <3>. QED BY <1>1, <1>2, <1>3, <3>1
  <2>. QED BY <2>1 DEF Once
<1>5. ASSUME NEW x, NEW i \in DOMAIN t, t[i] = x
      PROVE  (\E j \in DOMAIN s : s[j] = x) /\ x \notin {s[j] : j \in 1..n}
  <2>1. n + i \in DOMAIN s /\ s[n + i] = x /\ n + i \notin 1..n
    BY <1>1, <1>2, <1>3, <1>5
  <2>2. \A j \in 1..n : j \in DOMAIN s
    BY <1>1
  <2>. QED BY <2>1, <2>2 DEF Once
<1>6. ASSUME NEW x, NEW j \in DOMAIN s, s[j] = x, x \notin {s[i] : i \in 1..n}
      PROVE  \E i \in DOMAIN t : t[i] = x
  <2>1. j \notin 1..n
    BY <1>6
  <2>2. j - n \in 1..Len(s) - n /\ n + (j - n) = j
    BY <1>1, <1>6, <2>1
  <2>. QED BY <1>2, <1>6, <2>2
<1>. QED BY <1>2, <1>4, <1>5, <1>6 DEF Has

LEMMA AppendOnce ==
    ASSUME NEW S, NEW s \in Seq(S), Once(s), NEW e \in S, ~Has(s, e)
    PROVE  LET t == Append(s, e)
           IN  /\ t \in Seq(S) /\ Once(t)
               /\ \A x : Has(t, x) <=> (x = e \/ Has(s, x))
<1> DEFINE t == Append(s, e)
<1>1. /\ Len(s) \in Nat /\ DOMAIN s = 1..Len(s) /\ t \in Seq(S) /\ DOMAIN t = 1..Len(s) + 1
      /\ t[Len(s) + 1] = e /\ \A i \in 1..Len(s) : t[i] = s[i]
  OBVIOUS
<1>2. \A i \in 1..Len(s) + 1 : i \in 1..Len(s) \/ i = Len(s) + 1
  BY <1>1
<1>3. \A i \in 1..Len(s) : i \in 1..Len(s) + 1
  BY <1>1
<1>4. Len(s) + 1 \in 1..Len(s) + 1
  BY <1>1
<1>. QED BY <1>1, <1>2, <1>3, <1>4 DEF Once, Has

(***************************************************************************)
(* Numbers and counting.                                                   *)
(***************************************************************************)

LEMMA Least ==
    ASSUME NEW T \in SUBSET Nat, T # {}
    PROVE  \E m \in T : \A k \in T : m <= k
<1> DEFINE R == {ss \in Nat \X Nat : ss[1] < ss[2]}
<1>1. IsWellFoundedOn(R, Nat)
  BY NatLessThanWellFounded DEF OpToRel
<1>2. \A x, y \in Nat : y < x => <<y, x>> \in R
  OBVIOUS
<1> HIDE DEF R
<1>3. PICK m \in T : \A y \in T : ~ (<<y, m>> \in R)
  BY <1>1, WFMin
<1>4. ASSUME NEW k \in T PROVE m <= k
  <2>1. ~(k < m)
    BY <1>2, <1>3
  <2>. QED BY <2>1
<1>. QED BY <1>4

\* A set of positive numbers up to n has a largest one.
LEMMA Largest ==
    ASSUME NEW n \in Nat, NEW T \in SUBSET (1..n), T # {}
    PROVE  Max(T) \in T /\ \A k \in T : k <= Max(T)
<1>1. PICK U : U = {n - k : k \in T}
  OBVIOUS
<1>2. U \in SUBSET Nat /\ U # {}
  <2>1. \A k \in 1..n : n - k \in Nat
    OBVIOUS
  <2>. QED BY <1>1, <2>1
<1>3. PICK u \in U : \A w \in U : u <= w
  BY <1>2, Least
<1>4. PICK m \in T : u = n - m
  BY <1>1, <1>3
<1>5. ASSUME NEW k \in T PROVE m >= k /\ k <= m
  <2>1. n - k \in U /\ u <= n - k
    BY <1>1, <1>3
  <2>. QED BY <1>4, <2>1
<1>6. \E q \in T : \A k \in T : q >= k
  BY <1>5
<1>7. Max(T) \in T /\ \A k \in T : Max(T) >= k
  BY <1>6 DEF Max
<1>. QED BY <1>7

\* The largest one is what Max says.
LEMMA LargestIs ==
    ASSUME NEW T \in SUBSET Nat, NEW m \in T, \A k \in T : k <= m
    PROVE  Max(T) = m
<1>1. \A k \in T : m >= k
  OBVIOUS
<1>2. Max(T) \in T /\ \A k \in T : Max(T) >= k
  BY <1>1 DEF Max
<1>3. Max(T) \in Nat /\ m \in Nat /\ Max(T) >= m /\ m >= Max(T)
  BY <1>1, <1>2
<1>. QED BY <1>3

\* A set of numbers from 1 on without a gap is an interval.
LEMMA NoGap ==
    ASSUME NEW n \in Nat, NEW D \in SUBSET (1..n),
           \A i \in D : \A j \in 1..i : j \in D
    PROVE  Cardinality(D) \in 0..n /\ D = 1..Cardinality(D)
<1>1. CASE D = 1..n
  <2>1. Cardinality(1..n) = n
    BY FS_Interval
  <2>. QED BY <1>1, <2>1
<1>2. CASE D # 1..n
  <2> DEFINE T == 1..n \ D
  <2>1. PICK k \in T : \A j \in T : k <= j
    <3>1. T # {}
      BY <1>2
    <3>2. T \in SUBSET Nat
      OBVIOUS
    <3> HIDE DEF T
    <3>. QED BY <3>1, <3>2, Least
  <2>2. D = 1..k - 1
    <3>1. ASSUME NEW i \in D PROVE i \in 1..k - 1
      <4>1. ~(k <= i)
        BY <2>1
      <4>. QED BY <2>1, <4>1
    <3>2. ASSUME NEW i \in 1..k - 1 PROVE i \in D
      BY <2>1
    <3>. QED BY <3>1, <3>2
  <2>3. Cardinality(D) = k - 1
    BY <2>1, <2>2, FS_Interval
  <2>. QED BY <2>1, <2>2, <2>3
<1>. QED BY <1>1, <1>2

\* A sequence that has each element once has as many as it is long.
LEMMA CountOnce ==
    ASSUME NEW S, NEW s \in Seq(S), Once(s)
    PROVE  /\ IsFiniteSet(ToSet(s)) /\ Cardinality(ToSet(s)) = Len(s)
           /\ \A x : x \in ToSet(s) <=> Has(s, x)
<1>1. Len(s) \in Nat /\ DOMAIN s = 1..Len(s)
  OBVIOUS
<1>2. ToSet(s) = {s[i] : i \in DOMAIN s}
  BY DEF ToSet
<1> DEFINE f == [i \in 1..Len(s) |-> s[i]]
<1>3. f \in Bijection(1..Len(s), ToSet(s))
  <2>1. f \in [1..Len(s) -> ToSet(s)]
    BY <1>1, <1>2
  <2>2. \A i, j \in 1..Len(s) : f[i] = f[j] => i = j
    BY <1>1 DEF Once
  <2>3. \A x \in ToSet(s) : \E i \in 1..Len(s) : f[i] = x
    BY <1>1, <1>2
  <2>. QED BY <2>1, <2>2, <2>3 DEF Bijection, Injection, Surjection, IsInjective
<1>4. ExistsBijection(1..Len(s), ToSet(s))
  BY <1>3 DEF ExistsBijection
<1>5. IsFiniteSet(1..Len(s)) /\ Cardinality(1..Len(s)) = Len(s)
  BY <1>1, FS_Interval
<1>. QED BY <1>1, <1>2, <1>4, <1>5, FS_Bijection DEF Has

(***************************************************************************)
(* Ordered sets.                                                           *)
(***************************************************************************)

\* Where an element of K stands in K.
LEMMA PlaceIn ==
    ASSUME NEW n \in Nat, NEW K \in SUBSET (1..n)
    PROVE  /\ IsFiniteSet(K) /\ Cardinality(K) \in Nat
           /\ \A i \in K : Cardinality({j \in K : j <= i}) \in 1..Cardinality(K)
           /\ \A i, l \in K : Cardinality({j \in K : j <= i}) = Cardinality({j \in K : j <= l}) => i = l
           /\ \A k \in 1..Cardinality(K) : \E i \in K : Cardinality({j \in K : j <= i}) = k
<1> DEFINE C == Cardinality(K)
           Upto(i) == {j \in K : j <= i}
           place(i) == Cardinality(Upto(i))
<1>1. IsFiniteSet(K) /\ C \in Nat
  <2>1. IsFiniteSet(1..n)
    BY FS_Interval
  <2>. QED BY <2>1, FS_Subset, FS_CardinalityType
<1>2. ASSUME NEW i \in K PROVE IsFiniteSet(Upto(i)) /\ place(i) \in 1..C
  <2>1. IsFiniteSet(Upto(i)) /\ place(i) \in Nat /\ place(i) <= C
    BY <1>1, FS_Subset, FS_CardinalityType
  <2>2. i \in Upto(i)
    OBVIOUS
  <2>3. place(i) # 0
    BY <2>1, <2>2, FS_EmptySet
  <2>. QED BY <1>1, <2>1, <2>3
<1>3. ASSUME NEW i \in K, NEW l \in K, i < l PROVE place(i) < place(l)
  <2>0. i \in Int /\ l \in Int /\ \A j \in K : j \in Int
    OBVIOUS
  <2>1. Upto(i) \in SUBSET Upto(l)
    <3>1. \A j \in K : j <= i => j <= l
      BY <1>3, <2>0
    <3>. QED BY <3>1
  <2>2. l \in Upto(l) /\ l \notin Upto(i)
    BY <1>3, <2>0
  <2>3. IsFiniteSet(Upto(l)) /\ place(l) \in Nat /\ place(i) \in Nat
    BY <1>2
  <2>4. place(i) <= place(l) /\ place(i) # place(l)
    BY <2>1, <2>2, <2>3, FS_Subset
  <2>. QED BY <2>3, <2>4
<1>4. \A i, l \in K : place(i) = place(l) => i = l
  <2>1. ASSUME NEW i \in K, NEW l \in K, i # l PROVE place(i) # place(l)
    <3>1. place(i) \in Nat /\ place(l) \in Nat
      BY <1>2
    <3>2. i < l \/ l < i
      BY <2>1
    <3>. QED BY <1>3, <3>1, <3>2
  <2>. QED BY <2>1
<1> DEFINE f == [i \in K |-> place(i)]
<1>5. f \in Injection(K, 1..C)
  <2>1. f \in [K -> 1..C]
    BY <1>2
  <2> HIDE DEF place
  <2>2. \A i, l \in K : f[i] = f[l] => i = l
    BY <1>4
  <2>. QED BY <2>1, <2>2 DEF Injection, IsInjective
<1>6. f \in Surjection(K, 1..C)
  <2>1. IsFiniteSet(1..C) /\ Cardinality(1..C) = C
    BY <1>1, FS_Interval
  <2> HIDE DEF f
  <2>. QED BY <1>5, <2>1, FS_Injection
<1>7. \A k \in 1..C : \E i \in K : place(i) = k
  <2> HIDE DEF place
  <2>. QED BY <1>6 DEF Surjection
<1>. QED BY <1>1, <1>2, <1>4, <1>7

LEMMA WithoutOnce ==
    ASSUME NEW S, NEW s \in Seq(S), Once(s), NEW R
    PROVE  LET t == Without(s, R)
           IN  /\ t \in Seq(S) /\ Once(t)
               /\ \A x : Has(t, x) <=> (x \notin R /\ Has(s, x))
<1> DEFINE K == {i \in DOMAIN s : s[i] \notin R}
           C == Cardinality(K)
           place(i) == Cardinality({j \in K : j <= i})
           at(k) == CHOOSE i \in K : place(i) = k
           t == Without(s, R)
<1>1. Len(s) \in Nat /\ DOMAIN s = 1..Len(s) /\ \A i \in DOMAIN s : s[i] \in S
  OBVIOUS
<1>2. /\ C \in Nat
      /\ \A i \in K : place(i) \in 1..C
      /\ \A i, l \in K : place(i) = place(l) => i = l
      /\ \A k \in 1..C : \E i \in K : place(i) = k
  <2>1. K \in SUBSET (1..Len(s))
    BY <1>1
  <2> HIDE DEF K
  <2>. QED BY <1>1, <2>1, PlaceIn
<1>3. t = [k \in 1..C |-> s[at(k)]]
  BY DEF Without
<1>4. \A i \in K : i \in DOMAIN s /\ s[i] \notin R
  OBVIOUS
<1>5. \A i \in DOMAIN s : s[i] \notin R => i \in K
  OBVIOUS
<1> HIDE DEF K, C, place, t
<1>6. \A k \in 1..C : at(k) \in K /\ place(at(k)) = k
  BY <1>2
<1>7. \A i \in K : at(place(i)) = i
  BY <1>2, <1>6
<1> HIDE DEF at
<1>8. DOMAIN t = 1..C /\ t \in Seq(S) /\ \A k \in 1..C : t[k] = s[at(k)]
  <2>1. t \in [1..C -> S]
    BY <1>1, <1>3, <1>4, <1>6
  <2>. QED BY <1>2, <1>3, <2>1
<1>9. Once(t)
  <2>1. ASSUME NEW k \in DOMAIN t, NEW l \in DOMAIN t, t[k] = t[l] PROVE k = l
    <3>1. s[at(k)] = s[at(l)] /\ at(k) \in DOMAIN s /\ at(l) \in DOMAIN s
      BY <1>4, <1>6, <1>8, <2>1
    <3>2. at(k) = at(l)
      BY <3>1 DEF Once
    <3>. QED BY <1>6, <1>8, <3>2
  <2>. QED BY <2>1 DEF Once
<1>10. ASSUME NEW x, NEW k \in DOMAIN t, t[k] = x PROVE x \notin R /\ \E i \in DOMAIN s : s[i] = x
  BY <1>4, <1>6, <1>8, <1>10
<1>11. ASSUME NEW x, x \notin R, NEW i \in DOMAIN s, s[i] = x PROVE \E k \in DOMAIN t : t[k] = x
  <2>1. i \in K /\ place(i) \in 1..C
    BY <1>2, <1>5, <1>11
  <2>. QED BY <1>7, <1>8, <1>11, <2>1
<1>. QED BY <1>8, <1>9, <1>10, <1>11 DEF Has, t

(***************************************************************************)
(* Sums.                                                                   *)
(***************************************************************************)

\* f[x] units for each x of S: a sum of f is how many there are.
Units(f, S) == {p \in S \X Nat : p[2] < f[p[1]]}

\* One element more is its size more.
LEMMA UnitsStep ==
    ASSUME NEW D, NEW f \in [D -> Nat], NEW S \in SUBSET D, NEW x \in S,
           IsFiniteSet(Units(f, S \ {x}))
    PROVE  /\ IsFiniteSet(Units(f, S))
           /\ Cardinality(Units(f, S)) = f[x] + Cardinality(Units(f, S \ {x}))
<1>1. PICK A, B, n : /\ A = Units(f, S \ {x}) /\ B = {x} \X (0..n - 1) /\ n = f[x] /\ n \in Nat
  OBVIOUS
<1>2. IsFiniteSet(B) /\ Cardinality(B) = n
  <2>1. IsFiniteSet({x}) /\ Cardinality({x}) = 1
    BY FS_Singleton
  <2>2. IsFiniteSet(0..n - 1) /\ Cardinality(0..n - 1) = n
    <3>1. PICK k \in Int : k = n - 1
      BY <1>1
    <3>2. IsFiniteSet(0..k) /\ Cardinality(0..k) = IF 0 > k THEN 0 ELSE k - 0 + 1
      BY FS_Interval
    <3>3. k >= -1 /\ k + 1 = n
      BY <1>1, <3>1
    <3>4. Cardinality(0..k) = k + 1
      BY <3>2, <3>3
    <3>. QED BY <3>1, <3>2, <3>3, <3>4
  <2>3. IsFiniteSet(B) /\ Cardinality(B) = Cardinality({x}) * Cardinality(0..n - 1)
    BY <1>1, <2>1, <2>2, FS_Product
  <2>. QED BY <1>1, <2>1, <2>2, <2>3
<1>3. Units(f, S) = A \cup B /\ A \cap B = {}
  <2>1. ASSUME NEW p PROVE p \in Units(f, S) <=> p \in A \/ p \in B
    BY <1>1 DEF Units
  <2>2. A \cap B = {}
    BY <1>1 DEF Units
  <2>. QED BY <2>1, <2>2
<1>4. /\ IsFiniteSet(A \cup B)
      /\ Cardinality(A \cup B) = Cardinality(A) + Cardinality(B) - Cardinality(A \cap B)
  BY <1>1, <1>2, FS_Union
<1>5. Cardinality(A) \in Nat /\ Cardinality(A \cap B) = 0
  BY <1>1, <1>3, FS_CardinalityType, FS_EmptySet
<1>6. Cardinality(A \cup B) = Cardinality(A) + n
  BY <1>1, <1>2, <1>4, <1>5
<1>7. n + Cardinality(A) = Cardinality(A) + n
  BY <1>1, <1>5
<1>. QED BY <1>1, <1>3, <1>4, <1>6, <1>7

\* There are finitely many units: a smallest counterexample would have one element
\* less and still be one.
LEMMA UnitsFinite ==
    ASSUME NEW D, NEW f \in [D -> Nat], NEW S \in SUBSET D, IsFiniteSet(S)
    PROVE  IsFiniteSet(Units(f, S))
<1>1. PICK Bad : Bad = {n \in Nat : \E T \in SUBSET S : Cardinality(T) = n /\ ~IsFiniteSet(Units(f, T))}
  OBVIOUS
<1>2. Bad = {}
  <2> SUFFICES ASSUME Bad # {} PROVE FALSE
    OBVIOUS
  <2>1. PICK n : n \in Bad /\ \A k \in Bad : n <= k
    BY <1>1, Least
  <2>2. PICK T \in SUBSET S : Cardinality(T) = n /\ ~IsFiniteSet(Units(f, T)) /\ n \in Nat
    BY <1>1, <2>1
  <2>3. T # {}
    <3>1. Units(f, {}) = {}
      BY DEF Units
    <3>. QED BY <2>2, <3>1, FS_EmptySet
  <2>4. PICK x : x \in T
    BY <2>3
  <2>5. IsFiniteSet(T) /\ IsFiniteSet(T \ {x}) /\ Cardinality(T \ {x}) = n - 1
        /\ Cardinality(T \ {x}) \in Nat
    <3>1. IsFiniteSet(T)
      BY FS_Subset
    <3>. QED BY <2>2, <2>4, <3>1, FS_RemoveElement, FS_CardinalityType
  <2>6. IsFiniteSet(Units(f, T \ {x}))
    <3>1. n - 1 \notin Bad /\ n - 1 \in Nat
      BY <2>1, <2>2, <2>5
    <3>. QED BY <1>1, <2>5, <3>1
  <2>7. IsFiniteSet(Units(f, T))
    <3>1. T \in SUBSET D
      OBVIOUS
    <3>. QED BY <2>4, <2>6, <3>1, UnitsStep
  <2>. QED BY <2>2, <2>7
<1>3. Cardinality(S) \in Nat
  BY FS_CardinalityType
<1>. QED BY <1>1, <1>2, <1>3

(***************************************************************************)
(* Recursion over numbers, and folds over sequences.                       *)
(***************************************************************************)

Chain(h, n, b, G) == h[0] = b /\ \A i \in 1..n : h[i] = G[i][h[i - 1]]

\* The recursion along the numbers up to n that starts with b has a solution.
LEMMA ChainExists ==
    ASSUME NEW n \in Nat, NEW A, NEW b \in A, NEW G \in [1..n -> [A -> A]]
    PROVE  \E h \in [0..n -> A] : Chain(h, n, b, G)
<1> DEFINE Solves(k, h) == h \in [0..k -> A] /\ h[0] = b /\ \A i \in 1..k : h[i] = G[i][h[i - 1]]
<1>0. PICK Bad : Bad = {k \in 0..n : ~\E h : Solves(k, h)}
  OBVIOUS
<1>1. 0 \notin Bad
  <2>1. Solves(0, [i \in 0..0 |-> b])
    OBVIOUS
  <2>. QED BY <1>0, <2>1
<1>2. ASSUME NEW k \in 1..n, k - 1 \notin Bad PROVE k \notin Bad
  <2>1. PICK h : Solves(k - 1, h)
    <3>1. k - 1 \in 0..n
      OBVIOUS
    <3> HIDE DEF Solves
    <3>. QED BY <1>0, <1>2, <3>1
  <2>2. PICK e : e = G[k][h[k - 1]] /\ e \in A
    BY <2>1
  <2>3. PICK g : g = [i \in 0..k |-> IF i = k THEN e ELSE h[i]]
    OBVIOUS
  <2>4. g \in [0..k -> A] /\ \A i \in 0..k - 1 : g[i] = h[i]
    BY <2>1, <2>2, <2>3
  <2>5. g[0] = b
    BY <2>1, <2>4
  <2>6. ASSUME NEW i \in 1..k PROVE g[i] = G[i][g[i - 1]]
    <3>1. i - 1 \in 0..k - 1 /\ g[i - 1] = h[i - 1]
      BY <2>4
    <3>2. CASE i = k
      <4>1. g[k] = e
        BY <2>3
      <4>. QED BY <2>2, <3>1, <3>2, <4>1
    <3>3. CASE i # k
      <4>1. i \in 1..k - 1
        BY <3>3
      <4>. QED BY <2>1, <2>4, <3>1, <4>1
    <3>. QED BY <3>2, <3>3
  <2>. QED BY <1>0, <2>4, <2>5, <2>6
<1> HIDE DEF Solves
<1>3. Bad = {}
  <2> SUFFICES ASSUME Bad # {} PROVE FALSE
    OBVIOUS
  <2>1. Bad \in SUBSET Nat
    BY <1>0
  <2>2. PICK k \in Bad : \A j \in Bad : k <= j
    BY <2>1, Least
  <2>3. k \in 1..n /\ k - 1 \notin Bad
    <3>1. k \in 0..n /\ k # 0
      BY <1>0, <1>1
    <3>. QED BY <2>2, <3>1
  <2>. QED BY <1>2, <2>2, <2>3
<1>. QED
  <2>1. n \in 0..n
    OBVIOUS
  <2>. QED BY <1>0, <1>3, <2>1 DEF Solves, Chain

FoldOf(w, n, b, G) ==
    \A S \in SUBSET (1..n) : w[S] = IF S = {} THEN b ELSE G[Max(S)][w[S \ {Max(S)}]]

\* Folding goes through the sets of positions, and takes the largest position of
\* each: that recursion has a solution as well.
LEMMA FoldExists ==
    ASSUME NEW n \in Nat, NEW A, NEW b \in A, NEW G \in [1..n -> [A -> A]]
    PROVE  \E w \in [SUBSET (1..n) -> A] : FoldOf(w, n, b, G)
<1> DEFINE Solves(k, w) ==
              /\ w \in [SUBSET (1..k) -> A]
              /\ \A S \in SUBSET (1..k) : w[S] = IF S = {} THEN b ELSE G[Max(S)][w[S \ {Max(S)}]]
<1>0. PICK Bad : Bad = {k \in 0..n : ~\E w : Solves(k, w)}
  OBVIOUS
<1>1. 0 \notin Bad
  <2>1. Solves(0, [S \in SUBSET (1..0) |-> b])
    OBVIOUS
  <2>. QED BY <1>0, <2>1
<1>2. ASSUME NEW k \in 1..n, k - 1 \notin Bad PROVE k \notin Bad
  <2>1. PICK w : Solves(k - 1, w)
    <3>1. k - 1 \in 0..n
      OBVIOUS
    <3> HIDE DEF Solves
    <3>. QED BY <1>0, <1>2, <3>1
  <2>2. PICK v : v = [S \in SUBSET (1..k) |-> IF S = {} THEN b ELSE G[Max(S)][w[S \ {Max(S)}]]]
    OBVIOUS
  <2>3. ASSUME NEW S \in SUBSET (1..k), S # {}
        PROVE  Max(S) \in 1..n /\ S \ {Max(S)} \in SUBSET (1..k - 1)
    <3>1. PICK m : m = Max(S) /\ m \in S /\ \A i \in S : i <= m
      <4>1. k \in Nat
        OBVIOUS
      <4>. QED BY ONLY <2>3, <4>1, S \in SUBSET (1..k), Largest
    <3>2. m \in 1..n /\ S \ {m} \in SUBSET (1..k - 1)
      <4>1. m \in 1..k /\ k \in 1..n
        BY <3>1
      <4>2. \A i \in S : i \in 1..k /\ (i # m => i <= k - 1)
        BY <3>1, <4>1
      <4>. QED BY <4>1, <4>2
    <3>. QED BY <3>1, <3>2
  <2>4. v \in [SUBSET (1..k) -> A]
    <3>1. ASSUME NEW S \in SUBSET (1..k) PROVE (IF S = {} THEN b ELSE G[Max(S)][w[S \ {Max(S)}]]) \in A
      <4>1. CASE S = {}
        BY <4>1
      <4>2. CASE S # {}
        <5>1. Max(S) \in 1..n /\ w[S \ {Max(S)}] \in A
          BY <2>1, <2>3, <4>2
        <5>. QED BY <4>2, <5>1
      <4>. QED BY <4>1, <4>2
    <3>. QED BY <2>2, <3>1
  <2>5. \A S \in SUBSET (1..k - 1) : S \in SUBSET (1..k) /\ v[S] = w[S]
    <3>1. \A S \in SUBSET (1..k - 1) : S \in SUBSET (1..k)
      OBVIOUS
    <3>2. \A S \in SUBSET (1..k - 1) : w[S] = IF S = {} THEN b ELSE G[Max(S)][w[S \ {Max(S)}]]
      BY <2>1
    <3>. QED BY <2>2, <3>1, <3>2
  <2>6. ASSUME NEW S \in SUBSET (1..k) PROVE v[S] = IF S = {} THEN b ELSE G[Max(S)][v[S \ {Max(S)}]]
    <3>1. v[S] = IF S = {} THEN b ELSE G[Max(S)][w[S \ {Max(S)}]]
      BY <2>2
    <3>2. S # {} => v[S \ {Max(S)}] = w[S \ {Max(S)}]
      BY <2>3, <2>5
    <3>. QED BY <3>1, <3>2
  <2>. QED BY <1>0, <2>4, <2>6
<1> HIDE DEF Solves
<1>3. Bad = {}
  <2> SUFFICES ASSUME Bad # {} PROVE FALSE
    OBVIOUS
  <2>1. Bad \in SUBSET Nat
    BY <1>0
  <2>2. PICK k \in Bad : \A j \in Bad : k <= j
    BY <2>1, Least
  <2>3. k \in 1..n /\ k - 1 \notin Bad
    <3>1. k \in 0..n /\ k # 0
      BY <1>0, <1>1
    <3>. QED BY <2>2, <3>1
  <2>. QED BY <1>2, <2>2, <2>3
<1>. QED
  <2>1. n \in 0..n
    OBVIOUS
  <2>. QED BY <1>0, <1>3, <2>1 DEF Solves, FoldOf

\* The first positions of a sequence, and the last of them.
LEMMA FirstPositions ==
    ASSUME NEW n \in Nat, NEW i \in 1..n
    PROVE  /\ 1..i \in SUBSET (1..n) /\ 1..i # {} /\ Max(1..i) = i
           /\ (1..i) \ {i} = 1..(i - 1)
<1>1. i \in 1..i /\ 1..i \in SUBSET Nat /\ \A k \in 1..i : k <= i
  OBVIOUS
<1>2. Max(1..i) = i
  BY <1>1, LargestIs
<1>. QED BY <1>1, <1>2

\* Flattening appends sequence after sequence.
LEMMA FlattenIs ==
    ASSUME NEW S, NEW q \in Seq(Seq(S))
    PROVE  \E h \in [0..Len(q) -> Seq(S)] :
              /\ h[0] = <<>> /\ FlattenSeq(q) = h[Len(q)]
              /\ \A i \in 1..Len(q) : h[i] = h[i - 1] \o q[i]
<1>1. PICK n : n = Len(q) /\ n \in Nat /\ DOMAIN q = 1..n /\ \A i \in 1..n : q[i] \in Seq(S)
  BY ElementOfSeq
<1>2. PICK G : G = [i \in 1..n |-> [a \in Seq(S) |-> a \o q[i]]]
  OBVIOUS
<1>3. G \in [1..n -> [Seq(S) -> Seq(S)]] /\ \A i \in 1..n : \A a \in Seq(S) : G[i][a] = a \o q[i]
  <2>1. \A i \in 1..n : \A a \in Seq(S) : a \o q[i] \in Seq(S)
    BY <1>1, ConcatProperties
  <2>. QED BY <1>2, <2>1
<1>4. PICK h : h \in [0..n -> Seq(S)] /\ h[0] = <<>> /\ \A i \in 1..n : h[i] = G[i][h[i - 1]]
  <2>1. <<>> \in Seq(S) /\ n \in Nat
    BY <1>1
  <2>3. PICK A, b : A = Seq(S) /\ b = <<>>
    OBVIOUS
  <2>4. b \in A /\ n \in Nat /\ G \in [1..n -> [A -> A]]
    BY <1>3, <2>1, <2>3
  <2>5. PICK h \in [0..n -> A] : Chain(h, n, b, G)
    BY ONLY <2>4, ChainExists
  <2>. QED BY <2>3, <2>5 DEF Chain
<1>5. \A i \in 1..n : h[i] = h[i - 1] \o q[i]
  <2> SUFFICES ASSUME NEW i \in 1..n PROVE h[i] = h[i - 1] \o q[i]
    OBVIOUS
  <2>1. i - 1 \in 0..n
    BY <1>1
  <2>2. h[i - 1] \in Seq(S)
    BY ONLY <1>4, <2>1
  <2>. QED BY <1>3, <1>4, <2>2
<1>6. FlattenSeq(q) = h[n]
  <2>1. CASE n = 0
    <3>1. q = <<>>
      BY <1>1, <2>1
    <3>. QED BY <1>1, <1>4, <2>1, <3>1 DEF FlattenSeq
  <2>2. CASE n # 0
    <3>1. PICK g : g = CHOOSE f : f = [i \in 1..n |-> IF i = 1 THEN q[i] ELSE f[i - 1] \o q[i]]
      OBVIOUS
    <3>2. FlattenSeq(q) = g[n]
      BY <1>1, <2>2, <3>1 DEF FlattenSeq
    <3>3. PICK f : f = [i \in 1..n |-> h[i]]
      OBVIOUS
    <3>4. f = [i \in 1..n |-> IF i = 1 THEN q[i] ELSE f[i - 1] \o q[i]]
      <4>1. ASSUME NEW i \in 1..n PROVE h[i] = IF i = 1 THEN q[i] ELSE f[i - 1] \o q[i]
        <5>1. CASE i = 1
          <6>1. h[1] = h[1 - 1] \o q[1] /\ q[1] \in Seq(S)
            BY <1>1, <1>5, <5>1
          <6>2. h[1 - 1] = <<>>
            BY <1>4
          <6>. QED BY <5>1, <6>1, <6>2, ConcatEmptySeq
        <5>2. CASE i # 1
          <6>1. i - 1 \in 1..n
            BY <1>1, <5>2
          <6>. QED BY <1>5, <3>3, <5>2, <6>1
        <5>. QED BY <5>1, <5>2
      <4>. QED BY <3>3, <4>1
    <3>5. g = [i \in 1..n |-> IF i = 1 THEN q[i] ELSE g[i - 1] \o q[i]]
      <4>1. LET R(x) == x = [i \in 1..n |-> IF i = 1 THEN q[i] ELSE x[i - 1] \o q[i]]
            IN  (\E x : R(x)) => R(CHOOSE x : R(x))
        BY Zenon
      <4>. QED BY <3>1, <3>4, <4>1
    <3>6. ASSUME NEW k \in 1..n PROVE g[k] = IF k = 1 THEN q[k] ELSE g[k - 1] \o q[k]
      BY <3>5
    <3>7. PICK Bad : Bad = {k \in 1..n : g[k] # h[k]}
      OBVIOUS
    <3>8. ASSUME NEW k \in 1..n, k # 1 => k - 1 \notin Bad PROVE k \notin Bad
      <4>1. CASE k = 1
        BY <3>4, <3>3, <3>6, <3>7, <4>1
      <4>2. CASE k # 1
        <5>1. k - 1 \in 1..n /\ g[k - 1] = h[k - 1]
          BY <1>1, <3>7, <3>8, <4>2
        <5>. QED BY <1>5, <3>6, <3>7, <4>2, <5>1
      <4>. QED BY <4>1, <4>2
    <3>9. Bad = {}
      <4> SUFFICES ASSUME Bad # {} PROVE FALSE
        OBVIOUS
      <4>0. Bad \in SUBSET Nat
        BY <3>7
      <4>1. PICK k \in Bad : \A j \in Bad : k <= j
        BY <4>0, Least
      <4>2. k \in 1..n /\ (k # 1 => k - 1 \notin Bad)
        BY <3>7, <4>1
      <4>. QED BY <3>8, <4>1, <4>2
    <3>. QED BY <2>2, <1>1, <3>2, <3>7, <3>9
  <2>. QED BY <2>1, <2>2
<1>. QED BY <1>1, <1>4, <1>5, <1>6

\* Two sequences that agree up to the last one differ by that.
LEMMA FlattenAppend ==
    ASSUME NEW S, NEW q \in Seq(Seq(S)), NEW e \in Seq(S)
    PROVE  /\ FlattenSeq(<<>>) = <<>> /\ FlattenSeq(q) \in Seq(S)
           /\ FlattenSeq(Append(q, e)) = FlattenSeq(q) \o e
<1>1. PICK n, r : /\ n = Len(q) /\ n \in Nat /\ r = Append(q, e) /\ r \in Seq(Seq(S)) /\ Len(r) = n + 1
                  /\ r[n + 1] = e /\ \A i \in 1..n : r[i] = q[i]
  <2>1. PICK n, r : n = Len(q) /\ r = Append(q, e)
    OBVIOUS
  <2>2. n \in Nat
    BY <2>1
  <2>3. PICK A : A = Seq(S)
    OBVIOUS
  <2>4. r \in Seq(A) /\ Len(r) = n + 1 /\ r[n + 1] = e /\ \A i \in 1..n : r[i] = q[i]
    BY ONLY <2>1, <2>3, AppendProperties, q \in Seq(Seq(S)), e \in Seq(S)
  <2>. QED BY <2>1, <2>2, <2>3, <2>4
<1>2. PICK h : /\ h \in [0..n -> Seq(S)] /\ h[0] = <<>> /\ FlattenSeq(q) = h[n]
                                    /\ \A i \in 1..n : h[i] = h[i - 1] \o q[i]
  <2>1. \E h \in [0..Len(q) -> Seq(S)] :
           /\ h[0] = <<>> /\ FlattenSeq(q) = h[Len(q)]
           /\ \A i \in 1..Len(q) : h[i] = h[i - 1] \o q[i]
    BY FlattenIs
  <2>. QED BY <1>1, <2>1
<1>3. PICK g : /\ g \in [0..n + 1 -> Seq(S)] /\ g[0] = <<>> /\ FlattenSeq(r) = g[n + 1]
                                        /\ \A i \in 1..n + 1 : g[i] = g[i - 1] \o r[i]
  <2>1. r \in Seq(Seq(S)) /\ Len(r) = n + 1
    BY <1>1
  <2>2. \E g \in [0..Len(r) -> Seq(S)] :
           /\ g[0] = <<>> /\ FlattenSeq(r) = g[Len(r)]
           /\ \A i \in 1..Len(r) : g[i] = g[i - 1] \o r[i]
    BY ONLY <2>1, FlattenIs
  <2>. QED BY ONLY <2>1, <2>2
<1>4. PICK Bad : Bad = {k \in 0..n : g[k] # h[k]}
  OBVIOUS
<1>5. 0 \notin Bad
  BY <1>2, <1>3, <1>4
<1>6. ASSUME NEW k \in 1..n, k - 1 \notin Bad PROVE k \notin Bad
  <2>1. k - 1 \in 0..n /\ g[k - 1] = h[k - 1]
    BY <1>1, <1>4, <1>6
  <2>2. g[k] = g[k - 1] \o q[k]
    <3>1. k \in 1..n + 1 /\ r[k] = q[k]
      BY <1>1
    <3>. QED BY <1>3, <3>1
  <2>. QED BY <1>2, <1>4, <2>1, <2>2
<1>7. Bad = {}
  <2> SUFFICES ASSUME Bad # {} PROVE FALSE
    OBVIOUS
  <2>0. Bad \in SUBSET Nat /\ Bad \in SUBSET (0..n)
    BY <1>1, <1>4
  <2>1. PICK k \in Bad : \A j \in Bad : k <= j
    BY <2>0, Least
  <2>2. k \in 1..n /\ k - 1 \notin Bad
    <3>1. k \in 0..n /\ k # 0
      BY <1>5, <2>0
    <3>. QED BY <1>1, <2>1, <3>1
  <2>. QED BY <1>6, <2>1, <2>2
<1>8. FlattenSeq(r) = FlattenSeq(q) \o e
  <2>1. g[n] = h[n]
    BY <1>1, <1>4, <1>7
  <2>2. g[n + 1] = g[n] \o r[n + 1]
    <3>1. n + 1 \in 1..n + 1 /\ (n + 1) - 1 = n
      BY <1>1
    <3>. QED BY ONLY <1>3, <3>1
  <2>. QED BY <1>1, <1>2, <1>3, <2>1, <2>2
<1>9. FlattenSeq(<<>>) = <<>>
  BY DEF FlattenSeq
<1>10. FlattenSeq(q) \in Seq(S)
  <2>1. n \in 0..n
    BY <1>1
  <2>. QED BY ONLY <1>2, <2>1
<1>. QED BY <1>1, <1>8, <1>9, <1>10

=============================================================================
