------------------------------ MODULE Counting ------------------------------
(***************************************************************************)
(* Facts about finite sets and numbers that several proofs count with: the *)
(* least of some numbers, images, places in a finite order, and that there  *)
(* is a fold over a finite set.                                            *)
(***************************************************************************)
EXTENDS Places, SequencesExt, FiniteSetTheorems, TLAPS

\* The least-number principle, of a set: what a scan for the first free number,
\* or the first row, relies on.
LEMMA LeastNatural ==
    ASSUME NEW S \in SUBSET Nat, S # {}
    PROVE  \E n \in S : \A m \in S : n <= m
<1> DEFINE R == OpToRel(<, Nat)
<1>1. IsWellFoundedOn(R, Nat)
  BY NatLessThanWellFounded
<1> HIDE DEF R
<1>2. PICK n \in S : \A m \in S : <<m, n>> \notin R
  BY <1>1, WFMin
<1>3. \A m \in S : ~(m < n)
  BY <1>2 DEF R, OpToRel
<1> QED BY <1>3

\* Of some numbers up to a bound there is a greatest.
LEMMA GreatestUpTo ==
    ASSUME NEW n \in Nat, NEW S \in SUBSET (1 .. n), S # {}
    PROVE  \E m \in S : \A k \in S : k <= m
<1> DEFINE T == {n - k : k \in S}
<1>1. T \in SUBSET Nat /\ T # {}
  <2>1. \A k \in S : n - k \in Nat
    OBVIOUS
  <2> QED BY <2>1
<1>2. PICK d \in T : \A e \in T : d <= e
  BY <1>1, LeastNatural
<1>3. PICK m \in S : d = n - m
  OBVIOUS
<1>4. ASSUME NEW k \in S PROVE k <= m
  <2>1. d <= n - k
    BY <1>2
  <2> QED BY <1>3, <2>1
<1> QED BY <1>4

\* A finite set has a finite image, which is no larger.
LEMMA FiniteImage ==
    ASSUME NEW S, IsFiniteSet(S), NEW f, DOMAIN f = S
    PROVE  IsFiniteSet({f[x] : x \in S}) /\ Cardinality({f[x] : x \in S}) <= Cardinality(S)
<1> DEFINE T == {f[x] : x \in S}
           g == [x \in S |-> f[x]]
<1>1. g \in Surjection(S, T)
  BY DEF Surjection
<1> HIDE DEF T
<1> QED BY <1>1, FS_Surjection DEF T

\* A set that lacks something of a finite one has fewer elements.
LEMMA StrictlyFewer ==
    ASSUME NEW S, IsFiniteSet(S), NEW T \in SUBSET S, NEW x \in S, x \notin T
    PROVE  /\ Cardinality(T) \in Nat /\ Cardinality(S) \in Nat
           /\ Cardinality(T) < Cardinality(S)
BY FS_Subset, FS_CardinalityType

\* Things that each have a thing of a finite set to themselves are no more.
LEMMA OneEach ==
    ASSUME NEW S, NEW T, IsFiniteSet(T), NEW f, DOMAIN f = S, \A x \in S : f[x] \in T,
           \A x, y \in S : f[x] = f[y] => x = y
    PROVE  IsFiniteSet(S) /\ Cardinality(S) <= Cardinality(T)
<1> DEFINE g == [x \in S |-> f[x]]
<1>1. g \in Injection(S, T)
  BY DEF Injection, IsInjective
<1> QED BY <1>1, FS_Injection

\* Of finitely many numbers there is a greatest.
LEMMA GreatestOfSome ==
    ASSUME NEW S \in SUBSET Nat, IsFiniteSet(S), S # {}
    PROVE  \E m \in S : \A k \in S : k <= m
<1> DEFINE above(x) == {y \in S : y > x}
           counts == {Cardinality(above(x)) : x \in S}
<1>1. \A x \in S : above(x) \in SUBSET S /\ IsFiniteSet(above(x)) /\ Cardinality(above(x)) \in Nat
  BY FS_Subset, FS_CardinalityType
<1>2. counts \in SUBSET Nat /\ counts # {}
  <2> HIDE DEF above
  <2> QED BY <1>1
<1>3. PICK c \in counts : \A d \in counts : c <= d
  <2> HIDE DEF counts
  <2> QED BY <1>2, LeastNatural
<1>4. PICK x \in S : c = Cardinality(above(x))
  OBVIOUS
<1>5. ASSUME NEW y \in S, y > x PROVE FALSE
  <2>1. above(y) \in SUBSET above(x) /\ y \in above(x) /\ y \notin above(y)
    <3>1. \A z \in S : z > y => z > x
      BY <1>5
    <3>2. ~(y > y)
      OBVIOUS
    <3> QED BY <1>5, <3>1, <3>2
  <2>2. IsFiniteSet(above(x)) /\ Cardinality(above(y)) \in counts
    BY <1>1
  <2> HIDE DEF above, counts
  <2>3. /\ Cardinality(above(y)) < Cardinality(above(x)) /\ Cardinality(above(y)) \in Nat
        /\ Cardinality(above(x)) \in Nat
    BY <2>1, <2>2, StrictlyFewer
  <2> QED BY <1>3, <1>4, <2>2, <2>3
<1> QED BY <1>5

\* What holds of nothing, and of some things whenever it holds of all but one of
\* them, holds of any finite number of things.
LEMMA OneByOne ==
    ASSUME NEW S, IsFiniteSet(S), NEW G, {} \in G,
           \A s \in SUBSET S : s # {} => \E x \in s : s \ {x} \in G => s \in G
    PROVE  \A s \in SUBSET S : s \in G
<1> DEFINE sizes == {Cardinality(s) : s \in (SUBSET S) \ G}
<1>1. \A s \in SUBSET S : IsFiniteSet(s) /\ Cardinality(s) \in Nat
  BY FS_Subset, FS_CardinalityType
<1>2. SUFFICES ASSUME (SUBSET S) \ G # {} PROVE FALSE
  OBVIOUS
<1>3. sizes \in SUBSET Nat /\ sizes # {}
  BY <1>1, <1>2
<1>4. PICK n \in sizes : \A m \in sizes : n <= m
  BY <1>3, LeastNatural
<1>5. PICK s \in (SUBSET S) \ G : n = Cardinality(s)
  BY <1>4
<1>6. PICK x \in s : s \ {x} \in G => s \in G
  <2>1. s \in SUBSET S /\ s \notin G
    BY <1>5
  <2>2. s # {}
    BY <2>1
  <2> QED BY <2>1, <2>2
<1>7. s \ {x} \in (SUBSET S) \ G /\ Cardinality(s \ {x}) = n - 1 /\ n \in Nat
  BY <1>1, <1>5, <1>6, FS_RemoveElement
<1>8. n - 1 \in sizes
  BY <1>7
<1> QED BY <1>4, <1>7, <1>8

\* A fold over a finite set: taken up to some size, it can be taken one further.
Folds(S, n, base, pick, op, h) ==
    \A s \in SUBSET S : Cardinality(s) <= n =>
        h[s] = IF s = {} THEN base ELSE op[pick[s]][h[s \ {pick[s]}]]

Foldable(S, A, base, pick, op) ==
    /\ IsFiniteSet(S) /\ base \in A
    /\ \A x \in S, a \in A : op[x][a] \in A
    /\ \A s \in SUBSET S : s # {} => pick[s] \in s

IsFold(S, A, base, pick, op, h) ==
    /\ h \in [SUBSET S -> A]
    /\ h = [s \in SUBSET S |-> IF s = {} THEN base ELSE op[pick[s]][h[s \ {pick[s]}]]]

LEMMA FoldExists ==
    ASSUME NEW S, NEW A, NEW base, NEW pick, NEW op, Foldable(S, A, base, pick, op)
    PROVE  \E h : IsFold(S, A, base, pick, op, h)
<1> USE DEF Foldable
<1> DEFINE failing == {n \in Nat : ~ \E h \in [SUBSET S -> A] : Folds(S, n, base, pick, op, h)}
<1>1. \A s \in SUBSET S : IsFiniteSet(s) /\ Cardinality(s) \in Nat /\ (Cardinality(s) = 0 <=> s = {})
  BY FS_Subset, FS_CardinalityType, FS_EmptySet
<1>2. \A s \in SUBSET S : \A x \in s : s \ {x} \in SUBSET S /\ Cardinality(s \ {x}) = Cardinality(s) - 1
  BY <1>1, FS_RemoveElement
<1>3. 0 \notin failing
  <2> DEFINE none == [s \in SUBSET S |-> base]
  <2>1. none \in [SUBSET S -> A]
    OBVIOUS
  <2>2. Folds(S, 0, base, pick, op, none)
    BY <1>1 DEF Folds
  <2> QED BY <2>1, <2>2
<1>4. ASSUME NEW n \in Nat, n \notin failing PROVE n + 1 \notin failing
  <2>1. PICK h \in [SUBSET S -> A] : Folds(S, n, base, pick, op, h)
    BY <1>4
  <2> DEFINE next(s) == IF s = {} THEN base ELSE op[pick[s]][h[s \ {pick[s]}]]
             g == [s \in SUBSET S |-> next(s)]
  <2>2. \A s \in SUBSET S : next(s) \in A
    <3> TAKE s \in SUBSET S
    <3>1. CASE s = {}
      BY <3>1
    <3>2. CASE s # {}
      <4>1. pick[s] \in s /\ pick[s] \in S /\ s \ {pick[s]} \in SUBSET S
        BY <3>2
      <4>2. h[s \ {pick[s]}] \in A
        BY <4>1
      <4> QED BY <3>2, <4>1, <4>2
    <3> QED BY <3>1, <3>2
  <2>3. \A s \in SUBSET S : Cardinality(s) <= n => h[s] = next(s)
    BY <2>1 DEF Folds
  <2> HIDE DEF next
  <2>4. g \in [SUBSET S -> A] /\ \A s \in SUBSET S : g[s] = next(s)
    BY <2>2
  <2> HIDE DEF g
  <2>5. ASSUME NEW s \in SUBSET S, s # {}, Cardinality(s) <= n + 1
        PROVE  g[s] = op[pick[s]][g[s \ {pick[s]}]]
    <3>1. pick[s] \in s /\ s \ {pick[s]} \in SUBSET S /\ Cardinality(s \ {pick[s]}) <= n
      BY <1>1, <1>2, <2>5
    <3>2. g[s \ {pick[s]}] = h[s \ {pick[s]}]
      BY <2>3, <2>4, <3>1
    <3>3. next(s) = op[pick[s]][h[s \ {pick[s]}]]
      BY <2>5 DEF next
    <3> QED BY <2>4, <3>2, <3>3
  <2>6. g[{}] = base
    BY <2>4 DEF next
  <2>7. Folds(S, n + 1, base, pick, op, g)
    BY <2>5, <2>6 DEF Folds
  <2> QED BY <2>4, <2>7
<1>5. failing = {}
  <2> SUFFICES ASSUME failing # {} PROVE FALSE
    OBVIOUS
  <2>1. failing \in SUBSET Nat
    OBVIOUS
  <2>2. PICK n \in failing : \A m \in failing : n <= m
    BY <2>1, LeastNatural
  <2>3. n \in Nat
    BY <2>1
  <2> HIDE DEF failing
  <2>4. n # 0
    BY <1>3
  <2>5. n - 1 \in Nat /\ n - 1 \notin failing
    BY <2>2, <2>3, <2>4
  <2>6. n - 1 + 1 \notin failing
    BY <1>4, <2>5
  <2> QED BY <2>3, <2>6
<1>6. Cardinality(S) \in Nat
  BY FS_CardinalityType
<1>7. PICK h \in [SUBSET S -> A] : Folds(S, Cardinality(S), base, pick, op, h)
  BY <1>5, <1>6
<1>8. \A s \in SUBSET S : Cardinality(s) <= Cardinality(S)
  BY FS_Subset
<1>9. \A s \in SUBSET S : h[s] = IF s = {} THEN base ELSE op[pick[s]][h[s \ {pick[s]}]]
  BY <1>7, <1>8 DEF Folds
<1>10. h = [s \in SUBSET S |-> IF s = {} THEN base ELSE op[pick[s]][h[s \ {pick[s]}]]]
  BY <1>9
<1> QED BY <1>10 DEF IsFold

-----------------------------------------------------------------------------
(* Numbers in order *)

LEMMA RankExists ==
    ASSUME NEW S \in SUBSET Nat, IsFiniteSet(S), NEW i \in 1 .. Cardinality(S)
    PROVE  \E n \in S : Cardinality({k \in S : k < n}) = i - 1
<1> DEFINE Lower(n) == {k \in S : k < n}
           rank == [n \in S |-> Cardinality(Lower(n))]
           Ranks == 0 .. (Cardinality(S) - 1)
<1>1. Cardinality(S) \in Nat
  BY FS_CardinalityType
<1>2. ASSUME NEW n \in S PROVE Cardinality(Lower(n)) \in Ranks /\ IsFiniteSet(Lower(n))
  <2>1. Lower(n) \in SUBSET S /\ n \notin Lower(n)
    OBVIOUS
  <2>2. IsFiniteSet(Lower(n))
    BY <2>1, FS_Subset
  <2> HIDE DEF Lower
  <2>3. Cardinality(Lower(n)) \in Nat /\ Cardinality(Lower(n)) < Cardinality(S)
    BY <2>1, StrictlyFewer
  <2> QED BY <1>1, <2>2, <2>3
<1>3. ASSUME NEW m \in S, NEW n \in S, m < n PROVE Cardinality(Lower(m)) < Cardinality(Lower(n))
  <2>0. m \in Nat /\ n \in Nat /\ \A k \in S : k \in Nat
    OBVIOUS
  <2>1. Lower(m) \in SUBSET Lower(n) /\ m \in Lower(n) /\ m \notin Lower(m)
    <3>1. ASSUME NEW k \in Lower(m) PROVE k \in Lower(n)
      BY <1>3, <2>0
    <3>2. m \in Lower(n) /\ m \notin Lower(m)
      BY <1>3, <2>0
    <3> HIDE DEF Lower
    <3> QED BY <3>1, <3>2
  <2>2. IsFiniteSet(Lower(n))
    BY <1>2
  <2> HIDE DEF Lower
  <2> QED BY <2>1, <2>2, StrictlyFewer
<1>4. \A n \in S : rank[n] = Cardinality(Lower(n)) /\ rank[n] \in Ranks
  BY <1>2
<1>5. ASSUME NEW m \in S, NEW n \in S, m # n PROVE rank[m] # rank[n]
  <2>1. m \in Nat /\ n \in Nat
    OBVIOUS
  <2>2. m < n \/ n < m
    BY <2>1, <1>5
  <2>3. rank[m] \in Nat /\ rank[n] \in Nat
    BY <1>4, <1>1
  <2>4. CASE m < n
    <3>1. Cardinality(Lower(m)) < Cardinality(Lower(n))
      BY <1>3, <2>4
    <3> QED BY <3>1, <1>4, <2>3
  <2>5. CASE n < m
    <3>1. Cardinality(Lower(n)) < Cardinality(Lower(m))
      BY <1>3, <2>5
    <3> QED BY <3>1, <1>4, <2>3
  <2> QED BY <2>2, <2>4, <2>5
<1>6. DOMAIN rank = S /\ rank = [n \in S |-> rank[n]]
  OBVIOUS
<1> HIDE DEF rank, Lower
<1>7. rank \in Injection(S, Ranks)
  BY <1>4, <1>5, <1>6 DEF Injection, IsInjective
<1>8. IsFiniteSet(Ranks) /\ Cardinality(Ranks) = Cardinality(S)
  <2>1. PICK c \in Nat : c = Cardinality(S)
    BY <1>1
  <2>2. c - 1 \in Int /\ 0 \in Int
    BY <2>1
  <2>3. IsFiniteSet(0 .. (c - 1)) /\ Cardinality(0 .. (c - 1)) = IF 0 > c - 1 THEN 0 ELSE c - 1 - 0 + 1
    BY <2>2, FS_Interval
  <2>4. Cardinality(0 .. (c - 1)) = c
    BY <2>1, <2>3
  <2> QED BY <2>1, <2>3, <2>4
<1>9. i - 1 \in Ranks
  BY <1>1
<1> HIDE DEF Ranks
<1>10. rank \in Surjection(S, Ranks)
  BY <1>7, <1>8, FS_Injection
<1>11. PICK n \in S : rank[n] = i - 1
  BY <1>9, <1>10 DEF Surjection
<1> QED BY <1>4, <1>11 DEF Lower

\* Numbers in their order: each once, and the lesser first.
LEMMA InOrderIs ==
    ASSUME NEW S \in SUBSET Nat, IsFiniteSet(S)
    PROVE  /\ Cardinality(S) \in Nat
           /\ InOrder(S) \in [1 .. Cardinality(S) -> S]
           /\ \A i, j \in 1 .. Cardinality(S) : i < j => InOrder(S)[i] < InOrder(S)[j]
           /\ \A x \in S : \E i \in 1 .. Cardinality(S) : InOrder(S)[i] = x
<1> DEFINE rank(x) == Cardinality({k \in S : k < x})
<1>1. PICK n, s : n = Cardinality(S) /\ s = InOrder(S)
  OBVIOUS
<1>2. n \in Nat
  BY <1>1, FS_CardinalityType
<1>3. ASSUME NEW i \in 1 .. n PROVE s[i] \in S /\ rank(s[i]) = i - 1
  <2>1. \E x \in S : rank(x) = i - 1
    BY <1>1, RankExists
  <2>2. s[i] = CHOOSE x \in S : rank(x) = i - 1
    BY <1>1, <1>3 DEF InOrder
  <2> HIDE DEF rank
  <2> QED BY <2>1, <2>2
<1>4. s \in [1 .. n -> S]
  <2>1. s = [i \in 1 .. n |-> CHOOSE x \in S : rank(x) = i - 1]
    BY <1>1 DEF InOrder
  <2> QED BY <1>3, <2>1
<1>5. ASSUME NEW x \in S, NEW y \in S, x < y PROVE rank(x) < rank(y) /\ rank(x) \in Nat /\ rank(y) \in Nat
  <2> DEFINE Below(z) == {k \in S : k < z}
  <2>1. Below(x) \in SUBSET Below(y) /\ x \in Below(y) /\ x \notin Below(x)
    <3>1. \A k \in S : k \in Nat
      OBVIOUS
    <3>2. \A k \in S : k < x => k < y
      BY <1>5, <3>1
    <3>3. x < y /\ ~(x < x)
      BY <1>5, <3>1
    <3> QED BY <3>2, <3>3
  <2>2. IsFiniteSet(Below(y))
    BY FS_Subset
  <2> HIDE DEF Below
  <2>3. Cardinality(Below(x)) < Cardinality(Below(y)) /\ Cardinality(Below(x)) \in Nat /\ Cardinality(Below(y)) \in Nat
    BY <2>1, <2>2, StrictlyFewer
  <2> QED BY <2>3 DEF Below
<1>6. ASSUME NEW x \in S PROVE rank(x) \in 0 .. (n - 1)
  <2> DEFINE below == {k \in S : k < x}
  <2>1. below \in SUBSET S /\ x \notin below
    OBVIOUS
  <2> HIDE DEF below
  <2>2. Cardinality(below) < Cardinality(S) /\ Cardinality(below) \in Nat
    BY <2>1, StrictlyFewer
  <2> QED BY <1>1, <1>2, <2>2 DEF below
<1> HIDE DEF rank
<1>7. ASSUME NEW x \in S, NEW y \in S, rank(x) = rank(y) PROVE x = y
  <2>1. x \in Nat /\ y \in Nat
    OBVIOUS
  <2>2. ~(x < y) /\ ~(y < x)
    BY <1>5, <1>7
  <2> QED BY <2>1, <2>2
<1>8. ASSUME NEW i \in 1 .. n, NEW j \in 1 .. n, i < j PROVE s[i] < s[j]
  <2>1. s[i] \in Nat /\ s[j] \in Nat /\ s[i] \in S /\ s[j] \in S
    BY <1>3
  <2>2. rank(s[i]) = i - 1 /\ rank(s[j]) = j - 1
    BY <1>3
  <2>3. s[i] # s[j]
    BY <1>2, <1>8, <2>2
  <2>4. ~(s[j] < s[i])
    <3>1. ASSUME s[j] < s[i] PROVE FALSE
      <4>1. rank(s[j]) < rank(s[i])
        BY <1>5, <2>1, <3>1
      <4> QED BY <1>2, <1>8, <2>2, <4>1
    <3> QED BY <3>1
  <2> QED BY <2>1, <2>3, <2>4
<1>9. ASSUME NEW x \in S PROVE \E i \in 1 .. n : s[i] = x
  <2>1. rank(x) + 1 \in 1 .. n /\ rank(x) \in Nat
    BY <1>2, <1>6
  <2>2. rank(s[rank(x) + 1]) = rank(x) /\ s[rank(x) + 1] \in S
    BY <1>3, <2>1
  <2> QED BY <1>7, <2>1, <2>2
<1> QED BY <1>1, <1>2, <1>4, <1>8, <1>9

-----------------------------------------------------------------------------
(* Left folds, step by step *)

LEMMA MaxIs ==
    ASSUME NEW n \in Nat, NEW s \in SUBSET (1 .. n), s # {}
    PROVE  Max(s) \in s
<1>1. PICK m \in s : \A k \in s : k <= m
  BY GreatestUpTo
<1>2. \A k \in s : m >= k
  BY <1>1
<1> QED BY <1>1, <1>2 DEF Max

LEMMA MaxUpTo ==
    ASSUME NEW i \in Nat
    PROVE  Max(1 .. (i + 1)) = i + 1 /\ (1 .. (i + 1)) \ {i + 1} = 1 .. i
<1>1. \A y \in 1 .. (i + 1) : i + 1 >= y
  OBVIOUS
<1>2. \A x \in 1 .. (i + 1) : (\A y \in 1 .. (i + 1) : x >= y) => x = i + 1
  OBVIOUS
<1>3. i + 1 \in 1 .. (i + 1)
  OBVIOUS
<1>4. Max(1 .. (i + 1)) = i + 1
  BY <1>1, <1>2, <1>3 DEF Max
<1> QED BY <1>4

\* As far as one gets, one step after the other.
LEMMA UpTo ==
    ASSUME NEW n \in Nat, NEW G, 0 \in G, \A i \in 0 .. (n - 1) : i \in G => i + 1 \in G
    PROVE  \A i \in 0 .. n : i \in G
<1> DEFINE failing == {i \in 0 .. n : i \notin G}
<1>1. SUFFICES ASSUME failing # {} PROVE FALSE
  OBVIOUS
<1>2. failing \in SUBSET Nat
  OBVIOUS
<1>3. PICK i \in failing : \A j \in failing : i <= j
  <2> HIDE DEF failing
  <2> QED BY <1>1, <1>2, LeastNatural
<1>4. i \in 0 .. n /\ i # 0
  BY <1>3
<1>5. i - 1 \in 0 .. (n - 1) /\ i - 1 \notin failing /\ (i - 1) + 1 = i
  BY <1>3, <1>4
<1>6. i - 1 \in G
  BY <1>4, <1>5
<1> QED BY <1>3, <1>5, <1>6

InSteps(seq, A, base, next, h) ==
    /\ h \in [SUBSET DOMAIN seq -> A] /\ h[{}] = base
    /\ \A s \in SUBSET DOMAIN seq : s # {} => h[s] = next[h[s \ {Max(s)}]][seq[Max(s)]]

LEMMA StepsExist ==
    ASSUME NEW A, NEW M, NEW n \in Nat, NEW seq \in [1 .. n -> M], NEW base \in A, NEW next,
           \A a \in A, x \in M : next[a][x] \in A
    PROVE  \E h : InSteps(seq, A, base, next, h)
<1>1. PICK S, pick, op : /\ S = 1 .. n /\ pick = [s \in SUBSET S |-> Max(s)]
                         /\ op = [i \in S |-> [a \in A |-> next[a][seq[i]]]]
  OBVIOUS
<1>2. \A s \in SUBSET S : s # {} => pick[s] \in s
  BY <1>1, MaxIs
<1>3. \A i \in S, a \in A : op[i][a] \in A /\ op[i][a] = next[a][seq[i]]
  BY <1>1
<1>4. IsFiniteSet(S)
  BY <1>1, FS_Interval
<1>5. Foldable(S, A, base, pick, op)
  BY <1>2, <1>3, <1>4 DEF Foldable
<1>6. PICK h : IsFold(S, A, base, pick, op, h)
  BY <1>5, FoldExists
<1>7. /\ h \in [SUBSET S -> A]
      /\ h = [s \in SUBSET S |-> IF s = {} THEN base ELSE op[pick[s]][h[s \ {pick[s]}]]]
  BY <1>6 DEF IsFold
<1>8. ASSUME NEW s \in SUBSET S, s # {} PROVE h[s] = next[h[s \ {Max(s)}]][seq[Max(s)]]
  <2>1. pick[s] \in s /\ pick[s] = Max(s)
    BY <1>1, <1>2, <1>8
  <2>2. pick[s] \in S /\ h[s \ {pick[s]}] \in A
    BY <1>7, <2>1
  <2>3. h[s] = op[pick[s]][h[s \ {pick[s]}]]
    BY <1>7, <1>8
  <2> QED BY <1>3, <2>1, <2>2, <2>3
<1>9. h[{}] = base /\ DOMAIN seq = S
  BY <1>1, <1>7
<1> QED BY <1>7, <1>8, <1>9 DEF InSteps

LEMMA StepsIfSo ==
    ASSUME NEW A, NEW M, NEW n \in Nat, NEW seq \in [1 .. n -> M], NEW base \in A, NEW next,
           \A a \in A, x \in M : next[a][x] \in A,
           NEW h, h = [s \in SUBSET DOMAIN seq |-> h[s]], h[{}] = base,
           \A s \in SUBSET DOMAIN seq : s # {} /\ h[s \ {Max(s)}] \in A =>
              h[s] = next[h[s \ {Max(s)}]][seq[Max(s)]]
    PROVE  InSteps(seq, A, base, next, h)
<1>1. PICK S : S = DOMAIN seq
  OBVIOUS
<1> DEFINE G == {s \in SUBSET S : h[s] \in A}
<1>2. {} \in G
  BY <1>1
<1>3. ASSUME NEW s \in SUBSET S, s # {} PROVE \E x \in s : s \ {x} \in G => s \in G
  <2>1. Max(s) \in s
    <3>1. s \in SUBSET (1 .. n)
      BY <1>1
    <3> QED BY <1>3, <3>1, MaxIs
  <2>2. ASSUME s \ {Max(s)} \in G PROVE s \in G
    <3>1. PICK a, m : a = h[s \ {Max(s)}] /\ m = seq[Max(s)]
      OBVIOUS
    <3>2. a \in A /\ m \in M
      BY <1>1, <2>1, <2>2, <3>1
    <3>3. h[s] = next[a][m]
      BY <1>1, <1>3, <3>1, <3>2
    <3> QED BY <3>2, <3>3
  <2> QED BY <2>1, <2>2
<1>4. IsFiniteSet(S)
  <2>1. S = 1 .. n
    BY <1>1
  <2>2. IsFiniteSet(1 .. n)
    BY ONLY FS_Interval
  <2> QED BY ONLY <2>1, <2>2
<1>5. \A s \in SUBSET S : s \in G
  <2> HIDE DEF G
  <2> QED BY <1>2, <1>3, <1>4, OneByOne
<1>6. h \in [SUBSET S -> A]
  BY <1>1, <1>5
<1>7. ASSUME NEW s \in SUBSET S, s # {}
      PROVE  h[s \ {Max(s)}] \in A
  <2>1. s \ {Max(s)} \in SUBSET S
    OBVIOUS
  <2> QED BY <1>6, <2>1
<1> QED BY <1>1, <1>6, <1>7 DEF InSteps

LEMMA StepByStep ==
    ASSUME NEW A, NEW seq, NEW base, NEW next, NEW h, InSteps(seq, A, base, next, h),
           NEW n \in Nat, DOMAIN seq = 1 .. n
    PROVE  /\ h[1 .. 0] = base /\ h[DOMAIN seq] = h[1 .. n]
           /\ \A i \in 0 .. n : h[1 .. i] \in A
           /\ \A i \in 0 .. (n - 1) : h[1 .. (i + 1)] = next[h[1 .. i]][seq[i + 1]]
<1>1. h[1 .. 0] = base /\ h[DOMAIN seq] = h[1 .. n]
  <2>1. 1 .. 0 = {} /\ DOMAIN seq = 1 .. n
    OBVIOUS
  <2> QED BY <2>1 DEF InSteps
<1>2. ASSUME NEW i \in 0 .. n PROVE h[1 .. i] \in A
  <2>1. 1 .. i \in SUBSET DOMAIN seq
    OBVIOUS
  <2> QED BY <2>1 DEF InSteps
<1>3. ASSUME NEW i \in 0 .. (n - 1) PROVE h[1 .. (i + 1)] = next[h[1 .. i]][seq[i + 1]]
  <2>1. PICK s, t : s = 1 .. (i + 1) /\ t = 1 .. i
    OBVIOUS
  <2>2. i \in Nat /\ i + 1 \in 1 .. n /\ DOMAIN seq = 1 .. n
    OBVIOUS
  <2>3. Max(s) = i + 1 /\ s \ {i + 1} = t
    BY <2>1, <2>2, MaxUpTo
  <2>4. s \in SUBSET DOMAIN seq /\ s # {}
    <3>1. i + 1 \in s
      BY <2>1, <2>2
    <3>2. \A x \in s : x \in 1 .. n
      BY <2>1, <2>2
    <3> QED BY <2>2, <3>1, <3>2
  <2> QED BY <2>1, <2>3, <2>4 DEF InSteps
<1> QED BY <1>1, <1>2, <1>3

-----------------------------------------------------------------------------
(* What a sequence of sequences holds *)

Flattens(seqs, f) == f = [i \in 1 .. Len(seqs) |-> IF i = 1 THEN seqs[i] ELSE f[i - 1] \o seqs[i]]

LEMMA JoinedSet ==
    ASSUME NEW M, NEW a \in Seq(M), NEW b \in Seq(M)
    PROVE  a \o b \in Seq(M) /\ ToSet(a \o b) = ToSet(a) \cup ToSet(b)
<1>1. PICK c : c = a \o b
  OBVIOUS
<1>2. c \in Seq(M) /\ Len(c) = Len(a) + Len(b) /\ Len(a) \in Nat /\ Len(b) \in Nat
  BY <1>1
<1>3. /\ \A i \in 1 .. Len(a) : c[i] = a[i]
      /\ \A i \in 1 .. Len(b) : c[Len(a) + i] = b[i]
  BY <1>1
<1>4. ASSUME NEW i \in 1 .. Len(c) PROVE c[i] \in ToSet(a) \cup ToSet(b)
  <2>1. CASE i <= Len(a)
    BY <1>2, <1>3, <2>1 DEF ToSet
  <2>2. CASE i > Len(a)
    <3>1. i - Len(a) \in 1 .. Len(b) /\ Len(a) + (i - Len(a)) = i
      BY <1>2, <2>2
    <3>2. c[i] = b[i - Len(a)]
      BY <1>3, <3>1
    <3> QED BY <3>1, <3>2 DEF ToSet
  <2> QED BY <1>2, <2>1, <2>2
<1>5. ASSUME NEW i \in 1 .. Len(a) PROVE a[i] \in ToSet(c)
  <2>1. i \in 1 .. Len(c) /\ c[i] = a[i]
    BY <1>2, <1>3
  <2> QED BY <1>2, <2>1 DEF ToSet
<1>6. ASSUME NEW i \in 1 .. Len(b) PROVE b[i] \in ToSet(c)
  <2>1. Len(a) + i \in 1 .. Len(c) /\ c[Len(a) + i] = b[i]
    BY <1>2, <1>3
  <2> QED BY <1>2, <2>1 DEF ToSet
<1>7. DOMAIN a = 1 .. Len(a) /\ DOMAIN b = 1 .. Len(b) /\ DOMAIN c = 1 .. Len(c)
  BY <1>2
<1>8. ToSet(c) \subseteq ToSet(a) \cup ToSet(b)
  BY <1>4, <1>7 DEF ToSet
<1>9. ToSet(a) \subseteq ToSet(c) /\ ToSet(b) \subseteq ToSet(c)
  BY <1>5, <1>6, <1>7 DEF ToSet
<1> QED BY <1>1, <1>2, <1>8, <1>9

LEMMA FlattensExists ==
    ASSUME NEW M, NEW seqs \in Seq(Seq(M))
    PROVE  \E f : Flattens(seqs, f)
<1>1. PICK n, S, A, pick, op : /\ n = Len(seqs) /\ S = 1 .. n /\ A = Seq(M) /\ pick = [s \in SUBSET S |-> Max(s)]
                               /\ op = [x \in S |-> [a \in A |-> a \o seqs[x]]]
  OBVIOUS
<1>2. n \in Nat /\ \A x \in S : seqs[x] \in A
  BY <1>1
<1>3. \A s \in SUBSET S : s # {} => pick[s] \in s
  BY <1>1, <1>2, MaxIs
<1>4. \A x \in S, a \in A : op[x][a] \in A /\ op[x][a] = a \o seqs[x]
  BY <1>1, <1>2, JoinedSet
<1>5. IsFiniteSet(S) /\ <<>> \in A
  <2>1. <<>> \in Seq(M) /\ IsFiniteSet(1 .. n)
    BY <1>2, FS_Interval
  <2> QED BY <1>1, <2>1
<1>6. Foldable(S, A, <<>>, pick, op)
  BY <1>3, <1>4, <1>5 DEF Foldable
<1>7. PICK h : IsFold(S, A, <<>>, pick, op, h)
  BY <1>6, FoldExists
<1>8. /\ h \in [SUBSET S -> A]
      /\ h = [s \in SUBSET S |-> IF s = {} THEN <<>> ELSE op[pick[s]][h[s \ {pick[s]}]]]
  BY <1>7 DEF IsFold
<1>9. ASSUME NEW i \in 1 .. n PROVE h[1 .. i] = h[1 .. (i - 1)] \o seqs[i] /\ h[1 .. (i - 1)] \in A
  <2>1. i - 1 \in Nat /\ (i - 1) + 1 = i
    BY <1>2
  <2>2. Max(1 .. i) = i /\ (1 .. i) \ {i} = 1 .. (i - 1)
    BY <2>1, MaxUpTo
  <2>3. PICK s, t : s = 1 .. i /\ t = 1 .. (i - 1)
    OBVIOUS
  <2>4. s \in SUBSET S /\ t \in SUBSET S /\ s # {} /\ i \in S
    <3>1. i \in s
      BY <2>3
    <3>2. (\A x \in s : x \in S) /\ \A x \in t : x \in S
      BY <1>1, <1>2, <2>3
    <3> QED BY <1>1, <3>1, <3>2
  <2>5. pick[s] = i /\ s \ {i} = t
    BY <1>1, <2>2, <2>3, <2>4
  <2>6. h[s] = op[i][h[t]] /\ h[t] \in A
    BY <1>8, <2>4, <2>5
  <2> QED BY <1>4, <2>3, <2>4, <2>6
<1>10. h[1 .. 0] = <<>>
  <2>1. 1 .. 0 = {} /\ {} \in SUBSET S
    OBVIOUS
  <2> QED BY <1>8, <2>1
<1> DEFINE f == [i \in 1 .. n |-> h[1 .. i]]
           next(i) == IF i = 1 THEN seqs[i] ELSE f[i - 1] \o seqs[i]
<1>11. ASSUME NEW i \in 1 .. n PROVE f[i] = next(i)
  <2>1. f[i] = h[1 .. i]
    OBVIOUS
  <2>2. CASE i = 1
    <3>1. i - 1 = 0 /\ seqs[i] \in Seq(M)
      BY <1>1, <1>2, <2>2
    <3>2. h[1 .. i] = <<>> \o seqs[i]
      BY <1>9, <1>10, <3>1
    <3>3. <<>> \o seqs[i] = seqs[i]
      BY <3>1
    <3> QED BY <2>1, <2>2, <3>2, <3>3
  <2>3. CASE i # 1
    <3>1. i - 1 \in 1 .. n
      BY <1>2, <2>3
    <3>2. f[i - 1] = h[1 .. (i - 1)]
      BY <3>1
    <3> QED BY <1>9, <2>1, <2>3, <3>2
  <2> QED BY <2>2, <2>3
<1>12. f = [i \in 1 .. n |-> next(i)]
  <2> HIDE DEF next
  <2>1. f = [i \in 1 .. n |-> f[i]]
    OBVIOUS
  <2> HIDE DEF f
  <2> QED BY <1>11, <2>1
<1> HIDE DEF f
<1> QED BY <1>1, <1>12 DEF Flattens

LEMMA FlattenedIs ==
    ASSUME NEW M, NEW seqs \in Seq(Seq(M))
    PROVE  /\ FlattenSeq(seqs) \in Seq(M)
           /\ ToSet(FlattenSeq(seqs)) = UNION {ToSet(seqs[i]) : i \in DOMAIN seqs}
<1>1. PICK n \in Nat : n = Len(seqs) /\ DOMAIN seqs = 1 .. n
  OBVIOUS
<1>2. CASE n = 0
  <2>1. seqs = <<>>
    BY <1>1, <1>2
  <2>2. FlattenSeq(seqs) = seqs
    BY <1>1, <1>2 DEF FlattenSeq
  <2>3. <<>> \in Seq(M) /\ DOMAIN seqs = {}
    BY <1>1, <1>2
  <2>4. ToSet(<<>>) = {} /\ UNION {ToSet(seqs[i]) : i \in DOMAIN seqs} = {}
    BY <2>3 DEF ToSet
  <2> QED BY <2>1, <2>2, <2>3, <2>4
<1>3. CASE n # 0
  <2>1. PICK f : f = CHOOSE g : Flattens(seqs, g)
    OBVIOUS
  <2>2. FlattenSeq(seqs) = f[n]
    BY <1>1, <1>3, <2>1 DEF FlattenSeq, Flattens
  <2>3. f = [i \in 1 .. n |-> IF i = 1 THEN seqs[i] ELSE f[i - 1] \o seqs[i]]
    BY <1>1, <2>1, FlattensExists DEF Flattens
  <2>0. n \in 1 .. n
    BY <1>3
  <2> DEFINE FlatTo(i) == f[i] \in Seq(M) /\ ToSet(f[i]) = UNION {ToSet(seqs[j]) : j \in 1 .. i}
             failing == {i \in 1 .. n : ~FlatTo(i)}
  <2>4. \A i \in 1 .. n : seqs[i] \in Seq(M)
    BY <1>1
  <2>5. FlatTo(1)
    <3>1. f[1] = seqs[1] /\ 1 \in 1 .. n
      BY <1>3, <2>3
    <3>2. {ToSet(seqs[j]) : j \in 1 .. 1} = {ToSet(seqs[1])}
      OBVIOUS
    <3> QED BY <2>4, <3>1, <3>2
  <2>6. ASSUME NEW i \in 1 .. n, i # 1, FlatTo(i - 1) PROVE FlatTo(i)
    <3>1. f[i] = f[i - 1] \o seqs[i] /\ seqs[i] \in Seq(M)
      BY <2>3, <2>4, <2>6
    <3>2. f[i] \in Seq(M) /\ ToSet(f[i]) = ToSet(f[i - 1]) \cup ToSet(seqs[i])
      BY <2>6, <3>1, JoinedSet
    <3>3. 1 .. i = (1 .. (i - 1)) \cup {i}
      BY <1>1
    <3>4. UNION {ToSet(seqs[j]) : j \in 1 .. i} = (UNION {ToSet(seqs[j]) : j \in 1 .. (i - 1)}) \cup ToSet(seqs[i])
      BY <3>3
    <3> QED BY <2>6, <3>2, <3>4
  <2>7. failing = {} /\ n \in 1 .. n
    <3>1. SUFFICES ASSUME failing # {} PROVE FALSE
      BY <2>0
    <3>2. failing \in SUBSET Nat /\ \A i \in failing : i \in 1 .. n /\ ~FlatTo(i)
      OBVIOUS
    <3>3. \A i \in 1 .. n : i \notin failing => FlatTo(i)
      OBVIOUS
    <3> HIDE DEF failing, FlatTo
    <3>4. PICK i \in failing : \A j \in failing : i <= j
      BY <3>1, <3>2, LeastNatural
    <3>5. i \in 1 .. n /\ i # 1
      BY <2>5, <3>2, <3>4
    <3>6. i - 1 \in 1 .. n /\ ~(i <= i - 1)
      BY <1>1, <3>5
    <3>7. FlatTo(i - 1)
      BY <3>3, <3>4, <3>6
    <3> QED BY <2>6, <3>2, <3>4, <3>5, <3>7
  <2>8. FlatTo(n)
    <3>1. n \in 1 .. n /\ n \notin failing
      BY <2>7
    <3>2. \A i \in 1 .. n : i \notin failing => FlatTo(i)
      OBVIOUS
    <3> HIDE DEF FlatTo, failing
    <3> QED BY <3>1, <3>2
  <2> QED BY <1>1, <2>2, <2>8
<1> QED BY <1>2, <1>3
=============================================================================
