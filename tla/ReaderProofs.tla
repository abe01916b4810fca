---------------------------- MODULE ReaderProofs ----------------------------
(***************************************************************************)
(* Proofs about the readers of exported files.                             *)
(***************************************************************************)
EXTENDS Formats, Counting, SequenceTheorems

-----------------------------------------------------------------------------
(* Sequences joined, step by step *)

JoinedBy(M, seqs, f) ==
    /\ f \in [0 .. Len(seqs) -> Seq(M)] /\ f[0] = <<>>
    /\ \A i \in 1 .. Len(seqs) : f[i] = f[i - 1] \o seqs[i]
    /\ FlattenSeq(seqs) = f[Len(seqs)]

LEMMA JoinedStepByStep ==
    ASSUME NEW M, NEW seqs \in Seq(Seq(M))
    PROVE  \E f : JoinedBy(M, seqs, f)
<1>1. PICK n \in Nat : n = Len(seqs) /\ DOMAIN seqs = 1 .. n /\ \A i \in 1 .. n : seqs[i] \in Seq(M)
  OBVIOUS
<1>0. <<>> \in Seq(M)
  OBVIOUS
<1>2. CASE n = 0
  <2>1. FlattenSeq(seqs) = seqs /\ seqs = <<>>
    BY <1>1, <1>2 DEF FlattenSeq
  <2>2. PICK f : f = [i \in 0 .. n |-> <<>>]
    OBVIOUS
  <2>3. f \in [0 .. n -> Seq(M)] /\ f[0] = <<>> /\ f[n] = <<>>
    BY <1>0, <1>2, <2>2
  <2>4. \A i \in 1 .. n : f[i] = f[i - 1] \o seqs[i]
    BY <1>2
  <2> QED BY <1>1, <2>1, <2>3, <2>4 DEF JoinedBy
<1>3. CASE n # 0
  <2>1. PICK g : g = CHOOSE h : Flattens(seqs, h)
    OBVIOUS
  <2>2. FlattenSeq(seqs) = g[n]
    BY <1>1, <1>3, <2>1 DEF FlattenSeq, Flattens
  <2>3. g = [i \in 1 .. n |-> IF i = 1 THEN seqs[i] ELSE g[i - 1] \o seqs[i]]
    BY <1>1, <2>1, FlattensExists DEF Flattens
  <2>4. PICK f : f = [i \in 0 .. n |-> IF i = 0 THEN <<>> ELSE g[i]]
    OBVIOUS
  <2>5. f[0] = <<>> /\ \A i \in 1 .. n : f[i] = g[i]
    BY <1>1, <2>4
  <2>6. ASSUME NEW i \in 1 .. n PROVE f[i] = f[i - 1] \o seqs[i]
    <3>1. CASE i = 1
      <4>1. g[i] = seqs[i] /\ i - 1 = 0
        BY <2>3, <3>1
      <4>2. <<>> \o seqs[i] = seqs[i]
        BY <1>1
      <4> QED BY <2>5, <4>1, <4>2
    <3>2. CASE i # 1
      <4>1. i - 1 \in 1 .. n
        BY <1>1, <3>2
      <4>2. g[i] = IF i = 1 THEN seqs[i] ELSE g[i - 1] \o seqs[i]
        BY ONLY <2>3, i \in 1 .. n
      <4>3. g[i] = g[i - 1] \o seqs[i]
        BY <3>2, <4>2
      <4> QED BY <2>5, <4>1, <4>3
    <3> QED BY <3>1, <3>2
  <2>7. \A i \in 0 .. n : f[i] \in Seq(M)
    <3> DEFINE G == {i \in 0 .. n : f[i] \in Seq(M)}
    <3>1. 0 \in G
      <4>1. 0 \in 0 .. n
        BY <1>1
      <4>2. f[0] \in Seq(M)
        BY <1>0, <2>5
      <4> QED BY <4>1, <4>2
    <3>2. ASSUME NEW i \in 0 .. (n - 1), i \in G PROVE i + 1 \in G
      <4>1. i + 1 \in 1 .. n /\ (i + 1) - 1 = i /\ i + 1 \in 0 .. n
        BY <1>1
      <4>2. f[i + 1] = f[i] \o seqs[i + 1]
        BY <2>6, <4>1
      <4>3. f[i] \in Seq(M) /\ seqs[i + 1] \in Seq(M)
        BY <1>1, <3>2, <4>1
      <4>4. f[i + 1] \in Seq(M)
        BY <4>2, <4>3
      <4> QED BY <4>1, <4>4
    <3>3. \A i \in 0 .. n : i \in G
      <4> HIDE DEF G
      <4> QED BY <3>1, <3>2, UpTo
    <3> QED BY <3>3
  <2>8. f = [i \in 0 .. n |-> f[i]]
    BY <2>4
  <2>9. f \in [0 .. n -> Seq(M)]
    BY <2>7, <2>8
  <2>10. FlattenSeq(seqs) = f[n]
    BY <1>1, <1>3, <2>2, <2>5
  <2> QED BY <1>1, <2>5, <2>6, <2>9, <2>10 DEF JoinedBy
<1> QED BY <1>2, <1>3

\* Where each of the joined sequences stands.
Offsets(seqs, off) ==
    /\ off \in [0 .. Len(seqs) -> Nat] /\ off[0] = 0
    /\ Len(FlattenSeq(seqs)) = off[Len(seqs)]
    /\ \A i \in 1 .. Len(seqs) :
          /\ off[i] = off[i - 1] + Len(seqs[i])
          /\ \A k \in 1 .. Len(seqs[i]) : FlattenSeq(seqs)[off[i - 1] + k] = seqs[i][k]

LEMMA OffsetsExist ==
    ASSUME NEW M, NEW seqs \in Seq(Seq(M))
    PROVE  FlattenSeq(seqs) \in Seq(M) /\ \E off : Offsets(seqs, off)
<1>1. PICK n \in Nat : n = Len(seqs) /\ DOMAIN seqs = 1 .. n /\ \A i \in 1 .. n : seqs[i] \in Seq(M)
  OBVIOUS
<1>2. PICK f : JoinedBy(M, seqs, f)
  BY JoinedStepByStep
<1>3. /\ f \in [0 .. n -> Seq(M)] /\ f[0] = <<>>
      /\ \A i \in 1 .. n : f[i] = f[i - 1] \o seqs[i]
      /\ FlattenSeq(seqs) = f[n]
  BY <1>1, <1>2 DEF JoinedBy
<1>4. PICK off : off = [i \in 0 .. n |-> Len(f[i])]
  OBVIOUS
<1>5. \A i \in 0 .. n : f[i] \in Seq(M) /\ off[i] = Len(f[i]) /\ off[i] \in Nat
  BY <1>3, <1>4
<1>6. ASSUME NEW i \in 1 .. n
      PROVE  /\ off[i] = off[i - 1] + Len(seqs[i])
             /\ \A k \in 1 .. off[i - 1] : f[i][k] = f[i - 1][k]
             /\ \A k \in 1 .. Len(seqs[i]) : f[i][off[i - 1] + k] = seqs[i][k]
  <2>1. i - 1 \in 0 .. n /\ i \in 0 .. n
    OBVIOUS
  <2>2. PICK a, b, c : a = f[i - 1] /\ b = seqs[i] /\ c = f[i]
    OBVIOUS
  <2>3. a \in Seq(M) /\ b \in Seq(M) /\ c = a \o b
    BY <1>1, <1>3, <2>1, <2>2
  <2>4. /\ Len(c) = Len(a) + Len(b) /\ Len(a) \in Nat /\ Len(b) \in Nat
        /\ \A k \in 1 .. Len(a) : c[k] = a[k]
        /\ \A k \in 1 .. Len(b) : c[Len(a) + k] = b[k]
    BY <2>3
  <2> QED BY <1>5, <2>1, <2>2, <2>4
<1> DEFINE G(i) == {j \in i .. n : \A k \in 1 .. off[i] : f[j][k] = f[i][k]}
<1>7. ASSUME NEW i \in 0 .. n PROVE n \in G(i)
  <2> DEFINE H == {d \in 0 .. (n - i) : i + d \in G(i)}
  <2>1. 0 \in H
    BY <1>1
  <2>2. ASSUME NEW d \in 0 .. ((n - i) - 1), d \in H PROVE d + 1 \in H
    <3>1. i + d \in 0 .. n /\ i + (d + 1) \in 1 .. n /\ (i + (d + 1)) - 1 = i + d /\ d + 1 \in 0 .. (n - i) /\ i + (d + 1) \in i .. n
      BY <1>1
    <3>2. off[i + d] \in Nat /\ off[i] \in Nat /\ \A k \in 1 .. off[i + d] : f[i + (d + 1)][k] = f[i + d][k]
      BY <1>5, <1>6, <3>1
    <3>3. \A k \in 1 .. off[i] : f[i + d][k] = f[i][k]
      BY <2>2
    <3>4. off[i] <= off[i + d]
      <4> DEFINE K == {e \in 0 .. d : off[i] <= off[i + e]}
      <4>1. 0 \in K
        BY <3>2
      <4>2. ASSUME NEW e \in 0 .. (d - 1), e \in K PROVE e + 1 \in K
        <5>1. i + e \in 0 .. n /\ i + (e + 1) \in 1 .. n /\ (i + (e + 1)) - 1 = i + e /\ e + 1 \in 0 .. d
          BY <1>1
        <5>2. off[i + (e + 1)] = off[i + e] + Len(seqs[i + (e + 1)]) /\ Len(seqs[i + (e + 1)]) \in Nat
          BY SMTT(40), <1>1, <1>6, <5>1
        <5>3. off[i + e] \in Nat /\ off[i] <= off[i + e]
          BY <1>5, <4>2, <5>1
        <5>4. off[i] <= off[i + (e + 1)]
          BY <3>2, <5>2, <5>3
        <5> QED BY <5>1, <5>4
      <4>3. \A e \in 0 .. d : e \in K
        <5>1. d \in Nat
          BY <1>1
        <5> HIDE DEF K
        <5> QED BY <4>1, <4>2, <5>1, UpTo
      <4>4. d \in K
        BY <1>1, <4>3
      <4> QED BY <4>4
    <3>5. \A k \in 1 .. off[i] : f[i + (d + 1)][k] = f[i][k]
      BY <3>2, <3>3, <3>4
    <3> QED BY <3>1, <3>5
  <2>3. n - i \in H
    <3>1. n - i \in Nat /\ n - i \in 0 .. (n - i)
      BY <1>1
    <3> HIDE DEF H
    <3> QED BY <2>1, <2>2, <3>1, UpTo
  <2>4. i + (n - i) = n
    BY <1>1
  <2> QED BY <2>3, <2>4
<1>8. ASSUME NEW i \in 1 .. n, NEW k \in 1 .. Len(seqs[i]) PROVE f[n][off[i - 1] + k] = seqs[i][k]
  <2>1. i - 1 \in 0 .. n /\ i \in 0 .. n /\ Len(seqs[i]) \in Nat
    BY <1>1
  <2>2. off[i - 1] \in Nat /\ off[i - 1] + k \in 1 .. off[i]
    BY <1>5, <1>6, <2>1
  <2>3. f[n][off[i - 1] + k] = f[i][off[i - 1] + k]
    BY <1>7, <2>1, <2>2
  <2> QED BY <1>6, <2>3
<1>9. off \in [0 .. n -> Nat] /\ off[0] = 0 /\ Len(FlattenSeq(seqs)) = off[n] /\ FlattenSeq(seqs) \in Seq(M)
  <2>1. 0 \in 0 .. n /\ n \in 0 .. n /\ Len(<<>>) = 0
    BY <1>1
  <2>2. \A i \in 0 .. n : Len(f[i]) \in Nat
    BY <1>5
  <2> QED BY <1>3, <1>4, <1>5, <2>1, <2>2
<1>10. Offsets(seqs, off)
  BY <1>1, <1>3, <1>6, <1>8, <1>9 DEF Offsets
<1> QED BY <1>9, <1>10

-----------------------------------------------------------------------------
(* Numbers in order, and what stands at them *)

\* Whatever runs through some numbers, the lesser first, is their order.
LEMMA IncreasingIsInOrder ==
    ASSUME NEW n \in Nat, NEW S \in SUBSET Nat, NEW f \in [1 .. n -> S],
           \A i, j \in 1 .. n : i < j => f[i] < f[j],
           \A x \in S : \E i \in 1 .. n : f[i] = x
    PROVE  IsFiniteSet(S) /\ Cardinality(S) = n /\ InOrder(S) = f
<1>1. f \in Bijection(1 .. n, S)
  <2>1. \A i, j \in 1 .. n : f[i] = f[j] => i = j
    <3> SUFFICES ASSUME NEW i \in 1 .. n, NEW j \in 1 .. n, f[i] = f[j] PROVE i = j
      OBVIOUS
    <3>0. f[i] \in S /\ f[j] \in S
      OBVIOUS
    <3>1. f[i] \in Nat /\ f[j] \in Nat
      BY <3>0
    <3>2. ~(f[i] < f[j]) /\ ~(f[j] < f[i])
      BY <3>1
    <3>3. ~(i < j) /\ ~(j < i)
      BY <3>2
    <3> QED BY <3>3
  <2> QED BY <2>1 DEF Bijection, Injection, Surjection, IsInjective
<1>2. IsFiniteSet(1 .. n) /\ Cardinality(1 .. n) = n
  BY FS_Interval
<1>3. IsFiniteSet(S) /\ Cardinality(S) = n
  <2>1. ExistsBijection(1 .. n, S)
    BY <1>1 DEF ExistsBijection
  <2> QED BY <1>2, <2>1, FS_Bijection
<1>4. ASSUME NEW i \in 1 .. n PROVE InOrder(S)[i] = f[i]
  <2> DEFINE Lower(x) == {k \in S : k < x}
  <2>1. ASSUME NEW j \in 1 .. n PROVE Cardinality(Lower(f[j])) = j - 1
    <3>1. PICK g : g = [k \in 1 .. (j - 1) |-> f[k]]
      OBVIOUS
    <3>2. \A k \in 1 .. (j - 1) : g[k] = f[k] /\ k \in 1 .. n
      BY <3>1
    <3>3. ASSUME NEW x \in Lower(f[j]) PROVE \E k \in 1 .. (j - 1) : g[k] = x
      <4>1. x \in S /\ x < f[j]
        OBVIOUS
      <4>2. PICK k \in 1 .. n : f[k] = x
        BY <4>1
      <4>0. f[j] \in S /\ f[k] \in S
        OBVIOUS
      <4>3. f[j] \in Nat /\ f[k] \in Nat
        BY <4>0
      <4>5. ~(k = j) /\ ~(j < k)
        BY <4>1, <4>2, <4>3
      <4>4. k \in 1 .. (j - 1)
        BY <4>5
      <4> QED BY <3>2, <4>2, <4>4
    <3>4. \A k \in 1 .. (j - 1) : f[k] \in Lower(f[j])
      BY <3>2
    <3>5. \A k, l \in 1 .. (j - 1) : f[k] = f[l] => k = l
      BY <1>1, <3>2 DEF Bijection, Injection, IsInjective
    <3>6. g \in [1 .. (j - 1) -> Lower(f[j])]
      BY <3>1, <3>4
    <3> HIDE DEF Lower
    <3>7. g \in Bijection(1 .. (j - 1), Lower(f[j]))
      BY <3>2, <3>3, <3>5, <3>6 DEF Bijection, Injection, Surjection, IsInjective
    <3>8. IsFiniteSet(1 .. (j - 1)) /\ Cardinality(1 .. (j - 1)) = j - 1
      BY FS_Interval
    <3>9. ExistsBijection(1 .. (j - 1), Lower(f[j]))
      BY <3>7 DEF ExistsBijection
    <3> QED BY <3>8, <3>9, FS_Bijection
  <2>2. \A x \in S : Cardinality(Lower(x)) = i - 1 => x = f[i]
    <3> SUFFICES ASSUME NEW x \in S, Cardinality(Lower(x)) = i - 1 PROVE x = f[i]
      OBVIOUS
    <3>1. PICK j \in 1 .. n : f[j] = x
      OBVIOUS
    <3>2. j - 1 = i - 1
      BY <2>1, <3>1
    <3> QED BY <3>1, <3>2
  <2>3. InOrder(S)[i] = CHOOSE x \in S : Cardinality(Lower(x)) = i - 1
    BY <1>3 DEF InOrder
  <2>4. f[i] \in S /\ Cardinality(Lower(f[i])) = i - 1
    BY <2>1
  <2> HIDE DEF Lower
  <2> QED BY <2>2, <2>3, <2>4
<1>5. InOrder(S) = [i \in 1 .. n |-> InOrder(S)[i]]
  <2>1. InOrder(S) \in [1 .. Cardinality(S) -> S]
    BY <1>3, InOrderIs
  <2> QED BY <1>3, <2>1
<1>6. f = [i \in 1 .. n |-> f[i]]
  OBVIOUS
<1> HIDE DEF InOrder
<1>7. InOrder(S) = f
  BY <1>4, <1>5, <1>6
<1> QED BY <1>3, <1>7

LEMMA InOrderOfAll ==
    ASSUME NEW n \in Nat
    PROVE  InOrder(1 .. n) = [i \in 1 .. n |-> i]
<1>1. PICK f : f = [i \in 1 .. n |-> i]
  OBVIOUS
<1>2. PICK S : S = 1 .. n
  OBVIOUS
<1>3. S \in SUBSET Nat /\ f \in [1 .. n -> S]
  BY <1>1, <1>2
<1>4. \A x \in S : \E i \in 1 .. n : f[i] = x
  BY <1>1, <1>2
<1>5. \A i, j \in 1 .. n : i < j => f[i] < f[j]
  BY <1>1
<1> QED BY <1>1, <1>2, <1>3, <1>4, <1>5, IncreasingIsInOrder

\* Places of a sequence are finitely many, and in order they are a sequence.
LEMMA PlacesInOrder ==
    ASSUME NEW n \in Nat, NEW S \in SUBSET (1 .. n)
    PROVE  /\ S \in SUBSET Nat /\ IsFiniteSet(S) /\ Cardinality(S) \in 0 .. n
           /\ Cardinality(S) \in Nat /\ InOrder(S) \in [1 .. Cardinality(S) -> S]
           /\ \A i, j \in 1 .. Cardinality(S) : i < j => InOrder(S)[i] < InOrder(S)[j]
           /\ \A x \in S : \E i \in 1 .. Cardinality(S) : InOrder(S)[i] = x
<1>1. S \in SUBSET Nat
  OBVIOUS
<1>2. IsFiniteSet(1 .. n) /\ Cardinality(1 .. n) = n
  BY FS_Interval
<1>3. IsFiniteSet(S) /\ Cardinality(S) <= n /\ Cardinality(S) \in Nat
  BY <1>2, FS_Subset, FS_CardinalityType
<1>4. Cardinality(S) \in 0 .. n
  BY <1>3
<1> QED BY <1>1, <1>3, <1>4, InOrderIs

LEMMA AtPlacesIs ==
    ASSUME NEW M, NEW seq \in Seq(M), NEW S \in SUBSET DOMAIN seq
    PROVE  /\ AtPlaces(seq, S) \in Seq(M) /\ Len(AtPlaces(seq, S)) = Cardinality(S)
           /\ Cardinality(S) \in Nat /\ Cardinality(S) <= Len(seq)
           /\ DOMAIN AtPlaces(seq, S) = 1 .. Cardinality(S)
           /\ \A k \in 1 .. Cardinality(S) :
                 /\ InOrder(S)[k] \in S /\ InOrder(S)[k] \in 1 .. Len(seq)
                 /\ AtPlaces(seq, S)[k] = seq[InOrder(S)[k]]
<1>1. PICK n \in Nat : n = Len(seq) /\ DOMAIN seq = 1 .. n
  OBVIOUS
<1>2. S \in SUBSET (1 .. n)
  BY <1>1
<1>3. Cardinality(S) \in 0 .. n /\ InOrder(S) \in [1 .. Cardinality(S) -> S]
  BY <1>2, PlacesInOrder
<1>4. PICK m, order : m = Cardinality(S) /\ order = InOrder(S)
  OBVIOUS
<1>9. m \in Nat /\ m <= n /\ order \in [1 .. m -> S]
  BY <1>1, <1>3, <1>4
<1>5. PICK at : at = AtPlaces(seq, S)
  OBVIOUS
<1>6. at = [k \in 1 .. m |-> seq[order[k]]]
  BY <1>4, <1>5 DEF AtPlaces
<1>7. \A k \in 1 .. m : order[k] \in S /\ order[k] \in 1 .. n /\ seq[order[k]] \in M
  BY <1>1, <1>2, <1>9
<1>8. at \in Seq(M) /\ Len(at) = m /\ DOMAIN at = 1 .. m /\ \A k \in 1 .. m : at[k] = seq[order[k]]
  BY <1>6, <1>7, <1>9
<1> QED BY <1>1, <1>4, <1>5, <1>7, <1>8, <1>9

LEMMA AtAllPlaces ==
    ASSUME NEW M, NEW seq \in Seq(M)
    PROVE  AtPlaces(seq, DOMAIN seq) = seq
<1>1. PICK n \in Nat : n = Len(seq) /\ DOMAIN seq = 1 .. n
  OBVIOUS
<1>2. InOrder(1 .. n) = [i \in 1 .. n |-> i]
  BY InOrderOfAll
<1>3. IsFiniteSet(1 .. n) /\ Cardinality(1 .. n) = n
  BY FS_Interval
<1>4. AtPlaces(seq, 1 .. n) = [k \in 1 .. n |-> seq[k]]
  BY <1>2, <1>3 DEF AtPlaces
<1> QED BY <1>1, <1>4

LEMMA AtPlacesOfPlaces ==
    ASSUME NEW M, NEW seq \in Seq(M), NEW S \in SUBSET DOMAIN seq, NEW U \in SUBSET S, NEW T,
           T = {k \in 1 .. Cardinality(S) : InOrder(S)[k] \in U}
    PROVE  /\ AtPlaces(AtPlaces(seq, S), T) = AtPlaces(seq, U)
           /\ Cardinality(T) = Cardinality(U)
           /\ \A k \in 1 .. Cardinality(U) : InOrder(U)[k] = InOrder(S)[InOrder(T)[k]]
<1>1. PICK n \in Nat : n = Len(seq) /\ DOMAIN seq = 1 .. n
  OBVIOUS
<1>2. PICK m, order : m = Cardinality(S) /\ order = InOrder(S)
  OBVIOUS
<1>3. /\ m \in Nat /\ order \in [1 .. m -> S] /\ \A i, j \in 1 .. m : i < j => order[i] < order[j]
      /\ \A x \in S : \E i \in 1 .. m : order[i] = x
  <2>1. S \in SUBSET (1 .. n)
    BY <1>1
  <2> QED BY <1>2, <2>1, PlacesInOrder
<1>4. PICK l, sub : l = Cardinality(T) /\ sub = InOrder(T)
  OBVIOUS
<1>5. T \in SUBSET (1 .. m)
  BY <1>2
<1>6. /\ l \in Nat /\ sub \in [1 .. l -> T] /\ \A i, j \in 1 .. l : i < j => sub[i] < sub[j]
      /\ \A x \in T : \E i \in 1 .. l : sub[i] = x
  <2>1. m \in Nat
    BY <1>3
  <2>2. /\ Cardinality(T) \in Nat /\ InOrder(T) \in [1 .. Cardinality(T) -> T]
        /\ \A i, j \in 1 .. Cardinality(T) : i < j => InOrder(T)[i] < InOrder(T)[j]
        /\ \A x \in T : \E i \in 1 .. Cardinality(T) : InOrder(T)[i] = x
    BY ONLY <1>5, <2>1, PlacesInOrder
  <2> QED BY <1>4, <2>2
<1>7. PICK f : f = [k \in 1 .. l |-> order[sub[k]]]
  OBVIOUS
<1>8. \A k \in 1 .. l : sub[k] \in T /\ sub[k] \in 1 .. m /\ f[k] = order[sub[k]] /\ f[k] \in U
  BY <1>2, <1>5, <1>6, <1>7
<1>9. U \in SUBSET Nat /\ f \in [1 .. l -> U]
  BY <1>1, <1>7, <1>8
<1>10. \A i, j \in 1 .. l : i < j => f[i] < f[j]
  BY <1>3, <1>6, <1>8
<1>11. ASSUME NEW x \in U PROVE \E i \in 1 .. l : f[i] = x
  <2>1. PICK k \in 1 .. m : order[k] = x
    BY <1>3
  <2>2. k \in T
    BY <1>2, <2>1
  <2>3. PICK i \in 1 .. l : sub[i] = k
    BY <1>6, <2>2
  <2> QED BY <1>8, <2>1, <2>3
<1>12. InOrder(U) = f /\ Cardinality(U) = l
  BY <1>6, <1>9, <1>10, <1>11, IncreasingIsInOrder
<1>13. PICK at : at = AtPlaces(seq, S)
  OBVIOUS
<1>14. \A k \in 1 .. m : at[k] = seq[order[k]]
  BY <1>2, <1>13, AtPlacesIs
<1>15. AtPlaces(at, T) = [k \in 1 .. l |-> at[sub[k]]]
  BY <1>4 DEF AtPlaces
<1>16. AtPlaces(seq, U) = [k \in 1 .. l |-> seq[f[k]]]
  BY <1>12 DEF AtPlaces
<1>17. \A k \in 1 .. l : at[sub[k]] = seq[f[k]]
  BY <1>8, <1>14
<1>18. AtPlaces(at, T) = AtPlaces(seq, U)
  BY <1>15, <1>16, <1>17
<1> QED BY <1>2, <1>4, <1>8, <1>12, <1>13, <1>18

LEMMA SetToSeqIs ==
    ASSUME NEW S, IsFiniteSet(S)
    PROVE  /\ Cardinality(S) \in Nat /\ SetToSeq(S) \in Seq(S) /\ Len(SetToSeq(S)) = Cardinality(S)
           /\ {SetToSeq(S)[i] : i \in 1 .. Cardinality(S)} = S
<1>1. PICK n \in Nat : n = Cardinality(S)
  BY FS_CardinalityType
<1>2. ExistsBijection(1 .. n, S)
  BY <1>1, FS_CardinalityType
<1>3. PICK g \in [1 .. n -> S] : IsInjective(g)
  BY <1>2 DEF ExistsBijection, Bijection, Injection
<1>4. PICK f : f = SetToSeq(S)
  OBVIOUS
<1>5. f \in [1 .. n -> S] /\ IsInjective(f)
  BY <1>1, <1>3, <1>4 DEF SetToSeq
<1>6. IsFiniteSet(1 .. n) /\ Cardinality(1 .. n) = n
  BY FS_Interval
<1>7. f \in Injection(1 .. n, S)
  BY <1>5 DEF Injection
<1>8. f \in Surjection(1 .. n, S)
  BY <1>1, <1>6, <1>7, FS_Injection
<1>9. {f[i] : i \in 1 .. n} = S
  BY <1>5, <1>8 DEF Surjection
<1>10. f \in Seq(S) /\ Len(f) = n
  BY <1>5
<1> QED BY <1>1, <1>4, <1>9, <1>10

-----------------------------------------------------------------------------
(* From state to state, one element of a sequence after the other *)

Leads(A, next, s, seq, t) ==
    \E tr \in [0 .. Len(seq) -> A] :
        /\ tr[0] = s /\ tr[Len(seq)] = t
        /\ \A i \in 1 .. Len(seq) : tr[i] = next[tr[i - 1]][seq[i]]

LEMMA LeadsNowhere ==
    ASSUME NEW A, NEW next, NEW s \in A
    PROVE  Leads(A, next, s, <<>>, s)
<1>1. PICK tr : tr = [i \in 0 .. 0 |-> s]
  OBVIOUS
<1>2. Len(<<>>) = 0 /\ tr \in [0 .. 0 -> A] /\ tr[0] = s
  BY <1>1
<1> QED BY <1>2 DEF Leads

LEMMA LeadsByOne ==
    ASSUME NEW A, NEW next, NEW s \in A, NEW x, next[s][x] \in A
    PROVE  Leads(A, next, s, <<x>>, next[s][x])
<1>1. PICK t : t = next[s][x]
  OBVIOUS
<1>2. PICK tr : tr = [i \in 0 .. 1 |-> IF i = 0 THEN s ELSE t]
  OBVIOUS
<1>3. Len(<<x>>) = 1 /\ <<x>>[1] = x /\ tr \in [0 .. 1 -> A] /\ tr[0] = s /\ tr[1] = t
  BY <1>1, <1>2
<1>4. \A i \in 1 .. 1 : tr[i] = next[tr[i - 1]][<<x>>[i]]
  BY <1>1, <1>3
<1> QED BY <1>1, <1>3, <1>4 DEF Leads

LEMMA LeadsOn ==
    ASSUME NEW A, NEW M, NEW next, NEW a \in Seq(M), NEW b \in Seq(M), NEW s, NEW t, NEW u,
           Leads(A, next, s, a, t), Leads(A, next, t, b, u)
    PROVE  Leads(A, next, s, a \o b, u)
<1>0. Len(a) \in Nat /\ Len(b) \in Nat /\ a \o b \in Seq(M)
  OBVIOUS
<1>1. PICK m \in Nat, n \in Nat, c \in Seq(M) : m = Len(a) /\ n = Len(b) /\ c = a \o b
  BY <1>0
<1>2. Len(c) = m + n /\ (\A i \in 1 .. m : c[i] = a[i]) /\ \A i \in 1 .. n : c[m + i] = b[i]
  BY <1>1
<1>3. PICK ta \in [0 .. m -> A] : /\ ta[0] = s /\ ta[m] = t
                                  /\ \A i \in 1 .. m : ta[i] = next[ta[i - 1]][a[i]]
  BY <1>1 DEF Leads
<1>4. PICK tb \in [0 .. n -> A] : /\ tb[0] = t /\ tb[n] = u
                                  /\ \A i \in 1 .. n : tb[i] = next[tb[i - 1]][b[i]]
  BY <1>1 DEF Leads
<1>5. PICK tr : tr = [i \in 0 .. (m + n) |-> IF i <= m THEN ta[i] ELSE tb[i - m]]
  OBVIOUS
<1>6. ASSUME NEW i \in 0 .. m PROVE i \in 0 .. (m + n) /\ tr[i] = ta[i] /\ tr[i] \in A
  BY <1>5
<1>7. ASSUME NEW i \in 0 .. n PROVE m + i \in 0 .. (m + n) /\ tr[m + i] = tb[i] /\ tr[m + i] \in A
  <2>1. CASE i = 0
    <3>1. m \in 0 .. m /\ m + i = m
      BY <2>1
    <3> QED BY <1>3, <1>4, <1>6, <2>1, <3>1
  <2>2. CASE i # 0
    <3>1. m + i \in 0 .. (m + n) /\ ~(m + i <= m) /\ (m + i) - m = i
      BY <2>2
    <3> QED BY <1>5, <3>1
  <2> QED BY <2>1, <2>2
<1>8. ASSUME NEW i \in 0 .. (m + n) PROVE tr[i] \in A
  <2>1. CASE i <= m
    BY <1>6, <2>1
  <2>2. CASE ~(i <= m)
    <3>1. i - m \in 0 .. n /\ m + (i - m) = i
      BY <2>2
    <3> QED BY <1>7, <3>1
  <2> QED BY <2>1, <2>2
<1>9. tr \in [0 .. (m + n) -> A]
  BY <1>5, <1>8
<1>10. ASSUME NEW i \in 1 .. (m + n) PROVE tr[i] = next[tr[i - 1]][c[i]]
  <2>1. CASE i <= m
    <3>1. i \in 1 .. m /\ i - 1 \in 0 .. m /\ i \in 0 .. m
      BY <2>1
    <3> QED BY <1>2, <1>3, <1>6, <3>1
  <2>2. CASE ~(i <= m)
    <3>1. PICK k \in 1 .. n : i = m + k
      <4>1. i - m \in 1 .. n /\ i = m + (i - m)
        BY <2>2
      <4> QED BY <4>1
    <3>2. k - 1 \in 0 .. n /\ k \in 0 .. n /\ m + (k - 1) = i - 1
      BY <3>1
    <3>3. tr[i] = tb[k] /\ tr[i - 1] = tb[k - 1] /\ c[i] = b[k]
      BY <1>2, <1>7, <3>1, <3>2
    <3> QED BY <1>4, <3>3
  <2> QED BY <2>1, <2>2
<1>11. tr[0] = s /\ tr[m + n] = u
  <2>1. 0 \in 0 .. m /\ n \in 0 .. n
    OBVIOUS
  <2> QED BY <1>3, <1>4, <1>6, <1>7, <2>1
<1>12. DOMAIN tr = 0 .. Len(c) /\ tr \in [0 .. Len(c) -> A] /\ tr[Len(c)] = u
  BY <1>2, <1>9, <1>11
<1>13. \A i \in 1 .. Len(c) : tr[i] = next[tr[i - 1]][c[i]]
  BY <1>2, <1>10
<1>14. Leads(A, next, s, c, u)
  BY <1>11, <1>12, <1>13 DEF Leads
<1> QED BY <1>1, <1>14

\* Through joined sequences, one after the other.
LEMMA LeadsThroughAll ==
    ASSUME NEW A, NEW M, NEW next, NEW seqs \in Seq(Seq(M)), NEW st \in [0 .. Len(seqs) -> A],
           \A i \in 1 .. Len(seqs) : Leads(A, next, st[i - 1], seqs[i], st[i])
    PROVE  Leads(A, next, st[0], FlattenSeq(seqs), st[Len(seqs)])
<1>1. PICK n \in Nat : n = Len(seqs) /\ \A i \in 1 .. n : seqs[i] \in Seq(M)
  OBVIOUS
<1>2. PICK f : JoinedBy(M, seqs, f)
  BY JoinedStepByStep
<1>3. /\ f \in [0 .. n -> Seq(M)] /\ f[0] = <<>>
      /\ \A i \in 1 .. n : f[i] = f[i - 1] \o seqs[i]
      /\ FlattenSeq(seqs) = f[n]
  BY <1>1, <1>2 DEF JoinedBy
<1> DEFINE G == {i \in 0 .. n : Leads(A, next, st[0], f[i], st[i])}
<1>4. 0 \in G
  <2>1. st[0] \in A /\ 0 \in 0 .. n
    BY <1>1
  <2> QED BY <1>3, <2>1, LeadsNowhere
<1>5. ASSUME NEW i \in 0 .. (n - 1), i \in G PROVE i + 1 \in G
  <2>1. i + 1 \in 1 .. n /\ (i + 1) - 1 = i /\ i + 1 \in 0 .. n /\ i \in 0 .. n
    OBVIOUS
  <2>2. f[i + 1] = f[i] \o seqs[i + 1] /\ f[i] \in Seq(M) /\ seqs[i + 1] \in Seq(M)
    BY <1>1, <1>3, <2>1
  <2>3. Leads(A, next, st[0], f[i], st[i]) /\ Leads(A, next, st[i], seqs[i + 1], st[i + 1])
    BY <1>1, <1>5, <2>1
  <2>4. Leads(A, next, st[0], f[i] \o seqs[i + 1], st[i + 1])
    BY <2>2, <2>3, LeadsOn
  <2> QED BY <2>1, <2>2, <2>4
<1>6. n \in G
  <2>1. n \in 0 .. n
    OBVIOUS
  <2> HIDE DEF G
  <2> QED BY <1>4, <1>5, <2>1, UpTo
<1> QED BY <1>1, <1>3, <1>6

\* Where a sequence leads is where its fold ends.
LEMMA LeadsToTheFold ==
    ASSUME NEW A, NEW M, NEW next, NEW base \in A, NEW seq \in Seq(M), NEW t, NEW h,
           InSteps(seq, A, base, next, h), Leads(A, next, base, seq, t)
    PROVE  h[DOMAIN seq] = t
<1>1. PICK n \in Nat : n = Len(seq) /\ DOMAIN seq = 1 .. n
  OBVIOUS
<1>2. /\ h[1 .. 0] = base /\ h[DOMAIN seq] = h[1 .. n]
      /\ \A i \in 0 .. (n - 1) : h[1 .. (i + 1)] = next[h[1 .. i]][seq[i + 1]]
  BY <1>1, StepByStep
<1>3. PICK tr \in [0 .. n -> A] : /\ tr[0] = base /\ tr[n] = t
                                  /\ \A i \in 1 .. n : tr[i] = next[tr[i - 1]][seq[i]]
  BY <1>1 DEF Leads
<1> DEFINE G == {i \in 0 .. n : h[1 .. i] = tr[i]}
<1>4. 0 \in G
  BY <1>2, <1>3
<1>5. ASSUME NEW i \in 0 .. (n - 1), i \in G PROVE i + 1 \in G
  <2>1. i + 1 \in 1 .. n /\ (i + 1) - 1 = i /\ i + 1 \in 0 .. n
    OBVIOUS
  <2>2. tr[i + 1] = next[tr[i]][seq[i + 1]]
    BY <1>3, <2>1
  <2>3. h[1 .. i] = tr[i]
    BY <1>5
  <2> QED BY <1>2, <2>1, <2>2, <2>3
<1>6. n \in G
  <2>1. n \in 0 .. n
    OBVIOUS
  <2> HIDE DEF G
  <2> QED BY <1>4, <1>5, <2>1, UpTo
<1> QED BY <1>2, <1>3, <1>6

-----------------------------------------------------------------------------
(* Rows: what is written as a row is read as that row *)

ReaderStates ==
    [rows : Seq(Seq(Seq(Glyph))), row : Seq(Seq(Glyph)), field : Seq(Glyph), quoted : {"no", "yes", "maybe"}]

ReaderAt(rows, row, field, quoted) == [rows |-> rows, row |-> row, field |-> field, quoted |-> quoted]

Marks == {Quote, Comma, Newline}

LEMMA PairIsASeq ==
    ASSUME NEW S, NEW x \in S, NEW y \in S
    PROVE  <<x, y>> \in Seq(S) /\ <<x>> \in Seq(S) /\ <<y>> \in Seq(S) /\ <<x>> \o <<y>> = <<x, y>>
<1>1. PICK p : p = <<x, y>>
  OBVIOUS
<1>2. <<x>> \in Seq(S) /\ <<y>> \in Seq(S)
  OBVIOUS
<1>3. p \in Seq(S) /\ Len(p) = 2 /\ p[1] = x /\ p[2] = y
  BY <1>1
<1>4. PICK q : q = <<x>> \o <<y>>
  OBVIOUS
<1>5. q \in Seq(S) /\ Len(q) = 2 /\ q[1] = x /\ q[2] = y
  BY <1>2, <1>4
<1>6. \A i \in 1 .. 2 : p[i] = q[i]
  BY <1>3, <1>5
<1>7. p = q
  BY <1>3, <1>5, <1>6, SeqEqual
<1> QED BY <1>1, <1>2, <1>3, <1>4, <1>7

LEMMA MarksAre ==
    /\ Marks \subseteq Glyph /\ Quote # Comma /\ Quote # Newline /\ Comma # Newline
    /\ \A v : <<"atom", v>> \notin Marks
<1>1. Quote \in Token /\ Comma \in Token /\ Newline \in Token
  <2>1. "quote" \in Special /\ "comma" \in Special /\ "newline" \in Special
    BY DEF Special
  <2> QED BY <2>1 DEF Token, Quote, Comma, Newline
<1>2. Marks \subseteq Glyph
  BY <1>1 DEF Marks, Glyph
<1>3. Quote # Comma /\ Quote # Newline /\ Comma # Newline
  BY DEF Quote, Comma, Newline
<1>4. ASSUME NEW v PROVE <<"atom", v>> \notin Marks
  <2>1. <<"atom", v>>[1] = "atom" /\ Quote[1] = "quote" /\ Comma[1] = "comma" /\ Newline[1] = "newline"
    BY DEF Quote, Comma, Newline
  <2> QED BY <2>1 DEF Marks
<1> QED BY <1>2, <1>3, <1>4

LEMMA CharOfMark ==
    ASSUME NEW rows, NEW row, NEW field
    PROVE  /\ Char(ReaderAt(rows, row, field, "no"), Quote) = ReaderAt(rows, row, field, "yes")
           /\ Char(ReaderAt(rows, row, field, "no"), Comma) = ReaderAt(rows, Append(row, field), <<>>, "no")
           /\ Char(ReaderAt(rows, row, field, "no"), Newline)
                 = ReaderAt(Append(rows, Append(row, field)), <<>>, <<>>, "no")
           /\ Char(ReaderAt(rows, row, field, "yes"), Quote) = ReaderAt(rows, row, field, "maybe")
           /\ Char(ReaderAt(rows, row, field, "maybe"), Quote) = ReaderAt(rows, row, Append(field, Quote), "yes")
           /\ Char(ReaderAt(rows, row, field, "maybe"), Newline)
                 = ReaderAt(Append(rows, Append(row, field)), <<>>, <<>>, "no")
  BY MarksAre DEF Char, Plain, ReaderAt

LEMMA CharOfOther ==
    ASSUME NEW rows, NEW row, NEW field, NEW c
    PROVE  /\ c \notin Marks => Char(ReaderAt(rows, row, field, "no"), c)
                                   = ReaderAt(rows, row, Append(field, c), "no")
           /\ c # Quote => Char(ReaderAt(rows, row, field, "yes"), c)
                                   = ReaderAt(rows, row, Append(field, c), "yes")
  BY DEF Char, Plain, ReaderAt, Marks

LEMMA CharIs ==
    ASSUME NEW s \in ReaderStates, NEW c \in Glyph
    PROVE  Char(s, c) \in ReaderStates
<1>1. PICK rows \in Seq(Seq(Seq(Glyph))), row \in Seq(Seq(Glyph)), field \in Seq(Glyph), quoted \in {"no", "yes", "maybe"} :
         s = [rows |-> rows, row |-> row, field |-> field, quoted |-> quoted]
  BY DEF ReaderStates
<1>2. /\ Append(field, c) \in Seq(Glyph) /\ Append(field, Quote) \in Seq(Glyph) /\ <<>> \in Seq(Glyph)
      /\ Append(row, field) \in Seq(Seq(Glyph)) /\ <<>> \in Seq(Seq(Glyph))
      /\ Append(rows, Append(row, field)) \in Seq(Seq(Seq(Glyph)))
  <2>1. Quote \in Glyph
    BY MarksAre DEF Marks
  <2>2. Append(row, field) \in Seq(Seq(Glyph))
    OBVIOUS
  <2>3. Append(rows, Append(row, field)) \in Seq(Seq(Seq(Glyph)))
    BY <2>2
  <2> QED BY <2>1, <2>2, <2>3
<1>3. \/ Char(s, c) = [s EXCEPT !.quoted = "yes"]
      \/ Char(s, c) = [s EXCEPT !.row = Append(row, field), !.field = <<>>, !.quoted = "no"]
      \/ Char(s, c) = [s EXCEPT !.rows = Append(rows, Append(row, field)), !.row = <<>>, !.field = <<>>, !.quoted = "no"]
      \/ Char(s, c) = [s EXCEPT !.field = Append(field, c), !.quoted = "no"]
      \/ Char(s, c) = [s EXCEPT !.quoted = "maybe"]
      \/ Char(s, c) = [s EXCEPT !.field = Append(field, c)]
      \/ Char(s, c) = [s EXCEPT !.field = Append(field, Quote), !.quoted = "yes"]
  <2>1. s.rows = rows /\ s.row = row /\ s.field = field
    BY <1>1
  <2> QED BY <2>1 DEF Char, Plain
<1> QED BY <1>1, <1>2, <1>3 DEF ReaderStates

CharsGrow(seq, h) ==
    h = [s \in SUBSET DOMAIN seq |-> IF s = {} THEN Fresh ELSE Char(h[s \ {Max(s)}], seq[Max(s)])]

ReaderNext == [s \in ReaderStates |-> [c \in Glyph |-> Char(s, c)]]

LEMMA ReaderNextIs ==
    ASSUME NEW s \in ReaderStates, NEW c \in Glyph
    PROVE  ReaderNext[s][c] = Char(s, c) /\ ReaderNext[s][c] \in ReaderStates
  BY CharIs DEF ReaderNext

LEMMA WhereTheReaderEnds ==
    ASSUME NEW text \in Seq(Glyph), NEW t, Leads(ReaderStates, ReaderNext, Fresh, text, t)
    PROVE  FoldLeft(Char, Fresh, text) = t
<1>1. PICK n \in Nat : n = Len(text) /\ text \in [1 .. n -> Glyph] /\ DOMAIN text = 1 .. n
  OBVIOUS
<1>2. Fresh \in ReaderStates
  BY DEF Fresh, ReaderStates
<1>3. \A s \in ReaderStates, c \in Glyph : ReaderNext[s][c] = Char(s, c) /\ ReaderNext[s][c] \in ReaderStates
  BY ReaderNextIs
<1> HIDE DEF ReaderNext
<1>6. \E g : CharsGrow(text, g)
  <2>1. PICK g : InSteps(text, ReaderStates, Fresh, ReaderNext, g)
    BY <1>1, <1>2, <1>3, StepsExist
  <2> DEFINE value(s) == IF s = {} THEN Fresh ELSE Char(g[s \ {Max(s)}], text[Max(s)])
  <2>2. ASSUME NEW s \in SUBSET DOMAIN text PROVE g[s] = value(s)
    <3>1. CASE s = {}
      BY <2>1, <3>1 DEF InSteps
    <3>2. CASE s # {}
      <4>1. Max(s) \in s
        BY <1>1, <3>2, MaxIs
      <4>2. g[s \ {Max(s)}] \in ReaderStates /\ text[Max(s)] \in Glyph
        BY <1>1, <2>1, <4>1 DEF InSteps
      <4>3. g[s] = ReaderNext[g[s \ {Max(s)}]][text[Max(s)]]
        BY <2>1, <3>2 DEF InSteps
      <4> QED BY <1>3, <3>2, <4>2, <4>3
    <3> QED BY <3>1, <3>2
  <2>3. g = [s \in SUBSET DOMAIN text |-> value(s)]
    <3> HIDE DEF value
    <3> QED BY <2>1, <2>2 DEF InSteps
  <2> QED BY <2>3 DEF CharsGrow
<1>7. PICK h : h = CHOOSE g : CharsGrow(text, g)
  OBVIOUS
<1>8. FoldLeft(Char, Fresh, text) = h[DOMAIN text]
  BY <1>7 DEF FoldLeft, MapThenFoldSet, CharsGrow
<1>9. CharsGrow(text, h)
  BY <1>6, <1>7
<1>10. InSteps(text, ReaderStates, Fresh, ReaderNext, h)
  <2>1. h = [s \in SUBSET DOMAIN text |-> h[s]] /\ h[{}] = Fresh
    BY <1>9 DEF CharsGrow
  <2>2. ASSUME NEW s \in SUBSET DOMAIN text, s # {}, h[s \ {Max(s)}] \in ReaderStates
        PROVE  h[s] = ReaderNext[h[s \ {Max(s)}]][text[Max(s)]]
    <3>1. Max(s) \in s
      BY <1>1, <2>2, MaxIs
    <3>2. text[Max(s)] \in Glyph
      BY <1>1, <3>1
    <3> QED BY <1>3, <1>9, <2>2, <3>2 DEF CharsGrow
  <2> QED BY <1>1, <1>2, <1>3, <2>1, <2>2, StepsIfSo
<1>11. h[DOMAIN text] = t
  BY <1>2, <1>10, LeadsToTheFold
<1> QED BY <1>8, <1>11

\* One token further.
LEMMA ReaderReads ==
    ASSUME NEW s \in ReaderStates, NEW text \in Seq(Glyph), NEW t \in ReaderStates, NEW c \in Glyph,
           Leads(ReaderStates, ReaderNext, s, text, t)
    PROVE  /\ Char(t, c) \in ReaderStates
           /\ Leads(ReaderStates, ReaderNext, s, text \o <<c>>, Char(t, c))
           /\ Leads(ReaderStates, ReaderNext, t, <<c>>, Char(t, c))
<1>1. ReaderNext[t][c] = Char(t, c) /\ ReaderNext[t][c] \in ReaderStates /\ <<c>> \in Seq(Glyph)
  BY ReaderNextIs
<1>2. Leads(ReaderStates, ReaderNext, t, <<c>>, Char(t, c))
  <2>1. Leads(ReaderStates, ReaderNext, t, <<c>>, ReaderNext[t][c])
    BY <1>1, LeadsByOne
  <2> QED BY <1>1, <2>1
<1>3. Leads(ReaderStates, ReaderNext, s, text \o <<c>>, Char(t, c))
  BY <1>1, <1>2, LeadsOn
<1> QED BY <1>1, <1>2, <1>3

\* A cell without marks is its one token, or none.
Plains == {cell \in Seq(Glyph) : cell = <<>> \/ \E c \in Glyph \ Marks : cell = <<c>>}

LEMMA CellRead ==
    ASSUME NEW rows \in Seq(Seq(Seq(Glyph))), NEW row \in Seq(Seq(Glyph)), NEW cell \in Plains
    PROVE  Leads(ReaderStates, ReaderNext, ReaderAt(rows, row, <<>>, "no"), cell, ReaderAt(rows, row, cell, "no"))
<1>1. ReaderAt(rows, row, <<>>, "no") \in ReaderStates
  BY DEF ReaderAt, ReaderStates
<1>2. CASE cell = <<>>
  BY <1>1, <1>2, LeadsNowhere
<1>3. ASSUME NEW c \in Glyph \ Marks, cell = <<c>>
      PROVE  Leads(ReaderStates, ReaderNext, ReaderAt(rows, row, <<>>, "no"), cell, ReaderAt(rows, row, cell, "no"))
  <2>1. Append(<<>>, c) = <<c>> /\ <<>> \in Seq(Glyph)
    OBVIOUS
  <2>2. Char(ReaderAt(rows, row, <<>>, "no"), c) = ReaderAt(rows, row, cell, "no")
    <3>1. c \notin Marks
      OBVIOUS
    <3>2. Char(ReaderAt(rows, row, <<>>, "no"), c) = ReaderAt(rows, row, Append(<<>>, c), "no")
      <4>1. PICK e : e = <<>>
        OBVIOUS
      <4>2. Char(ReaderAt(rows, row, e, "no"), c) = ReaderAt(rows, row, Append(e, c), "no")
        BY ONLY <3>1, CharOfOther
      <4> QED BY <4>1, <4>2
    <3> QED BY <1>3, <2>1, <3>2
  <2>3. Leads(ReaderStates, ReaderNext, ReaderAt(rows, row, <<>>, "no"), <<c>>, Char(ReaderAt(rows, row, <<>>, "no"), c))
    BY <1>1, <2>1, LeadsNowhere, ReaderReads
  <2> QED BY <1>3, <2>2, <2>3
<1> QED BY <1>2, <1>3 DEF Plains

\* After a cell comes a comma.
LEMMA CellEnds ==
    ASSUME NEW rows \in Seq(Seq(Seq(Glyph))), NEW row \in Seq(Seq(Glyph)), NEW cell \in Plains
    PROVE  /\ cell \o <<Comma>> \in Seq(Glyph) /\ Append(row, cell) \in Seq(Seq(Glyph))
           /\ Leads(ReaderStates, ReaderNext, ReaderAt(rows, row, <<>>, "no"), cell \o <<Comma>>,
                    ReaderAt(rows, Append(row, cell), <<>>, "no"))
<1>1. cell \in Seq(Glyph) /\ Comma \in Glyph
  BY MarksAre DEF Plains, Marks
<1>2. ReaderAt(rows, row, <<>>, "no") \in ReaderStates /\ ReaderAt(rows, row, cell, "no") \in ReaderStates
  BY <1>1 DEF ReaderAt, ReaderStates
<1>3. Char(ReaderAt(rows, row, cell, "no"), Comma) = ReaderAt(rows, Append(row, cell), <<>>, "no")
  BY CharOfMark
<1>4. Leads(ReaderStates, ReaderNext, ReaderAt(rows, row, <<>>, "no"), cell, ReaderAt(rows, row, cell, "no"))
  BY CellRead
<1>5. Leads(ReaderStates, ReaderNext, ReaderAt(rows, row, <<>>, "no"), cell \o <<Comma>>,
            Char(ReaderAt(rows, row, cell, "no"), Comma))
  BY <1>1, <1>2, <1>4, ReaderReads
<1>6. <<Comma>> \in Seq(Glyph) /\ Append(row, cell) \in Seq(Seq(Glyph))
  BY <1>1
<1>7. cell \o <<Comma>> \in Seq(Glyph)
  BY <1>1, <1>6
<1> QED BY <1>3, <1>5, <1>6, <1>7

\* Whatever the words, between quotes they are read as they were.
LEMMA EscapedRead ==
    ASSUME NEW rows \in Seq(Seq(Seq(Glyph))), NEW row \in Seq(Seq(Glyph)), NEW body \in Seq(Glyph)
    PROVE  /\ Escaped(body) \in Seq(Glyph)
           /\ Leads(ReaderStates, ReaderNext, ReaderAt(rows, row, <<>>, "no"), Escaped(body),
                    ReaderAt(rows, row, body, "maybe"))
<1>1. PICK n \in Nat : n = Len(body) /\ DOMAIN body = 1 .. n /\ \A i \in 1 .. n : body[i] \in Glyph
  OBVIOUS
<1>2. PICK seqs : seqs = [i \in DOMAIN body |-> IF body[i] = Quote THEN <<Quote, Quote>> ELSE <<body[i]>>]
  OBVIOUS
<1>3. Quote \in Glyph /\ <<Quote>> \in Seq(Glyph) /\ <<Quote, Quote>> \in Seq(Glyph)
  <2>1. Quote \in Glyph
    BY MarksAre DEF Marks
  <2> QED BY <2>1
<1>4. seqs \in Seq(Seq(Glyph)) /\ Len(seqs) = n
  <2>1. \A i \in 1 .. n : (IF body[i] = Quote THEN <<Quote, Quote>> ELSE <<body[i]>>) \in Seq(Glyph)
    BY <1>1, <1>3
  <2> QED BY <1>1, <1>2, <2>1
<1>5. PICK st : st = [i \in 0 .. n |-> ReaderAt(rows, row, SubSeq(body, 1, i), "yes")]
  OBVIOUS
<1>6. ASSUME NEW i \in 0 .. n PROVE SubSeq(body, 1, i) \in Seq(Glyph) /\ st[i] \in ReaderStates
  <2>1. SubSeq(body, 1, i) \in Seq(Glyph)
    BY <1>1, SubSeqProperties
  <2> QED BY <1>5, <2>1 DEF ReaderAt, ReaderStates
<1>7. st \in [0 .. n -> ReaderStates]
  BY <1>5, <1>6
<1>8. ASSUME NEW i \in 1 .. n PROVE Leads(ReaderStates, ReaderNext, st[i - 1], seqs[i], st[i])
  <2>1. i - 1 \in 0 .. n /\ i \in 0 .. n /\ i \in DOMAIN body /\ i \in 1 .. Len(body) /\ 1 \in 1 .. Len(body) /\ i \in 1 .. i
    BY <1>1
  <2>2. PICK before : before = SubSeq(body, 1, i - 1)
    OBVIOUS
  <2>3. SubSeq(body, 1, i) = Append(before, body[i])
    <3>1. SubSeq(body, 1, i) = before \o <<body[i]>>
      BY <2>1, <2>2, SubSeqRecursiveSecond
    <3>2. before \in Seq(Glyph) /\ body[i] \in Glyph
      BY <1>1, <1>6, <2>1, <2>2
    <3> QED BY <3>1, <3>2, AppendIsConcat
  <2>4. before \in Seq(Glyph) /\ body[i] \in Glyph
    BY <1>1, <1>6, <2>1, <2>2
  <2>5. st[i - 1] = ReaderAt(rows, row, before, "yes") /\ st[i] = ReaderAt(rows, row, Append(before, body[i]), "yes")
    BY <1>5, <2>1, <2>2, <2>3
  <2>6. ReaderAt(rows, row, before, "yes") \in ReaderStates /\ ReaderAt(rows, row, before, "maybe") \in ReaderStates
    BY <2>4 DEF ReaderAt, ReaderStates
  <2>7. CASE body[i] = Quote
    <3>1. Leads(ReaderStates, ReaderNext, ReaderAt(rows, row, before, "yes"), <<Quote>>, ReaderAt(rows, row, before, "maybe"))
      <4>1. Char(ReaderAt(rows, row, before, "yes"), Quote) = ReaderAt(rows, row, before, "maybe")
        BY CharOfMark
      <4>2. <<>> \in Seq(Glyph) /\ Leads(ReaderStates, ReaderNext, ReaderAt(rows, row, before, "yes"), <<>>, ReaderAt(rows, row, before, "yes"))
        BY <2>6, LeadsNowhere
      <4> QED BY <1>3, <2>6, <4>1, <4>2, ReaderReads
    <3>2. Leads(ReaderStates, ReaderNext, ReaderAt(rows, row, before, "yes"), <<Quote>> \o <<Quote>>,
                Char(ReaderAt(rows, row, before, "maybe"), Quote))
      BY <1>3, <2>6, <3>1, ReaderReads
    <3>3. Char(ReaderAt(rows, row, before, "maybe"), Quote) = ReaderAt(rows, row, Append(before, Quote), "yes")
      BY CharOfMark
    <3>4. seqs[i] = <<Quote, Quote>> /\ <<Quote>> \o <<Quote>> = <<Quote, Quote>>
      BY <1>2, <1>3, <2>1, <2>7, PairIsASeq
    <3> QED BY <2>5, <2>7, <3>2, <3>3, <3>4
  <2>8. CASE body[i] # Quote
    <3>1. <<>> \in Seq(Glyph) /\ seqs[i] = <<body[i]>>
      BY <1>2, <2>1, <2>8
    <3>2. Char(ReaderAt(rows, row, before, "yes"), body[i]) = ReaderAt(rows, row, Append(before, body[i]), "yes")
      BY <2>8, CharOfOther
    <3>3. Leads(ReaderStates, ReaderNext, ReaderAt(rows, row, before, "yes"), <<body[i]>>, Char(ReaderAt(rows, row, before, "yes"), body[i]))
      BY <2>4, <2>6, <3>1, ReaderReads, LeadsNowhere
    <3> QED BY <2>5, <3>1, <3>2, <3>3
  <2> QED BY <2>7, <2>8
<1>9. Leads(ReaderStates, ReaderNext, st[0], FlattenSeq(seqs), st[n])
  BY <1>4, <1>7, <1>8, LeadsThroughAll
<1>10. FlattenSeq(seqs) \in Seq(Glyph)
  BY <1>4, OffsetsExist
<1>11. st[0] = ReaderAt(rows, row, <<>>, "yes") /\ st[n] = ReaderAt(rows, row, body, "yes")
  <2>1. SubSeq(body, 1, 0) = <<>> /\ SubSeq(body, 1, n) = body /\ 0 \in 0 .. n /\ n \in 0 .. n
    BY <1>1, SubSeqEmpty, SubSeqFull
  <2> QED BY <1>5, <2>1
<1>12. /\ ReaderAt(rows, row, <<>>, "no") \in ReaderStates /\ ReaderAt(rows, row, <<>>, "yes") \in ReaderStates
       /\ ReaderAt(rows, row, body, "yes") \in ReaderStates
  BY DEF ReaderAt, ReaderStates
<1>13. Leads(ReaderStates, ReaderNext, ReaderAt(rows, row, <<>>, "no"), <<Quote>>, ReaderAt(rows, row, <<>>, "yes"))
  <2>1. <<>> \in Seq(Glyph)
    OBVIOUS
  <2> QED BY <1>3, <1>12, <2>1, ReaderReads, LeadsNowhere, CharOfMark
<1>14. Leads(ReaderStates, ReaderNext, ReaderAt(rows, row, <<>>, "no"), <<Quote>> \o FlattenSeq(seqs), ReaderAt(rows, row, body, "yes"))
  BY <1>3, <1>9, <1>10, <1>11, <1>13, LeadsOn
<1>15. <<Quote>> \o FlattenSeq(seqs) \in Seq(Glyph)
  BY <1>3, <1>10, ConcatProperties
<1>16. Char(ReaderAt(rows, row, body, "yes"), Quote) = ReaderAt(rows, row, body, "maybe")
  BY CharOfMark
<1>17. Leads(ReaderStates, ReaderNext, ReaderAt(rows, row, <<>>, "no"), (<<Quote>> \o FlattenSeq(seqs)) \o <<Quote>>,
             Char(ReaderAt(rows, row, body, "yes"), Quote))
  BY <1>3, <1>12, <1>14, <1>15, ReaderReads
<1>18. Escaped(body) = (<<Quote>> \o FlattenSeq(seqs)) \o <<Quote>>
  BY <1>2 DEF Escaped
<1>19. (<<Quote>> \o FlattenSeq(seqs)) \o <<Quote>> \in Seq(Glyph)
  BY <1>3, <1>15, ConcatProperties
<1> QED BY <1>16, <1>17, <1>18, <1>19

Fields(t, n, d, b) == Append(Append(Append(Append(<<>>, t), n), d), b)

LEMMA RowIs ==
    ASSUME NEW t \in Seq(Glyph), NEW n \in Seq(Glyph), NEW d \in Seq(Glyph), NEW b \in Seq(Glyph)
    PROVE  /\ Fields(t, n, d, b) \in Seq(Seq(Glyph)) /\ Len(Fields(t, n, d, b)) = 4
           /\ DOMAIN Fields(t, n, d, b) = 1 .. 4
           /\ Fields(t, n, d, b)[1] = t /\ Fields(t, n, d, b)[2] = n
           /\ Fields(t, n, d, b)[3] = d /\ Fields(t, n, d, b)[4] = b
<1>1. PICK e, r1, r2, r3, r4 : /\ e = <<>> /\ r1 = Append(e, t) /\ r2 = Append(r1, n) /\ r3 = Append(r2, d)
                               /\ r4 = Append(r3, b)
  OBVIOUS
<1>2. e \in Seq(Seq(Glyph)) /\ Len(e) = 0
  BY <1>1
<1>3. r1 \in Seq(Seq(Glyph)) /\ Len(r1) = 1 /\ r1[1] = t
  BY <1>1, <1>2
<1>4. r2 \in Seq(Seq(Glyph)) /\ Len(r2) = 2 /\ r2[1] = t /\ r2[2] = n
  BY <1>1, <1>3
<1>5. r3 \in Seq(Seq(Glyph)) /\ Len(r3) = 3 /\ r3[1] = t /\ r3[2] = n /\ r3[3] = d
  BY <1>1, <1>4
<1>6. r4 \in Seq(Seq(Glyph)) /\ Len(r4) = 4 /\ r4[1] = t /\ r4[2] = n /\ r4[3] = d /\ r4[4] = b
  BY <1>1, <1>5
<1>7. Fields(t, n, d, b) = r4
  BY <1>1 DEF Fields
<1> QED BY <1>6, <1>7

\* The three cells that a row begins with.
Beginning(t, n, d) == t \o <<Comma>> \o n \o <<Comma>> \o d \o <<Comma>>

LEMMA BeginningRead ==
    ASSUME NEW rows \in Seq(Seq(Seq(Glyph))), NEW t \in Plains, NEW n \in Plains, NEW d \in Plains
    PROVE  /\ Beginning(t, n, d) \in Seq(Glyph)
           /\ Append(Append(Append(<<>>, t), n), d) \in Seq(Seq(Glyph))
           /\ Leads(ReaderStates, ReaderNext, ReaderAt(rows, <<>>, <<>>, "no"), Beginning(t, n, d),
                    ReaderAt(rows, Append(Append(Append(<<>>, t), n), d), <<>>, "no"))
<1>1. PICK e, r1, r2, r3 : e = <<>> /\ r1 = Append(e, t) /\ r2 = Append(r1, n) /\ r3 = Append(r2, d)
  OBVIOUS
<1>2. PICK s0, s1, s2, s3 : /\ s0 = ReaderAt(rows, e, <<>>, "no") /\ s1 = ReaderAt(rows, r1, <<>>, "no")
                            /\ s2 = ReaderAt(rows, r2, <<>>, "no") /\ s3 = ReaderAt(rows, r3, <<>>, "no")
  OBVIOUS
<1>3. e \in Seq(Seq(Glyph)) /\ t \in Seq(Glyph) /\ n \in Seq(Glyph) /\ d \in Seq(Glyph)
  BY <1>1 DEF Plains
<1>4. r1 \in Seq(Seq(Glyph))
  BY <1>1, <1>3
<1>5. r2 \in Seq(Seq(Glyph))
  BY <1>1, <1>3, <1>4
<1>6. r3 \in Seq(Seq(Glyph))
  BY <1>1, <1>3, <1>5
<1>7. Comma \in Glyph /\ <<Comma>> \in Seq(Glyph)
  <2>1. Comma \in Glyph
    BY MarksAre DEF Marks
  <2> QED BY <2>1
<1>8. PICK x1, y1, x2, y2, x3 : /\ x1 = t \o <<Comma>> /\ y1 = x1 \o n /\ x2 = y1 \o <<Comma>>
                                /\ y2 = x2 \o d /\ x3 = y2 \o <<Comma>>
  OBVIOUS
<1>9. x1 \in Seq(Glyph) /\ Leads(ReaderStates, ReaderNext, s0, x1, s1)
  BY <1>1, <1>2, <1>3, <1>8, CellEnds
<1>10. ASSUME NEW r \in Seq(Seq(Glyph)), NEW c \in Plains, NEW x \in Seq(Glyph), NEW s,
              Leads(ReaderStates, ReaderNext, s, x, ReaderAt(rows, r, <<>>, "no"))
       PROVE  /\ (x \o c) \o <<Comma>> \in Seq(Glyph)
              /\ Leads(ReaderStates, ReaderNext, s, (x \o c) \o <<Comma>>, ReaderAt(rows, Append(r, c), <<>>, "no"))
  <2>1. c \in Seq(Glyph) /\ c \o <<Comma>> \in Seq(Glyph)
    BY CellEnds DEF Plains
  <2>2. Leads(ReaderStates, ReaderNext, ReaderAt(rows, r, <<>>, "no"), c \o <<Comma>>, ReaderAt(rows, Append(r, c), <<>>, "no"))
    BY CellEnds
  <2>3. Leads(ReaderStates, ReaderNext, s, x \o (c \o <<Comma>>), ReaderAt(rows, Append(r, c), <<>>, "no"))
    BY <1>10, <2>1, <2>2, LeadsOn
  <2>4. x \o (c \o <<Comma>>) = (x \o c) \o <<Comma>>
    BY <1>7, <2>1, ConcatAssociative
  <2>5. x \o (c \o <<Comma>>) \in Seq(Glyph)
    BY <2>1, ConcatProperties
  <2> QED BY <2>3, <2>4, <2>5
<1>11. x2 \in Seq(Glyph) /\ Leads(ReaderStates, ReaderNext, s0, x2, s2)
  BY <1>1, <1>2, <1>4, <1>8, <1>9, <1>10
<1>12. x3 \in Seq(Glyph) /\ Leads(ReaderStates, ReaderNext, s0, x3, s3)
  <2>1. /\ (x2 \o d) \o <<Comma>> \in Seq(Glyph)
        /\ Leads(ReaderStates, ReaderNext, s0, (x2 \o d) \o <<Comma>>, ReaderAt(rows, Append(r2, d), <<>>, "no"))
    <3>1. Leads(ReaderStates, ReaderNext, s0, x2, ReaderAt(rows, r2, <<>>, "no"))
      BY <1>1, <1>2, <1>11
    <3> QED BY <1>1, <1>5, <1>10, <1>11, <3>1
  <2>2. x3 = (x2 \o d) \o <<Comma>>
    BY <1>8
  <2> QED BY <1>1, <1>2, <2>1, <2>2
<1>13. Beginning(t, n, d) = x3
  BY <1>8 DEF Beginning
<1> QED BY <1>1, <1>2, <1>6, <1>12, <1>13

\* What a row says at its end, in whatever way that is read.
LEMMA RowEnds ==
    ASSUME NEW rows \in Seq(Seq(Seq(Glyph))), NEW t \in Plains, NEW n \in Plains, NEW d \in Plains,
           NEW text \in Seq(Glyph), NEW b \in Seq(Glyph), NEW quoted \in {"no", "maybe"},
           \A row \in Seq(Seq(Glyph)) :
              Leads(ReaderStates, ReaderNext, ReaderAt(rows, row, <<>>, "no"), text, ReaderAt(rows, row, b, quoted))
    PROVE  /\ (Beginning(t, n, d) \o text) \o <<Newline>> \in Seq(Glyph)
           /\ Append(rows, Fields(t, n, d, b)) \in Seq(Seq(Seq(Glyph)))
           /\ Leads(ReaderStates, ReaderNext, ReaderAt(rows, <<>>, <<>>, "no"),
                    (Beginning(t, n, d) \o text) \o <<Newline>>,
                    ReaderAt(Append(rows, Fields(t, n, d, b)), <<>>, <<>>, "no"))
<1>1. PICK row : row = Append(Append(Append(<<>>, t), n), d)
  OBVIOUS
<1>2. PICK x : x = Beginning(t, n, d)
  OBVIOUS
<1>3. /\ x \in Seq(Glyph) /\ row \in Seq(Seq(Glyph))
      /\ Leads(ReaderStates, ReaderNext, ReaderAt(rows, <<>>, <<>>, "no"), x, ReaderAt(rows, row, <<>>, "no"))
  BY <1>1, <1>2, BeginningRead
<1>4. /\ x \o text \in Seq(Glyph)
      /\ Leads(ReaderStates, ReaderNext, ReaderAt(rows, <<>>, <<>>, "no"), x \o text, ReaderAt(rows, row, b, quoted))
  BY <1>3, LeadsOn, ConcatProperties
<1>5. ReaderAt(rows, <<>>, <<>>, "no") \in ReaderStates /\ ReaderAt(rows, row, b, quoted) \in ReaderStates
  BY <1>3 DEF ReaderAt, ReaderStates
<1>6. Newline \in Glyph
  BY MarksAre DEF Marks
<1>7. Char(ReaderAt(rows, row, b, quoted), Newline) = ReaderAt(Append(rows, Append(row, b)), <<>>, <<>>, "no")
  <2>1. quoted = "no" \/ quoted = "maybe"
    OBVIOUS
  <2>2. CASE quoted = "no"
    BY <2>2, CharOfMark
  <2>3. CASE quoted = "maybe"
    BY <2>3, CharOfMark
  <2> QED BY <2>1, <2>2, <2>3
<1>8. Leads(ReaderStates, ReaderNext, ReaderAt(rows, <<>>, <<>>, "no"), (x \o text) \o <<Newline>>,
            Char(ReaderAt(rows, row, b, quoted), Newline))
  BY <1>4, <1>5, <1>6, ReaderReads
<1>9. Append(row, b) = Fields(t, n, d, b) /\ Append(row, b) \in Seq(Seq(Glyph))
  BY <1>1, <1>3 DEF Fields
<1>10. Append(rows, Fields(t, n, d, b)) \in Seq(Seq(Seq(Glyph)))
  BY <1>9
<1>11. (x \o text) \o <<Newline>> \in Seq(Glyph)
  <2>1. <<Newline>> \in Seq(Glyph)
    BY <1>6
  <2> QED BY <1>4, <2>1, ConcatProperties
<1> QED BY <1>2, <1>7, <1>8, <1>9, <1>10, <1>11

Forms == {"iso", "seconds", "millis", "ambiguous"}

RowFor(u, form, names, sides) ==
    Fields(Cell(TimeOf(u, form)), Cell(NameOf(u, names)), Cell(SideOf(u, sides)), u.words)

LEMMA MsIs ==
    ASSUME NEW h \in Nat
    PROVE  /\ Scale \in Nat /\ Scale > 2 /\ SecondsAt(h) \in Nat /\ SecondsAt(h) >= 100 /\ Threshold \in Nat
           /\ MsAt(h) \in Nat /\ MsAt(h) >= Threshold /\ SecondsAt(h) * Scale = MsAt(h)
<1>1. Scale \in Nat /\ Scale > 2
  BY ScaleAssumption
<1>2. SecondsAt(h) \in Nat /\ SecondsAt(h) = 100 + h
  BY DEF SecondsAt
<1>3. \A a, b \in Nat : a * b \in Nat
  OBVIOUS
<1>4. (100 + h) * Scale = 100 * Scale + h * Scale /\ h * Scale \in Nat /\ 100 * Scale \in Nat
  BY <1>1, <1>3
<1>5. MsAt(h) = SecondsAt(h) * Scale
  BY DEF MsAt
<1>6. MsAt(h) = 100 * Scale + h * Scale
  BY <1>2, <1>4, <1>5
<1> QED BY <1>1, <1>2, <1>4, <1>5, <1>6 DEF Threshold

LEMMA TermsAre ==
    /\ \A v \in Names \cup Times \cup Terms : v # Nobody
    /\ \A v : v = Nobody \/ v \in Names \cup Times \cup Terms => Cell(v) \in Plains
    /\ \A v : v # Nobody => Cell(v) = <<<<"atom", v>>>>
    /\ Cell(Nobody) = <<>>
<1>1. \A v \in Names \cup Times \cup Terms : v # Nobody
  BY NamesAssumption, NothingAssumption DEF Names
<1>2. Cell(Nobody) = <<>> /\ \A v : v # Nobody => Cell(v) = <<<<"atom", v>>>>
  BY DEF Cell
<1>3. ASSUME NEW v \in Names \cup Times \cup Terms PROVE Cell(v) \in Plains
  <2>1. Cell(v) = <<<<"atom", v>>>>
    BY <1>1, <1>2
  <2>2. <<"atom", v>> \in Glyph
    BY DEF Glyph
  <2>3. <<"atom", v>> \notin Marks
    BY MarksAre
  <2>4. <<<<"atom", v>>>> \in Seq(Glyph)
    BY <2>2
  <2> QED BY <2>1, <2>2, <2>3, <2>4 DEF Plains
<1>4. Cell(Nobody) \in Plains
  <2>1. <<>> \in Seq(Glyph)
    OBVIOUS
  <2> QED BY <1>2, <2>1 DEF Plains
<1> QED BY <1>1, <1>2, <1>3, <1>4

\* What is written of an utterance is the time, a name and a side, or nothing.
LEMMA CellsAre ==
    ASSUME NEW u, Sayable(u), u.kind \in {"text", "undated"}, NEW form \in Forms,
           NEW names \in {"all", "none", "theirs"}, NEW sides \in BOOLEAN
    PROVE  /\ TimeOf(u, form) = Nobody \/ TimeOf(u, form) \in Times
           /\ NameOf(u, names) = Nobody \/ NameOf(u, names) \in Names
           /\ SideOf(u, sides) = Nobody \/ SideOf(u, sides) \in Terms
           /\ Cell(TimeOf(u, form)) \in Plains /\ Cell(NameOf(u, names)) \in Plains
           /\ Cell(SideOf(u, sides)) \in Plains /\ u.words \in Seq(Glyph)
<1>1. u.at \in Nat /\ u.words \in Seq(Token) /\ u.by \in u.with \cup {Myself} /\ u.with \in SUBSET Others
  BY DEF Sayable, Utterance
<1>2. TimeOf(u, form) = Nobody \/ TimeOf(u, form) \in Times
  <2>1. MsAt(u.at) \in Nat /\ SecondsAt(u.at) \in Nat
    BY <1>1, MsIs
  <2> QED BY <1>1, <2>1 DEF TimeOf, Times
<1>3. NameOf(u, names) = Nobody \/ NameOf(u, names) \in Names
  BY <1>1 DEF NameOf, Names
<1>4. SideOf(u, sides) = Nobody \/ SideOf(u, sides) \in Terms
  BY DEF SideOf, Terms
<1>5. u.words \in Seq(Glyph)
  <2>1. Token \subseteq Glyph
    BY DEF Glyph
  <2> QED BY <1>1, <2>1, SeqMonotonic
<1> QED BY <1>2, <1>3, <1>4, <1>5, TermsAre

LEMMA RowTextRead ==
    ASSUME NEW u, Sayable(u), u.kind \in {"text", "undated"}, NEW form \in Forms,
           NEW names \in {"all", "none", "theirs"}, NEW sides \in BOOLEAN,
           NEW rows \in Seq(Seq(Seq(Glyph)))
    PROVE  /\ RowText(u, form, names, sides) \in Seq(Glyph)
           /\ Append(rows, RowFor(u, form, names, sides)) \in Seq(Seq(Seq(Glyph)))
           /\ Leads(ReaderStates, ReaderNext, ReaderAt(rows, <<>>, <<>>, "no"), RowText(u, form, names, sides),
                    ReaderAt(Append(rows, RowFor(u, form, names, sides)), <<>>, <<>>, "no"))
<1>1. PICK t \in Plains, n \in Plains, d \in Plains, b \in Seq(Glyph) :
         t = Cell(TimeOf(u, form)) /\ n = Cell(NameOf(u, names)) /\ d = Cell(SideOf(u, sides)) /\ b = u.words
  BY CellsAre
<1>2. PICK text : text = Escaped(b)
  OBVIOUS
<1>3. text \in Seq(Glyph)
  <2>1. <<>> \in Seq(Seq(Glyph))
    OBVIOUS
  <2> QED BY <1>2, <2>1, EscapedRead
<1>4. \A row \in Seq(Seq(Glyph)) :
         Leads(ReaderStates, ReaderNext, ReaderAt(rows, row, <<>>, "no"), text, ReaderAt(rows, row, b, "maybe"))
  BY <1>2, EscapedRead
<1>5. RowText(u, form, names, sides) = (Beginning(t, n, d) \o text) \o <<Newline>>
  BY <1>1, <1>2 DEF RowText, Beginning
<1>6. RowFor(u, form, names, sides) = Fields(t, n, d, b)
  BY <1>1 DEF RowFor
<1>7. /\ (Beginning(t, n, d) \o text) \o <<Newline>> \in Seq(Glyph)
      /\ Append(rows, Fields(t, n, d, b)) \in Seq(Seq(Seq(Glyph)))
      /\ Leads(ReaderStates, ReaderNext, ReaderAt(rows, <<>>, <<>>, "no"),
               (Beginning(t, n, d) \o text) \o <<Newline>>,
               ReaderAt(Append(rows, Fields(t, n, d, b)), <<>>, <<>>, "no"))
  BY <1>3, <1>4, RowEnds
<1> QED BY <1>5, <1>6, <1>7

HeaderRow == Fields(Cell("time"), Cell("sender"), Cell("direction"), Cell("body"))

LEMMA HeaderRead ==
    /\ Header \in Seq(Glyph) /\ <<HeaderRow>> \in Seq(Seq(Seq(Glyph)))
    /\ Leads(ReaderStates, ReaderNext, Fresh, Header, ReaderAt(<<HeaderRow>>, <<>>, <<>>, "no"))
<1>1. PICK t \in Plains, n \in Plains, d \in Plains, b \in Plains :
         t = Cell("time") /\ n = Cell("sender") /\ d = Cell("direction") /\ b = Cell("body")
  <2>1. "time" \in Terms /\ "sender" \in Terms /\ "direction" \in Terms /\ "body" \in Terms
    BY DEF Terms
  <2> QED BY <2>1, TermsAre
<1>2. b \in Seq(Glyph)
  BY DEF Plains
<1>3. PICK rows : rows = <<>>
  OBVIOUS
<1>4. rows \in Seq(Seq(Seq(Glyph)))
  BY <1>3
<1>5. \A row \in Seq(Seq(Glyph)) :
         Leads(ReaderStates, ReaderNext, ReaderAt(rows, row, <<>>, "no"), b, ReaderAt(rows, row, b, "no"))
  BY <1>4, CellRead
<1>6. Header = (Beginning(t, n, d) \o b) \o <<Newline>>
  BY <1>1 DEF Header, Beginning
<1>7. Fresh = ReaderAt(rows, <<>>, <<>>, "no")
  BY <1>3 DEF Fresh, ReaderAt
<1>8. HeaderRow = Fields(t, n, d, b)
  BY <1>1 DEF HeaderRow
<1>9. Append(rows, HeaderRow) = <<HeaderRow>>
  BY <1>3
<1>10. /\ (Beginning(t, n, d) \o b) \o <<Newline>> \in Seq(Glyph)
       /\ Append(rows, Fields(t, n, d, b)) \in Seq(Seq(Seq(Glyph)))
       /\ Leads(ReaderStates, ReaderNext, ReaderAt(rows, <<>>, <<>>, "no"),
                (Beginning(t, n, d) \o b) \o <<Newline>>,
                ReaderAt(Append(rows, Fields(t, n, d, b)), <<>>, <<>>, "no"))
  BY <1>2, <1>4, <1>5, RowEnds
<1> QED BY <1>6, <1>7, <1>8, <1>9, <1>10

LEMMA TrimIs ==
    ASSUME NEW M, NEW body \in Seq(M), body # <<>>, Head(body) # Newline, Last(body) # Newline
    PROVE  Trim(body) = body
<1>1. PICK n \in Nat : n = Len(body) /\ DOMAIN body = 1 .. n /\ n # 0
  OBVIOUS
<1>2. body[1] # Newline /\ body[n] # Newline
  BY <1>1 DEF Last
<1>3. PICK ink : ink = {i \in DOMAIN body : body[i] # Newline}
  OBVIOUS
<1>4. 1 \in ink /\ n \in ink /\ \A i \in ink : i \in 1 .. n
  BY <1>1, <1>2, <1>3
<1>5. Min(ink) = 1
  <2>1. \A y \in ink : 1 <= y
    BY <1>4
  <2>2. \A x \in ink : (\A y \in ink : x <= y) => x = 1
    BY <1>4
  <2> QED BY <1>4, <2>1, <2>2 DEF Min
<1>6. Max(ink) = n
  <2>1. \A y \in ink : n >= y
    BY <1>4
  <2>2. \A x \in ink : (\A y \in ink : x >= y) => x = n
    BY <1>1, <1>4
  <2> QED BY <1>4, <2>1, <2>2 DEF Max
<1>7. SubSeq(body, 1, n) = body
  BY <1>1, SubSeqFull
<1> QED BY <1>3, <1>4, <1>5, <1>6, <1>7 DEF Trim

LEMMA SpeechIs ==
    ASSUME NEW words \in Seq(Token), Speech(words)
    PROVE  /\ words # <<>> /\ Trim(words) = words /\ Coerce(words) = words /\ ~IsReaction(words)
           /\ words # Placeholder /\ \A i \in DOMAIN words : words[i] \notin Metadata
<1>1. words # <<>> /\ Head(words) # Newline /\ Last(words) # Newline
  BY DEF Speech
<1>2. Trim(words) = words
  BY <1>1, TrimIs
<1>3. Coerce(words) = words /\ ~IsReaction(words) /\ words # Placeholder
  BY DEF Speech, Coerce, IsReaction
<1>4. \A i \in DOMAIN words : words[i] \notin Metadata
  BY DEF Speech, Range
<1> QED BY <1>1, <1>2, <1>3, <1>4

\* What a row is read as.
ReadAs(u, form, names, sides) ==
    [time |-> IF TimeOf(u, form) = Nobody THEN [form |-> "none"] ELSE TimeOf(u, form),
     sender |-> NameOf(u, names), direction |-> SideOf(u, sides), body |-> u.words]

RowTalk(talk) ==
    /\ talk \in Seq(Utterance)
    /\ \A i \in DOMAIN talk : Sayable(talk[i]) /\ talk[i].kind \in {"text", "undated"}

RowTable(talk, form, names, sides) ==
    [i \in 1 .. (Len(talk) + 1) |-> IF i = 1 THEN HeaderRow ELSE RowFor(talk[i - 1], form, names, sides)]

LEMMA RowTextsRead ==
    ASSUME NEW talk, RowTalk(talk), NEW form \in Forms, NEW names \in {"all", "none", "theirs"}, NEW sides \in BOOLEAN
    PROVE  /\ RowsOf(talk, form, names, sides) \in Seq(Glyph)
           /\ RowTable(talk, form, names, sides) \in Seq(Seq(Seq(Glyph)))
           /\ FoldLeft(Char, Fresh, RowsOf(talk, form, names, sides))
                 = ReaderAt(RowTable(talk, form, names, sides), <<>>, <<>>, "no")
<1>1. PICK n \in Nat : n = Len(talk) /\ DOMAIN talk = 1 .. n
  BY DEF RowTalk
<1>2. \A i \in 1 .. n : Sayable(talk[i]) /\ talk[i].kind \in {"text", "undated"}
  BY <1>1 DEF RowTalk
<1>3. PICK seqs, all : /\ seqs = [i \in DOMAIN talk |-> RowText(talk[i], form, names, sides)]
                       /\ all = RowTable(talk, form, names, sides)
  OBVIOUS
<1>4. <<>> \in Seq(Seq(Seq(Glyph)))
  OBVIOUS
<1>5. ASSUME NEW i \in 1 .. n PROVE seqs[i] \in Seq(Glyph) /\ seqs[i] = RowText(talk[i], form, names, sides)
  <2>1. seqs[i] = RowText(talk[i], form, names, sides)
    BY <1>1, <1>3
  <2> QED BY <1>2, <1>4, <2>1, RowTextRead
<1>6. seqs \in Seq(Seq(Glyph)) /\ Len(seqs) = n
  <2>1. seqs = [i \in 1 .. n |-> seqs[i]]
    BY <1>1, <1>3
  <2> QED BY <1>5, <2>1
<1>7. DOMAIN all = 1 .. (n + 1) /\ all[1] = HeaderRow /\ \A i \in 1 .. n : all[i + 1] = RowFor(talk[i], form, names, sides)
  <2>1. all = [i \in 1 .. (n + 1) |-> IF i = 1 THEN HeaderRow ELSE RowFor(talk[i - 1], form, names, sides)]
    BY <1>1, <1>3 DEF RowTable
  <2>2. \A i \in 1 .. n : i + 1 \in 1 .. (n + 1) /\ i + 1 # 1 /\ (i + 1) - 1 = i
    OBVIOUS
  <2>3. 1 \in 1 .. (n + 1)
    OBVIOUS
  <2> QED BY <2>1, <2>2, <2>3
<1>8. \A i \in 1 .. (n + 1) : all[i] \in Seq(Seq(Glyph))
  <2>1. all[1] \in Seq(Seq(Glyph))
    <3>1. <<HeaderRow>> \in Seq(Seq(Seq(Glyph))) /\ Len(<<HeaderRow>>) = 1 /\ <<HeaderRow>>[1] = HeaderRow
      BY HeaderRead
    <3>2. <<HeaderRow>>[1] \in Seq(Seq(Glyph))
      BY <3>1, ElementOfSeq
    <3> QED BY <1>7, <3>1, <3>2
  <2>2. ASSUME NEW i \in 1 .. n PROVE all[i + 1] \in Seq(Seq(Glyph))
    <3>1. PICK r : r = RowFor(talk[i], form, names, sides)
      OBVIOUS
    <3>2. PICK s : s = Append(<<>>, r)
      OBVIOUS
    <3>3. s \in Seq(Seq(Seq(Glyph)))
      BY <1>2, <1>4, <3>1, <3>2, RowTextRead
    <3>4. Len(s) = 1 /\ s[1] = r /\ 1 \in 1 .. Len(s)
      BY <3>2
    <3>5. s[1] \in Seq(Seq(Glyph))
      BY <3>3, <3>4, ElementOfSeq
    <3> QED BY <1>7, <3>1, <3>4, <3>5
  <2>3. ASSUME NEW i \in 1 .. (n + 1), i # 1 PROVE i - 1 \in 1 .. n /\ (i - 1) + 1 = i
    BY <2>3
  <2> QED BY <2>1, <2>2, <2>3
<1>9. all \in Seq(Seq(Seq(Glyph))) /\ Len(all) = n + 1
  <2>1. all = [i \in 1 .. (n + 1) |-> all[i]]
    BY <1>1, <1>3 DEF RowTable
  <2>2. all \in [1 .. (n + 1) -> Seq(Seq(Glyph))]
    BY <1>8, <2>1
  <2> QED BY <2>2
<1>10. PICK st : st = [i \in 0 .. n |-> ReaderAt(SubSeq(all, 1, i + 1), <<>>, <<>>, "no")]
  OBVIOUS
<1>11. ASSUME NEW i \in 0 .. n PROVE SubSeq(all, 1, i + 1) \in Seq(Seq(Seq(Glyph))) /\ st[i] \in ReaderStates
  <2>1. SubSeq(all, 1, i + 1) \in Seq(Seq(Seq(Glyph)))
    <3>1. i + 1 \in Int /\ \A j \in 1 .. (i + 1) : all[j] \in Seq(Seq(Glyph))
      BY <1>8
    <3> QED BY <3>1, SubSeqProperties
  <2>2. <<>> \in Seq(Seq(Glyph)) /\ <<>> \in Seq(Glyph)
    OBVIOUS
  <2> QED BY <1>10, <2>1, <2>2 DEF ReaderAt, ReaderStates
<1>12. st \in [0 .. n -> ReaderStates]
  BY <1>10, <1>11
<1>13. ASSUME NEW i \in 1 .. n PROVE Leads(ReaderStates, ReaderNext, st[i - 1], seqs[i], st[i])
  <2>1. i - 1 \in 0 .. n /\ i \in 0 .. n /\ (i - 1) + 1 = i /\ i + 1 \in 1 .. (n + 1) /\ 1 \in 1 .. (n + 1) /\ i + 1 \in 1 .. (i + 1) /\ (i + 1) - 1 = i
    OBVIOUS
  <2>2. PICK before, r : before = SubSeq(all, 1, i) /\ r = RowFor(talk[i], form, names, sides)
    OBVIOUS
  <2>3. before \in Seq(Seq(Seq(Glyph))) /\ st[i - 1] = ReaderAt(before, <<>>, <<>>, "no")
    BY <1>10, <1>11, <2>1, <2>2
  <2>4. SubSeq(all, 1, i + 1) = before \o <<all[i + 1]>>
    <3>1. i + 1 \in 1 .. Len(all) /\ 1 \in 1 .. Len(all)
      BY <1>9, <2>1
    <3>2. i + 1 \in 1 .. Len(all) /\ i + 1 \in 1 .. (i + 1)
      BY <1>9, <2>1
    <3>3. i + 1 \in 1 .. Len(all) /\ SubSeq(all, 1, i + 1) = SubSeq(all, 1, (i + 1) - 1) \o <<all[i + 1]>>
      BY <1>9, <3>1, SubSeqRecursiveSecond
    <3> QED BY <2>1, <2>2, <3>3
  <2>5. SubSeq(all, 1, i + 1) = Append(before, r)
    <3>1. all[i + 1] \in Seq(Seq(Glyph)) /\ all[i + 1] = r
      BY <1>7, <1>8, <2>1, <2>2
    <3> QED BY <2>3, <2>4, <3>1, AppendIsConcat
  <2>6. st[i] = ReaderAt(Append(before, r), <<>>, <<>>, "no")
    BY <1>10, <2>1, <2>5
  <2>7. Leads(ReaderStates, ReaderNext, ReaderAt(before, <<>>, <<>>, "no"), seqs[i], ReaderAt(Append(before, r), <<>>, <<>>, "no"))
    <3>1. PICK v : v = talk[i]
      OBVIOUS
    <3>2. Sayable(v) /\ v.kind \in {"text", "undated"} /\ seqs[i] = RowText(v, form, names, sides)
      BY <1>2, <1>5, <3>1
    <3>3. Leads(ReaderStates, ReaderNext, ReaderAt(before, <<>>, <<>>, "no"), RowText(v, form, names, sides),
                ReaderAt(Append(before, RowFor(v, form, names, sides)), <<>>, <<>>, "no"))
      BY <2>3, <3>2, RowTextRead
    <3> QED BY <2>2, <3>1, <3>2, <3>3
  <2> QED BY <2>3, <2>6, <2>7
<1>14. Leads(ReaderStates, ReaderNext, st[0], FlattenSeq(seqs), st[n]) /\ FlattenSeq(seqs) \in Seq(Glyph)
  BY <1>6, <1>12, <1>13, LeadsThroughAll, OffsetsExist
<1>15. st[0] = ReaderAt(<<HeaderRow>>, <<>>, <<>>, "no") /\ st[n] = ReaderAt(all, <<>>, <<>>, "no")
  <2>1. SubSeq(all, 1, n + 1) = all
    BY <1>9, SubSeqFull
  <2>2. SubSeq(all, 1, 1) = <<HeaderRow>>
    <3>1. 1 \in 1 .. Len(all) /\ SubSeq(all, 1, 1) = SubSeq(all, 1, 1 - 1) \o <<all[1]>>
      <4>1. 1 \in 1 .. Len(all)
        BY <1>9
      <4> QED BY <1>9, <4>1, SubSeqRecursiveSecond
    <3>2. SubSeq(all, 1, 1 - 1) = <<>>
      BY SubSeqEmpty
    <3>3. <<all[1]>> \in Seq(Seq(Seq(Glyph)))
      BY <1>7, HeaderRead
    <3>4. <<>> \o <<all[1]>> = <<all[1]>>
      BY <3>3, ConcatEmptySeq
    <3> QED BY <1>7, <3>1, <3>2, <3>4
  <2>3. 0 \in 0 .. n /\ n \in 0 .. n /\ 0 + 1 = 1
    OBVIOUS
  <2> QED BY <1>10, <2>1, <2>2, <2>3
<1>16. Leads(ReaderStates, ReaderNext, Fresh, Header \o FlattenSeq(seqs), st[n]) /\ Header \o FlattenSeq(seqs) \in Seq(Glyph)
  BY <1>14, <1>15, HeaderRead, LeadsOn, ConcatProperties
<1>17. RowsOf(talk, form, names, sides) = Header \o FlattenSeq(seqs)
  BY <1>3 DEF RowsOf
<1> QED BY <1>3, <1>9, <1>15, <1>16, <1>17, WhereTheReaderEnds

LEMMA RowForIs ==
    ASSUME NEW u, Sayable(u), u.kind \in {"text", "undated"}, NEW form \in Forms,
           NEW names \in {"all", "none", "theirs"}, NEW sides \in BOOLEAN
    PROVE  /\ DOMAIN RowFor(u, form, names, sides) = 1 .. 4
           /\ RowFor(u, form, names, sides)[1] = Cell(TimeOf(u, form))
           /\ RowFor(u, form, names, sides)[2] = Cell(NameOf(u, names))
           /\ RowFor(u, form, names, sides)[3] = Cell(SideOf(u, sides))
           /\ RowFor(u, form, names, sides)[4] = u.words
           /\ Trim(u.words) = u.words /\ u.words # <<>>
<1>1. PICK t \in Plains, n \in Plains, d \in Plains, b \in Seq(Glyph) :
         t = Cell(TimeOf(u, form)) /\ n = Cell(NameOf(u, names)) /\ d = Cell(SideOf(u, sides)) /\ b = u.words
  BY CellsAre
<1>2. t \in Seq(Glyph) /\ n \in Seq(Glyph) /\ d \in Seq(Glyph)
  BY DEF Plains
<1>3. Trim(u.words) = u.words /\ u.words # <<>>
  <2>1. u.words \in Seq(Token) /\ Speech(u.words)
    BY DEF Sayable, Utterance
  <2> QED BY <2>1, SpeechIs
<1>4. RowFor(u, form, names, sides) = Fields(t, n, d, b)
  BY <1>1 DEF RowFor
<1>5. /\ DOMAIN Fields(t, n, d, b) = 1 .. 4 /\ Fields(t, n, d, b)[1] = t /\ Fields(t, n, d, b)[2] = n
      /\ Fields(t, n, d, b)[3] = d /\ Fields(t, n, d, b)[4] = b
  BY <1>2, RowIs
<1> QED BY <1>1, <1>3, <1>4, <1>5

LEMMA RowTableIs ==
    ASSUME NEW talk, RowTalk(talk), NEW form \in Forms, NEW names \in {"all", "none", "theirs"}, NEW sides \in BOOLEAN
    PROVE  /\ Len(RowTable(talk, form, names, sides)) = Len(talk) + 1
           /\ RowTable(talk, form, names, sides)[1] = HeaderRow
           /\ \A i \in 1 .. Len(talk) : RowTable(talk, form, names, sides)[i + 1] = RowFor(talk[i], form, names, sides)
<1>1. PICK n \in Nat : n = Len(talk)
  BY DEF RowTalk
<1>2. PICK all : all = RowTable(talk, form, names, sides)
  OBVIOUS
<1>3. all = [i \in 1 .. (n + 1) |-> IF i = 1 THEN HeaderRow ELSE RowFor(talk[i - 1], form, names, sides)]
  BY <1>1, <1>2 DEF RowTable
<1>4. \A i \in 1 .. n : i + 1 \in 1 .. (n + 1) /\ i + 1 # 1 /\ (i + 1) - 1 = i
  OBVIOUS
<1>5. 1 \in 1 .. (n + 1)
  OBVIOUS
<1>6. all \in Seq(Seq(Seq(Glyph)))
  BY <1>2, RowTextsRead
<1>7. Len(all) = n + 1
  <2>1. all \in [1 .. (n + 1) -> Seq(Seq(Glyph))]
    <3>1. DOMAIN all = 1 .. (n + 1)
      BY <1>3
    <3>2. all \in [DOMAIN all -> Seq(Seq(Glyph))]
      BY <1>6
    <3> QED BY <3>1, <3>2
  <2> QED BY <2>1
<1> QED BY <1>1, <1>2, <1>3, <1>4, <1>5, <1>7

LEMMA CsvRead ==
    ASSUME NEW talk, RowTalk(talk), NEW form \in Forms, NEW names \in {"all", "none", "theirs"}, NEW sides \in BOOLEAN
    PROVE  ParseCsv(RowsOf(talk, form, names, sides)) = RowTable(talk, form, names, sides)
<1>1. PICK all, text : all = RowTable(talk, form, names, sides) /\ text = RowsOf(talk, form, names, sides)
  OBVIOUS
<1>2. PICK n \in Nat : n = Len(talk) /\ DOMAIN talk = 1 .. n
  BY DEF RowTalk
<1>3. /\ all \in Seq(Seq(Seq(Glyph))) /\ Len(all) = n + 1 /\ all[1] = HeaderRow
      /\ \A i \in 1 .. n : all[i + 1] = RowFor(talk[i], form, names, sides)
  BY <1>1, <1>2, RowTextsRead, RowTableIs
<1>4. DOMAIN all = 1 .. (n + 1)
  BY <1>3
<1> DEFINE Inked(i) == \E k \in DOMAIN all[i] : Trim(all[i][k]) # <<>>
<1>5. Inked(1)
  <2>1. PICK t \in Plains, m \in Plains, d \in Plains, b \in Plains :
           t = Cell("time") /\ m = Cell("sender") /\ d = Cell("direction") /\ b = Cell("body")
    <3>1. "time" \in Terms /\ "sender" \in Terms /\ "direction" \in Terms /\ "body" \in Terms
      BY DEF Terms
    <3> QED BY <3>1, TermsAre
  <2>2. t \in Seq(Glyph) /\ m \in Seq(Glyph) /\ d \in Seq(Glyph) /\ b \in Seq(Glyph)
    BY DEF Plains
  <2>3. DOMAIN all[1] = 1 .. 4 /\ all[1][4] = b
    BY SMTT(40), <1>3, <2>1, <2>2, RowIs DEF HeaderRow
  <2>4. b = <<<<"atom", "body">>>>
    <3>1. "body" \in Names \cup Times \cup Terms
      BY DEF Terms
    <3> QED BY <2>1, <3>1, TermsAre
  <2>5. Trim(b) = b /\ b # <<>>
    <3>1. PICK g : g = <<"atom", "body">>
      OBVIOUS
    <3>2. g # Newline
      BY <3>1, MarksAre DEF Marks
    <3>3. b = <<g>>
      BY <2>4, <3>1
    <3>4. b # <<>> /\ Head(b) = g /\ Last(b) = g
      BY <3>3 DEF Last
    <3> QED BY <2>2, <3>2, <3>4, TrimIs
  <2> QED BY <2>3, <2>5
<1>6. ASSUME NEW i \in 1 .. n PROVE Inked(i + 1)
  <2>1. Sayable(talk[i]) /\ talk[i].kind \in {"text", "undated"}
    BY <1>2 DEF RowTalk
  <2>2. PICK r : r = RowFor(talk[i], form, names, sides)
    OBVIOUS
  <2>3. DOMAIN r = 1 .. 4 /\ Trim(r[4]) # <<>>
    BY <2>1, <2>2, RowForIs
  <2>4. all[i + 1] = r
    BY <1>3, <2>2
  <2> QED BY <2>3, <2>4
<1>7. {i \in DOMAIN all : Inked(i)} = DOMAIN all
  <2> HIDE DEF Inked
  <2>1. \A i \in 1 .. (n + 1) : i = 1 \/ (i - 1 \in 1 .. n /\ (i - 1) + 1 = i)
    OBVIOUS
  <2>2. \A i \in 1 .. (n + 1) : Inked(i)
    BY <1>5, <1>6, <2>1
  <2> QED BY <1>4, <2>2
<1>8. AtPlaces(all, {i \in DOMAIN all : Inked(i)}) = all
  <2> HIDE DEF Inked
  <2>1. AtPlaces(all, DOMAIN all) = all
    BY <1>3, AtAllPlaces
  <2> QED BY <1>7, <2>1
<1>9. FoldLeft(Char, Fresh, text) = ReaderAt(all, <<>>, <<>>, "no")
  BY <1>1, RowTextsRead
<1>10. PICK s : s = FoldLeft(Char, Fresh, text)
  OBVIOUS
<1>11. s.rows = all /\ s.field = <<>> /\ s.row = <<>>
  BY <1>9, <1>10 DEF ReaderAt
<1>12. ParseCsv(text) = AtPlaces(all, {i \in DOMAIN all : Inked(i)})
  BY <1>10, <1>11 DEF ParseCsv
<1> QED BY <1>1, <1>8, <1>12

\* What is written as rows is read as what was written.
LEMMA RowsRead ==
    ASSUME NEW talk, RowTalk(talk), NEW form \in Forms, NEW names \in {"all", "none", "theirs"}, NEW sides \in BOOLEAN
    PROVE  RowsIn(RowsOf(talk, form, names, sides)) = [i \in DOMAIN talk |-> ReadAs(talk[i], form, names, sides)]
<1>1. PICK all, text : all = RowTable(talk, form, names, sides) /\ text = RowsOf(talk, form, names, sides)
  OBVIOUS
<1>2. PICK n \in Nat : n = Len(talk) /\ DOMAIN talk = 1 .. n
  BY DEF RowTalk
<1>3. /\ all \in Seq(Seq(Seq(Glyph))) /\ Len(all) = n + 1
      /\ \A i \in 1 .. n : all[i + 1] = RowFor(talk[i], form, names, sides)
  BY <1>1, <1>2, RowTextsRead, RowTableIs
<1>4. PICK rows : rows = Tail(all)
  OBVIOUS
<1>5. Len(rows) = n /\ DOMAIN rows = 1 .. n /\ \A i \in 1 .. n : rows[i] = all[i + 1]
  <2>1. all # <<>>
    BY <1>3
  <2>2. rows \in Seq(Seq(Seq(Glyph))) /\ Len(rows) = n /\ \A i \in 1 .. Len(rows) : rows[i] = all[i + 1]
    BY <1>3, <1>4, <2>1, HeadTailProperties
  <2> QED BY <2>2
<1>6. ParseCsv(text) = all
  BY <1>1, CsvRead
<1> DEFINE value(c) == IF c = <<>> THEN Nobody ELSE c[1][2]
           row(i) == [time |-> IF rows[i][1] = <<>> THEN [form |-> "none"] ELSE value(rows[i][1]),
                      sender |-> value(rows[i][2]), direction |-> value(rows[i][3]), body |-> rows[i][4]]
<1>7. RowsIn(text) = [i \in DOMAIN rows |-> row(i)]
  BY <1>4, <1>6 DEF RowsIn
<1>8. \A v : value(Cell(v)) = v /\ (Cell(v) = <<>> <=> v = Nobody)
  <2> TAKE v
  <2>1. CASE v = Nobody
    BY <2>1, TermsAre
  <2>2. CASE v # Nobody
    <3>1. PICK a : a = <<"atom", v>>
      OBVIOUS
    <3>2. Cell(v) = <<a>> /\ a[2] = v
      BY <2>2, <3>1, TermsAre
    <3>3. Cell(v) # <<>> /\ Cell(v)[1] = a
      BY <3>2
    <3> QED BY <2>2, <3>2, <3>3
  <2> QED BY <2>1, <2>2
<1>9. ASSUME NEW i \in 1 .. n PROVE row(i) = ReadAs(talk[i], form, names, sides)
  <2>1. Sayable(talk[i]) /\ talk[i].kind \in {"text", "undated"}
    BY <1>2 DEF RowTalk
  <2>2. /\ rows[i][1] = Cell(TimeOf(talk[i], form)) /\ rows[i][2] = Cell(NameOf(talk[i], names))
        /\ rows[i][3] = Cell(SideOf(talk[i], sides)) /\ rows[i][4] = talk[i].words
    <3>1. PICK u : u = talk[i]
      OBVIOUS
    <3>2. PICK r : r = RowFor(u, form, names, sides)
      OBVIOUS
    <3>3. r[1] = Cell(TimeOf(u, form)) /\ r[2] = Cell(NameOf(u, names)) /\ r[3] = Cell(SideOf(u, sides)) /\ r[4] = u.words
      BY <2>1, <3>1, <3>2, RowForIs
    <3>4. rows[i] = r
      BY <1>3, <1>5, <3>1, <3>2
    <3> QED BY <3>1, <3>3, <3>4
  <2> HIDE DEF value
  <2> QED BY <1>8, <2>2 DEF ReadAs
<1> HIDE DEF row
<1> QED BY <1>1, <1>2, <1>5, <1>7, <1>9

\* A row that is read says when and whose it is, and says it right.
LEMMA ReadableIs ==
    ASSUME NEW u, Sayable(u), u.kind \in {"text", "undated"}, NEW form \in Forms,
           NEW names \in {"all", "none", "theirs"}, NEW sides \in BOOLEAN, NEW owner \in {Myself, Nobody}
    PROVE  /\ Readable(ReadAs(u, form, names, sides), owner)
                 <=> /\ u.kind = "text" /\ form # "ambiguous"
                     /\ \/ sides
                        \/ owner = Myself /\ (names = "all" \/ (names = "theirs" /\ u.by # Myself))
           /\ Readable(ReadAs(u, form, names, sides), owner) =>
                 /\ RowMs(ReadAs(u, form, names, sides).time) = MsAt(u.at)
                 /\ Direction(ReadAs(u, form, names, sides), owner) = IF u.by = Myself THEN "out" ELSE "in"
<1>1. PICK t, s, d, row : /\ t = TimeOf(u, form) /\ s = NameOf(u, names) /\ d = SideOf(u, sides)
                          /\ row = ReadAs(u, form, names, sides)
  OBVIOUS
<1>2. row.time = (IF t = Nobody THEN [form |-> "none"] ELSE t) /\ row.sender = s /\ row.direction = d
  BY <1>1 DEF ReadAs
<1>3. u.at \in Nat /\ u.by # Nobody /\ SecondsAt(u.at) < Threshold
  <2>1. u.at \in Nat /\ u.by \in u.with \cup {Myself} /\ u.with \in SUBSET Others
    BY DEF Sayable, Utterance
  <2> QED BY <2>1, NamesAssumption DEF Sayable
<1>4. /\ Scale \in Nat /\ SecondsAt(u.at) \in Nat /\ MsAt(u.at) \in Nat /\ Threshold \in Nat /\ MsAt(u.at) >= Threshold
      /\ SecondsAt(u.at) * Scale = MsAt(u.at)
  BY <1>3, MsIs
<1>5. "out" # Nobody /\ "in" # Nobody /\ MsAt(u.at) # Nobody
  <2>1. "out" \in Terms /\ "in" \in Terms
    BY DEF Terms
  <2> QED BY <1>4, <2>1, NothingAssumption
<1>6. (RowMs(row.time) # Nobody <=> u.kind = "text" /\ form # "ambiguous") /\ (RowMs(row.time) # Nobody => RowMs(row.time) = MsAt(u.at))
  <2>1. CASE u.kind = "undated"
    <3>1. t = Nobody
      BY <1>1, <2>1 DEF TimeOf
    <3>2. RowMs(row.time) = Nobody
      BY <1>2, <3>1 DEF RowMs
    <3> QED BY <2>1, <3>2
  <2>2. CASE u.kind = "text"
    <3>1. t = CASE form = "iso" -> [form |-> "iso", value |-> MsAt(u.at)]
                [] form = "seconds" -> [form |-> "number", value |-> SecondsAt(u.at)]
                [] form = "millis" -> [form |-> "number", value |-> MsAt(u.at)]
                [] OTHER -> [form |-> "ambiguous", value |-> u.at]
      BY <1>1, <2>2 DEF TimeOf
    <3>2. t \in Times
      BY <1>3, <1>4, <3>1 DEF Times
    <3>3. row.time = t
      BY <1>2, <3>2, TermsAre
    <3>4. CASE form = "iso"
      <4>1. t.form = "iso" /\ t.value = MsAt(u.at)
        BY <3>1, <3>4
      <4>2. RowMs(row.time) = MsAt(u.at)
        BY <3>3, <4>1 DEF RowMs
      <4> QED BY <1>5, <2>2, <3>4, <4>2
    <3>5. CASE form = "seconds"
      <4>1. t.form = "number" /\ t.value = SecondsAt(u.at)
        BY <3>1, <3>5
      <4>2. RowMs(row.time) = MsAt(u.at)
        BY <1>3, <1>4, <3>3, <4>1 DEF RowMs
      <4> QED BY <1>5, <2>2, <3>5, <4>2
    <3>6. CASE form = "millis"
      <4>1. t.form = "number" /\ t.value = MsAt(u.at)
        BY <3>1, <3>6
      <4>3. ~(MsAt(u.at) < Threshold)
        BY <1>4
      <4>2. RowMs(row.time) = MsAt(u.at)
        BY <3>3, <4>1, <4>3 DEF RowMs
      <4> QED BY <1>5, <2>2, <3>6, <4>2
    <3>7. CASE form = "ambiguous"
      <4>1. t.form = "ambiguous"
        BY <3>1, <3>7
      <4>2. RowMs(row.time) = Nobody
        BY <3>3, <4>1 DEF RowMs
      <4> QED BY <3>7, <4>2
    <3> QED BY <3>4, <3>5, <3>6, <3>7 DEF Forms
  <2> QED BY <2>1, <2>2
<1>7. CASE sides
  <2>1. d = IF u.by = Myself THEN "out" ELSE "in"
    BY <1>1, <1>7 DEF SideOf
  <2>2. Direction(row, owner) = d /\ d # Nobody
    BY <1>2, <1>5, <2>1 DEF Direction
  <2> QED BY <1>1, <1>6, <1>7, <2>1, <2>2 DEF Readable
<1>8. CASE ~sides
  <2>1. d = Nobody
    BY <1>1, <1>8 DEF SideOf
  <2>2. Direction(row, owner) = IF owner = Nobody \/ s = Nobody THEN Nobody ELSE IF s = owner THEN "out" ELSE "in"
    BY <1>2, <2>1 DEF Direction
  <2>3. Myself # Nobody
    BY NamesAssumption
  <2>4. s # Nobody <=> names = "all" \/ (names = "theirs" /\ u.by # Myself)
    BY <1>1, <1>3 DEF NameOf
  <2>5. s # Nobody => s = u.by
    BY <1>1 DEF NameOf
  <2>6. Direction(row, owner) # Nobody <=> owner = Myself /\ s # Nobody
    BY <1>5, <2>2, <2>3
  <2>7. Direction(row, owner) # Nobody => Direction(row, owner) = IF u.by = Myself THEN "out" ELSE "in"
    BY <2>2, <2>5, <2>6
  <2> QED BY <1>1, <1>6, <1>8, <2>4, <2>6, <2>7 DEF Readable
<1> QED BY <1>7, <1>8

TellsAs(u, form, names, sides, owner) ==
    /\ u.kind = "text" /\ form # "ambiguous"
    /\ sides \/ (owner = Myself /\ (names = "all" \/ (names = "theirs" /\ u.by # Myself)))

\* A record answers an utterance: on the right side, in all its words, as what
\* it was; it may be right about the time.
AnswersTo(r, u) ==
    /\ r.direction = IF u.by = Myself THEN "outgoing" ELSE "incoming"
    /\ r.words = WordsOf(u) /\ r.reaction = (u.kind = "reaction")

LEMMA RowRecordAnswers ==
    ASSUME NEW rows, NEW i, NEW u, Sayable(u), u.kind \in {"text", "undated"}, NEW form \in Forms,
           NEW names \in {"all", "none", "theirs"}, NEW sides \in BOOLEAN, NEW owner \in {Myself, Nobody},
           rows[i] = ReadAs(u, form, names, sides), TellsAs(u, form, names, sides, owner),
           NEW scope, NEW p, Address(rows, i, owner, scope) = <<"alias", p>>, <<"alias", p>> # Nobody
    PROVE  /\ AnswersTo(NormalizeSms(RowRecord(rows, i, owner, scope)), u)
           /\ NormalizeSms(RowRecord(rows, i, owner, scope)).at = MsAt(u.at)
           /\ NormalizeSms(RowRecord(rows, i, owner, scope)).addresses = {<<"alias", p>>}
<1>1. PICK r : r = RowRecord(rows, i, owner, scope)
  OBVIOUS
<1>2. u.at \in Nat /\ u.words \in Seq(Token) /\ Speech(u.words) /\ u.kind = "text"
  BY DEF Sayable, Utterance, TellsAs
<1>3. /\ RowMs(rows[i].time) = MsAt(u.at) /\ Direction(rows[i], owner) = IF u.by = Myself THEN "out" ELSE "in"
      /\ rows[i].body = u.words
  BY ReadableIs DEF TellsAs, ReadAs
<1>4. /\ r.type = (IF u.by = Myself THEN 2 ELSE 1) /\ r.date = MsAt(u.at) /\ r.address = <<"alias", p>>
      /\ r.body = u.words
  <2>1. Trim(u.words) = u.words
    BY <1>2, SpeechIs
  <2> QED BY <1>1, <1>3, <2>1 DEF RowRecord, Sms
<1>5. SmsDirection(r.type) = IF u.by = Myself THEN "outgoing" ELSE "incoming"
  <2>1. CASE u.by = Myself
    BY <1>4, <2>1 DEF SmsDirection
  <2>2. CASE u.by # Myself
    BY <1>4, <2>2 DEF SmsDirection
  <2> QED BY <2>1, <2>2
<1>6. ToMs(r.date) = MsAt(u.at)
  <2>1. MsAt(u.at) \in Nat /\ Threshold \in Nat /\ MsAt(u.at) >= Threshold
    BY <1>2, MsIs
  <2> QED BY <1>4, <2>1 DEF ToMs
<1>7. Coerce(r.body) = u.words /\ ~IsReaction(u.words)
  BY <1>2, <1>4, SpeechIs
<1>8. {E164(a) : a \in {r.address} \ {Nobody}} = {<<"alias", p>>}
  <2>1. {r.address} \ {Nobody} = {<<"alias", p>>}
    BY <1>4
  <2>2. E164(<<"alias", p>>) = <<"alias", p>>
    BY DEF E164
  <2> QED BY <2>1, <2>2
<1>9. PICK n : n = NormalizeSms(r)
  OBVIOUS
<1>10. /\ n.direction = SmsDirection(r.type) /\ n.at = ToMs(r.date) /\ n.words = Coerce(r.body)
       /\ n.addresses = {E164(a) : a \in {r.address} \ {Nobody}} /\ n.reaction = IsReaction(Coerce(r.body))
  BY <1>9 DEF NormalizeSms, Normalized
<1>11. WordsOf(u) = u.words
  BY <1>2 DEF WordsOf
<1>12. n.reaction = FALSE
  <2>1. IsReaction(Coerce(r.body)) = FALSE
    BY <1>7 DEF IsReaction
  <2> QED BY <1>10, <2>1
<1>13. (u.kind = "reaction") = FALSE
  BY <1>2
<1>14. n.direction = (IF u.by = Myself THEN "outgoing" ELSE "incoming") /\ n.words = WordsOf(u)
  BY <1>5, <1>7, <1>10, <1>11
<1>15. AnswersTo(n, u)
  BY <1>12, <1>13, <1>14 DEF AnswersTo
<1>16. n.at = MsAt(u.at) /\ n.addresses = {<<"alias", p>>}
  BY <1>6, <1>8, <1>10
<1> QED BY <1>1, <1>9, <1>15, <1>16

\* Who else is in a file of rows.
LEMMA OthersInRows ==
    ASSUME NEW talk, RowTalk(talk), NEW with, with \in SUBSET Others, with # {}, IsFiniteSet(with),
           \A i \in DOMAIN talk : talk[i].with = with, Heard(talk, with), NEW form \in Forms,
           NEW names \in {"all", "none", "theirs"}, NEW sides \in BOOLEAN, NEW owner \in {Myself, Nobody},
           NEW rows, rows = [i \in DOMAIN talk |-> ReadAs(talk[i], form, names, sides)]
    PROVE  /\ names = "none" => OtherSenders(rows, owner) = {}
           /\ names # "none" => with \subseteq OtherSenders(rows, owner) /\ OtherSenders(rows, owner) \subseteq with \cup {Myself}
<1>1. DOMAIN rows = DOMAIN talk /\ \A i \in DOMAIN talk : rows[i].sender = NameOf(talk[i], names)
  BY DEF ReadAs
<1>2. OtherSenders(rows, owner) = {NameOf(talk[i], names) : i \in DOMAIN talk} \ {owner, Nobody}
  BY <1>1 DEF OtherSenders
<1>3. CASE names = "none"
  <2>1. \A i \in DOMAIN talk : NameOf(talk[i], names) = Nobody
    BY <1>3 DEF NameOf
  <2> QED BY <1>2, <1>3, <2>1
<1>4. CASE names # "none"
  <2>1. ASSUME NEW i \in DOMAIN talk
        PROVE  /\ NameOf(talk[i], names) \in with \cup {Myself, Nobody}
               /\ talk[i].by # Myself => NameOf(talk[i], names) = talk[i].by
    <3>1. talk[i].by \in with \cup {Myself}
      BY DEF RowTalk, Sayable
    <3> QED BY <1>4, <3>1 DEF NameOf
  <2>2. ASSUME NEW p \in with PROVE p \in OtherSenders(rows, owner)
    <3>1. PICK i \in DOMAIN talk : talk[i].by = p
      BY DEF Heard
    <3>2. p # Myself /\ p # Nobody /\ p # owner
      BY NamesAssumption
    <3> QED BY <1>2, <2>1, <3>1, <3>2
  <2> QED BY <1>2, <1>4, <2>1, <2>2
<1> QED BY <1>3, <1>4

TellsIn(talk, form, names, sides, owner) == {i \in DOMAIN talk : TellsAs(talk[i], form, names, sides, owner)}

\* What is recorded of a file of rows.
RowsKept(r, talk, places, with, text) ==
    /\ Cardinality(places) \in Nat /\ text \in Texts
    /\ DOMAIN r.records = 1 .. Cardinality(places) /\ r.skipped = Len(talk) - Cardinality(places)
    /\ \E who : /\ "per person" \in r.problems \/ with = {who} \/ who = <<"unnamed", text>>
                /\ \A k \in 1 .. Cardinality(places) :
                      /\ AnswersTo(NormalizeSms(r.records[k]), talk[InOrder(places)[k]])
                      /\ NormalizeSms(r.records[k]).at = MsAt(talk[InOrder(places)[k]].at)
                      /\ "per person" \notin r.problems => NormalizeSms(r.records[k]).addresses = {<<"alias", who>>}

\* What is imported of a file of rows, and what the result says of the rest.
LEMMA RowsImported ==
    ASSUME NEW talk, RowTalk(talk), NEW with, with \in SUBSET Others, with # {}, IsFiniteSet(with),
           \A i \in DOMAIN talk : talk[i].with = with, Heard(talk, with), NEW form \in Forms,
           NEW names \in {"all", "none", "theirs"}, NEW sides \in BOOLEAN, NEW owner \in {Myself, Nobody},
           NEW text, text = RowsOf(talk, form, names, sides),
           NEW r, r = ParseGeneric(RowsIn(text), owner, <<"unnamed", text>>),
           NEW places, places = TellsIn(talk, form, names, sides, owner)
    PROVE  RowsKept(r, talk, places, with, text)
<1>1. PICK n \in Nat : n = Len(talk) /\ DOMAIN talk = 1 .. n
  BY DEF RowTalk
<1>2. PICK rows, scope : rows = [i \in DOMAIN talk |-> ReadAs(talk[i], form, names, sides)] /\ scope = <<"unnamed", text>>
  OBVIOUS
<1>3. RowsIn(text) = rows /\ text \in Texts
  BY <1>2, RowsRead, RowTextsRead DEF Texts
<1>4. Len(rows) = n /\ DOMAIN rows = 1 .. n /\ \A i \in 1 .. n : rows[i] = ReadAs(talk[i], form, names, sides)
  BY <1>1, <1>2
<1>5. \A i \in 1 .. n : Sayable(talk[i]) /\ talk[i].kind \in {"text", "undated"}
  BY <1>1 DEF RowTalk
<1>21. places = {i \in DOMAIN talk : TellsAs(talk[i], form, names, sides, owner)}
  BY DEF TellsIn
<1>6. ReadableRows(rows, owner) = places
  <2>1. ASSUME NEW i \in 1 .. n PROVE Readable(rows[i], owner) <=> TellsAs(talk[i], form, names, sides, owner)
    <3>1. PICK u : u = talk[i] /\ Sayable(u) /\ u.kind \in {"text", "undated"}
      BY <1>5
    <3>2. Readable(ReadAs(u, form, names, sides), owner) <=> TellsAs(u, form, names, sides, owner)
      BY <3>1, ReadableIs DEF TellsAs
    <3> QED BY <1>4, <3>1, <3>2
  <2> QED BY <1>1, <1>4, <1>21, <2>1 DEF ReadableRows
<1>7. places \in SUBSET (1 .. n)
  BY <1>1, <1>21
<1>8. PICK m, order : m = Cardinality(places) /\ order = InOrder(places)
  OBVIOUS
<1>9. m \in Nat /\ order \in [1 .. m -> places]
  BY SMTT(40), <1>7, <1>8, PlacesInOrder
<1>10. /\ r.records = [k \in DOMAIN order |-> RowRecord(rows, order[k], owner, scope)]
       /\ r.skipped = Len(rows) - m
       /\ "per person" \in r.problems <=> Cardinality(OtherSenders(rows, owner)) > 1
  <2>1. r = ParseGeneric(rows, owner, scope)
    BY <1>2, <1>3
  <2>2. /\ r.records = [k \in DOMAIN order |-> RowRecord(rows, order[k], owner, scope)]
        /\ r.skipped = Len(rows) - m
    <3>1. PICK ok, sorted : ok = ReadableRows(rows, owner) /\ sorted = InOrder(ok)
      OBVIOUS
    <3>2. /\ r.records = [k \in DOMAIN sorted |-> RowRecord(rows, sorted[k], owner, scope)]
          /\ r.skipped = Len(rows) - Cardinality(ok)
      BY ONLY <2>1, <3>1 DEF ParseGeneric
    <3>3. ok = places /\ sorted = order /\ Cardinality(ok) = m
      BY ONLY <1>6, <1>8, <3>1
    <3> QED BY ONLY <3>2, <3>3
  <2>3. "per person" \in r.problems <=> Cardinality(OtherSenders(rows, owner)) > 1
    <3>1. r.problems = Problems(rows, owner, scope)
      BY <2>1 DEF ParseGeneric
    <3>2. PICK a, b : /\ a = (IF Cardinality(ReadableRows(rows, owner)) < Len(rows) THEN {"skipped"} ELSE {})
                      /\ b = (IF \E i \in ReadableRows(rows, owner) : Address(rows, i, owner, scope) = <<"alias", scope>>
                              THEN {"unnamed"} ELSE {})
      OBVIOUS
    <3>3. "per person" \notin a /\ "per person" \notin b
      BY <3>2
    <3>4. r.problems = (IF Cardinality(OtherSenders(rows, owner)) > 1 THEN {"per person"} ELSE {}) \cup a \cup b
      BY <3>1, <3>2 DEF Problems
    <3> QED BY <3>3, <3>4
  <2> QED BY <2>2, <2>3
<1>11. PICK others : others = OtherSenders(rows, owner)
  OBVIOUS
<1>12. (names = "none" => others = {}) /\ (names # "none" => with \subseteq others /\ others \subseteq with \cup {Myself})
  BY <1>2, <1>11, OthersInRows
<1>13. IsFiniteSet(others) /\ Cardinality(others) \in Nat
  <2>1. IsFiniteSet({}) /\ IsFiniteSet(with \cup {Myself})
    BY FS_EmptySet, FS_AddElement
  <2>2. IsFiniteSet(others)
    <3>1. others \subseteq with \cup {Myself}
      BY <1>12
    <3> QED BY <2>1, <3>1, FS_Subset
  <2> QED BY <2>2, FS_CardinalityType
<1> DEFINE Who(i) == IF Cardinality(others) = 1 THEN CHOOSE p \in others : TRUE
                     ELSE IF rows[i].sender # Nobody THEN rows[i].sender ELSE scope
<1>14. \A i : Address(rows, i, owner, scope) = <<"alias", Who(i)>>
  BY <1>11 DEF Address
<1>15. ASSUME NEW i \in 1 .. n PROVE <<"alias", Who(i)>> # Nobody
  <2>1. with \subseteq Names /\ others \subseteq Names
    BY <1>12 DEF Names
  <2>2. rows[i].sender = Nobody \/ rows[i].sender \in Names
    <3>1. rows[i].sender = NameOf(talk[i], names)
      BY <1>4 DEF ReadAs
    <3>2. talk[i].by \in with \cup {Myself}
      BY <1>1, <1>5 DEF Sayable
    <3> QED BY <2>1, <3>1, <3>2 DEF NameOf, Names
  <2>3. Who(i) \in Names \cup ({"unnamed"} \X Texts)
    <3>1. scope \in {"unnamed"} \X Texts
      BY <1>2, <1>3
    <3>2. CASE Cardinality(others) = 1
      <4>1. others # {}
        <5>1. Cardinality({}) = 0
          BY ONLY FS_EmptySet
        <5>2. Cardinality(others) # 0
          BY ONLY <3>2
        <5> QED BY ONLY <5>1, <5>2, Zenon
      <4>2. (CHOOSE p \in others : TRUE) \in others
        BY <4>1
      <4> QED BY <2>1, <3>2, <4>2
    <3>3. CASE Cardinality(others) # 1
      BY <2>2, <3>1, <3>3
    <3> QED BY <3>2, <3>3
  <2> HIDE DEF Who
  <2> QED BY <2>3, NothingAssumption
<1>16. ASSUME NEW k \in 1 .. m
       PROVE  /\ AnswersTo(NormalizeSms(r.records[k]), talk[order[k]])
              /\ NormalizeSms(r.records[k]).at = MsAt(talk[order[k]].at)
              /\ NormalizeSms(r.records[k]).addresses = {<<"alias", Who(order[k])>>}
  <2>1. PICK i, u, p : i = order[k] /\ u = talk[i] /\ p = Who(i)
    OBVIOUS
  <2>2. i \in places /\ i \in 1 .. n
    BY <1>7, <1>9, <2>1
  <2>3. r.records[k] = RowRecord(rows, i, owner, scope)
    BY <1>9, <1>10, <2>1
  <2>4. /\ Sayable(u) /\ u.kind \in {"text", "undated"} /\ rows[i] = ReadAs(u, form, names, sides)
        /\ TellsAs(u, form, names, sides, owner)
    BY <1>4, <1>5, <1>21, <2>1, <2>2
  <2>5. Address(rows, i, owner, scope) = <<"alias", p>> /\ <<"alias", p>> # Nobody
    <3> HIDE DEF Who
    <3> QED BY <1>14, <1>15, <2>1, <2>2
  <2> HIDE DEF Who
  <2>6. /\ AnswersTo(NormalizeSms(RowRecord(rows, i, owner, scope)), u)
        /\ NormalizeSms(RowRecord(rows, i, owner, scope)).at = MsAt(u.at)
        /\ NormalizeSms(RowRecord(rows, i, owner, scope)).addresses = {<<"alias", p>>}
    BY <2>4, <2>5, RowRecordAnswers
  <2> QED BY <2>1, <2>3, <2>6
<1>17. ASSUME "per person" \notin r.problems
       PROVE  \E who : /\ with = {who} \/ who = scope
                       /\ \A i \in 1 .. n : Who(i) = who
  <2>1. CASE names = "none"
    <3>1. others = {} /\ Cardinality(others) = 0
      BY <1>12, <2>1, FS_EmptySet
    <3>2. \A i \in 1 .. n : rows[i].sender = Nobody
      BY <1>4, <2>1 DEF ReadAs, NameOf
    <3>3. \A i \in 1 .. n : Who(i) = scope
      BY <3>1, <3>2
    <3> QED BY <3>3
  <2>2. CASE names # "none"
    <3>1. others # {} /\ with \subseteq others
      BY <1>12, <2>2
    <3>2. Cardinality(others) # 0
      BY <1>13, <3>1, FS_EmptySet
    <3>3. Cardinality(others) = 1
      <4>1. ~(Cardinality(others) > 1)
        BY <1>10, <1>11, <1>17
      <4> QED BY <1>13, <3>2, <4>1
    <3>4. PICK p : others = {p}
      BY <1>13, <3>3, FS_Singleton
    <3>5. with = {p}
      BY <3>1, <3>4
    <3>6. \A i \in 1 .. n : Who(i) = p
      BY <3>3, <3>4
    <3> QED BY <3>5, <3>6
  <2> QED BY <2>1, <2>2
<1>18. DOMAIN r.records = 1 .. m /\ r.skipped = n - m
  BY <1>4, <1>9, <1>10
<1>19. \A k \in 1 .. m : order[k] \in 1 .. n
  BY <1>7, <1>9
<1>20. \E who : /\ "per person" \in r.problems \/ with = {who} \/ who = scope
                /\ \A k \in 1 .. m :
                      /\ AnswersTo(NormalizeSms(r.records[k]), talk[order[k]])
                      /\ NormalizeSms(r.records[k]).at = MsAt(talk[order[k]].at)
                      /\ "per person" \notin r.problems => NormalizeSms(r.records[k]).addresses = {<<"alias", who>>}
  <2> HIDE DEF Who
  <2>1. CASE "per person" \in r.problems
    BY <1>16, <2>1
  <2>2. CASE "per person" \notin r.problems
    <3>1. PICK who : (with = {who} \/ who = scope) /\ \A i \in 1 .. n : Who(i) = who
      BY <1>17, <2>2
    <3>2. \A k \in 1 .. m : NormalizeSms(r.records[k]).addresses = {<<"alias", who>>}
      BY <1>16, <1>19, <3>1
    <3> QED BY <1>16, <3>1, <3>2
  <2> QED BY <2>1, <2>2
<1> QED BY <1>1, <1>2, <1>3, <1>8, <1>9, <1>18, <1>20 DEF RowsKept

-----------------------------------------------------------------------------
(* The calendar *)

\* Whole days and what is left of one.
LEMMA DivModIs ==
    ASSUME NEW q \in Nat, NEW b \in Nat \ {0}, NEW r \in 0 .. (b - 1)
    PROVE  (b * q + r) \div b = q /\ (b * q + r) % b = r
  OBVIOUS

LEMMA DivMod ==
    ASSUME NEW a \in Nat, NEW b \in Nat \ {0}
    PROVE  \E q \in Nat, r \in 0 .. (b - 1) : a = b * q + r /\ a \div b = q /\ a % b = r
<1> DEFINE G == {i \in Nat : \E q \in Nat, r \in 0 .. (b - 1) : i = b * q + r}
<1>1. 0 \in G
  <2>1. 0 = b * 0 + 0 /\ 0 \in Nat /\ 0 \in 0 .. (b - 1)
    OBVIOUS
  <2> QED BY ONLY <2>1
<1>2. ASSUME NEW i \in Nat, i \in G PROVE i + 1 \in G
  <2>1. PICK q \in Nat, r \in 0 .. (b - 1) : i = b * q + r
    BY <1>2
  <2>2. CASE r < b - 1
    <3>1. i + 1 = b * q + (r + 1) /\ r + 1 \in 0 .. (b - 1)
      BY <2>1, <2>2
    <3> QED BY <3>1
  <2>3. CASE r = b - 1
    <3>1. PICK p \in Nat : p = q + 1
      OBVIOUS
    <3>2. i + 1 = b * p + 0 /\ 0 \in 0 .. (b - 1)
      BY <2>1, <2>3, <3>1
    <3> QED BY <3>2
  <2> QED BY <2>2, <2>3
<1> HIDE DEF G
<1>3. \A i \in 0 .. a : i \in G
  BY <1>1, <1>2, UpTo
<1>4. a \in G
  BY <1>3
<1>5. PICK q \in Nat, r \in 0 .. (b - 1) : a = b * q + r
  BY <1>4 DEF G
<1>6. (b * q + r) \div b = q /\ (b * q + r) % b = r
  BY DivModIs
<1> QED BY <1>5, <1>6

\* An hour on a clock of twelve is that hour.
LEMMA TwelveRead ==
    ASSUME NEW h \in 0 .. (2 * Half - 1), NEW c, c = ((h + Half - 1) % Half) + 1
    PROVE  /\ c \in Nat
           /\ h < Half => (IF c = Half THEN 0 ELSE c) = h
           /\ h >= Half => (IF c < Half THEN c + Half ELSE c) = h
<1>1. Half \in Nat \ {0}
  BY CalendarAssumption
<1>2. CASE h = 0
  <2>1. h + Half - 1 = Half * 0 + (Half - 1) /\ Half - 1 \in 0 .. (Half - 1)
    BY <1>1, <1>2
  <2>2. (h + Half - 1) % Half = Half - 1
    BY <1>1, <2>1, DivModIs
  <2> QED BY <1>1, <1>2, <2>2
<1>3. CASE h \in 1 .. Half
  <2>1. h + Half - 1 = Half * 1 + (h - 1) /\ h - 1 \in 0 .. (Half - 1)
    BY <1>1, <1>3
  <2>2. (h + Half - 1) % Half = h - 1
    BY <1>1, <2>1, DivModIs
  <2> QED BY <1>1, <1>3, <2>2
<1>4. CASE h \in (Half + 1) .. (2 * Half - 1)
  <2>1. h + Half - 1 = Half * 2 + (h - Half - 1) /\ h - Half - 1 \in 0 .. (Half - 1)
    BY <1>1, <1>4
  <2>2. (h + Half - 1) % Half = h - Half - 1
    BY <1>1, <2>1, DivModIs
  <2> QED BY <1>1, <1>4, <2>2
<1> QED BY <1>1, <1>2, <1>3, <1>4

\* The day and the month of an hour, in the calendar.
LEMMA CalendarRead ==
    ASSUME NEW at \in Nat, at < 2 * Half * MonthDays * Months,
           NEW hour, hour = at % (2 * Half), NEW date, date = at \div (2 * Half),
           NEW day, day = (date % MonthDays) + 1, NEW month, month = (date \div MonthDays) + 1
    PROVE  /\ hour \in 0 .. (2 * Half - 1) /\ day \in Nat /\ month \in 1 .. Months
           /\ Instant(month, day, hour) = at
<1>1. Half \in Nat \ {0} /\ MonthDays \in Nat \ {0} /\ Months \in Nat
  BY CalendarAssumption
<1>2. PICK b \in Nat \ {0} : b = 2 * Half
  BY <1>1
<1>3. PICK q \in Nat, r \in 0 .. (b - 1) : at = b * q + r /\ at \div b = q /\ at % b = r
  BY DivMod
<1>4. PICK m \in Nat, d \in 0 .. (MonthDays - 1) :
         q = MonthDays * m + d /\ q \div MonthDays = m /\ q % MonthDays = d
  BY <1>1, DivMod
<1>5. hour = r /\ date = q /\ day = d + 1 /\ month = m + 1
  BY <1>2, <1>3, <1>4
<1>6. hour \in 0 .. (2 * Half - 1) /\ day \in Nat /\ month \in Nat
  BY <1>1, <1>2, <1>5
<1>7. Instant(month, day, hour) = at
  <2>1. (month - 1) * MonthDays + day - 1 = q
    BY <1>1, <1>4, <1>5
  <2>2. Instant(month, day, hour) = q * b + r
    <3>1. PICK x : x = (month - 1) * MonthDays + day - 1
      OBVIOUS
    <3>2. Instant(month, day, hour) = x * 2 * Half + hour
      BY <3>1 DEF Instant
    <3>3. x = q
      BY <3>1, <2>1
    <3>4. q * 2 * Half = q * b
      BY <1>1, <1>2
    <3> QED BY <1>5, <3>2, <3>3, <3>4
  <2> QED BY <1>3, <2>2
<1>8. month <= Months
  <2>1. SUFFICES ASSUME m >= Months PROVE FALSE
    BY <1>1, <1>5
  <2>2. PICK e \in Nat : m = Months + e
    BY <1>1, <2>1
  <2>3. PICK f \in Nat : f = MonthDays * e + d
    BY <1>1
  <2>4. q = MonthDays * Months + f
    BY <1>1, <1>4, <2>2, <2>3
  <2>5. PICK g \in Nat : g = b * f + r
    OBVIOUS
  <2>6. at = b * (MonthDays * Months) + g
    BY <1>1, <1>3, <2>4, <2>5
  <2>7. 2 * Half * MonthDays * Months = b * (MonthDays * Months)
    BY <1>1, <1>2
  <2>8. b * (MonthDays * Months) \in Nat
    BY <1>1
  <2> QED BY <2>6, <2>7, <2>8
<1> QED BY <1>1, <1>5, <1>6, <1>7, <1>8

\* Words are cut at their line breaks; with these they are what they were.
LEMMA SubSeqGlued ==
    ASSUME NEW M, NEW body \in Seq(M), NEW c \in 1 .. Len(body), NEW d \in (c + 1) .. (Len(body) + 1),
           body[c] = Newline
    PROVE  SubSeq(body, 1, c - 1) \o (<<Newline>> \o SubSeq(body, c + 1, d - 1)) = SubSeq(body, 1, d - 1)
<1>1. PICK m \in Nat, e \in Nat : e = d - 1 /\ m = c - 1 /\ m + 1 = c
  OBVIOUS
<1>2. <<Newline>> \o SubSeq(body, c + 1, e) = SubSeq(body, c, e)
  BY <1>1, SubSeqRecursiveFirst
<1>3. SubSeq(body, 1, m) \o SubSeq(body, m + 1, e) = SubSeq(body, 1, e)
  BY <1>1, ConcatAdjacentSubSeq
<1> QED BY <1>1, <1>2, <1>3

LEMMA PiecesAre ==
    ASSUME NEW body \in Seq(Token)
    PROVE  \E n \in Nat \ {0} :
              /\ Pieces(body) \in Seq(Seq(Token)) /\ Len(Pieces(body)) = n /\ DOMAIN Pieces(body) = 1 .. n
              /\ [k \in 1 .. (n - 1) |-> <<Newline>> \o Pieces(body)[k + 1]] \in Seq(Seq(Token))
              /\ Pieces(body)[1] \o FlattenSeq([k \in 1 .. (n - 1) |-> <<Newline>> \o Pieces(body)[k + 1]]) = body
<1>1. PICK len \in Nat : len = Len(body) /\ DOMAIN body = 1 .. len
  OBVIOUS
<1>2. PICK breaks : breaks = {i \in DOMAIN body : body[i] = Newline}
  OBVIOUS
<1>3. PICK at : at = {0, len + 1} \cup breaks
  OBVIOUS
<1>4. at \in SUBSET Nat /\ at \in SUBSET (0 .. (len + 1)) /\ 0 \in at /\ len + 1 \in at
  BY <1>1, <1>2, <1>3
<1>5. IsFiniteSet(at)
  <2>1. IsFiniteSet(0 .. (len + 1))
    BY FS_Interval
  <2> QED BY <1>4, <2>1, FS_Subset
<1>6. PICK m, cuts : m = Cardinality(at) /\ cuts = InOrder(at)
  OBVIOUS
<1>7. /\ m \in Nat /\ cuts \in [1 .. m -> at]
      /\ \A i, j \in 1 .. m : i < j => cuts[i] < cuts[j]
      /\ \A x \in at : \E i \in 1 .. m : cuts[i] = x
  BY <1>4, <1>5, <1>6, InOrderIs
<1>8. m >= 2 /\ cuts[1] = 0 /\ cuts[m] = len + 1
  <2>1. PICK i, j \in 1 .. m : cuts[i] = 0 /\ cuts[j] = len + 1
    BY <1>4, <1>7
  <2>2. i # j
    BY <1>1, <2>1
  <2>3. m >= 2
    BY <1>7, <2>2
  <2>4. \A k \in 1 .. m : cuts[k] \in 0 .. (len + 1)
    BY <1>4, <1>7
  <2>5. i = 1
    <3>1. SUFFICES ASSUME 1 < i PROVE FALSE
      BY <1>7
    <3>2. cuts[1] < cuts[i] /\ cuts[1] \in 0 .. (len + 1)
      BY <1>7, <2>3, <2>4, <3>1
    <3> QED BY <2>1, <3>2
  <2>6. j = m
    <3>1. SUFFICES ASSUME j < m PROVE FALSE
      BY <1>7
    <3>2. cuts[j] < cuts[m] /\ cuts[m] \in 0 .. (len + 1)
      BY <1>7, <2>3, <2>4, <3>1
    <3> QED BY <1>1, <2>1, <3>2
  <2> QED BY <2>1, <2>3, <2>5, <2>6
<1>9. \A k \in 1 .. m : cuts[k] \in 0 .. (len + 1)
  BY <1>4, <1>7
<1>10. PICK n \in Nat \ {0} : n = m - 1 /\ m = n + 1
  BY <1>7, <1>8
<1>11. Pieces(body) = [k \in 1 .. n |-> SubSeq(body, cuts[k] + 1, cuts[k + 1] - 1)]
  <2>1. cuts = InOrder({0, Len(body) + 1} \cup {i \in DOMAIN body : body[i] = Newline})
    BY <1>1, <1>2, <1>3, <1>6
  <2>2. Len(cuts) = m
    BY <1>7
  <2> QED BY <1>10, <2>1, <2>2 DEF Pieces
<1>12. PICK pieces : pieces = Pieces(body)
  OBVIOUS
<1>13. \A k \in 1 .. n : pieces[k] = SubSeq(body, cuts[k] + 1, cuts[k + 1] - 1) /\ pieces[k] \in Seq(Token)
  <2>1. ASSUME NEW k \in 1 .. n
        PROVE  SubSeq(body, cuts[k] + 1, cuts[k + 1] - 1) \in Seq(Token)
    <3>1. PICK a, b \in Int : a = cuts[k] + 1 /\ b = cuts[k + 1] - 1
      <4>1. cuts[k] \in 0 .. (len + 1) /\ cuts[k + 1] \in 0 .. (len + 1)
        BY <1>9, <1>10
      <4> QED BY <4>1
    <3>2. \A i \in a .. b : body[i] \in Token
      <4>1. a >= 1 /\ b <= len
        <5>1. cuts[k] \in 0 .. (len + 1) /\ cuts[k + 1] \in 0 .. (len + 1)
          BY <1>9, <1>10
        <5> QED BY <3>1, <5>1
      <4>2. \A i \in 1 .. len : body[i] \in Token
        BY <1>1
      <4> QED BY <3>1, <4>1, <4>2
    <3>3. SubSeq(body, a, b) \in Seq(Token)
      BY <3>2, SubSeqProperties
    <3> QED BY <3>1, <3>3
  <2> QED BY <1>11, <1>12, <2>1
<1>14. pieces \in Seq(Seq(Token)) /\ Len(pieces) = n /\ DOMAIN pieces = 1 .. n
  BY <1>11, <1>12, <1>13
<1>15. PICK rest : rest = [k \in 1 .. (n - 1) |-> <<Newline>> \o pieces[k + 1]]
  OBVIOUS
<1>16. rest \in Seq(Seq(Token)) /\ Len(rest) = n - 1 /\ \A k \in 1 .. (n - 1) : rest[k] = <<Newline>> \o pieces[k + 1]
  <2>1. Newline \in Token
    BY DEF Newline, Token, Special
  <2>2. \A k \in 1 .. (n - 1) : <<Newline>> \o pieces[k + 1] \in Seq(Token)
    <3>1. \A k \in 1 .. (n - 1) : pieces[k + 1] \in Seq(Token)
      BY <1>13
    <3>2. <<Newline>> \in Seq(Token)
      BY <2>1
    <3> QED BY <3>1, <3>2, ConcatProperties
  <2> QED BY <1>15, <2>2
<1>17. PICK f : JoinedBy(Token, rest, f)
  BY <1>16, JoinedStepByStep
<1>18. /\ f \in [0 .. (n - 1) -> Seq(Token)] /\ f[0] = <<>>
       /\ \A i \in 1 .. (n - 1) : f[i] = f[i - 1] \o rest[i]
       /\ FlattenSeq(rest) = f[n - 1]
  BY <1>16, <1>17 DEF JoinedBy
<1> DEFINE G == {i \in 0 .. (n - 1) : pieces[1] \o f[i] = SubSeq(body, 1, cuts[i + 2] - 1)}
<1>19. 0 \in G
  <2>1. pieces[1] = SubSeq(body, 1, cuts[2] - 1) /\ pieces[1] \in Seq(Token)
    <3>1. 1 \in 1 .. n /\ cuts[1] + 1 = 1 /\ 1 + 1 = 2
      BY <1>8
    <3>2. pieces[1] = SubSeq(body, cuts[1] + 1, cuts[1 + 1] - 1) /\ pieces[1] \in Seq(Token)
      BY <1>13, <3>1
    <3> QED BY <3>1, <3>2
  <2>2. pieces[1] \o f[0] = pieces[1]
    BY <1>18, <2>1, ConcatEmptySeq
  <2> QED BY <2>1, <2>2
<1>20. ASSUME NEW i \in 0 .. ((n - 1) - 1), i \in G PROVE i + 1 \in G
  <2>1. PICK c, d \in Nat : c = cuts[i + 2] /\ d = cuts[i + 3]
    <3>1. i + 2 \in 1 .. m /\ i + 3 \in 1 .. m
      BY <1>10
    <3> QED BY <1>9, <3>1
  <2>2. c \in 1 .. len /\ d \in (c + 1) .. (len + 1) /\ body[c] = Newline
    <3>1. i + 2 \in 1 .. m /\ i + 3 \in 1 .. m /\ 1 \in 1 .. m
      BY <1>10
    <3>2. cuts[1] < c /\ c < d /\ d \in 0 .. (len + 1)
      BY <1>7, <1>9, <2>1, <3>1
    <3>3. c \in 1 .. len /\ d \in (c + 1) .. (len + 1)
      BY <1>8, <2>1, <3>2
    <3>4. c \in at
      BY <1>7, <2>1, <3>1
    <3> QED BY <1>2, <1>3, <3>3, <3>4
  <2>3. rest[i + 1] = <<Newline>> \o SubSeq(body, c + 1, d - 1)
    <3>1. i + 1 \in 1 .. (n - 1) /\ i + 2 \in 1 .. n /\ i + 2 + 1 = i + 3
      OBVIOUS
    <3>2. pieces[i + 2] = SubSeq(body, c + 1, d - 1)
      <4>1. PICK k : k = i + 2 /\ k \in 1 .. n /\ k + 1 = i + 3
        BY <3>1
      <4>2. pieces[k] = SubSeq(body, cuts[k] + 1, cuts[k + 1] - 1)
        BY <1>13, <4>1
      <4> QED BY <2>1, <4>1, <4>2
    <3>3. rest[i + 1] = <<Newline>> \o pieces[(i + 1) + 1]
      BY <1>16, <3>1
    <3>4. (i + 1) + 1 = i + 2
      OBVIOUS
    <3> QED BY <3>2, <3>3, <3>4
  <2>4. pieces[1] \o f[i] = SubSeq(body, 1, c - 1)
    BY <1>20, <2>1
  <2>5. f[i + 1] = f[i] \o rest[i + 1]
    <3>1. i + 1 \in 1 .. (n - 1) /\ (i + 1) - 1 = i
      OBVIOUS
    <3> QED BY <1>18, <3>1
  <2>6. pieces[1] \in Seq(Token) /\ f[i] \in Seq(Token) /\ rest[i + 1] \in Seq(Token)
    <3>1. i \in 0 .. (n - 1) /\ i + 1 \in 1 .. (n - 1) /\ 1 \in 1 .. n
      OBVIOUS
    <3>2. pieces[1] \in Seq(Token)
      BY <1>13, <3>1
    <3>3. f[i] \in Seq(Token)
      BY <1>18, <3>1
    <3>4. rest[i + 1] \in Seq(Token)
      BY <1>16, <3>1
    <3> QED BY <3>2, <3>3, <3>4
  <2>7. pieces[1] \o f[i + 1] = (pieces[1] \o f[i]) \o rest[i + 1]
    <3>1. PICK x, y, z \in Seq(Token) : x = pieces[1] /\ y = f[i] /\ z = rest[i + 1]
      BY <2>6
    <3>2. (x \o y) \o z = x \o (y \o z)
      BY ConcatAssociative
    <3> QED BY <2>5, <3>1, <3>2
  <2>8. SubSeq(body, 1, c - 1) \o (<<Newline>> \o SubSeq(body, c + 1, d - 1)) = SubSeq(body, 1, d - 1)
    BY <1>1, <2>2, SubSeqGlued
  <2>9. pieces[1] \o f[i + 1] = SubSeq(body, 1, cuts[(i + 1) + 2] - 1)
    <3>1. (i + 1) + 2 = i + 3
      OBVIOUS
    <3> QED BY <2>1, <2>3, <2>4, <2>7, <2>8, <3>1
  <2>10. i + 1 \in 0 .. (n - 1)
    OBVIOUS
  <2> QED BY <2>9, <2>10
<1> HIDE DEF G
<1>21. n - 1 \in G
  <2>1. PICK e \in Nat : e = n - 1
    OBVIOUS
  <2>2. \A i \in 0 .. (e - 1) : i \in G => i + 1 \in G
    BY <1>20, <2>1
  <2>3. \A i \in 0 .. e : i \in G
    BY <1>19, <2>2, UpTo
  <2> QED BY <2>1, <2>3
<1>22. pieces[1] \o FlattenSeq(rest) = body
  <2>1. pieces[1] \o f[n - 1] = SubSeq(body, 1, cuts[(n - 1) + 2] - 1)
    BY <1>21 DEF G
  <2>2. cuts[(n - 1) + 2] - 1 = len
    <3>1. (n - 1) + 2 = m
      BY <1>10
    <3> QED BY <1>8, <3>1
  <2>3. SubSeq(body, 1, len) = body
    BY <1>1, SubSeqFull
  <2> QED BY <1>18, <2>1, <2>2, <2>3
<1> QED BY <1>12, <1>14, <1>15, <1>16, <1>22

-----------------------------------------------------------------------------
(* Chats: what is written in lines is read as it was *)

ChatLines ==
    [stamped : BOOLEAN, c1 : Nat, c2 : Nat, hour : Nat, half : {"a", "p", Nobody},
     from : Names \cup {Nobody}, words : Seq(Token)]

InCalendar(at) == at \in Nat /\ at < 2 * Half * MonthDays * Months

StampOf(at, order, twelve, from, words) ==
    LET hour == at % (2 * Half)
        date == at \div (2 * Half)
        day == (date % MonthDays) + 1
        month == (date \div MonthDays) + 1
    IN Line(IF order = "dmy" THEN day ELSE month, IF order = "dmy" THEN month ELSE day,
            IF twelve THEN ((hour + Half - 1) % Half) + 1 ELSE hour,
            IF twelve THEN IF hour < Half THEN "a" ELSE "p" ELSE Nobody, from, words)

\* Every line is of the other lines' kind, and its stamp says the hour.
LEMMA StampRead ==
    ASSUME NEW at, InCalendar(at), NEW order \in Orders, NEW twelve \in BOOLEAN,
           NEW from \in Names \cup {Nobody}, NEW words \in Seq(Token),
           NEW l, l = StampOf(at, order, twelve, from, words)
    PROVE  /\ l \in ChatLines /\ l.stamped /\ l.from = from /\ l.words = words
           /\ StampMs(l, order) = MsAt(at)
           /\ order = "dmy" => l.c2 <= Months
           /\ order = "mdy" => l.c1 <= Months
<1>1. Half \in Nat \ {0} /\ Months \in Nat
  BY CalendarAssumption
<1> DEFINE hour == at % (2 * Half)
           date == at \div (2 * Half)
           day == (date % MonthDays) + 1
           month == (date \div MonthDays) + 1
<1>0. l = Line(IF order = "dmy" THEN day ELSE month, IF order = "dmy" THEN month ELSE day,
               IF twelve THEN ((hour + Half - 1) % Half) + 1 ELSE hour,
               IF twelve THEN IF hour < Half THEN "a" ELSE "p" ELSE Nobody, from, words)
  BY DEF StampOf
<1>2. hour \in 0 .. (2 * Half - 1) /\ day \in Nat /\ month \in 1 .. Months /\ Instant(month, day, hour) = at
  BY CalendarRead DEF InCalendar
<1> HIDE DEF hour, date, day, month
<1>3. PICK c : c = ((hour + Half - 1) % Half) + 1
  OBVIOUS
<1>4. /\ c \in Nat
      /\ hour < Half => (IF c = Half THEN 0 ELSE c) = hour
      /\ hour >= Half => (IF c < Half THEN c + Half ELSE c) = hour
  BY <1>2, <1>3, TwelveRead
<1>5. PICK half, h : /\ half = (IF twelve THEN IF hour < Half THEN "a" ELSE "p" ELSE Nobody)
                     /\ h = (IF twelve THEN c ELSE hour)
  OBVIOUS
<1>6. half \in {"a", "p", Nobody} /\ h \in Nat
  BY <1>1, <1>2, <1>4, <1>5
<1>7. /\ l.stamped /\ l.from = from /\ l.words = words /\ l.half = half /\ l.hour = h
      /\ l.c1 = (IF order = "dmy" THEN day ELSE month) /\ l.c2 = (IF order = "dmy" THEN month ELSE day)
  BY <1>0, <1>3, <1>5 DEF Line
<1>8. order \in {"dmy", "mdy"} /\ "dmy" # "mdy"
  BY DEF Orders
<1>9. l \in ChatLines
  <2>1. l = [stamped |-> TRUE, c1 |-> l.c1, c2 |-> l.c2, hour |-> h, half |-> half, from |-> from, words |-> words]
    BY <1>0, <1>7 DEF Line
  <2>2. l.c1 \in Nat /\ l.c2 \in Nat
    BY <1>1, <1>2, <1>7
  <2>3. PICK x, y \in Nat : x = l.c1 /\ y = l.c2
    BY <2>2
  <2>4. l = [stamped |-> TRUE, c1 |-> x, c2 |-> y, hour |-> h, half |-> half, from |-> from, words |-> words]
    BY <2>1, <2>3
  <2> QED BY ONLY <1>6, <2>4, x \in Nat, y \in Nat, from \in Names \cup {Nobody}, words \in Seq(Token)
      DEF ChatLines
<1>10. (IF half = "p" /\ h < Half THEN h + Half ELSE IF half = "a" /\ h = Half THEN 0 ELSE h) = hour
  <2>1. "a" # Nobody /\ "p" # Nobody /\ "a" # "p"
    BY NothingAssumption
  <2>2. CASE ~twelve
    BY <1>5, <2>1, <2>2
  <2>3. CASE twelve /\ hour < Half
    BY <1>4, <1>5, <2>1, <2>3
  <2>4. CASE twelve /\ ~(hour < Half)
    <3>1. hour >= Half
      BY <1>1, <1>2, <2>4
    <3> QED BY <1>4, <1>5, <2>1, <2>4, <3>1
  <2> QED BY <2>2, <2>3, <2>4
<1>11. (IF order = "dmy" THEN l.c1 ELSE l.c2) = day /\ (IF order = "dmy" THEN l.c2 ELSE l.c1) = month
  BY <1>7, <1>8
<1>12. StampMs(l, order) = MsAt(Instant(month, day, hour))
  BY <1>7, <1>10, <1>11 DEF StampMs
<1> QED BY <1>1, <1>2, <1>7, <1>8, <1>9, <1>12

\* What is written of an utterance: a line with a stamp, and lines that go on.
Written(u) == IF u.kind = "media" THEN Placeholder ELSE u.words

LEMMA WrittenIs ==
    ASSUME NEW u, Sayable(u)
    PROVE  /\ Written(u) \in Seq(Token) /\ Written(u) # <<>> /\ Last(Written(u)) # Newline
           /\ Written(u) = Placeholder <=> u.kind = "media"
<1>1. u \in Utterance /\ u.words \in Seq(Token)
  BY DEF Sayable, Utterance
<1>2. CASE u.kind = "media"
  <2>1. Placeholder \in Seq(Token) /\ Placeholder # <<>> /\ Last(Placeholder) # Newline
    <3>1. PICK t \in Token : t = <<"omitted", "">>
      BY DEF Token, Special
    <3>2. Placeholder = <<t>> /\ t # Newline
      BY <3>1 DEF Placeholder, Newline
    <3> QED BY <3>2 DEF Last
  <2> QED BY <1>2, <2>1 DEF Written
<1>3. CASE u.kind # "media"
  <2>1. Speech(u.words)
    BY <1>3 DEF Sayable
  <2> QED BY <1>1, <1>3, <2>1 DEF Written, Speech
<1> QED BY <1>2, <1>3

WrittenLines(u, order, lines, l, rest) ==
    /\ lines = <<l>> \o rest /\ l \in ChatLines /\ rest \in Seq(ChatLines)
    /\ l.stamped /\ l.from = u.by /\ StampMs(l, order) = MsAt(u.at)
    /\ order = "dmy" => l.c2 <= Months
    /\ order = "mdy" => l.c1 <= Months
    /\ \A k \in 1 .. Len(rest) : ~rest[k].stamped
    /\ [k \in 1 .. Len(rest) |-> <<Newline>> \o rest[k].words] \in Seq(Seq(Token))
    /\ l.words \o FlattenSeq([k \in 1 .. Len(rest) |-> <<Newline>> \o rest[k].words]) = Written(u)

LEMMA LinesAre ==
    ASSUME NEW u, Sayable(u), NEW order \in Orders, NEW twelve \in BOOLEAN
    PROVE  \E l, rest : WrittenLines(u, order, LinesOf(u, order, twelve), l, rest)
<1>1. InCalendar(u.at) /\ u.by \in Names \cup {Nobody}
  <2>1. u \in Utterance /\ u.at < 2 * Half * MonthDays * Months
    BY DEF Sayable
  <2>2. u.at \in Nat /\ u.by \in Others \cup {Myself, Nobody}
    BY <2>1 DEF Utterance
  <2> QED BY <2>1, <2>2 DEF Names, InCalendar
<1>2. PICK pieces : pieces = Pieces(Written(u))
  OBVIOUS
<1>3. PICK n \in Nat \ {0} :
         /\ pieces \in Seq(Seq(Token)) /\ Len(pieces) = n /\ DOMAIN pieces = 1 .. n
         /\ [k \in 1 .. (n - 1) |-> <<Newline>> \o pieces[k + 1]] \in Seq(Seq(Token))
         /\ pieces[1] \o FlattenSeq([k \in 1 .. (n - 1) |-> <<Newline>> \o pieces[k + 1]]) = Written(u)
  <2>1. PICK body \in Seq(Token) : body = Written(u)
    BY WrittenIs
  <2>2. \E n \in Nat \ {0} :
           /\ Pieces(body) \in Seq(Seq(Token)) /\ Len(Pieces(body)) = n /\ DOMAIN Pieces(body) = 1 .. n
           /\ [k \in 1 .. (n - 1) |-> <<Newline>> \o Pieces(body)[k + 1]] \in Seq(Seq(Token))
           /\ Pieces(body)[1] \o FlattenSeq([k \in 1 .. (n - 1) |-> <<Newline>> \o Pieces(body)[k + 1]]) = body
    BY Zenon, PiecesAre
  <2>3. pieces = Pieces(body)
    BY <1>2, <2>1
  <2> QED BY Zenon, <2>1, <2>2, <2>3
<1>6. PICK l : l = StampOf(u.at, order, twelve, u.by, pieces[1])
  OBVIOUS
<1>7. PICK rest : rest = [k \in 1 .. (n - 1) |-> Continuation(pieces[k + 1])]
  OBVIOUS
<1>8. LinesOf(u, order, twelve) = <<l>> \o rest
  BY <1>2, <1>3, <1>6, <1>7 DEF LinesOf, Written, StampOf
<1>9. \A k \in 1 .. n : pieces[k] \in Seq(Token)
  BY <1>3
<1>10. /\ l \in ChatLines /\ l.stamped /\ l.from = u.by /\ l.words = pieces[1]
       /\ StampMs(l, order) = MsAt(u.at)
       /\ order = "dmy" => l.c2 <= Months
       /\ order = "mdy" => l.c1 <= Months
  <2>1. pieces[1] \in Seq(Token)
    BY <1>9
  <2>2. PICK from \in Names \cup {Nobody}, words \in Seq(Token) : from = u.by /\ words = pieces[1]
    BY <1>1, <2>1
  <2>3. PICK at : at = u.at /\ InCalendar(at)
    BY <1>1
  <2>4. l = StampOf(at, order, twelve, from, words)
    BY <1>6, <2>2, <2>3
  <2>6. /\ l \in ChatLines /\ l.stamped /\ l.from = from /\ l.words = words
        /\ StampMs(l, order) = MsAt(at)
        /\ order = "dmy" => l.c2 <= Months
        /\ order = "mdy" => l.c1 <= Months
    BY <2>3, <2>4, StampRead
  <2> QED BY <2>2, <2>3, <2>6
<1>11. \A k \in 1 .. (n - 1) : /\ rest[k] \in ChatLines /\ ~rest[k].stamped
                               /\ rest[k].words = pieces[k + 1]
  <2>1. ASSUME NEW k \in 1 .. (n - 1), NEW c, c = Continuation(pieces[k + 1])
        PROVE  c \in ChatLines /\ ~c.stamped /\ c.words = pieces[k + 1]
    <3>1. PICK words \in Seq(Token) : words = pieces[k + 1]
      BY <1>9
    <3>2. c = [stamped |-> FALSE, c1 |-> 0, c2 |-> 0, hour |-> 0, half |-> Nobody, from |-> Nobody, words |-> words]
      BY <2>1, <3>1 DEF Continuation, Line
    <3> QED BY <3>1, <3>2 DEF ChatLines
  <2> QED BY <1>7, <2>1
<1>12. rest \in Seq(ChatLines) /\ Len(rest) = n - 1
  BY <1>7, <1>11
<1>13. [k \in 1 .. (n - 1) |-> <<Newline>> \o pieces[k + 1]] = [k \in 1 .. Len(rest) |-> <<Newline>> \o rest[k].words]
  BY <1>11, <1>12
<1>14. WrittenLines(u, order, LinesOf(u, order, twelve), l, rest)
  BY <1>3, <1>8, <1>10, <1>11, <1>12, <1>13 DEF WrittenLines
<1> QED BY <1>14

LEMMA TrimEndIs ==
    ASSUME NEW M, NEW body \in Seq(M), body # <<>>, Last(body) # Newline
    PROVE  TrimEnd(body) = body
<1>1. PICK n \in Nat : n = Len(body) /\ DOMAIN body = 1 .. n /\ n # 0
  OBVIOUS
<1>2. PICK ink : ink = {0} \cup {i \in DOMAIN body : body[i] # Newline}
  OBVIOUS
<1>3. n \in ink /\ \A i \in ink : i \in 0 .. n
  BY <1>1, <1>2 DEF Last
<1>4. Max(ink) = n
  <2>1. \A y \in ink : n >= y
    BY <1>3
  <2>2. \A x \in ink : (\A y \in ink : x >= y) => x = n
    BY <1>1, <1>3
  <2> QED BY <1>3, <2>1, <2>2 DEF Max
<1>5. SubSeq(body, 1, n) = body
  BY <1>1, SubSeqFull
<1> QED BY <1>2, <1>4, <1>5 DEF TrimEnd

\* A function that grows with every step, and what lies between its values.
LEMMA StrictlyGrows ==
    ASSUME NEW n \in Nat, NEW f \in [0 .. n -> Nat], \A i \in 1 .. n : f[i - 1] < f[i]
    PROVE  /\ \A i, j \in 0 .. n : i < j => f[i] < f[j]
           /\ \A x \in Nat : f[0] < x /\ x <= f[n] => \E i \in 1 .. n : f[i - 1] < x /\ x <= f[i]
<1>1. ASSUME NEW i \in 0 .. n PROVE \A j \in 0 .. n : i < j => f[i] < f[j]
  <2> DEFINE G == {k \in 0 .. n : i < k => f[i] < f[k]}
  <2>1. 0 \in G
    OBVIOUS
  <2>2. ASSUME NEW k \in 0 .. (n - 1), k \in G PROVE k + 1 \in G
    <3>1. k + 1 \in 1 .. n /\ (k + 1) - 1 = k
      OBVIOUS
    <3>2. f[k] < f[k + 1]
      BY <3>1
    <3>3. f[i] \in Nat /\ f[k] \in Nat /\ f[k + 1] \in Nat
      OBVIOUS
    <3>4. CASE i < k
      BY <2>2, <3>2, <3>3, <3>4
    <3>5. CASE ~(i < k)
      <4>1. i < k + 1 => i = k
        BY <3>5
      <4> QED BY <3>2, <4>1
    <3> QED BY <3>4, <3>5
  <2> HIDE DEF G
  <2>3. \A k \in 0 .. n : k \in G
    BY <2>1, <2>2, UpTo
  <2> QED BY <2>3 DEF G
<1>2. ASSUME NEW x \in Nat, f[0] < x, x <= f[n]
      PROVE  \E i \in 1 .. n : f[i - 1] < x /\ x <= f[i]
  <2>1. PICK i \in {k \in Nat : k \in 0 .. n /\ x <= f[k]} : \A k \in {k \in Nat : k \in 0 .. n /\ x <= f[k]} : i <= k
    <3>1. n \in {k \in Nat : k \in 0 .. n /\ x <= f[k]}
      BY <1>2
    <3> QED BY <3>1, LeastNatural
  <2>2. f[0] \in Nat /\ f[i] \in Nat
    BY <2>1
  <2>3. i # 0
    BY <1>2, <2>1, <2>2
  <2>4. i \in 1 .. n /\ i - 1 \in 0 .. n
    BY <2>1, <2>3
  <2>5. ~(x <= f[i - 1])
    <3>1. SUFFICES ASSUME x <= f[i - 1] PROVE FALSE
      OBVIOUS
    <3>2. i <= i - 1
      BY <2>1, <2>4, <3>1
    <3> QED BY <2>4, <3>2
  <2>6. f[i - 1] \in Nat
    BY <2>4
  <2> QED BY <2>1, <2>4, <2>5, <2>6
<1> QED BY <1>1, <1>2

LEMMA FlattenNothing == FlattenSeq(<<>>) = <<>>
<1>1. <<>> \in Seq(Seq({})) /\ Len(<<>>) = 0
  OBVIOUS
<1>2. PICK off : Offsets(<<>>, off)
  BY <1>1, OffsetsExist
<1>3. Len(FlattenSeq(<<>>)) = 0
  BY <1>1, <1>2 DEF Offsets
<1>4. FlattenSeq(<<>>) \in Seq({})
  BY <1>1, OffsetsExist
<1> QED BY <1>3, <1>4

\* The words of a line with a stamp and of those that go on with it.
LEMMA BodyRead ==
    ASSUME NEW lines \in Seq(ChatLines), NEW a \in 1 .. Len(lines), NEW e \in a .. Len(lines),
           \A j \in (a + 1) .. e : ~lines[j].stamped, e < Len(lines) => lines[e + 1].stamped,
           NEW rest \in Seq(ChatLines), Len(rest) = e - a, \A k \in 1 .. Len(rest) : lines[a + k] = rest[k],
           NEW ext \in Seq(Seq(Token)), ext = [k \in 1 .. Len(rest) |-> <<Newline>> \o rest[k].words],
           NEW body \in Seq(Token), body # <<>>, Last(body) # Newline,
           lines[a].words \o FlattenSeq(ext) = body
    PROVE  Body(lines, a) = body
<1>1. PICK n \in Nat, m \in Nat : n = Len(lines) /\ m = Len(rest) /\ m = e - a /\ e = a + m
  OBVIOUS
<1>2. PICK more : more = {j \in (a + 1) .. Len(lines) : \A k \in (a + 1) .. j : ~lines[k].stamped}
  OBVIOUS
<1>3. more = (a + 1) .. e
  <2>1. ASSUME NEW j \in (a + 1) .. e PROVE j \in more
    BY <1>2, <2>1
  <2>2. ASSUME NEW j \in more, ~(j \in (a + 1) .. e) PROVE FALSE
    <3>1. j \in (a + 1) .. n /\ \A k \in (a + 1) .. j : ~lines[k].stamped
      BY <1>1, <1>2
    <3>2. e + 1 \in (a + 1) .. j /\ e < n
      BY <2>2, <3>1
    <3> QED BY <1>1, <3>1, <3>2
  <2> QED BY <2>1, <2>2
<1>4. Cardinality(more) = m
  <2>1. PICK x \in Int : x = a + 1
    OBVIOUS
  <2>2. Cardinality(x .. e) = IF x > e THEN 0 ELSE e - x + 1
    BY FS_Interval
  <2> QED BY <1>1, <1>3, <2>1, <2>2
<1>5. Continued(lines, a) = SubSeq(lines, a + 1, e)
  BY <1>1, <1>2, <1>4 DEF Continued
<1>6. SubSeq(lines, a + 1, e) = rest
  <2>0. PICK x \in Int : x = a + 1
    OBVIOUS
  <2>1. PICK s : s = SubSeq(lines, x, e)
    OBVIOUS
  <2>2. \A i \in x .. e : lines[i] \in ChatLines
    BY <2>0
  <2>3. /\ s \in Seq(ChatLines)
        /\ Len(s) = IF x <= e THEN e - x + 1 ELSE 0
        /\ \A i \in 1 .. e - x + 1 : s[i] = lines[x + i - 1]
    BY <2>1, <2>2, SubSeqProperties
  <2>4. Len(s) = m /\ \A i \in 1 .. m : s[i] = lines[a + i]
    BY <1>1, <2>0, <2>3
  <2>5. \A i \in 1 .. m : s[i] = rest[i]
    BY <1>1, <2>4
  <2> QED BY <1>1, <2>0, <2>1, <2>3, <2>4, <2>5, SeqEqual
<1>7. lines[a] \in ChatLines /\ lines[a].words \in Seq(Token)
  <2>1. lines[a] \in ChatLines
    OBVIOUS
  <2> QED BY <2>1 DEF ChatLines
<1>8. CASE rest = <<>>
  <2>1. Body(lines, a) = lines[a].words
    BY <1>5, <1>6, <1>8 DEF Body
  <2>2. ext = <<>>
    BY <1>8
  <2>3. lines[a].words \o <<>> = lines[a].words
    BY <1>7, ConcatEmptySeq
  <2> QED BY <2>1, <2>2, <2>3, FlattenNothing
<1>9. CASE rest # <<>>
  <2>1. DOMAIN rest = 1 .. m
    BY <1>1
  <2>2. ext = [j \in DOMAIN rest |-> <<Newline>> \o rest[j].words]
    BY <1>1, <2>1
  <2>3. Body(lines, a) = TrimEnd(lines[a].words \o FlattenSeq(ext))
    BY <1>5, <1>6, <1>9, <2>2 DEF Body
  <2> QED BY <2>3, TrimEndIs
<1> QED BY <1>8, <1>9

ChatTalk(talk) ==
    /\ talk \in Seq(Utterance)
    /\ \A i \in DOMAIN talk : Sayable(talk[i]) /\ talk[i].kind \in {"text", "media", "notice"}

\* at: where in the file the lines with a stamp are.
StandsAt(talk, order, lines, at) ==
    /\ at \in [1 .. Len(talk) -> 1 .. Len(lines)]
    /\ \A i, j \in 1 .. Len(talk) : i < j => at[i] < at[j]
    /\ Stamped(lines) = {at[i] : i \in 1 .. Len(talk)}
    /\ \A i \in 1 .. Len(talk) :
          /\ lines[at[i]].from = talk[i].by
          /\ StampMs(lines[at[i]], order) = MsAt(talk[i].at)
          /\ Body(lines, at[i]) = Written(talk[i])
          /\ order = "dmy" => lines[at[i]].c2 <= Months
          /\ order = "mdy" => lines[at[i]].c1 <= Months

LEMMA ChatRead ==
    ASSUME NEW talk, ChatTalk(talk), NEW order \in Orders, NEW twelve \in BOOLEAN,
           NEW lines, lines = ChatOf(talk, order, twelve)
    PROVE  lines \in Seq(ChatLines) /\ \E at : StandsAt(talk, order, lines, at)
<1>1. PICK n \in Nat : n = Len(talk) /\ DOMAIN talk = 1 .. n /\ \A i \in 1 .. n : Sayable(talk[i])
  BY DEF ChatTalk
<1>2. PICK seqs : seqs = [i \in DOMAIN talk |-> LinesOf(talk[i], order, twelve)]
  OBVIOUS
<1>3. lines = FlattenSeq(seqs)
  BY <1>2 DEF ChatOf
<1>4. \A i \in 1 .. n : \E l, rest : WrittenLines(talk[i], order, seqs[i], l, rest)
  <2>1. ASSUME NEW i \in 1 .. n PROVE \E l, rest : WrittenLines(talk[i], order, seqs[i], l, rest)
    <3>1. PICK u, s : u = talk[i] /\ s = LinesOf(u, order, twelve) /\ s = seqs[i]
      BY <1>1, <1>2
    <3>2. Sayable(u)
      BY <1>1, <3>1
    <3>3. \E l, rest : WrittenLines(u, order, LinesOf(u, order, twelve), l, rest)
      BY <3>2, LinesAre
    <3> QED BY <3>1, <3>3
  <2> QED BY <2>1
<1>5. ASSUME NEW i \in 1 .. n
      PROVE  seqs[i] \in Seq(ChatLines) /\ Len(seqs[i]) >= 1
  <2>1. PICK l, rest : WrittenLines(talk[i], order, seqs[i], l, rest)
    BY <1>4
  <2>2. seqs[i] = <<l>> \o rest /\ l \in ChatLines /\ rest \in Seq(ChatLines)
    BY <2>1 DEF WrittenLines
  <2>3. <<l>> \in Seq(ChatLines) /\ Len(<<l>>) = 1
    BY <2>2
  <2>4. <<l>> \o rest \in Seq(ChatLines) /\ Len(<<l>> \o rest) = 1 + Len(rest)
    BY <2>2, <2>3, ConcatProperties
  <2> QED BY <2>2, <2>4
<1>6. seqs \in Seq(Seq(ChatLines)) /\ Len(seqs) = n
  BY <1>1, <1>2, <1>5
<1>7. PICK off : Offsets(seqs, off)
  BY <1>6, OffsetsExist
<1>8. lines \in Seq(ChatLines)
  BY <1>3, <1>6, OffsetsExist
<1>9. /\ off \in [0 .. n -> Nat] /\ off[0] = 0 /\ Len(lines) = off[n]
      /\ \A i \in 1 .. n :
            /\ off[i] = off[i - 1] + Len(seqs[i])
            /\ \A k \in 1 .. Len(seqs[i]) : lines[off[i - 1] + k] = seqs[i][k]
  BY <1>3, <1>6, <1>7 DEF Offsets
<1>10. \A i \in 1 .. n : off[i - 1] < off[i]
  <2>1. ASSUME NEW i \in 1 .. n PROVE off[i - 1] < off[i]
    <3>1. off[i] = off[i - 1] + Len(seqs[i]) /\ Len(seqs[i]) >= 1 /\ Len(seqs[i]) \in Nat
      BY <1>5, <1>9
    <3>2. i - 1 \in 0 .. n
      OBVIOUS
    <3>3. off[i - 1] \in Nat
      BY <1>9, <3>2
    <3> QED BY <3>1, <3>3
  <2> QED BY <2>1
<1>11. /\ \A i, j \in 0 .. n : i < j => off[i] < off[j]
       /\ \A x \in Nat : off[0] < x /\ x <= off[n] => \E i \in 1 .. n : off[i - 1] < x /\ x <= off[i]
  BY <1>9, <1>10, StrictlyGrows
<1>12. PICK at : at = [i \in 1 .. n |-> off[i - 1] + 1]
  OBVIOUS
<1>13. ASSUME NEW i \in 1 .. n
       PROVE  /\ off[i - 1] \in Nat /\ off[i] \in Nat /\ off[i - 1] < off[i] /\ off[i] <= Len(lines)
              /\ at[i] = off[i - 1] + 1 /\ at[i] \in 1 .. Len(lines) /\ at[i] \in Nat
  <2>1. i - 1 \in 0 .. n /\ i \in 0 .. n /\ n \in 0 .. n
    OBVIOUS
  <2>2. off[i - 1] \in Nat /\ off[i] \in Nat /\ off[n] \in Nat
    BY <1>9, <2>1
  <2>3. off[i - 1] < off[i]
    BY <1>10
  <2>4. off[i] <= off[n]
    <3>1. CASE i = n
      BY <2>2, <3>1
    <3>2. CASE i # n
      <4>1. i < n
        BY <3>2
      <4>2. off[i] < off[n]
        BY <1>11, <2>1, <4>1
      <4> QED BY <2>2, <4>2
    <3> QED BY <3>1, <3>2
  <2>5. at[i] = off[i - 1] + 1
    BY <1>12
  <2> QED BY <1>9, <2>2, <2>3, <2>4, <2>5
<1>14. ASSUME NEW i \in 1 .. n
       PROVE  /\ lines[at[i]].stamped
              /\ \A j \in (at[i] + 1) .. off[i] : ~lines[j].stamped
              /\ lines[at[i]].from = talk[i].by
              /\ StampMs(lines[at[i]], order) = MsAt(talk[i].at)
              /\ order = "dmy" => lines[at[i]].c2 <= Months
              /\ order = "mdy" => lines[at[i]].c1 <= Months
              /\ \E rest \in Seq(ChatLines) :
                    /\ Len(rest) = off[i] - at[i] /\ \A k \in 1 .. Len(rest) : lines[at[i] + k] = rest[k]
                    /\ [k \in 1 .. Len(rest) |-> <<Newline>> \o rest[k].words] \in Seq(Seq(Token))
                    /\ lines[at[i]].words \o FlattenSeq([k \in 1 .. Len(rest) |-> <<Newline>> \o rest[k].words])
                          = Written(talk[i])
  <2>1. PICK l, rest : WrittenLines(talk[i], order, seqs[i], l, rest)
    BY <1>4
  <2>2. /\ seqs[i] = <<l>> \o rest /\ l \in ChatLines /\ rest \in Seq(ChatLines)
        /\ l.stamped /\ l.from = talk[i].by /\ StampMs(l, order) = MsAt(talk[i].at)
        /\ order = "dmy" => l.c2 <= Months
        /\ order = "mdy" => l.c1 <= Months
        /\ \A k \in 1 .. Len(rest) : ~rest[k].stamped
        /\ [k \in 1 .. Len(rest) |-> <<Newline>> \o rest[k].words] \in Seq(Seq(Token))
        /\ l.words \o FlattenSeq([k \in 1 .. Len(rest) |-> <<Newline>> \o rest[k].words]) = Written(talk[i])
    BY <2>1 DEF WrittenLines
  <2>3. PICK m \in Nat : m = Len(rest)
    BY <2>2
  <2>4. Len(seqs[i]) = m + 1 /\ seqs[i][1] = l /\ \A k \in 1 .. m : seqs[i][k + 1] = rest[k]
    <3>1. <<l>> \in Seq(ChatLines) /\ Len(<<l>>) = 1 /\ <<l>>[1] = l
      BY <2>2
    <3>2. /\ Len(<<l>> \o rest) = 1 + m
          /\ \A k \in 1 .. 1 + m : (<<l>> \o rest)[k] = IF k <= 1 THEN <<l>>[k] ELSE rest[k - 1]
      BY <2>2, <2>3, <3>1, ConcatProperties
    <3> QED BY <2>2, <2>3, <3>1, <3>2
  <2>5. off[i] = off[i - 1] + (m + 1) /\ off[i] - at[i] = m
    <3>1. PICK x, y, z \in Nat : x = off[i - 1] /\ y = off[i] /\ z = at[i]
      BY <1>13
    <3>2. z = x + 1
      BY <1>13, <3>1
    <3>3. y = x + (m + 1)
      BY <1>9, <2>4, <3>1
    <3> QED BY <3>1, <3>2, <3>3
  <2>6. lines[at[i]] = l /\ \A k \in 1 .. m : lines[at[i] + k] = rest[k]
    <3>1. \A k \in 1 .. (m + 1) : lines[off[i - 1] + k] = seqs[i][k]
      BY <1>9, <2>4
    <3>2. lines[off[i - 1] + 1] = l
      BY <2>4, <3>1
    <3>3. ASSUME NEW k \in 1 .. m PROVE lines[at[i] + k] = rest[k]
      <4>1. k + 1 \in 1 .. (m + 1) /\ at[i] + k = off[i - 1] + (k + 1)
        <5>1. PICK x, z \in Nat : x = off[i - 1] /\ z = at[i]
          BY <1>13
        <5>2. z = x + 1
          BY <1>13, <5>1
        <5> QED BY <5>1, <5>2
      <4>2. lines[off[i - 1] + (k + 1)] = seqs[i][k + 1]
        BY <3>1, <4>1
      <4> QED BY <2>4, <4>1, <4>2
    <3> QED BY <1>13, <3>2, <3>3
  <2>7. ASSUME NEW j \in (at[i] + 1) .. off[i] PROVE ~lines[j].stamped
    <3>1. PICK k : k = j - at[i] /\ k \in 1 .. m /\ at[i] + k = j
      <4>1. PICK y, z \in Nat : y = off[i] /\ z = at[i]
        BY <1>13
      <4>2. y - z = m
        BY <2>5, <4>1
      <4>3. j \in (z + 1) .. y
        BY <2>7, <4>1
      <4>4. j - z \in 1 .. m /\ z + (j - z) = j
        BY <4>2, <4>3
      <4> QED BY <4>1, <4>4
    <3>2. lines[j] = rest[k] /\ ~rest[k].stamped
      BY <2>2, <2>3, <2>6, <3>1
    <3> QED BY <3>2
  <2>8. \A k \in 1 .. Len(rest) : lines[at[i] + k] = rest[k]
    BY <2>3, <2>6
  <2>9. lines[at[i]].words \o FlattenSeq([k \in 1 .. Len(rest) |-> <<Newline>> \o rest[k].words]) = Written(talk[i])
    BY <2>2, <2>6
  <2>10. Len(rest) = off[i] - at[i]
    BY <2>3, <2>5
  <2> QED BY <2>2, <2>6, <2>7, <2>8, <2>9, <2>10
<1>15. Stamped(lines) = {at[i] : i \in 1 .. n}
  <2>1. ASSUME NEW i \in 1 .. n PROVE at[i] \in Stamped(lines)
    BY <1>8, <1>13, <1>14 DEF Stamped
  <2>2. ASSUME NEW j \in Stamped(lines) PROVE \E i \in 1 .. n : j = at[i]
    <3>1. j \in 1 .. Len(lines) /\ lines[j].stamped
      BY <1>8 DEF Stamped
    <3>2. j \in Nat /\ off[0] < j /\ j <= off[n]
      BY <1>9, <3>1
    <3>3. PICK i \in 1 .. n : off[i - 1] < j /\ j <= off[i]
      BY <1>11, <3>2
    <3>4. ~(j \in (at[i] + 1) .. off[i])
      BY <1>14, <3>1
    <3>5. j = at[i]
      BY <1>13, <3>2, <3>3, <3>4
    <3> QED BY <3>5
  <2> QED BY <2>1, <2>2
<1>16. \A i, j \in 1 .. n : i < j => at[i] < at[j]
  <2>1. ASSUME NEW i \in 1 .. n, NEW j \in 1 .. n, i < j PROVE at[i] < at[j]
    <3>1. i - 1 \in 0 .. n /\ j - 1 \in 0 .. n /\ i - 1 < j - 1
      BY <2>1
    <3>2. off[i - 1] < off[j - 1]
      BY <1>11, <3>1
    <3> QED BY <1>13, <3>2
  <2> QED BY <2>1
<1>17. ASSUME NEW i \in 1 .. n PROVE Body(lines, at[i]) = Written(talk[i])
  <2>1. PICK rest \in Seq(ChatLines) :
           /\ Len(rest) = off[i] - at[i] /\ \A k \in 1 .. Len(rest) : lines[at[i] + k] = rest[k]
           /\ [k \in 1 .. Len(rest) |-> <<Newline>> \o rest[k].words] \in Seq(Seq(Token))
           /\ lines[at[i]].words \o FlattenSeq([k \in 1 .. Len(rest) |-> <<Newline>> \o rest[k].words])
                 = Written(talk[i])
    BY <1>14
  <2>2. PICK a, e : a = at[i] /\ e = off[i]
    OBVIOUS
  <2>3. a \in 1 .. Len(lines) /\ e \in a .. Len(lines)
    BY SMTT(40), <1>8, <1>13, <2>2
  <2>4. \A j \in (a + 1) .. e : ~lines[j].stamped
    BY <1>14, <2>2
  <2>5. ASSUME e < Len(lines) PROVE lines[e + 1].stamped
    <3>1. i # n
      BY <1>9, <2>2, <2>3, <2>5
    <3>2. i + 1 \in 1 .. n /\ (i + 1) - 1 = i
      BY <3>1
    <3>3. at[i + 1] = e + 1
      BY <1>13, <2>2, <3>2
    <3>4. lines[at[i + 1]].stamped
      BY <1>14, <3>2
    <3> QED BY <3>3, <3>4
  <2>6. PICK ext, body : ext = [k \in 1 .. Len(rest) |-> <<Newline>> \o rest[k].words] /\ body = Written(talk[i])
    OBVIOUS
  <2>7. body \in Seq(Token) /\ body # <<>> /\ Last(body) # Newline
    BY <1>1, <2>6, WrittenIs
  <2>8. ext \in Seq(Seq(Token)) /\ lines[a].words \o FlattenSeq(ext) = body
    BY <2>1, <2>2, <2>6
  <2>9. Len(rest) = e - a /\ \A k \in 1 .. Len(rest) : lines[a + k] = rest[k]
    BY <2>1, <2>2
  <2>10. Body(lines, a) = body
    BY <1>8, <2>3, <2>4, <2>5, <2>6, <2>7, <2>8, <2>9, BodyRead
  <2> QED BY <2>2, <2>6, <2>10
<1>18. at \in [1 .. n -> 1 .. Len(lines)]
  BY <1>12, <1>13
<1>19. StandsAt(talk, order, lines, at)
  BY <1>1, <1>14, <1>15, <1>16, <1>17, <1>18 DEF StandsAt
<1> QED BY <1>8, <1>19

-----------------------------------------------------------------------------
(* Records: what every reader makes of a row *)

\* What a record of an utterance says is no word of a program's.
LEMMA WordsAre ==
    ASSUME NEW u, Sayable(u)
    PROVE  /\ WordsOf(u) \in Seq(Token) /\ Coerce(WordsOf(u)) = WordsOf(u)
           /\ IsReaction(WordsOf(u)) <=> u.kind = "reaction"
<1>1. u.words \in Seq(Token) /\ (u.kind # "media" => Speech(u.words))
  BY DEF Sayable, Utterance
<1>2. CASE u.kind = "media"
  <2>1. WordsOf(u) = <<>>
    BY <1>2 DEF WordsOf
  <2> QED BY <1>2, <2>1 DEF Coerce, IsReaction
<1>3. CASE u.kind = "reaction"
  <2>1. PICK words : words = WordsOf(u) /\ words = <<Verb>> \o u.words
    BY <1>3 DEF WordsOf
  <2>2. PICK v \in Token : v = Verb
    BY DEF Verb, Token, Special
  <2>3. <<v>> \in Seq(Token) /\ Len(<<v>>) = 1 /\ <<v>>[1] = v
    OBVIOUS
  <2>4. PICK n \in Nat : n = Len(u.words)
    BY <1>1
  <2>5. /\ <<v>> \o u.words \in Seq(Token) /\ Len(<<v>> \o u.words) = 1 + n
        /\ \A k \in 1 .. 1 + n : (<<v>> \o u.words)[k] = IF k <= 1 THEN <<v>>[k] ELSE u.words[k - 1]
    BY <1>1, <2>3, <2>4, ConcatProperties
  <2>6. words \in Seq(Token) /\ words # <<>> /\ words[1] = v
    BY <2>1, <2>2, <2>3, <2>4, <2>5
  <2>7. Head(words) = Verb /\ words # <<Null>>
    <3>1. Head(words) = words[1]
      BY <2>6
    <3>2. v # Null
      BY <2>2 DEF Verb, Null
    <3>3. <<Null>>[1] = Null
      OBVIOUS
    <3> QED BY <2>2, <2>6, <3>1, <3>2, <3>3
  <2> QED BY <1>3, <2>1, <2>6, <2>7 DEF Coerce, IsReaction
<1>4. CASE u.kind = "unsent"
  <2>1. PICK t \in Token : t = <<"unsent", "">>
    BY DEF Token, Special
  <2>2. WordsOf(u) = <<t>> /\ t # Null /\ t # Verb
    BY <1>4, <2>1 DEF WordsOf, Unsent, Null, Verb
  <2> QED BY <1>4, <2>2 DEF Coerce, IsReaction
<1>5. CASE u.kind = "unreadable"
  <2>1. PICK t \in Token : t = <<"unreadable", "">>
    BY DEF Token, Special
  <2>2. WordsOf(u) = <<t>> /\ t # Null /\ t # Verb
    BY <1>5, <2>1 DEF WordsOf, Unreadable, Null, Verb
  <2> QED BY <1>5, <2>2 DEF Coerce, IsReaction
<1>6. CASE u.kind \notin {"media", "reaction", "unsent", "unreadable"}
  <2>1. WordsOf(u) = u.words
    BY <1>6 DEF WordsOf
  <2> QED BY <1>1, <1>6, <2>1, SpeechIs
<1> QED BY <1>2, <1>3, <1>4, <1>5, <1>6

\* A row of the right type, with these words, answers.
LEMMA SmsAnswers ==
    ASSUME NEW u, Sayable(u), NEW r, NEW a, r.type = IF u.by = Myself THEN 2 ELSE 1,
           r.body = WordsOf(u), r.address = a, a # Nobody
    PROVE  /\ AnswersTo(NormalizeSms(r), u) /\ NormalizeSms(r).addresses = {E164(a)}
           /\ NormalizeSms(r).at = ToMs(r.date)
<1>1. SmsDirection(r.type) = IF u.by = Myself THEN "outgoing" ELSE "incoming"
  <2>1. CASE u.by = Myself
    BY <2>1 DEF SmsDirection
  <2>2. CASE u.by # Myself
    BY <2>2 DEF SmsDirection
  <2> QED BY <2>1, <2>2
<1>2. Coerce(r.body) = WordsOf(u) /\ (IsReaction(WordsOf(u)) <=> u.kind = "reaction")
  BY WordsAre
<1>3. {r.address} \ {Nobody} = {a}
  OBVIOUS
<1>4. {E164(x) : x \in {r.address} \ {Nobody}} = {E164(a)}
  BY <1>3
<1>5. PICK n : n = NormalizeSms(r)
  OBVIOUS
<1>6. /\ n.direction = SmsDirection(r.type) /\ n.at = ToMs(r.date) /\ n.words = Coerce(r.body)
      /\ n.addresses = {E164(x) : x \in {r.address} \ {Nobody}}
  BY <1>5 DEF NormalizeSms, Normalized
<1>7. n.reaction = (u.kind = "reaction")
  <2>1. n.reaction = IsReaction(Coerce(r.body))
    BY <1>5 DEF NormalizeSms, Normalized
  <2>2. IsReaction(Coerce(r.body)) = (u.kind = "reaction")
    <3>1. CASE u.kind = "reaction"
      <4>1. (u.kind = "reaction") = TRUE
        BY <3>1
      <4>2. IsReaction(Coerce(r.body)) = TRUE
        BY <1>2, <3>1 DEF IsReaction
      <4> QED BY <4>1, <4>2
    <3>2. CASE u.kind # "reaction"
      <4>1. (u.kind = "reaction") = FALSE
        BY <3>2
      <4>2. IsReaction(Coerce(r.body)) = FALSE
        BY <1>2, <3>2 DEF IsReaction
      <4> QED BY <4>1, <4>2
    <3> QED BY <3>1, <3>2
  <2> QED BY <2>1, <2>2
<1>8. AnswersTo(n, u)
  BY <1>1, <1>2, <1>6, <1>7 DEF AnswersTo
<1> QED BY <1>4, <1>5, <1>6, <1>8

LEMMA MsKept ==
    ASSUME NEW h \in Nat
    PROVE  ToMs(MsAt(h)) = MsAt(h) /\ (SecondsAt(h) < Threshold => ToMs(SecondsAt(h)) = MsAt(h))
<1>1. /\ MsAt(h) \in Nat /\ Threshold \in Nat /\ MsAt(h) >= Threshold /\ SecondsAt(h) * Scale = MsAt(h)
  BY MsIs
<1> QED BY <1>1 DEF ToMs

-----------------------------------------------------------------------------
(* Chats, imported *)

\* A date that the file proves is in the order it was written in.
LEMMA OrderInferred ==
    ASSUME NEW talk, NEW order \in Orders, NEW lines \in Seq(ChatLines), NEW at, StandsAt(talk, order, lines, at),
           InferDateOrder(lines).proven
    PROVE  InferDateOrder(lines).order = order
<1>1. Months \in Nat
  BY CalendarAssumption
<1>2. PICK dayFirst, monthFirst : /\ dayFirst = (\E i \in Stamped(lines) : lines[i].c1 > Months)
                                  /\ monthFirst = (\E i \in Stamped(lines) : lines[i].c2 > Months)
  OBVIOUS
<1>3. ASSUME NEW j \in Stamped(lines)
      PROVE  /\ lines[j].c1 \in Nat /\ lines[j].c2 \in Nat
             /\ order = "dmy" => lines[j].c2 <= Months
             /\ order = "mdy" => lines[j].c1 <= Months
  <2>1. lines[j] \in ChatLines
    BY DEF Stamped
  <2>2. PICK i \in 1 .. Len(talk) : j = at[i]
    BY DEF StandsAt
  <2> QED BY <2>1, <2>2 DEF StandsAt, ChatLines
<1>4. order = "dmy" => ~monthFirst
  BY <1>1, <1>2, <1>3
<1>5. order = "mdy" => ~dayFirst
  BY <1>1, <1>2, <1>3
<1>6. InferDateOrder(lines).order = (IF monthFirst /\ ~dayFirst THEN "mdy" ELSE "dmy")
  BY <1>2 DEF InferDateOrder
<1>7. dayFirst # monthFirst
  BY <1>2 DEF InferDateOrder
<1>8. dayFirst \in BOOLEAN /\ monthFirst \in BOOLEAN
  BY <1>2
<1>9. order \in {"dmy", "mdy"}
  BY DEF Orders
<1> QED BY <1>4, <1>5, <1>6, <1>7, <1>8, <1>9

OfOne(talk, with) ==
    /\ with \in SUBSET Others /\ with # {} /\ IsFiniteSet(with)
    /\ \A i \in DOMAIN talk : talk[i].with = with
    /\ Heard(talk, with)

Speaking(talk) == {i \in DOMAIN talk : talk[i].kind \in {"text", "media"}}
Speakers(talk) == {talk[i].by : i \in Speaking(talk)}
StandingAt(at, places) == {at[i] : i \in places}

\* Those who spoke in a chat are its participants; a notice is of nobody.
LEMMA ParticipantsAre ==
    ASSUME Abbreviated \cap Names = {}, NEW talk, ChatTalk(talk), NEW with, OfOne(talk, with),
           NEW order \in Orders, NEW lines \in Seq(ChatLines), NEW at, StandsAt(talk, order, lines, at), NEW forced
    PROVE  /\ ScanWhatsApp(lines, forced).messages = StandingAt(at, Speaking(talk))
           /\ \A i \in Speaking(talk) : Sender(lines[at[i]]) = talk[i].by /\ talk[i].by \in with \cup {Myself}
           /\ ScanWhatsApp(lines, forced).participants = Speakers(talk)
           /\ with \subseteq Speakers(talk) /\ Speakers(talk) \subseteq with \cup {Myself}
<1>0. PICK places : places = Speaking(talk) /\ places = {i \in DOMAIN talk : talk[i].kind \in {"text", "media"}}
  BY DEF Speaking
<1>1. PICK n \in Nat : n = Len(talk) /\ DOMAIN talk = 1 .. n
  BY DEF ChatTalk
<1>2. \A i \in 1 .. n : Sayable(talk[i]) /\ talk[i].kind \in {"text", "media", "notice"}
  BY <1>1 DEF ChatTalk
<1>3. ASSUME NEW i \in 1 .. n
      PROVE  /\ IF i \in places THEN talk[i].by \in with \cup {Myself} ELSE talk[i].by = Nobody
             /\ Sender(lines[at[i]]) = talk[i].by
  <2>1. IF talk[i].kind = "notice" THEN talk[i].by = Nobody ELSE talk[i].by \in with \cup {Myself}
    BY <1>1, <1>2 DEF Sayable, OfOne
  <2>2. i \in places <=> talk[i].kind # "notice"
    BY <1>0, <1>1, <1>2
  <2>3. lines[at[i]].from = talk[i].by
    BY <1>1 DEF StandsAt
  <2>4. talk[i].by \in Abbreviated => talk[i].by = Nobody
    BY <2>1 DEF Names, OfOne
  <2> QED BY <2>1, <2>2, <2>3, <2>4 DEF Sender
<1>4. Nobody \notin with \cup {Myself}
  BY NamesAssumption DEF OfOne
<1>5. PICK spoken : spoken = {j \in Stamped(lines) : Sender(lines[j]) # Nobody}
  OBVIOUS
<1>6. Stamped(lines) = {at[i] : i \in 1 .. n}
  BY <1>1 DEF StandsAt
<1>7. places \subseteq 1 .. n
  BY <1>0, <1>1
<1>8. spoken = {at[i] : i \in places}
  <2>1. ASSUME NEW j \in spoken PROVE j \in {at[i] : i \in places}
    <3>1. PICK i \in 1 .. n : j = at[i] /\ Sender(lines[j]) # Nobody
      BY <1>5, <1>6
    <3>2. i \in places
      BY <1>3, <3>1
    <3> QED BY <3>1, <3>2
  <2>2. ASSUME NEW i \in places PROVE at[i] \in spoken
    <3>1. i \in 1 .. n /\ at[i] \in Stamped(lines)
      BY <1>6, <1>7
    <3>2. Sender(lines[at[i]]) # Nobody
      BY <1>3, <1>4, <3>1
    <3> QED BY <1>5, <3>1, <3>2
  <2> QED BY <2>1, <2>2
<1>9. ScanWhatsApp(lines, forced).messages = spoken /\ ScanWhatsApp(lines, forced).participants = {Sender(lines[j]) : j \in spoken}
  BY <1>5 DEF ScanWhatsApp
<1>10. {Sender(lines[j]) : j \in spoken} = {talk[i].by : i \in places}
  <2>1. \A i \in places : at[i] \in spoken /\ Sender(lines[at[i]]) = talk[i].by
    BY <1>3, <1>7, <1>8
  <2>2. \A j \in spoken : \E i \in places : Sender(lines[j]) = talk[i].by
    BY <1>8, <2>1
  <2>3. \A x \in {Sender(lines[j]) : j \in spoken} : x \in {talk[i].by : i \in places}
    BY <2>2
  <2>4. \A x \in {talk[i].by : i \in places} : x \in {Sender(lines[j]) : j \in spoken}
    BY <2>1
  <2> QED BY <2>3, <2>4
<1>11. with \subseteq {talk[i].by : i \in places}
  <2>1. ASSUME NEW p \in with PROVE p \in {talk[i].by : i \in places}
    <3>1. PICK i \in 1 .. n : talk[i].by = p
      BY <1>1 DEF Heard, OfOne
    <3>2. i \in places
      BY <1>3, <1>4, <3>1
    <3> QED BY <3>1, <3>2
  <2> QED BY <2>1
<1>12. ASSUME NEW i \in places PROVE Sender(lines[at[i]]) = talk[i].by /\ talk[i].by \in with \cup {Myself}
  BY <1>3, <1>7
<1>13. Speakers(talk) = {talk[i].by : i \in places} /\ StandingAt(at, places) = spoken
  BY <1>0, <1>8 DEF Speakers, StandingAt
<1>14. {talk[i].by : i \in places} \subseteq with \cup {Myself}
  BY <1>12
<1> QED BY <1>0, <1>9, <1>10, <1>11, <1>12, <1>13, <1>14

\* What is recorded of a chat.
ChatKept(r, talk, places, with, order, forced) ==
    /\ Cardinality(places) \in Nat /\ DOMAIN r.records = 1 .. Cardinality(places)
    /\ \E p : /\ with = {p}
              /\ \A k \in 1 .. Cardinality(places) :
                    /\ AnswersTo(NormalizeSms(r.records[k]), talk[InOrder(places)[k]])
                    /\ NormalizeSms(r.records[k]).addresses = {<<"alias", p>>}
                    /\ r.proven /\ forced \in {order, Nobody} =>
                          NormalizeSms(r.records[k]).at = MsAt(talk[InOrder(places)[k]].at)

\* What is imported of a chat.
LEMMA ChatImported ==
    ASSUME Abbreviated \cap Names = {}, NEW talk, ChatTalk(talk), NEW with, OfOne(talk, with),
           NEW order \in Orders, NEW twelve \in BOOLEAN, NEW owner \in {Myself, Nobody},
           NEW forced \in Orders \cup {Nobody}, NEW lines, lines = ChatOf(talk, order, twelve),
           NEW r, r = ParseWhatsApp(lines, owner, forced), r.refused = Nobody,
           NEW places, places = Speaking(talk)
    PROVE  ChatKept(r, talk, places, with, order, forced)
<1>1. PICK n \in Nat : n = Len(talk) /\ DOMAIN talk = 1 .. n
  BY DEF ChatTalk
<1>2. \A i \in 1 .. n : Sayable(talk[i]) /\ talk[i].kind \in {"text", "media", "notice"}
  BY <1>1 DEF ChatTalk
<1>3. lines \in Seq(ChatLines) /\ \E at : StandsAt(talk, order, lines, at)
  BY ChatRead
<1>4. PICK at : StandsAt(talk, order, lines, at)
  BY <1>3
<1>5. PICK scan, others, speakers : /\ scan = ScanWhatsApp(lines, forced) /\ others = scan.participants \ {owner}
                                    /\ speakers = Speakers(talk)
  OBVIOUS
<1>6. /\ scan.messages = StandingAt(at, places) /\ scan.participants = speakers
      /\ \A i \in places : Sender(lines[at[i]]) = talk[i].by /\ talk[i].by \in with \cup {Myself}
      /\ with \subseteq speakers /\ speakers \subseteq with \cup {Myself}
  <2>1. lines \in Seq(ChatLines)
    BY <1>3
  <2>2. /\ ScanWhatsApp(lines, forced).messages = StandingAt(at, Speaking(talk))
        /\ \A i \in Speaking(talk) : Sender(lines[at[i]]) = talk[i].by /\ talk[i].by \in with \cup {Myself}
        /\ ScanWhatsApp(lines, forced).participants = Speakers(talk)
        /\ with \subseteq Speakers(talk) /\ Speakers(talk) \subseteq with \cup {Myself}
    BY <1>4, <2>1, ParticipantsAre
  <2> QED BY <1>5, <2>2
<1>7. "owner" # Nobody /\ "group" # Nobody /\ Nobody \notin Orders
  BY NothingAssumption
<1>8. owner \in scan.participants /\ ~(Cardinality(others) > 1)
  BY <1>5, <1>7 DEF ParseWhatsApp
<1>9. owner = Myself
  <2>1. Nobody \notin with \cup {Myself}
    BY NamesAssumption DEF OfOne
  <2> QED BY <1>6, <1>8, <2>1
<1>10. others = with
  <2>1. Myself \notin with
    BY NamesAssumption DEF OfOne
  <2> QED BY <1>5, <1>6, <1>9, <2>1
<1>11. PICK p : with = {p}
  <2>1. Cardinality(with) \in Nat /\ Cardinality(with) # 0
    BY FS_CardinalityType, FS_EmptySet DEF OfOne
  <2>2. Cardinality(with) = 1
    BY <1>8, <1>10, <2>1
  <2>3. IsFiniteSet(with)
    BY DEF OfOne
  <2> QED BY <2>2, <2>3, FS_Singleton
<1>12. PICK m, order1, rank : m = Cardinality(places) /\ order1 = InOrder(places) /\ rank = InOrder(scan.messages)
  OBVIOUS
<1>13. places \in SUBSET (1 .. n)
  BY <1>1 DEF Speaking
<1>14. /\ m \in Nat /\ order1 \in [1 .. m -> places]
       /\ \A i, j \in 1 .. m : i < j => order1[i] < order1[j]
       /\ \A x \in places : \E i \in 1 .. m : order1[i] = x
  <2>1. /\ Cardinality(places) \in Nat /\ InOrder(places) \in [1 .. Cardinality(places) -> places]
        /\ \A i, j \in 1 .. Cardinality(places) : i < j => InOrder(places)[i] < InOrder(places)[j]
        /\ \A x \in places : \E i \in 1 .. Cardinality(places) : InOrder(places)[i] = x
    BY ONLY <1>13, n \in Nat, PlacesInOrder
  <2> QED BY <1>12, <2>1
<1>15. /\ at \in [1 .. n -> 1 .. Len(lines)]
       /\ \A i, j \in 1 .. n : i < j => at[i] < at[j]
       /\ \A i \in 1 .. n :
             /\ StampMs(lines[at[i]], order) = MsAt(talk[i].at)
             /\ Body(lines, at[i]) = Written(talk[i])
  BY <1>1, <1>4 DEF StandsAt
<1>16. rank = [k \in 1 .. m |-> at[order1[k]]]
  <2>1. PICK S, f : S = {at[i] : i \in places} /\ f = [k \in 1 .. m |-> at[order1[k]]]
    OBVIOUS
  <2>2. \A k \in 1 .. m : order1[k] \in places /\ order1[k] \in 1 .. n
    BY <1>13, <1>14
  <2>3. S \in SUBSET Nat
    BY <1>3, <1>13, <1>15, <2>1
  <2>4. f \in [1 .. m -> S]
    BY <2>1, <2>2
  <2>5. \A i, j \in 1 .. m : i < j => f[i] < f[j]
    BY <1>14, <1>15, <2>1, <2>2
  <2>6. \A x \in S : \E i \in 1 .. m : f[i] = x
    BY <1>14, <2>1
  <2>7. InOrder(S) = f
    <3>1. m \in Nat
      BY <1>14
    <3> QED BY ONLY <2>3, <2>4, <2>5, <2>6, <3>1, IncreasingIsInOrder
  <2> QED BY <1>6, <1>12, <2>1, <2>7 DEF StandingAt
<1>17. (IF others = {} THEN owner ELSE CHOOSE q \in others : TRUE) = p
  BY <1>10, <1>11
<1>18. r.records = [k \in 1 .. m |-> WhatsAppRecord(lines, rank[k], owner, p, scan.order)] /\ r.proven = scan.proven
  <2>1. DOMAIN rank = 1 .. m
    BY <1>16
  <2>2. r = [refused |-> Nobody, proven |-> scan.proven,
             records |-> [k \in DOMAIN rank |-> WhatsAppRecord(lines, rank[k], owner, p, scan.order)]]
    BY <1>5, <1>8, <1>12, <1>17 DEF ParseWhatsApp
  <2> QED BY <2>1, <2>2
<1>19. ASSUME NEW k \in 1 .. m, NEW q, q = r.records[k], NEW u, u = talk[order1[k]]
       PROVE  /\ AnswersTo(NormalizeSms(q), u)
              /\ NormalizeSms(q).addresses = {<<"alias", p>>}
              /\ r.proven /\ forced \in {order, Nobody} => NormalizeSms(q).at = MsAt(u.at)
  <2>1. PICK i, j : i = order1[k] /\ j = at[i]
    OBVIOUS
  <2>2. i \in places /\ i \in 1 .. n /\ u = talk[i] /\ rank[k] = j
    BY <1>13, <1>14, <1>16, <1>19, <2>1
  <2>3. Sayable(u) /\ u.kind \in {"text", "media"} /\ u.at \in Nat
    BY <1>2, <2>2 DEF Sayable, Utterance, Speaking
  <2>4. q = WhatsAppRecord(lines, j, owner, p, scan.order)
    BY <1>18, <1>19, <2>2
  <2>5. Sender(lines[j]) = u.by /\ Body(lines, j) = Written(u) /\ StampMs(lines[j], order) = MsAt(u.at)
    BY <1>6, <1>15, <2>1, <2>2
  <2>6. /\ q.type = (IF u.by = Myself THEN 2 ELSE 1) /\ q.date = StampMs(lines[j], scan.order)
        /\ q.address = <<"alias", p>> /\ q.body = (IF Body(lines, j) = Placeholder THEN <<>> ELSE Body(lines, j))
    BY <1>9, <2>4, <2>5 DEF WhatsAppRecord, Sms
  <2>7. q.body = WordsOf(u)
    <3>1. Written(u) = Placeholder <=> u.kind = "media"
      BY <2>3, WrittenIs
    <3> QED BY <2>3, <2>5, <2>6, <3>1 DEF Written, WordsOf
  <2>8. PICK a : a = <<"alias", p>> /\ a # Nobody /\ E164(a) = a
    <3>1. p \in Names
      BY <1>11 DEF Names, OfOne
    <3>2. <<"alias", p>> # Nobody
      BY <3>1, NothingAssumption
    <3>3. E164(<<"alias", p>>) = <<"alias", p>>
      BY DEF E164
    <3> QED BY <3>2, <3>3
  <2>9. /\ AnswersTo(NormalizeSms(q), u) /\ NormalizeSms(q).addresses = {E164(a)}
        /\ NormalizeSms(q).at = ToMs(q.date)
    BY <2>3, <2>6, <2>7, <2>8, SmsAnswers
  <2>10. ASSUME r.proven, forced \in {order, Nobody} PROVE scan.order = order
    <3>1. scan.order = (IF forced = Nobody THEN InferDateOrder(lines).order ELSE forced)
      BY <1>5 DEF ScanWhatsApp
    <3>2. CASE forced = Nobody
      <4>1. InferDateOrder(lines).proven
        BY <1>5, <1>18, <2>10, <3>2 DEF ScanWhatsApp
      <4> QED BY <1>3, <1>4, <3>1, <3>2, <4>1, OrderInferred
    <3>3. CASE forced # Nobody
      BY <2>10, <3>1, <3>3
    <3> QED BY <3>2, <3>3
  <2>11. ToMs(MsAt(u.at)) = MsAt(u.at)
    BY <2>3, MsKept
  <2> QED BY <2>5, <2>6, <2>8, <2>9, <2>10, <2>11
<1>20. DOMAIN r.records = 1 .. m
  BY <1>18
<1>21. \A k \in 1 .. m :
          /\ AnswersTo(NormalizeSms(r.records[k]), talk[order1[k]])
          /\ NormalizeSms(r.records[k]).addresses = {<<"alias", p>>}
          /\ r.proven /\ forced \in {order, Nobody} => NormalizeSms(r.records[k]).at = MsAt(talk[order1[k]].at)
  BY <1>19
<1>22. m \in Nat /\ DOMAIN r.records = 1 .. m
  BY <1>14, <1>20
<1> QED BY ONLY <1>11, <1>12, <1>21, <1>22 DEF ChatKept

-----------------------------------------------------------------------------
(* Backups: the stream of elements, from state to state *)

Currents(M) ==
    [open : BOOLEAN, attrs : {e.attrs : e \in M} \cup {Nobody}, parts : Seq({e.part : e \in M}),
     addrs : Seq({e.addr : e \in M})]
Emits(M) == {NormalizeSms(e.row) : e \in M} \cup {NormalizeMms(m) : m \in Currents(M)}
Streams(M) == [current : Currents(M), records : Seq(Emits(M))]

StreamNext(M) == [s \in Streams(M) |-> [e \in M |-> Tag(s, e)]]

LEMMA TagIs ==
    ASSUME NEW M, NEW s \in Streams(M), NEW e \in M
    PROVE  Tag(s, e) \in Streams(M)
<1>1. PICK m, rs : m = s.current /\ rs = s.records /\ s = [current |-> m, records |-> rs]
  BY DEF Streams
<1>2. m \in Currents(M) /\ rs \in Seq(Emits(M))
  BY <1>1 DEF Streams
<1>3. PICK open, attrs, parts, addrs : m = [open |-> open, attrs |-> attrs, parts |-> parts, addrs |-> addrs]
  BY <1>2 DEF Currents
<1>4. /\ open \in BOOLEAN
      /\ attrs \in {x.attrs : x \in M} \cup {Nobody} /\ parts \in Seq({x.part : x \in M})
      /\ addrs \in Seq({x.addr : x \in M})
  BY <1>2, <1>3 DEF Currents
<1>5. CASE e.tag = "sms"
  <2>1. Tag(s, e) = [current |-> m, records |-> Append(rs, NormalizeSms(e.row))]
    BY <1>1, <1>5 DEF Tag
  <2>2. NormalizeSms(e.row) \in Emits(M)
    BY DEF Emits
  <2> QED BY <1>2, <2>1, <2>2 DEF Streams
<1>6. CASE e.tag = "mms"
  <2>1. Tag(s, e) = [current |-> [open |-> TRUE, attrs |-> e.attrs, parts |-> <<>>, addrs |-> <<>>], records |-> rs]
    BY <1>1, <1>6 DEF Tag, NoMms
  <2>2. [open |-> TRUE, attrs |-> e.attrs, parts |-> <<>>, addrs |-> <<>>] \in Currents(M)
    BY DEF Currents
  <2> QED BY <1>2, <2>1, <2>2 DEF Streams
<1>7. CASE e.tag = "part" /\ open
  <2>1. Tag(s, e) = [current |-> [open |-> open, attrs |-> attrs, parts |-> Append(parts, e.part), addrs |-> addrs],
                     records |-> rs]
    <3>1. Tag(s, e) = [s EXCEPT !.current.parts = Append(@, e.part)]
      BY <1>1, <1>3, <1>7 DEF Tag
    <3>2. Tag(s, e) = [current |-> [m EXCEPT !.parts = Append(@, e.part)], records |-> rs]
      BY <1>1, <3>1
    <3>3. [m EXCEPT !.parts = Append(@, e.part)] = [open |-> open, attrs |-> attrs, parts |-> Append(parts, e.part), addrs |-> addrs]
      BY <1>3
    <3> QED BY <3>2, <3>3
  <2>2. Append(parts, e.part) \in Seq({x.part : x \in M})
    BY <1>4
  <2>3. [open |-> open, attrs |-> attrs, parts |-> Append(parts, e.part), addrs |-> addrs] \in Currents(M)
    BY <1>4, <2>2 DEF Currents
  <2> QED BY <1>2, <2>1, <2>3 DEF Streams
<1>8. CASE e.tag = "addr" /\ open
  <2>1. Tag(s, e) = [current |-> [open |-> open, attrs |-> attrs, parts |-> parts, addrs |-> Append(addrs, e.addr)],
                     records |-> rs]
    <3>1. Tag(s, e) = [s EXCEPT !.current.addrs = Append(@, e.addr)]
      BY <1>1, <1>3, <1>8 DEF Tag
    <3>2. Tag(s, e) = [current |-> [m EXCEPT !.addrs = Append(@, e.addr)], records |-> rs]
      BY <1>1, <3>1
    <3>3. [m EXCEPT !.addrs = Append(@, e.addr)] = [open |-> open, attrs |-> attrs, parts |-> parts, addrs |-> Append(addrs, e.addr)]
      BY <1>3
    <3> QED BY <3>2, <3>3
  <2>2. Append(addrs, e.addr) \in Seq({x.addr : x \in M})
    BY <1>4
  <2>3. [open |-> open, attrs |-> attrs, parts |-> parts, addrs |-> Append(addrs, e.addr)] \in Currents(M)
    BY <1>4, <2>2 DEF Currents
  <2> QED BY <1>2, <2>1, <2>3 DEF Streams
<1>9. CASE e.tag = "/mms" /\ open
  <2>1. Tag(s, e) = [current |-> NoMms, records |-> Append(rs, NormalizeMms(m))]
    BY <1>1, <1>3, <1>9 DEF Tag
  <2>2. NormalizeMms(m) \in Emits(M)
    BY <1>2 DEF Emits
  <2>3. NoMms \in Currents(M)
    BY DEF NoMms, Currents
  <2> QED BY <1>2, <2>1, <2>2, <2>3 DEF Streams
<1>10. CASE ~(e.tag \in {"sms", "mms"} \/ (e.tag \in {"part", "addr", "/mms"} /\ open))
  <2>1. Tag(s, e) = s
    BY <1>1, <1>3, <1>10 DEF Tag
  <2> QED BY <2>1
<1> QED BY <1>5, <1>6, <1>7, <1>8, <1>9, <1>10

Between(records_) == [current |-> NoMms, records |-> records_]
Amid(records_, attrs, parts, addrs) ==
    [current |-> [open |-> TRUE, attrs |-> attrs, parts |-> parts, addrs |-> addrs], records |-> records_]

LEMMA TagSteps ==
    ASSUME NEW rs, NEW attrs, NEW parts, NEW addrs, NEW x
    PROVE  /\ Tag(Between(rs), [tag |-> "sms", row |-> x]) = Between(Append(rs, NormalizeSms(x)))
           /\ Tag(Between(rs), [tag |-> "mms", attrs |-> x]) = Amid(rs, x, <<>>, <<>>)
           /\ Tag(Amid(rs, attrs, parts, addrs), [tag |-> "part", part |-> x]) = Amid(rs, attrs, Append(parts, x), addrs)
           /\ Tag(Amid(rs, attrs, parts, addrs), [tag |-> "addr", addr |-> x]) = Amid(rs, attrs, parts, Append(addrs, x))
           /\ Tag(Amid(rs, attrs, parts, addrs), [tag |-> "/mms"])
                 = Between(Append(rs, NormalizeMms([open |-> TRUE, attrs |-> attrs, parts |-> parts, addrs |-> addrs])))
<1>1. Tag(Between(rs), [tag |-> "sms", row |-> x]) = Between(Append(rs, NormalizeSms(x)))
  BY DEF Tag, Between
<1>2. Tag(Between(rs), [tag |-> "mms", attrs |-> x]) = Amid(rs, x, <<>>, <<>>)
  BY DEF Tag, Between, Amid, NoMms
<1>3. Tag(Amid(rs, attrs, parts, addrs), [tag |-> "part", part |-> x]) = Amid(rs, attrs, Append(parts, x), addrs)
  BY DEF Tag, Amid
<1>4. Tag(Amid(rs, attrs, parts, addrs), [tag |-> "addr", addr |-> x]) = Amid(rs, attrs, parts, Append(addrs, x))
  BY DEF Tag, Amid
<1>5. Tag(Amid(rs, attrs, parts, addrs), [tag |-> "/mms"])
         = Between(Append(rs, NormalizeMms([open |-> TRUE, attrs |-> attrs, parts |-> parts, addrs |-> addrs])))
  BY DEF Tag, Amid, Between
<1> QED BY <1>1, <1>2, <1>3, <1>4, <1>5

\* Where a stream leads is what the fold of it is.
TagsGrow(seq, h) ==
    h = [s \in SUBSET DOMAIN seq |-> IF s = {} THEN Began ELSE Tag(h[s \ {Max(s)}], seq[Max(s)])]

LEMMA StreamNextIs ==
    ASSUME NEW M, NEW s \in Streams(M), NEW e \in M
    PROVE  StreamNext(M)[s][e] = Tag(s, e) /\ StreamNext(M)[s][e] \in Streams(M)
  BY TagIs DEF StreamNext

LEMMA WhereTheStreamEnds ==
    ASSUME NEW M, NEW seq \in Seq(M), NEW t, Leads(Streams(M), StreamNext(M), Began, seq, t)
    PROVE  FoldLeft(Tag, Began, seq) = t
<1>1. PICK n \in Nat : n = Len(seq) /\ seq \in [1 .. n -> M] /\ DOMAIN seq = 1 .. n
  OBVIOUS
<1>2. PICK A, next : A = Streams(M) /\ next = StreamNext(M)
  OBVIOUS
<1>3. Began \in A
  BY <1>2 DEF Began, NoMms, Streams, Currents
<1>4. \A s \in A, e \in M : next[s][e] = Tag(s, e) /\ next[s][e] \in A
  BY <1>2, StreamNextIs
<1>5. \E g : TagsGrow(seq, g)
  <2>1. PICK g : InSteps(seq, A, Began, next, g)
    BY <1>1, <1>3, <1>4, StepsExist
  <2> DEFINE value(s) == IF s = {} THEN Began ELSE Tag(g[s \ {Max(s)}], seq[Max(s)])
  <2>2. ASSUME NEW s \in SUBSET DOMAIN seq PROVE g[s] = value(s)
    <3>1. CASE s = {}
      BY <2>1, <3>1 DEF InSteps
    <3>2. CASE s # {}
      <4>1. Max(s) \in s
        BY <1>1, <3>2, MaxIs
      <4>2. g[s \ {Max(s)}] \in A /\ seq[Max(s)] \in M
        BY <1>1, <2>1, <4>1 DEF InSteps
      <4>3. g[s] = next[g[s \ {Max(s)}]][seq[Max(s)]]
        BY <2>1, <3>2 DEF InSteps
      <4> QED BY <1>4, <3>2, <4>2, <4>3
    <3> QED BY <3>1, <3>2
  <2>3. g = [s \in SUBSET DOMAIN seq |-> value(s)]
    <3> HIDE DEF value
    <3> QED BY <2>1, <2>2 DEF InSteps
  <2> QED BY <2>3 DEF TagsGrow
<1>6. PICK h : h = CHOOSE g : TagsGrow(seq, g)
  OBVIOUS
<1>7. FoldLeft(Tag, Began, seq) = h[DOMAIN seq]
  BY <1>6 DEF FoldLeft, MapThenFoldSet, TagsGrow
<1>8. TagsGrow(seq, h)
  BY <1>5, <1>6
<1>9. InSteps(seq, A, Began, next, h)
  <2>1. h = [s \in SUBSET DOMAIN seq |-> h[s]] /\ h[{}] = Began
    BY <1>8 DEF TagsGrow
  <2>2. ASSUME NEW s \in SUBSET DOMAIN seq, s # {}, h[s \ {Max(s)}] \in A
        PROVE  h[s] = next[h[s \ {Max(s)}]][seq[Max(s)]]
    <3>1. Max(s) \in s
      BY <1>1, <2>2, MaxIs
    <3>2. seq[Max(s)] \in M
      BY <1>1, <3>1
    <3> QED BY <1>4, <1>8, <2>2, <3>2 DEF TagsGrow
  <2> QED BY <1>1, <1>3, <1>4, <2>1, <2>2, StepsIfSo
<1>10. h[DOMAIN seq] = t
  BY <1>2, <1>3, <1>9, LeadsToTheFold
<1> QED BY <1>7, <1>10

\* One element further.
LEMMA StreamReads ==
    ASSUME NEW M, NEW s, NEW text \in Seq(M), NEW t \in Streams(M), NEW e \in M,
           Leads(Streams(M), StreamNext(M), s, text, t)
    PROVE  /\ Tag(t, e) \in Streams(M) /\ text \o <<e>> \in Seq(M)
           /\ Leads(Streams(M), StreamNext(M), s, text \o <<e>>, Tag(t, e))
<1>1. StreamNext(M)[t][e] = Tag(t, e) /\ StreamNext(M)[t][e] \in Streams(M) /\ <<e>> \in Seq(M)
  BY StreamNextIs
<1>2. Leads(Streams(M), StreamNext(M), t, <<e>>, Tag(t, e))
  BY <1>1, LeadsByOne
<1>3. Leads(Streams(M), StreamNext(M), s, text \o <<e>>, Tag(t, e))
  BY <1>1, <1>2, LeadsOn
<1> QED BY <1>1, <1>3, ConcatProperties

\* Who a message lists, one after the other.
LEMMA ListedRead ==
    ASSUME NEW M, NEW rs, NEW attrs, NEW parts, NEW N, NEW list \in Seq(N),
           \A x \in N : [tag |-> "addr", addr |-> x] \in M,
           Amid(rs, attrs, parts, <<>>) \in Streams(M)
    PROVE  /\ Amid(rs, attrs, parts, list) \in Streams(M)
           /\ [k \in DOMAIN list |-> [tag |-> "addr", addr |-> list[k]]] \in Seq(M)
           /\ Leads(Streams(M), StreamNext(M), Amid(rs, attrs, parts, <<>>),
                    [k \in DOMAIN list |-> [tag |-> "addr", addr |-> list[k]]], Amid(rs, attrs, parts, list))
<1>1. PICK n \in Nat : n = Len(list) /\ DOMAIN list = 1 .. n /\ \A k \in 1 .. n : list[k] \in N
  OBVIOUS
<1>2. PICK els : els = [k \in DOMAIN list |-> [tag |-> "addr", addr |-> list[k]]]
  OBVIOUS
<1>3. els \in Seq(M) /\ Len(els) = n /\ \A k \in 1 .. n : els[k] = [tag |-> "addr", addr |-> list[k]] /\ els[k] \in M
  BY <1>1, <1>2
<1>4. PICK tr : tr = [k \in 0 .. n |-> Amid(rs, attrs, parts, SubSeq(list, 1, k))]
  OBVIOUS
<1>5. ASSUME NEW k \in 0 .. n PROVE SubSeq(list, 1, k) \in Seq(N)
  BY <1>1, SubSeqProperties
<1>6. ASSUME NEW k \in 1 .. n PROVE tr[k] = Tag(tr[k - 1], els[k])
  <2>1. k - 1 \in 0 .. n /\ k \in 0 .. n /\ k \in 1 .. Len(list) /\ 1 \in 1 .. Len(list) /\ k \in 1 .. k
    BY <1>1
  <2>2. PICK before \in Seq(N), x \in N : before = SubSeq(list, 1, k - 1) /\ x = list[k]
    BY <1>1, <1>5, <2>1
  <2>3. SubSeq(list, 1, k) = Append(before, x)
    <3>1. SubSeq(list, 1, k) = before \o <<x>>
      BY <2>1, <2>2, SubSeqRecursiveSecond
    <3> QED BY <3>1, AppendIsConcat
  <2>4. tr[k] = Amid(rs, attrs, parts, Append(before, x)) /\ tr[k - 1] = Amid(rs, attrs, parts, before)
    BY <1>4, <2>1, <2>2, <2>3
  <2>5. Tag(Amid(rs, attrs, parts, before), [tag |-> "addr", addr |-> x]) = Amid(rs, attrs, parts, Append(before, x))
    BY DEF Tag, Amid
  <2> QED BY <1>3, <2>2, <2>4, <2>5
<1>7. tr[0] = Amid(rs, attrs, parts, <<>>) /\ tr[n] = Amid(rs, attrs, parts, list)
  <2>1. SubSeq(list, 1, 0) = <<>> /\ SubSeq(list, 1, n) = list /\ 0 \in 0 .. n /\ n \in 0 .. n
    BY <1>1, SubSeqEmpty, SubSeqFull
  <2> QED BY <1>4, <2>1
<1> DEFINE G == {k \in 0 .. n : tr[k] \in Streams(M)}
<1>8. 0 \in G
  BY <1>7
<1>9. ASSUME NEW k \in 0 .. (n - 1), k \in G PROVE k + 1 \in G
  <2>1. k + 1 \in 1 .. n /\ (k + 1) - 1 = k
    OBVIOUS
  <2>2. tr[k] \in Streams(M) /\ els[k + 1] \in M /\ tr[k + 1] = Tag(tr[k], els[k + 1])
    <3>1. tr[k + 1] = Tag(tr[(k + 1) - 1], els[k + 1])
      BY <1>6, <2>1
    <3>2. els[k + 1] \in M
      BY <1>3, <2>1
    <3> QED BY <1>9, <2>1, <3>1, <3>2
  <2>3. tr[k + 1] \in Streams(M)
    BY <2>2, TagIs
  <2> QED BY <2>1, <2>3
<1> HIDE DEF G
<1>10. \A k \in 0 .. n : k \in G
  BY <1>8, <1>9, UpTo
<1>11. \A k \in 0 .. n : tr[k] \in Streams(M)
  BY <1>10 DEF G
<1>12. tr \in [0 .. n -> Streams(M)]
  BY <1>4, <1>11
<1>13. \A k \in 1 .. n : tr[k] = StreamNext(M)[tr[k - 1]][els[k]]
  <2>1. ASSUME NEW k \in 1 .. n PROVE tr[k] = StreamNext(M)[tr[k - 1]][els[k]]
    <3>1. k - 1 \in 0 .. n
      OBVIOUS
    <3>2. tr[k - 1] \in Streams(M) /\ els[k] \in M
      BY <1>3, <1>11, <3>1
    <3>3. StreamNext(M)[tr[k - 1]][els[k]] = Tag(tr[k - 1], els[k])
      BY <3>2, StreamNextIs
    <3> QED BY <1>6, <3>3
  <2> QED BY <2>1
<1>14. Leads(Streams(M), StreamNext(M), Amid(rs, attrs, parts, <<>>), els, Amid(rs, attrs, parts, list))
  BY <1>3, <1>7, <1>12, <1>13 DEF Leads
<1>15. Amid(rs, attrs, parts, list) \in Streams(M)
  BY <1>7, <1>11
<1> QED BY <1>2, <1>3, <1>14, <1>15

LayoutPart == [type |-> "text", layout |-> TRUE, text |-> <<Null>>]
PartOf(u) ==
    IF u.kind = "media" THEN [type |-> "image", layout |-> FALSE, text |-> <<Null>>]
    ELSE [type |-> "text", layout |-> FALSE, text |-> TextOf(u)]
AttrsOf(u) ==
    [box |-> IF u.by = Myself THEN 2 ELSE 1, mType |-> IF u.by = Myself THEN 128 ELSE 132,
     date |-> SecondsAt(u.at), id |-> Nobody,
     envelope |-> [i \in DOMAIN SetToSeq(u.with) |-> Number(SetToSeq(u.with)[i], u.by = Myself)]]
PeopleOf(u) == <<u.by>> \o SetToSeq((u.with \cup {Myself}) \ {u.by})
ListedOf(u, listed) ==
    IF listed THEN [i \in DOMAIN PeopleOf(u) |-> [address |-> Number(PeopleOf(u)[i], u.by = Myself)]] ELSE <<>>

Listable == [address : {"number"} \X Names \X {"plain", "international"}]
BackupElements ==
    {SmsOf(u) : u \in Utterance} \cup {[tag |-> "mms", attrs |-> AttrsOf(u)] : u \in Utterance}
    \cup {[tag |-> "part", part |-> x] : x \in {LayoutPart} \cup {PartOf(u) : u \in Utterance}}
    \cup {[tag |-> "addr", addr |-> x] : x \in Listable} \cup {[tag |-> "/mms"]}

Mms(u, listed) ==
    [open |-> TRUE, attrs |-> AttrsOf(u), parts |-> <<LayoutPart, PartOf(u)>>, addrs |-> ListedOf(u, listed)]

LEMMA PeopleAre ==
    ASSUME NEW u, Sayable(u), u.kind # "notice"
    PROVE  /\ PeopleOf(u) \in Seq(Names) /\ PeopleOf(u) # <<>>
           /\ {PeopleOf(u)[i] : i \in DOMAIN PeopleOf(u)} = u.with \cup {Myself}
           /\ SetToSeq(u.with) \in Seq(Names) /\ {SetToSeq(u.with)[i] : i \in DOMAIN SetToSeq(u.with)} = u.with
<1>1. u.with \in SUBSET Others /\ IsFiniteSet(u.with) /\ u.by \in u.with \cup {Myself}
  BY DEF Sayable, Utterance
<1>2. PICK rest : rest = (u.with \cup {Myself}) \ {u.by}
  OBVIOUS
<1>3. IsFiniteSet(rest) /\ rest \subseteq Names /\ u.with \subseteq Names /\ u.by \in Names
  <2>1. IsFiniteSet(u.with \cup {Myself})
    BY <1>1, FS_AddElement
  <2>2. rest \subseteq u.with \cup {Myself}
    BY <1>2
  <2>3. IsFiniteSet(rest)
    BY <2>1, <2>2, FS_Subset
  <2> QED BY <1>1, <1>2, <2>3 DEF Names
<1>4. ASSUME NEW S, IsFiniteSet(S), S \subseteq Names
      PROVE  /\ SetToSeq(S) \in Seq(Names) /\ {SetToSeq(S)[i] : i \in DOMAIN SetToSeq(S)} = S
  <2>1. /\ Cardinality(S) \in Nat /\ SetToSeq(S) \in Seq(S) /\ Len(SetToSeq(S)) = Cardinality(S)
        /\ {SetToSeq(S)[i] : i \in 1 .. Cardinality(S)} = S
    BY <1>4, SetToSeqIs
  <2>2. DOMAIN SetToSeq(S) = 1 .. Cardinality(S)
    BY <2>1
  <2>3. SetToSeq(S) \in Seq(Names)
    BY <1>4, <2>1, SeqMonotonic
  <2> QED BY <2>1, <2>2, <2>3
<1>5. PICK to : to = SetToSeq(rest)
  OBVIOUS
<1>6. to \in Seq(Names) /\ {to[i] : i \in DOMAIN to} = rest
  BY <1>3, <1>4, <1>5
<1>7. PICK b \in Names, n \in Nat : b = u.by /\ n = Len(to) /\ DOMAIN to = 1 .. n
  BY <1>3, <1>6
<1>8. PICK people : people = PeopleOf(u) /\ people = <<b>> \o to
  BY <1>2, <1>5, <1>7 DEF PeopleOf
<1>9. /\ people \in Seq(Names) /\ Len(people) = 1 + n /\ DOMAIN people = 1 .. (1 + n)
      /\ people[1] = b /\ \A k \in 1 .. n : people[k + 1] = to[k]
  <2>1. <<b>> \in Seq(Names) /\ Len(<<b>>) = 1 /\ <<b>>[1] = b
    OBVIOUS
  <2>2. /\ <<b>> \o to \in Seq(Names) /\ Len(<<b>> \o to) = 1 + n
        /\ \A k \in 1 .. 1 + n : (<<b>> \o to)[k] = IF k <= 1 THEN <<b>>[k] ELSE to[k - 1]
    BY <1>6, <1>7, <2>1, ConcatProperties
  <2> QED BY <1>7, <1>8, <2>1, <2>2
<1>10. {people[i] : i \in DOMAIN people} = u.with \cup {Myself}
  <2>1. ASSUME NEW i \in DOMAIN people PROVE people[i] \in u.with \cup {Myself}
    <3>1. CASE i = 1
      BY <1>1, <1>7, <1>9, <3>1
    <3>2. CASE i # 1
      <4>1. PICK k \in 1 .. n : i = k + 1
        <5>1. i - 1 \in 1 .. n /\ i = (i - 1) + 1
          BY <1>9, <3>2
        <5> QED BY <5>1
      <4>2. people[i] = to[k] /\ to[k] \in rest
        BY <1>6, <1>7, <1>9, <4>1
      <4> QED BY <1>2, <4>2
    <3> QED BY <3>1, <3>2
  <2>2. ASSUME NEW p \in u.with \cup {Myself} PROVE \E i \in DOMAIN people : people[i] = p
    <3>1. CASE p = u.by
      BY <1>7, <1>9, <3>1
    <3>2. CASE p # u.by
      <4>1. p \in rest
        BY <1>2, <3>2
      <4>2. PICK k \in 1 .. n : to[k] = p
        BY <1>6, <1>7, <4>1
      <4>3. k + 1 \in DOMAIN people /\ people[k + 1] = p
        BY <1>9, <4>2
      <4> QED BY <4>3
    <3> QED BY <3>1, <3>2
  <2> QED BY <2>1, <2>2
<1>11. people # <<>>
  BY <1>9
<1>12. SetToSeq(u.with) \in Seq(Names) /\ {SetToSeq(u.with)[i] : i \in DOMAIN SetToSeq(u.with)} = u.with
  BY <1>1, <1>3, <1>4
<1> QED BY <1>8, <1>9, <1>10, <1>11, <1>12

\* What is written of a message with parts.
LEMMA MmsElements ==
    ASSUME NEW u, Sayable(u), u.kind # "notice", NEW listed \in BOOLEAN
    PROVE  /\ [tag |-> "mms", attrs |-> AttrsOf(u)] \in BackupElements
           /\ [tag |-> "part", part |-> LayoutPart] \in BackupElements
           /\ [tag |-> "part", part |-> PartOf(u)] \in BackupElements
           /\ [tag |-> "/mms"] \in BackupElements
           /\ \A x \in Listable : [tag |-> "addr", addr |-> x] \in BackupElements
           /\ ListedOf(u, listed) \in Seq(Listable)
           /\ listed => Len(ListedOf(u, listed)) = Len(PeopleOf(u))
           /\ MmsOf(u, listed) =
                 <<[tag |-> "mms", attrs |-> AttrsOf(u)], [tag |-> "part", part |-> LayoutPart],
                   [tag |-> "part", part |-> PartOf(u)]>>
                 \o [k \in DOMAIN ListedOf(u, listed) |-> [tag |-> "addr", addr |-> ListedOf(u, listed)[k]]]
                 \o <<[tag |-> "/mms"]>>
<1>1. u \in Utterance
  BY DEF Sayable
<1>2. [tag |-> "mms", attrs |-> AttrsOf(u)] \in BackupElements
  BY <1>1 DEF BackupElements
<1>3. [tag |-> "part", part |-> LayoutPart] \in BackupElements /\ [tag |-> "part", part |-> PartOf(u)] \in BackupElements
  BY <1>1 DEF BackupElements
<1>4. [tag |-> "/mms"] \in BackupElements /\ \A x \in Listable : [tag |-> "addr", addr |-> x] \in BackupElements
  BY DEF BackupElements
<1>5. PICK people \in Seq(Names) : people = PeopleOf(u)
  BY PeopleAre
<1>6. PICK list : list = ListedOf(u, listed)
  OBVIOUS
<1>7. /\ list \in Seq(Listable)
      /\ listed => Len(list) = Len(people)
      /\ listed => DOMAIN list = DOMAIN people
      /\ listed => \A i \in DOMAIN people : list[i] = [address |-> Number(people[i], u.by = Myself)]
      /\ ~listed => list = <<>>
  <2>1. CASE listed
    <3>1. list = [i \in DOMAIN people |-> [address |-> Number(people[i], u.by = Myself)]]
      BY <1>5, <1>6, <2>1 DEF ListedOf
    <3>2. \A i \in DOMAIN people : [address |-> Number(people[i], u.by = Myself)] \in Listable
      BY <1>5 DEF Number, Listable
    <3> HIDE DEF Listable
    <3> QED BY <1>5, <2>1, <3>1, <3>2
  <2>2. CASE ~listed
    BY <1>5, <1>6, <2>2 DEF ListedOf
  <2> QED BY <2>1, <2>2
<1>8. MmsOf(u, listed) =
         <<[tag |-> "mms", attrs |-> AttrsOf(u)], [tag |-> "part", part |-> LayoutPart],
           [tag |-> "part", part |-> PartOf(u)]>>
         \o [k \in DOMAIN list |-> [tag |-> "addr", addr |-> list[k]]] \o <<[tag |-> "/mms"]>>
  <2>1. PICK addrs : addrs = (IF listed THEN [i \in DOMAIN people |->
                                  [tag |-> "addr", addr |-> [address |-> Number(people[i], u.by = Myself)]]] ELSE <<>>)
    OBVIOUS
  <2>2. addrs = [k \in DOMAIN list |-> [tag |-> "addr", addr |-> list[k]]]
    <3>1. CASE listed
      BY <1>7, <2>1, <3>1
    <3>2. CASE ~listed
      BY <1>7, <2>1, <3>2
    <3> QED BY <3>1, <3>2
  <2>3. [tag |-> "part", part |-> PartOf(u)] = [tag |-> "part", part |-> IF u.kind = "media"
            THEN [type |-> "image", layout |-> FALSE, text |-> <<Null>>]
            ELSE [type |-> "text", layout |-> FALSE, text |-> TextOf(u)]]
    BY DEF PartOf
  <2>4. MmsOf(u, listed) =
         <<[tag |-> "mms", attrs |-> AttrsOf(u)], [tag |-> "part", part |-> LayoutPart],
           [tag |-> "part", part |-> PartOf(u)]>> \o addrs \o <<[tag |-> "/mms"]>>
    BY <1>5, <2>1, <2>3, ZenonT(60) DEF MmsOf, AttrsOf, LayoutPart, PeopleOf
  <2> QED BY <2>2, <2>4
<1>9. /\ ListedOf(u, listed) \in Seq(Listable)
      /\ listed => Len(ListedOf(u, listed)) = Len(PeopleOf(u))
  BY <1>5, <1>6, <1>7
<1>10. MmsOf(u, listed) =
         <<[tag |-> "mms", attrs |-> AttrsOf(u)], [tag |-> "part", part |-> LayoutPart],
           [tag |-> "part", part |-> PartOf(u)]>>
         \o [k \in DOMAIN ListedOf(u, listed) |-> [tag |-> "addr", addr |-> ListedOf(u, listed)[k]]] \o <<[tag |-> "/mms"]>>
  BY <1>6, <1>8, Zenon
<1> QED BY <1>2, <1>3, <1>4, <1>9, <1>10

LEMMA TripleIsASeq ==
    ASSUME NEW S, NEW x \in S, NEW y \in S, NEW z \in S
    PROVE  <<x, y, z>> \in Seq(S) /\ <<x, y>> \o <<z>> = <<x, y, z>>
<1>1. PICK p : p = <<x, y, z>>
  OBVIOUS
<1>2. <<x, y>> \in Seq(S) /\ <<z>> \in Seq(S)
  OBVIOUS
<1>3. p \in Seq(S) /\ Len(p) = 3 /\ p[1] = x /\ p[2] = y /\ p[3] = z
  BY <1>1
<1>4. PICK q : q = <<x, y>> \o <<z>>
  OBVIOUS
<1>5. q \in Seq(S) /\ Len(q) = 3 /\ q[1] = x /\ q[2] = y /\ q[3] = z
  BY <1>2, <1>4
<1>6. \A i \in 1 .. 3 : p[i] = q[i]
  BY <1>3, <1>5
<1>7. p = q
  BY <1>3, <1>5, <1>6, SeqEqual
<1> QED BY <1>1, <1>3, <1>4, <1>7

LEMMA MmsRead ==
    ASSUME NEW u, Sayable(u), u.kind # "notice", NEW listed \in BOOLEAN, NEW rs \in Seq(Emits(BackupElements))
    PROVE  /\ MmsOf(u, listed) \in Seq(BackupElements)
           /\ Append(rs, NormalizeMms(Mms(u, listed))) \in Seq(Emits(BackupElements))
           /\ Leads(Streams(BackupElements), StreamNext(BackupElements), Between(rs), MmsOf(u, listed),
                    Between(Append(rs, NormalizeMms(Mms(u, listed)))))
<1>1. PICK M : M = BackupElements
  OBVIOUS
<1>2. PICK attrs, part, list : attrs = AttrsOf(u) /\ part = PartOf(u) /\ list = ListedOf(u, listed)
  OBVIOUS
<1>3. PICK e1, e2, e3, e5, es :
         /\ e1 = [tag |-> "mms", attrs |-> attrs] /\ e2 = [tag |-> "part", part |-> LayoutPart]
         /\ e3 = [tag |-> "part", part |-> part] /\ e5 = [tag |-> "/mms"]
         /\ es = [k \in DOMAIN list |-> [tag |-> "addr", addr |-> list[k]]]
  OBVIOUS
<1>4. /\ e1 \in M /\ e2 \in M /\ e3 \in M /\ e5 \in M /\ list \in Seq(Listable)
      /\ \A x \in Listable : [tag |-> "addr", addr |-> x] \in M
      /\ MmsOf(u, listed) = <<e1, e2, e3>> \o es \o <<e5>>
  BY <1>1, <1>2, <1>3, MmsElements
<1>5. Between(rs) \in Streams(M)
  <2>1. NoMms \in Currents(M)
    BY DEF NoMms, Currents
  <2> QED BY <1>1, <2>1 DEF Between, Streams
<1>6. Leads(Streams(M), StreamNext(M), Between(rs), <<>>, Between(rs))
  BY <1>5, LeadsNowhere
<1>7. <<e1>> \in Seq(M) /\ Leads(Streams(M), StreamNext(M), Between(rs), <<e1>>, Amid(rs, attrs, <<>>, <<>>))
      /\ Amid(rs, attrs, <<>>, <<>>) \in Streams(M)
  <2>1. Tag(Between(rs), e1) = Amid(rs, attrs, <<>>, <<>>)
    BY <1>3 DEF Tag, Amid, Between, NoMms
  <2>2. <<>> \in Seq(M) /\ <<>> \o <<e1>> = <<e1>>
    BY <1>4
  <2>3. /\ Tag(Between(rs), e1) \in Streams(M) /\ <<>> \o <<e1>> \in Seq(M)
        /\ Leads(Streams(M), StreamNext(M), Between(rs), <<>> \o <<e1>>, Tag(Between(rs), e1))
    BY <1>4, <1>5, <1>6, <2>2, StreamReads
  <2> QED BY <2>1, <2>2, <2>3
<1>8. <<e1, e2>> \in Seq(M) /\ Leads(Streams(M), StreamNext(M), Between(rs), <<e1, e2>>, Amid(rs, attrs, <<LayoutPart>>, <<>>))
      /\ Amid(rs, attrs, <<LayoutPart>>, <<>>) \in Streams(M)
  <2>1. Tag(Amid(rs, attrs, <<>>, <<>>), e2) = Amid(rs, attrs, <<LayoutPart>>, <<>>)
    <3>1. Append(<<>>, LayoutPart) = <<LayoutPart>>
      OBVIOUS
    <3>2. Tag(Amid(rs, attrs, <<>>, <<>>), e2) = Amid(rs, attrs, Append(<<>>, LayoutPart), <<>>)
      BY <1>3 DEF Tag, Amid
    <3> QED BY <3>1, <3>2
  <2>2. <<e1>> \o <<e2>> = <<e1, e2>>
    BY <1>4, PairIsASeq
  <2>3. /\ Tag(Amid(rs, attrs, <<>>, <<>>), e2) \in Streams(M) /\ <<e1>> \o <<e2>> \in Seq(M)
        /\ Leads(Streams(M), StreamNext(M), Between(rs), <<e1>> \o <<e2>>, Tag(Amid(rs, attrs, <<>>, <<>>), e2))
    BY <1>4, <1>7, StreamReads
  <2> QED BY <2>1, <2>2, <2>3
<1>9. <<e1, e2, e3>> \in Seq(M)
      /\ Leads(Streams(M), StreamNext(M), Between(rs), <<e1, e2, e3>>, Amid(rs, attrs, <<LayoutPart, part>>, <<>>))
      /\ Amid(rs, attrs, <<LayoutPart, part>>, <<>>) \in Streams(M)
  <2>1. Tag(Amid(rs, attrs, <<LayoutPart>>, <<>>), e3) = Amid(rs, attrs, <<LayoutPart, part>>, <<>>)
    <3>1. Append(<<LayoutPart>>, part) = <<LayoutPart, part>>
      <4>1. PICK S : LayoutPart \in S /\ part \in S
        <5>1. LayoutPart \in {LayoutPart, part} /\ part \in {LayoutPart, part}
          OBVIOUS
        <5> QED BY <5>1
      <4>2. <<LayoutPart>> \in Seq(S) /\ <<LayoutPart>> \o <<part>> = <<LayoutPart, part>>
        BY <4>1, PairIsASeq
      <4> QED BY <4>1, <4>2, AppendIsConcat
    <3>2. Tag(Amid(rs, attrs, <<LayoutPart>>, <<>>), e3) = Amid(rs, attrs, Append(<<LayoutPart>>, part), <<>>)
      BY <1>3 DEF Tag, Amid
    <3> QED BY <3>1, <3>2
  <2>2. <<e1, e2>> \o <<e3>> = <<e1, e2, e3>>
    BY <1>4, TripleIsASeq
  <2>3. /\ Tag(Amid(rs, attrs, <<LayoutPart>>, <<>>), e3) \in Streams(M) /\ <<e1, e2>> \o <<e3>> \in Seq(M)
        /\ Leads(Streams(M), StreamNext(M), Between(rs), <<e1, e2>> \o <<e3>>, Tag(Amid(rs, attrs, <<LayoutPart>>, <<>>), e3))
    BY <1>4, <1>8, StreamReads
  <2> QED BY <2>1, <2>2, <2>3
<1>10. /\ Amid(rs, attrs, <<LayoutPart, part>>, list) \in Streams(M) /\ es \in Seq(M)
       /\ Leads(Streams(M), StreamNext(M), Amid(rs, attrs, <<LayoutPart, part>>, <<>>), es,
                Amid(rs, attrs, <<LayoutPart, part>>, list))
  BY <1>3, <1>4, <1>9, ListedRead
<1>11. <<e1, e2, e3>> \o es \in Seq(M)
       /\ Leads(Streams(M), StreamNext(M), Between(rs), <<e1, e2, e3>> \o es, Amid(rs, attrs, <<LayoutPart, part>>, list))
  <2>1. <<e1, e2, e3>> \o es \in Seq(M)
    BY <1>9, <1>10, ConcatProperties
  <2>2. PICK three \in Seq(M) : three = <<e1, e2, e3>>
    BY <1>9
  <2>3. Leads(Streams(M), StreamNext(M), Between(rs), three \o es, Amid(rs, attrs, <<LayoutPart, part>>, list))
    BY <1>9, <1>10, <2>2, LeadsOn
  <2> QED BY <2>1, <2>2, <2>3
<1>12. Tag(Amid(rs, attrs, <<LayoutPart, part>>, list), e5) = Between(Append(rs, NormalizeMms(Mms(u, listed))))
  BY <1>2, <1>3 DEF Tag, Amid, Between, Mms
<1>13. /\ Tag(Amid(rs, attrs, <<LayoutPart, part>>, list), e5) \in Streams(M)
       /\ (<<e1, e2, e3>> \o es) \o <<e5>> \in Seq(M)
       /\ Leads(Streams(M), StreamNext(M), Between(rs), (<<e1, e2, e3>> \o es) \o <<e5>>,
                Tag(Amid(rs, attrs, <<LayoutPart, part>>, list), e5))
  BY <1>4, <1>10, <1>11, StreamReads
<1>14. Append(rs, NormalizeMms(Mms(u, listed))) \in Seq(Emits(M))
  <2>1. PICK rs2 : rs2 = Append(rs, NormalizeMms(Mms(u, listed)))
    OBVIOUS
  <2>2. Between(rs2) \in Streams(M)
    BY <1>12, <1>13, <2>1
  <2>3. rs2 \in Seq(Emits(M))
    BY <2>2 DEF Streams, Between
  <2> QED BY <2>1, <2>3
<1> QED BY <1>1, <1>4, <1>12, <1>13, <1>14

NumbersOf(people) == {<<"number", p>> : p \in people}

\* What the backup has of an utterance, as text, is what its record says.
LEMMA TextIs ==
    ASSUME NEW u, Sayable(u), u.kind \in {"text", "reaction"}
    PROVE  TextOf(u) = WordsOf(u) /\ WordsOf(u) \in Seq(Token) /\ Coerce(WordsOf(u)) = WordsOf(u)
<1>1. u.words \in Seq(Token) /\ WordsOf(u) \in Seq(Token) /\ Coerce(WordsOf(u)) = WordsOf(u)
  BY WordsAre DEF Sayable, Utterance
<1>2. CASE u.kind = "text"
  BY <1>1, <1>2, ConcatEmptySeq DEF TextOf, WordsOf
<1>3. CASE u.kind = "reaction"
  BY <1>1, <1>3 DEF TextOf, WordsOf
<1> QED BY <1>1, <1>2, <1>3

\* The body of a message with parts, without its layout.
LEMMA PartsRead ==
    ASSUME NEW u, Sayable(u), u.kind \in {"text", "media", "reaction"}
    PROVE  BodyOfParts(<<LayoutPart, PartOf(u)>>) = WordsOf(u)
<1>1. PICK w \in Seq(Token) : w = WordsOf(u)
  BY WordsAre
<1>2. PICK parts : parts = <<LayoutPart, PartOf(u)>>
  OBVIOUS
<1>3. PICK bodies : bodies = [i \in DOMAIN parts |->
         IF parts[i].type = "text" /\ ~parts[i].layout THEN Coerce(parts[i].text) ELSE <<>>]
  OBVIOUS
<1>4. DOMAIN parts = 1 .. 2 /\ parts[1] = LayoutPart /\ parts[2] = PartOf(u)
  BY <1>2
<1>5. bodies[1] = <<>>
  BY <1>3, <1>4 DEF LayoutPart
<1>6. bodies[2] = w
  <2>1. CASE u.kind = "media"
    BY <1>1, <1>3, <1>4, <2>1 DEF PartOf, WordsOf
  <2>2. CASE u.kind # "media"
    <3>1. u.kind \in {"text", "reaction"}
      BY <2>2
    <3>2. PICK text : text = TextOf(u) /\ text = w /\ Coerce(text) = w
      BY <1>1, <3>1, TextIs
    <3>3. parts[2] = [type |-> "text", layout |-> FALSE, text |-> text]
      BY <1>4, <2>2, <3>2 DEF PartOf
    <3> QED BY <1>3, <1>4, <3>2, <3>3
  <2> QED BY <2>1, <2>2
<1>7. bodies = <<<<>>, w>>
  BY <1>3, <1>4, <1>5, <1>6
<1>8. <<>> \in Seq(Token) /\ <<<<>>, w>> \in Seq(Seq(Token))
  <2>1. <<>> \in Seq(Token)
    OBVIOUS
  <2> QED BY <1>1, <2>1, PairIsASeq
<1>9. FlattenSeq(bodies) = w
  <2>1. PICK seqs \in Seq(Seq(Token)) : seqs = bodies /\ Len(seqs) = 2 /\ seqs[1] = <<>> /\ seqs[2] = w
    BY <1>1, <1>7, <1>8
  <2>2. PICK f : JoinedBy(Token, seqs, f)
    BY <2>1, JoinedStepByStep
  <2>3. f[0] = <<>> /\ FlattenSeq(seqs) = f[2] /\ f[1] = f[0] \o seqs[1] /\ f[2] = f[1] \o seqs[2]
    <3>1. 1 \in 1 .. Len(seqs) /\ 2 \in 1 .. Len(seqs) /\ 1 - 1 = 0 /\ 2 - 1 = 1
      BY <2>1
    <3> QED BY <2>1, <2>2, <3>1 DEF JoinedBy
  <2>4. f[1] = <<>> /\ f[2] = w
    BY <1>1, <1>8, <2>1, <2>3, ConcatEmptySeq
  <2> QED BY <2>1, <2>3, <2>4
<1>10. BodyOfParts(parts) = FlattenSeq(bodies)
  BY <1>3 DEF BodyOfParts
<1> QED BY <1>1, <1>2, <1>9, <1>10

\* Who a message with parts is from and to.
LEMMA MmsAddresses ==
    ASSUME NEW u, Sayable(u), u.kind # "notice", NEW listed \in BOOLEAN
    PROVE  {E164(a) : a \in Addresses(Mms(u, listed))} = NumbersOf(IF listed THEN u.with \cup {Myself} ELSE u.with)
<1>1. PICK mine \in BOOLEAN : mine = (u.by = Myself)
  OBVIOUS
<1>2. \A p : E164(Number(p, mine)) = <<"number", p>>
  BY DEF E164, Number
<1>3. \A p \in Names : Number(p, mine) # Nobody
  BY NothingAssumption DEF Number
<1>4. CASE listed
  <2>1. PICK people \in Seq(Names) : people = PeopleOf(u)
    BY PeopleAre
  <2>2. people # <<>> /\ {people[i] : i \in DOMAIN people} = u.with \cup {Myself}
    BY <2>1, PeopleAre
  <2>3. PICK m : m = Mms(u, listed)
    OBVIOUS
  <2>4. m.addrs = [i \in DOMAIN people |-> [address |-> Number(people[i], mine)]]
    BY <1>1, <1>4, <2>1, <2>3 DEF Mms, ListedOf
  <2>5. 1 \in DOMAIN people
    BY <2>1, <2>2
  <2>6. m.addrs # <<>> /\ DOMAIN m.addrs = DOMAIN people /\ \A i \in DOMAIN people : m.addrs[i].address = Number(people[i], mine)
    BY <2>4, <2>5
  <2>7. Addresses(m) = {m.addrs[i].address : i \in DOMAIN m.addrs} \ {Nobody}
    BY <2>6 DEF Addresses
  <2>8. Addresses(m) = {Number(p, mine) : p \in u.with \cup {Myself}}
    <3>1. \A a : a \in Addresses(m) <=> \E i \in DOMAIN people : a = Number(people[i], mine) /\ a # Nobody
      BY <2>6, <2>7
    <3>2. \A a : a \in Addresses(m) <=> \E i \in DOMAIN people : a = Number(people[i], mine)
      BY <1>3, <2>1, <3>1
    <3> QED BY <2>2, <3>2
  <2>9. {E164(a) : a \in Addresses(m)} = NumbersOf(u.with \cup {Myself})
    BY SMTT(40), <1>2, <2>8 DEF NumbersOf
  <2> QED BY <1>4, <2>3, <2>9
<1>5. CASE ~listed
  <2>1. PICK people \in Seq(Names) : people = SetToSeq(u.with)
    BY PeopleAre
  <2>2. {people[i] : i \in DOMAIN people} = u.with
    BY <2>1, PeopleAre
  <2>3. PICK m : m = Mms(u, listed)
    OBVIOUS
  <2>4. m.addrs = <<>> /\ m.attrs.envelope = [i \in DOMAIN people |-> Number(people[i], mine)]
    BY <1>1, <1>5, <2>1, <2>3 DEF Mms, ListedOf, AttrsOf
  <2>5. Addresses(m) = {m.attrs.envelope[i] : i \in DOMAIN m.attrs.envelope}
    BY <2>4 DEF Addresses
  <2>6. \A a : a \in Addresses(m) <=> \E i \in DOMAIN people : a = Number(people[i], mine)
    BY <2>4, <2>5
  <2>7. Addresses(m) = {Number(p, mine) : p \in u.with}
    BY <2>2, <2>6
  <2>8. {E164(a) : a \in Addresses(m)} = NumbersOf(u.with)
    BY <1>2, <2>7 DEF NumbersOf
  <2> QED BY <1>5, <2>3, <2>8
<1> QED BY <1>4, <1>5

LEMMA MmsAnswers ==
    ASSUME NEW u, Sayable(u), u.kind \in {"text", "media", "reaction"}, NEW listed \in BOOLEAN,
           NEW r, r = NormalizeMms(Mms(u, listed))
    PROVE  /\ AnswersTo(r, u) /\ r.at = MsAt(u.at)
           /\ r.addresses = NumbersOf(IF listed THEN u.with \cup {Myself} ELSE u.with)
<1>1. PICK m : m = Mms(u, listed)
  OBVIOUS
<1>2. PICK w \in Seq(Token) : w = WordsOf(u) /\ Coerce(w) = w /\ (IsReaction(w) <=> u.kind = "reaction")
  BY WordsAre
<1>3. BodyOfParts(m.parts) = w
  <2>1. m.parts = <<LayoutPart, PartOf(u)>>
    BY <1>1 DEF Mms
  <2> QED BY <1>2, <2>1, PartsRead
<1>4. /\ m.attrs.box = (IF u.by = Myself THEN 2 ELSE 1) /\ m.attrs.date = SecondsAt(u.at)
  BY <1>1 DEF Mms, AttrsOf
<1>5. MmsDirection(m.attrs.box, m.attrs.mType) = IF u.by = Myself THEN "outgoing" ELSE "incoming"
  BY <1>4 DEF MmsDirection
<1>6. ToMs(m.attrs.date) = MsAt(u.at)
  <2>1. u.at \in Nat /\ SecondsAt(u.at) < Threshold
    BY DEF Sayable, Utterance
  <2> QED BY <1>4, <2>1, MsKept
<1>7. r = Normalized(MmsDirection(m.attrs.box, m.attrs.mType), m.attrs.date, w, Addresses(m), m.attrs.id)
  BY <1>1, <1>3 DEF NormalizeMms
<1>8. PICK direction : direction = MmsDirection(m.attrs.box, m.attrs.mType)
  OBVIOUS
<1>9. /\ r.direction = direction /\ r.at = ToMs(m.attrs.date) /\ r.words = Coerce(w)
      /\ r.reaction = IsReaction(Coerce(w)) /\ r.addresses = {E164(a) : a \in Addresses(m)}
  BY <1>7, <1>8 DEF Normalized
<1>10. AnswersTo(r, u)
  <2>1. r.words = w /\ r.reaction = IsReaction(w)
    BY <1>2, <1>9
  <2>2. r.reaction = (u.kind = "reaction")
    <3>1. IsReaction(w) \in BOOLEAN
      BY DEF IsReaction
    <3> QED BY <1>2, <2>1, <3>1
  <2>3. r.direction = IF u.by = Myself THEN "outgoing" ELSE "incoming"
    BY <1>5, <1>8, <1>9
  <2> QED BY <1>2, <2>1, <2>2, <2>3 DEF AnswersTo
<1>11. r.addresses = NumbersOf(IF listed THEN u.with \cup {Myself} ELSE u.with)
  BY <1>1, <1>9, MmsAddresses
<1> QED BY <1>6, <1>9, <1>10, <1>11

Single(u) == u.kind # "media" /\ Cardinality(u.with) = 1
RecordOf(u, listed) == IF Single(u) THEN NormalizeSms(SmsOf(u).row) ELSE NormalizeMms(Mms(u, listed))

\* Whoever is the owner in an address.
Own == {<<"alias", Myself>>, <<"number", Myself>>}

LEMMA BackupRecordIs ==
    ASSUME NEW u, Sayable(u), u.kind \in {"text", "media", "reaction"}, NEW listed \in BOOLEAN,
           NEW r, r = RecordOf(u, listed)
    PROVE  AnswersTo(r, u) /\ r.at = MsAt(u.at) /\ r.addresses \ Own = NumbersOf(u.with)
<1>1. u.with \in SUBSET Others /\ u.at \in Nat /\ SecondsAt(u.at) < Threshold
  BY DEF Sayable, Utterance
<1>2. \A p \in u.with : <<"number", p>> \notin Own
  <2>1. \A p \in u.with : p # Myself
    BY <1>1, NamesAssumption
  <2> QED BY <2>1 DEF Own
<1>3. NumbersOf(u.with) \ Own = NumbersOf(u.with) /\ NumbersOf(u.with \cup {Myself}) \ Own = NumbersOf(u.with)
  BY <1>2 DEF NumbersOf, Own
<1>4. CASE Single(u)
  <2>1. u.kind \in {"text", "reaction"} /\ Cardinality(u.with) = 1
    BY <1>4 DEF Single
  <2>2. IsFiniteSet(u.with)
    BY DEF Sayable
  <2>3. PICK p : u.with = {p}
    BY <2>1, <2>2, FS_Singleton
  <2>4. PICK a : a = Number(CHOOSE q \in u.with : TRUE, u.by = Myself)
    OBVIOUS
  <2>5. a = Number(p, u.by = Myself)
    <3>1. (CHOOSE q \in u.with : TRUE) = p
      BY <2>3
    <3> QED BY <2>4, <3>1
  <2>6. a # Nobody /\ E164(a) = <<"number", p>>
    <3>1. p \in Names
      BY <1>1, <2>3 DEF Names
    <3> QED BY <2>5, <3>1, NothingAssumption DEF Number, E164
  <2>7. PICK row : row = SmsOf(u).row
    OBVIOUS
  <2>8. /\ row.type = (IF u.by = Myself THEN 2 ELSE 1) /\ row.body = WordsOf(u) /\ row.address = a
        /\ row.date = MsAt(u.at)
    BY <2>1, <2>4, <2>7, TextIs DEF SmsOf, Sms
  <2>9. /\ AnswersTo(NormalizeSms(row), u) /\ NormalizeSms(row).addresses = {E164(a)}
        /\ NormalizeSms(row).at = ToMs(row.date)
    BY <2>6, <2>8, SmsAnswers
  <2>10. r = NormalizeSms(row)
    BY <1>4, <2>7 DEF RecordOf
  <2>11. r.at = MsAt(u.at)
    BY <1>1, <2>8, <2>9, <2>10, MsKept
  <2>12. r.addresses = NumbersOf(u.with)
    BY <2>3, <2>6, <2>9, <2>10 DEF NumbersOf
  <2> QED BY <1>3, <2>9, <2>10, <2>11, <2>12
<1>5. CASE ~Single(u)
  <2>1. r = NormalizeMms(Mms(u, listed))
    BY <1>5 DEF RecordOf
  <2>2. /\ AnswersTo(r, u) /\ r.at = MsAt(u.at)
        /\ r.addresses = NumbersOf(IF listed THEN u.with \cup {Myself} ELSE u.with)
    BY <2>1, MmsAnswers
  <2> QED BY <1>3, <2>2
<1> QED BY <1>4, <1>5

BackupTalk(talk) ==
    /\ talk \in Seq(Utterance)
    /\ \A i \in DOMAIN talk : Sayable(talk[i]) /\ talk[i].kind \in {"text", "media", "reaction"}

RecordsUpTo(talk, listed, n) == [k \in 1 .. n |-> RecordOf(talk[k], listed)]

\* The elements of one message lead to its record.
LEMMA MessageRead ==
    ASSUME NEW u, Sayable(u), u.kind \in {"text", "media", "reaction"}, NEW listed \in BOOLEAN,
           NEW rs \in Seq(Emits(BackupElements)),
           NEW elements, elements = IF Single(u) THEN <<SmsOf(u)>> ELSE MmsOf(u, listed)
    PROVE  /\ elements \in Seq(BackupElements)
           /\ Append(rs, RecordOf(u, listed)) \in Seq(Emits(BackupElements))
           /\ Leads(Streams(BackupElements), StreamNext(BackupElements), Between(rs), elements,
                    Between(Append(rs, RecordOf(u, listed))))
<1>1. CASE Single(u)
  <2>1. PICK M : M = BackupElements
    OBVIOUS
  <2>2. PICK e : e = SmsOf(u)
    OBVIOUS
  <2>3. e \in M /\ e.tag = "sms"
    <3>1. u \in Utterance
      BY DEF Sayable
    <3>2. e \in M
      BY <2>1, <2>2, <3>1 DEF BackupElements
    <3>3. e.tag = "sms"
      BY <2>2 DEF SmsOf
    <3> QED BY <3>2, <3>3
  <2>4. Between(rs) \in Streams(M)
    <3>1. NoMms \in Currents(M)
      BY DEF NoMms, Currents
    <3> QED BY <2>1, <3>1 DEF Between, Streams
  <2>5. Tag(Between(rs), e) = Between(Append(rs, RecordOf(u, listed)))
    <3>1. Tag(Between(rs), e) = Between(Append(rs, NormalizeSms(e.row)))
      BY <2>3 DEF Tag, Between
    <3> QED BY <1>1, <2>2, <3>1 DEF RecordOf
  <2>6. Leads(Streams(M), StreamNext(M), Between(rs), <<>>, Between(rs))
    BY <2>4, LeadsNowhere
  <2>7. /\ Tag(Between(rs), e) \in Streams(M) /\ <<>> \o <<e>> \in Seq(M)
        /\ Leads(Streams(M), StreamNext(M), Between(rs), <<>> \o <<e>>, Tag(Between(rs), e))
    <3>1. <<>> \in Seq(M)
      OBVIOUS
    <3> QED BY <2>3, <2>4, <2>6, <3>1, StreamReads
  <2>8. <<>> \o <<e>> = <<e>> /\ elements = <<e>>
    BY <1>1, <2>2, <2>3
  <2>9. Append(rs, RecordOf(u, listed)) \in Seq(Emits(M))
    <3>1. PICK rs2 : rs2 = Append(rs, RecordOf(u, listed))
      OBVIOUS
    <3>2. Between(rs2) \in Streams(M)
      BY <2>5, <2>7, <3>1
    <3> QED BY <3>1, <3>2 DEF Streams, Between
  <2> QED BY <2>1, <2>5, <2>7, <2>8, <2>9
<1>2. CASE ~Single(u)
  <2>1. u.kind # "notice"
    OBVIOUS
  <2>2. elements = MmsOf(u, listed) /\ RecordOf(u, listed) = NormalizeMms(Mms(u, listed))
    BY <1>2 DEF RecordOf
  <2> QED BY <2>1, <2>2, MmsRead
<1> QED BY <1>1, <1>2

LEMMA BackupRead ==
    ASSUME NEW talk, BackupTalk(talk), NEW listed \in BOOLEAN
    PROVE  FoldLeft(Tag, Began, ElementsOf(talk, listed)) = Between(RecordsUpTo(talk, listed, Len(talk)))
<1>1. PICK n \in Nat : n = Len(talk) /\ DOMAIN talk = 1 .. n
  BY DEF BackupTalk
<1>2. PICK M : M = BackupElements
  OBVIOUS
<1>3. PICK rs : rs = [i \in 0 .. n |-> RecordsUpTo(talk, listed, i)]
  OBVIOUS
<1>4. PICK seqs : seqs = [i \in 1 .. n |-> IF Single(talk[i]) THEN <<SmsOf(talk[i])>> ELSE MmsOf(talk[i], listed)]
  OBVIOUS
<1>5. \A i \in 1 .. n : Sayable(talk[i]) /\ talk[i].kind \in {"text", "media", "reaction"}
  BY <1>1 DEF BackupTalk
<1>6. rs[0] = <<>>
  BY <1>3 DEF RecordsUpTo
<1>7. \A i \in 1 .. n : i - 1 \in 0 .. n /\ rs[i] = Append(rs[i - 1], RecordOf(talk[i], listed))
  <2>1. TAKE i \in 1 .. n
  <2>2. i - 1 \in 0 .. n /\ i \in 0 .. n /\ i - 1 \in Nat /\ i = (i - 1) + 1
    OBVIOUS
  <2>3. rs[i] = RecordsUpTo(talk, listed, i) /\ rs[i - 1] = RecordsUpTo(talk, listed, i - 1)
    BY <1>3, <2>2
  <2>4. PICK f : f = [k \in 1 .. i |-> RecordOf(talk[k], listed)]
    OBVIOUS
  <2>5. PICK g : g = [k \in 1 .. (i - 1) |-> RecordOf(talk[k], listed)]
    OBVIOUS
  <2>6. f = Append(g, f[i])
    <3>1. PICK S : S = {RecordOf(talk[k], listed) : k \in 1 .. i}
      OBVIOUS
    <3>2. f \in Seq(S) /\ g \in Seq(S) /\ Len(f) = i /\ Len(g) = i - 1 /\ f[i] \in S
      BY SMTT(40), <2>2, <2>4, <2>5, <3>1
    <3>3. Append(g, f[i]) \in Seq(S) /\ Len(Append(g, f[i])) = i /\ Append(g, f[i])[i] = f[i]
      BY <2>2, <3>2
    <3>4. \A k \in 1 .. i : Append(g, f[i])[k] = f[k]
      <4>1. TAKE k \in 1 .. i
      <4>2. CASE k = i
        BY <3>3, <4>2
      <4>3. CASE k # i
        <5>1. k \in 1 .. Len(g)
          BY <2>2, <3>2, <4>3
        <5>2. Append(g, f[i])[k] = g[k]
          BY <3>2, <5>1
        <5> QED BY <2>4, <2>5, <3>2, <5>1, <5>2
      <4> QED BY <4>2, <4>3
    <3> QED BY <3>2, <3>3, <3>4, SeqEqual
  <2>7. f[i] = RecordOf(talk[i], listed)
    BY <2>4
  <2> QED BY <2>2, <2>3, <2>4, <2>5, <2>6, <2>7 DEF RecordsUpTo
<1>8. \A i \in 0 .. n : rs[i] \in Seq(Emits(M))
  <2> DEFINE P(i) == i \in 0 .. n => rs[i] \in Seq(Emits(M))
  <2>1. P(0)
    BY <1>6
  <2>2. ASSUME NEW i \in Nat, P(i), i + 1 \in 0 .. n PROVE rs[i + 1] \in Seq(Emits(M))
    <3>1. i + 1 \in 1 .. n /\ (i + 1) - 1 = i /\ i \in 0 .. n
      BY <2>2
    <3>2. rs[i + 1] = Append(rs[i], RecordOf(talk[i + 1], listed)) /\ rs[i] \in Seq(Emits(M))
      BY <1>7, <2>2, <3>1
    <3>3. Append(rs[i], RecordOf(talk[i + 1], listed)) \in Seq(Emits(M))
      BY <1>2, <1>5, <3>1, <3>2, MessageRead
    <3> QED BY <3>2, <3>3
  <2> HIDE DEF P
  <2>3. \A i \in 0 .. n : P(i)
    <3>1. PICK S : S = {i \in 0 .. n : rs[i] \in Seq(Emits(M))}
      OBVIOUS
    <3>2. 0 \in S
      BY <2>1, <3>1 DEF P
    <3>3. \A i \in 1 .. n : i - 1 \in S => i \in S
      <4>1. TAKE i \in 1 .. n
      <4>2. i - 1 \in Nat /\ (i - 1) + 1 = i /\ i \in 0 .. n
        OBVIOUS
      <4> QED BY <2>2, <3>1, <4>2 DEF P
    <3>4. \A i \in 0 .. n : i \in S
      BY <3>2, <3>3, UpTo
    <3> QED BY <3>1, <3>4 DEF P
  <2> QED BY <2>3 DEF P
<1>9. seqs \in Seq(Seq(M)) /\ Len(seqs) = n
  <2>1. \A i \in 1 .. n : seqs[i] \in Seq(M)
    <3>1. TAKE i \in 1 .. n
    <3>2. <<>> \in Seq(Emits(BackupElements))
      OBVIOUS
    <3> QED BY <1>2, <1>4, <1>5, <3>2, MessageRead
  <2> QED BY <1>4, <2>1
<1>10. PICK st : st = [i \in 0 .. n |-> Between(rs[i])]
  OBVIOUS
<1>11. st \in [0 .. n -> Streams(M)]
  <2>1. NoMms \in Currents(M)
    BY DEF NoMms, Currents
  <2>2. \A i \in 0 .. n : Between(rs[i]) \in Streams(M)
    BY <1>8, <2>1 DEF Between, Streams
  <2> QED BY <1>10, <2>2
<1>12. \A i \in 1 .. n : Leads(Streams(M), StreamNext(M), st[i - 1], seqs[i], st[i])
  <2>1. TAKE i \in 1 .. n
  <2>2. i - 1 \in 0 .. n /\ i \in 0 .. n
    OBVIOUS
  <2>3. PICK q, q2, r : q = rs[i - 1] /\ q2 = rs[i] /\ r = RecordOf(talk[i], listed)
    OBVIOUS
  <2>4. q \in Seq(Emits(M)) /\ q2 = Append(q, r) /\ st[i - 1] = Between(q) /\ st[i] = Between(q2)
    BY <1>7, <1>8, <1>10, <2>2, <2>3
  <2>5. Leads(Streams(M), StreamNext(M), Between(q), seqs[i], Between(Append(q, RecordOf(talk[i], listed))))
    BY <1>2, <1>4, <1>5, <2>4, MessageRead
  <2> QED BY <2>3, <2>4, <2>5
<1>13. Leads(Streams(M), StreamNext(M), st[0], FlattenSeq(seqs), st[n])
  BY <1>9, <1>11, <1>12, LeadsThroughAll
<1>14. st[0] = Began /\ st[n] = Between(RecordsUpTo(talk, listed, n))
  BY <1>3, <1>6, <1>10 DEF Between, Began
<1>15. FlattenSeq(seqs) \in Seq(M)
  BY <1>9, OffsetsExist
<1>16. ElementsOf(talk, listed) = FlattenSeq(seqs)
  BY <1>1, <1>4 DEF ElementsOf, Single
<1> QED BY <1>1, <1>13, <1>14, <1>15, <1>16, WhereTheStreamEnds

\* What is recorded of a backup.
BackupKept(r, talk) ==
    /\ r.records \in Seq(Range(r.records)) /\ Len(talk) \in Nat /\ DOMAIN r.records = 1 .. Len(talk)
    /\ \A k \in 1 .. Len(talk) :
          /\ AnswersTo(r.records[k], talk[k]) /\ r.records[k].at = MsAt(talk[k].at)
          /\ r.records[k].addresses \ Own = NumbersOf(talk[k].with)

\* What is imported of a backup.
LEMMA BackupImported ==
    ASSUME NEW talk, BackupTalk(talk), NEW listed \in BOOLEAN, NEW whole \in BOOLEAN,
           NEW r, r = ParseSmsBackup(ElementsOf(talk, listed), whole), r.refused = Nobody
    PROVE  BackupKept(r, talk)
<1>1. whole
  BY NothingAssumption DEF ParseSmsBackup
<1>2. r.records = RecordsUpTo(talk, listed, Len(talk))
  <2>1. r.records = FoldLeft(Tag, Began, ElementsOf(talk, listed)).records
    BY <1>1 DEF ParseSmsBackup
  <2> QED BY <2>1, BackupRead DEF Between
<1>3. Len(talk) \in Nat /\ DOMAIN talk = 1 .. Len(talk)
  BY DEF BackupTalk
<1>4. DOMAIN r.records = 1 .. Len(talk)
  BY <1>2, <1>3 DEF RecordsUpTo
<1>5. \A k \in 1 .. Len(talk) : r.records[k] = RecordOf(talk[k], listed)
  BY <1>2 DEF RecordsUpTo
<1>6. \A k \in 1 .. Len(talk) : Sayable(talk[k]) /\ talk[k].kind \in {"text", "media", "reaction"}
  BY <1>3 DEF BackupTalk
<1>7. \A k \in 1 .. Len(talk) :
         /\ AnswersTo(r.records[k], talk[k]) /\ r.records[k].at = MsAt(talk[k].at)
         /\ r.records[k].addresses \ Own = NumbersOf(talk[k].with)
  BY <1>5, <1>6, BackupRecordIs
<1>8. r.records \in Seq(Range(r.records))
  <2>1. r.records = [k \in 1 .. Len(talk) |-> RecordOf(talk[k], listed)]
    BY <1>2 DEF RecordsUpTo
  <2>2. \A k \in 1 .. Len(talk) : r.records[k] \in Range(r.records)
    BY <1>4 DEF Range
  <2> QED BY <1>3, <2>1, <2>2
<1> QED BY <1>3, <1>4, <1>7, <1>8 DEF BackupKept
=============================================================================
