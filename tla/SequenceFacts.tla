--------------------------- MODULE SequenceFacts ---------------------------
(***************************************************************************)
(* What the proofs about trees rest on: that a function defined by         *)
(* recursion on a rank exists, and what FlattenSeq, with which MIME parts  *)
(* are walked and XML children are put in order, makes of a sequence of    *)
(* sequences.                                                              *)
(***************************************************************************)
EXTENDS Naturals, SequencesExt, TLAPS, WellFoundedInduction, SequenceTheorems

-----------------------------------------------------------------------------
(* Recursion *)

\* A set of natural numbers that is not empty has a least element.
LEMMA LeastNatural ==
    ASSUME NEW S \in SUBSET Nat, S # {}
    PROVE  \E m \in S : \A k \in S : m <= k
<1> DEFINE R == {ss \in Nat \X Nat : ss[1] < ss[2]}
<1>1. IsWellFoundedOn(R, Nat)
  BY NatLessThanWellFounded DEF OpToRel
<1> HIDE DEF R
<1>2. PICK m \in S : \A k \in S : ~(<<k, m>> \in R)
  BY <1>1, WFMin
<1>3. ASSUME NEW k \in S
      PROVE  m <= k
  <2>1. k \in Nat /\ m \in Nat /\ (k < m => <<k, m>> \in R)
    BY DEF R
  <2> QED
    BY <1>2, <2>1
<1> QED
  BY <1>3

\* The equations of rule G hold of f where the rank is below n.
Solves(D, rank, G, n, f) == \A d \in D : rank[d] < n => f[d] = G[<<d, f>>]

\* A rule that looks at smaller ranks only.
Grounded(D, rank, V, G) ==
    /\ rank \in [D -> Nat]
    /\ G \in [D \X [D -> V] -> V]
    /\ \A d \in D : \A f, g \in [D -> V] :
          (\A e \in D : rank[e] < rank[d] => f[e] = g[e]) => G[<<d, f>>] = G[<<d, g>>]

\* One more rank can always be filled in.
LEMMA SolvesNext ==
    ASSUME NEW D, NEW V, NEW rank, NEW G, Grounded(D, rank, V, G),
           NEW n \in Nat, NEW f \in [D -> V], Solves(D, rank, G, n, f)
    PROVE  \E g \in [D -> V] : Solves(D, rank, G, n + 1, g)
<1> DEFINE g == [d \in D |-> IF rank[d] = n THEN G[<<d, f>>] ELSE f[d]]
<1>1. \A d \in D : G[<<d, f>>] \in V
  BY DEF Grounded
<1>2. g \in [D -> V]
  BY <1>1
<1>3. \A d \in D : rank[d] # n => g[d] = f[d]
  OBVIOUS
<1>4. \A d \in D : rank[d] = n => g[d] = G[<<d, f>>]
  OBVIOUS
<1> HIDE DEF g
<1>5. ASSUME NEW d \in D, rank[d] < n + 1
      PROVE  g[d] = G[<<d, g>>]
  <2>1. \A e \in D : rank[e] \in Nat
    BY DEF Grounded
  <2>2. \A e \in D : rank[e] < rank[d] => f[e] = g[e]
    BY <1>3, <1>5, <2>1
  <2>3. G[<<d, f>>] = G[<<d, g>>]
    BY <1>2, <2>2 DEF Grounded
  <2>4. g[d] = G[<<d, f>>]
    BY <1>3, <1>4, <1>5, <2>1 DEF Solves
  <2> QED
    BY <2>3, <2>4
<1> QED
  BY <1>2, <1>5 DEF Solves

\* Hence the ranks below any number can.
LEMMA SolvesUpTo ==
    ASSUME NEW D, NEW V, NEW rank, NEW G, Grounded(D, rank, V, G), NEW v \in V
    PROVE  \A n \in Nat : \E f \in [D -> V] : Solves(D, rank, G, n, f)
<1> DEFINE Open == {n \in Nat : ~\E f \in [D -> V] : Solves(D, rank, G, n, f)}
<1> SUFFICES ASSUME Open # {}
             PROVE  FALSE
  OBVIOUS
<1>1. PICK n \in Open : \A k \in Open : n <= k
  <2>1. Open \in SUBSET Nat
    OBVIOUS
  <2> HIDE DEF Open
  <2> QED
    BY <2>1, LeastNatural
<1>2. n # 0
  <2>1. [d \in D |-> v] \in [D -> V] /\ Solves(D, rank, G, 0, [d \in D |-> v])
    BY DEF Solves, Grounded
  <2> QED
    BY <2>1
<1>3. n - 1 \in Nat /\ n - 1 \notin Open
  BY <1>1, <1>2
<1>4. PICK f \in [D -> V] : Solves(D, rank, G, n - 1, f)
  BY <1>3
<1>5. (n - 1) + 1 = n
  BY <1>3
<1>6. \E g \in [D -> V] : Solves(D, rank, G, n, g)
  BY <1>3, <1>4, <1>5, SolvesNext
<1> QED
  BY <1>6

\* Where two functions obey the rule they agree.
LEMMA SolvesUnique ==
    ASSUME NEW D, NEW V, NEW rank, NEW G, Grounded(D, rank, V, G),
           NEW n \in Nat, NEW m \in Nat, NEW f \in [D -> V], NEW g \in [D -> V],
           Solves(D, rank, G, n, f), Solves(D, rank, G, m, g)
    PROVE  \A d \in D : rank[d] < n /\ rank[d] < m => f[d] = g[d]
<1> DEFINE Bad == {d \in D : rank[d] < n /\ rank[d] < m /\ f[d] # g[d]}
           Ranks == {rank[d] : d \in Bad}
<1> SUFFICES ASSUME Bad # {}
             PROVE  FALSE
  OBVIOUS
<1>1. rank \in [D -> Nat]
  BY DEF Grounded
<1>2. Ranks \in SUBSET Nat /\ Ranks # {}
  BY <1>1
<1>3. PICK d \in Bad : \A e \in Bad : rank[d] <= rank[e]
  <2>1. PICK k \in Ranks : \A j \in Ranks : k <= j
    <3> HIDE DEF Ranks
    <3> QED
      BY <1>2, LeastNatural
  <2> QED
    BY <2>1
<1>4. \A e \in D : rank[e] < rank[d] => f[e] = g[e]
  BY <1>1, <1>3
<1>5. G[<<d, f>>] = G[<<d, g>>]
  BY <1>4 DEF Grounded
<1> QED
  BY <1>3, <1>5 DEF Solves

\* A rule that looks at smaller ranks only defines a function.
LEMMA Recursion ==
    ASSUME NEW D, NEW V, NEW rank, NEW G, Grounded(D, rank, V, G), NEW v \in V
    PROVE  \E f \in [D -> V] : \A d \in D : f[d] = G[<<d, f>>]
<1> DEFINE below(d) == CHOOSE f \in [D -> V] : Solves(D, rank, G, rank[d] + 1, f)
           F == [d \in D |-> below(d)[d]]
<1>1. \A d \in D : rank[d] \in Nat /\ rank[d] + 1 \in Nat
  BY DEF Grounded
<1>2. \A d \in D : below(d) \in [D -> V] /\ Solves(D, rank, G, rank[d] + 1, below(d))
  BY <1>1, SolvesUpTo
<1> HIDE DEF below
<1>3. F \in [D -> V]
  BY <1>2
<1>4. \A d \in D : F[d] = below(d)[d]
  OBVIOUS
<1> HIDE DEF F
<1>5. ASSUME NEW d \in D
      PROVE  F[d] = G[<<d, F>>]
  <2>1. ASSUME NEW e \in D, rank[e] < rank[d]
        PROVE  F[e] = below(d)[e]
    <3>1. rank[e] < rank[e] + 1 /\ rank[e] < rank[d] + 1
      BY <1>1, <2>1
    <3>2. below(e)[e] = below(d)[e]
      BY <1>1, <1>2, <3>1, SolvesUnique
    <3> QED
      BY <1>4, <3>2
  <2>2. G[<<d, F>>] = G[<<d, below(d)>>]
    BY <1>2, <1>3, <2>1 DEF Grounded
  <2>3. below(d)[d] = G[<<d, below(d)>>]
    BY <1>1, <1>2 DEF Solves
  <2> QED
    BY <1>4, <2>2, <2>3
<1> QED
  BY <1>3, <1>5

-----------------------------------------------------------------------------
(* Flattening *)

\* The function FlattenSeq recurses with: what the first i sequences make.
Flattened(ss) ==
    CHOOSE h : h = [i \in 1..Len(ss) |-> IF i = 1 THEN ss[i] ELSE h[i - 1] \o ss[i]]

\* FlattenSeq puts one sequence after another.
LEMMA FlattenIsChain ==
    ASSUME NEW S, NEW ss \in Seq(Seq(S)), ss # <<>>
    PROVE  /\ FlattenSeq(ss) = Flattened(ss)[Len(ss)]
           /\ Flattened(ss)[1] = ss[1]
           /\ \A i \in 1..Len(ss) : i # 1 => Flattened(ss)[i] = Flattened(ss)[i - 1] \o ss[i]
           /\ \A i \in 1..Len(ss) : Flattened(ss)[i] \in Seq(S)
<1> DEFINE n == Len(ss)
           D == 1..n
           V == Seq(S)
           rank == [i \in D |-> i]
           step(i, h) == IF i = 1 THEN ss[i] ELSE h[i - 1] \o ss[i]
           G == [dh \in D \X [D -> V] |-> step(dh[1], dh[2])]
           Eq(h) == h = [i \in D |-> step(i, h)]
<1>0. n \in Nat /\ n # 0
  BY EmptySeq, LenProperties
<1>1. \A i \in D : ss[i] \in V
  BY ElementOfSeq
<1>3. <<>> \in V /\ \A s, t \in V : s \o t \in V
  BY EmptySeq, ConcatProperties
<1> HIDE DEF n, V
<1>2. Grounded(D, rank, V, G)
  <2>1. rank \in [D -> Nat]
    BY <1>0
  <2>2. ASSUME NEW d \in D, NEW h \in [D -> V]
        PROVE  step(d, h) \in V
    <3>1. CASE d = 1
      BY <1>1, <3>1
    <3>2. CASE d # 1
      <4>1. d - 1 \in D
        BY <1>0, <3>2
      <4> HIDE DEF D
      <4>2. h[d - 1] \in V
        BY <4>1
      <4> QED
        BY <1>1, <1>3, <3>2, <4>2
    <3> QED
      BY <3>1, <3>2
  <2>3. G \in [D \X [D -> V] -> V]
    BY <2>2
  <2>4. ASSUME NEW d \in D, NEW f \in [D -> V], NEW g \in [D -> V],
               \A e \in D : rank[e] < rank[d] => f[e] = g[e]
        PROVE  G[<<d, f>>] = G[<<d, g>>]
    <3>1. d # 1 => f[d - 1] = g[d - 1]
      BY <1>0, <2>4
    <3>2. step(d, f) = step(d, g)
      BY <3>1
    <3> QED
      BY <3>2
  <2> QED
    BY <2>1, <2>3, <2>4 DEF Grounded
<1>4. PICK f \in [D -> V] : \A d \in D : f[d] = G[<<d, f>>]
  <2> HIDE DEF D, V, rank, G
  <2> QED
    BY <1>2, <1>3, Recursion
<1>5. \A d \in D : f[d] = step(d, f)
  BY <1>4
<1>6. Eq(f)
  BY <1>5
<1>7. Eq(Flattened(ss))
  BY <1>6 DEF Flattened, n
<1>8. \A i \in D : Flattened(ss)[i] = step(i, Flattened(ss))
  BY <1>7
<1>9. FlattenSeq(ss) = Flattened(ss)[n]
  BY <1>0 DEF FlattenSeq, Flattened, n
<1>10. \A i \in D : Flattened(ss)[i] \in V
  <2> SUFFICES ASSUME NEW j \in D, Flattened(ss)[j] \notin V
               PROVE  FALSE
    OBVIOUS
  <2> DEFINE Bad == {i \in D : Flattened(ss)[i] \notin V}
  <2>1. PICK i \in Bad : \A k \in Bad : i <= k
    <3>1. j \in Bad /\ Bad \subseteq D
      OBVIOUS
    <3>2. D \subseteq Nat
      BY <1>0
    <3> HIDE DEF Bad, D
    <3> QED
      BY <3>1, <3>2, LeastNatural
  <2>2. CASE i = 1
    BY <1>1, <1>8, <2>1, <2>2
  <2>3. CASE i # 1
    <3>1. i - 1 \in D /\ i - 1 \notin Bad
      BY <1>0, <2>1, <2>3
    <3>2. Flattened(ss)[i - 1] \in V /\ ss[i] \in V
      BY <1>1, <3>1
    <3>3. Flattened(ss)[i] = Flattened(ss)[i - 1] \o ss[i]
      BY <1>8, <2>3
    <3> QED
      BY <1>3, <2>1, <3>2, <3>3
  <2> QED
    BY <2>2, <2>3
<1>11. Flattened(ss)[1] = ss[1]
  BY <1>0, <1>8
<1>12. \A i \in D : i # 1 => Flattened(ss)[i] = Flattened(ss)[i - 1] \o ss[i]
  BY <1>8
<1> QED
  BY <1>9, <1>10, <1>11, <1>12 DEF n, V

\* A sequence of sequences makes a sequence.
LEMMA FlattenType ==
    ASSUME NEW S, NEW ss \in Seq(Seq(S))
    PROVE  FlattenSeq(ss) \in Seq(S)
<1>1. CASE ss = <<>>
  BY <1>1, EmptySeq DEF FlattenSeq
<1>2. CASE ss # <<>>
  <2>1. Len(ss) \in 1..Len(ss)
    BY <1>2, EmptySeq
  <2> QED
    BY <1>2, <2>1, FlattenIsChain
<1> QED
  BY <1>1, <1>2

\* A short sequence is a tuple.
LEMMA AsTuple ==
    ASSUME NEW S, NEW s \in Seq(S)
    PROVE  /\ Len(s) = 0 => s = <<>>
           /\ Len(s) = 1 => s = <<s[1]>>
           /\ Len(s) = 2 => s = <<s[1], s[2]>>
           /\ Len(s) = 3 => s = <<s[1], s[2], s[3]>>
<1>1. Len(s) = 0 => s = <<>>
  BY EmptySeq
<1>2. Len(s) = 1 => s = <<s[1]>>
  OBVIOUS
<1>3. Len(s) = 2 => s = <<s[1], s[2]>>
  OBVIOUS
<1>4. Len(s) = 3 => s = <<s[1], s[2], s[3]>>
  OBVIOUS
<1> QED
  BY <1>1, <1>2, <1>3, <1>4

\* One sequence after another; a name, to keep the provers from expanding it.
Cat(s, t) == s \o t

LEMMA CatFacts ==
    ASSUME NEW S, NEW s \in Seq(S), NEW a \in S, NEW b \in S, NEW c \in S
    PROVE  /\ Cat(s, <<>>) = s
           /\ Cat(<<>>, s) = s
           /\ Cat(<<a>>, <<b>>) = <<a, b>>
           /\ Cat(<<a, b>>, <<c>>) = <<a, b, c>>
<1>1. Cat(s, <<>>) = s /\ Cat(<<>>, s) = s
  BY ConcatEmptySeq DEF Cat
<1>2. Cat(<<a>>, <<b>>) = <<a, b>>
  <2> DEFINE u == Cat(<<a>>, <<b>>)
  <2>1. u \in Seq(S) /\ Len(u) = 2 /\ u[1] = a /\ u[2] = b
    BY DEF Cat
  <2> HIDE DEF u
  <2> QED
    BY <2>1, AsTuple DEF u
<1>3. Cat(<<a, b>>, <<c>>) = <<a, b, c>>
  <2> DEFINE u == Cat(<<a, b>>, <<c>>)
  <2>1. u \in Seq(S) /\ Len(u) = 3 /\ u[1] = a /\ u[2] = b /\ u[3] = c
    BY DEF Cat
  <2> HIDE DEF u
  <2> QED
    BY <2>1, AsTuple DEF u
<1> QED
  BY <1>1, <1>2, <1>3

LEMMA CatType ==
    ASSUME NEW S, NEW s \in Seq(S), NEW t \in Seq(S)
    PROVE  Cat(s, t) \in Seq(S)
BY ConcatProperties DEF Cat

\* A short sequence of sequences, written out.
LEMMA FlattenShort ==
    ASSUME NEW S, NEW ss \in Seq(Seq(S))
    PROVE  /\ Len(ss) = 0 => FlattenSeq(ss) = <<>>
           /\ Len(ss) = 1 => FlattenSeq(ss) = ss[1]
           /\ Len(ss) = 2 => FlattenSeq(ss) = Cat(ss[1], ss[2])
           /\ Len(ss) = 3 => FlattenSeq(ss) = Cat(Cat(ss[1], ss[2]), ss[3])
           /\ Len(ss) = 4 => FlattenSeq(ss) = Cat(Cat(Cat(ss[1], ss[2]), ss[3]), ss[4])
<1>1. CASE Len(ss) = 0
  <2>1. ss = <<>>
    BY <1>1, EmptySeq
  <2> QED
    BY <1>1, <2>1 DEF FlattenSeq
<1>2. CASE Len(ss) \in 1..4
  <2>1. /\ FlattenSeq(ss) = Flattened(ss)[Len(ss)]
        /\ Flattened(ss)[1] = ss[1]
        /\ \A i \in 1..Len(ss) : i # 1 => Flattened(ss)[i] = Cat(Flattened(ss)[i - 1], ss[i])
    <3>1. ss # <<>>
      BY <1>2
    <3> QED
      BY <3>1, FlattenIsChain DEF Cat
  <2>2. ASSUME NEW i \in 1..4, NEW j \in 1..4, j = i + 1, j <= Len(ss)
        PROVE  Flattened(ss)[j] = Cat(Flattened(ss)[i], ss[j])
    <3>1. j # 1 /\ j - 1 = i /\ j \in 1..Len(ss)
      BY <1>2, <2>2
    <3> QED
      BY <2>1, <3>1
  <2>3. /\ 2 <= Len(ss) => Flattened(ss)[2] = Cat(Flattened(ss)[1], ss[2])
        /\ 3 <= Len(ss) => Flattened(ss)[3] = Cat(Flattened(ss)[2], ss[3])
        /\ 4 <= Len(ss) => Flattened(ss)[4] = Cat(Flattened(ss)[3], ss[4])
    <3>1. 2 \in 1..4 /\ 2 = 1 + 1 /\ 3 \in 1..4 /\ 3 = 2 + 1 /\ 4 \in 1..4 /\ 4 = 3 + 1 /\ 1 \in 1..4
      OBVIOUS
    <3> QED
      BY <2>2, <3>1
  <2>4. Len(ss) = 1 => FlattenSeq(ss) = ss[1]
    BY <2>1
  <2>5. Len(ss) = 2 => FlattenSeq(ss) = Cat(ss[1], ss[2])
    BY <2>1, <2>3
  <2>6. Len(ss) = 3 => FlattenSeq(ss) = Cat(Cat(ss[1], ss[2]), ss[3])
    BY <2>1, <2>3
  <2>7. Len(ss) = 4 => FlattenSeq(ss) = Cat(Cat(Cat(ss[1], ss[2]), ss[3]), ss[4])
    BY <2>1, <2>3
  <2>8. Len(ss) # 0
    BY <1>2
  <2> QED
    BY <2>4, <2>5, <2>6, <2>7, <2>8
<1>3. CASE Len(ss) \notin 0..4
  BY <1>3
<1>4. Len(ss) = 0 \/ Len(ss) \in 1..4 \/ Len(ss) \notin 0..4
  <2>1. Len(ss) \in Nat
    BY LenProperties
  <2> QED
    BY <2>1
<1> QED
  BY <1>1, <1>2, <1>3, <1>4

\* One element at a time gives back the sequence.
LEMMA FlattenSingles ==
    ASSUME NEW S, NEW s \in Seq(S)
    PROVE  FlattenSeq([i \in DOMAIN s |-> <<s[i]>>]) = s
<1> DEFINE n == Len(s)
           ss == [i \in DOMAIN s |-> <<s[i]>>]
           F == Flattened(ss)
           Same(i) == Len(F[i]) = i /\ \A k \in 1..i : F[i][k] = s[k]
           Bad == {i \in 1..n : ~Same(i)}
<1>1. n \in Nat /\ DOMAIN s = 1..n /\ \A i \in 1..n : s[i] \in S
  BY LenProperties, ElementOfSeq
<1>2. CASE n = 0
  <2>1. s = <<>>
    BY <1>2, EmptySeq
  <2>2. ss = <<>>
    BY <2>1
  <2> QED
    BY <2>1, <2>2 DEF FlattenSeq
<1>3. CASE n # 0
  <2>1. ss \in Seq(Seq(S)) /\ Len(ss) = n /\ ss # <<>> /\ \A i \in 1..n : ss[i] = <<s[i]>>
    <3>1. \A i \in 1..n : <<s[i]>> \in Seq(S)
      BY <1>1
    <3>2. ss \in [1..n -> Seq(S)]
      BY <1>1, <3>1
    <3> QED
      BY <1>1, <1>3, <3>2
  <2> HIDE DEF ss, n
  <2>2. /\ FlattenSeq(ss) = F[n] /\ F[1] = ss[1]
        /\ \A i \in 1..n : i # 1 => F[i] = F[i - 1] \o ss[i]
        /\ \A i \in 1..n : F[i] \in Seq(S)
    BY <2>1, FlattenIsChain
  <2> HIDE DEF F
  <2>3. Same(1)
    <3>1. F[1] = <<s[1]>>
      BY <1>1, <1>3, <2>1, <2>2
    <3> QED
      BY <1>1, <1>3, <3>1
  <2>4. ASSUME NEW i \in 1..n, i # 1, Same(i - 1)
        PROVE  Same(i)
    <3>1. i - 1 \in 1..n /\ F[i - 1] \in Seq(S) /\ F[i] = F[i - 1] \o <<s[i]>>
      <4>1. i - 1 \in 1..n
        BY <1>1, <2>4
      <4>2. F[i] = F[i - 1] \o ss[i] /\ ss[i] = <<s[i]>> /\ F[i - 1] \in Seq(S)
        BY <2>1, <2>2, <2>4, <4>1
      <4> QED
        BY <4>1, <4>2
    <3>2. Len(F[i]) = i
      BY <1>1, <2>4, <3>1
    <3>3. ASSUME NEW k \in 1..i
          PROVE  F[i][k] = s[k]
      <4>1. CASE k = i
        BY <1>1, <2>4, <3>1, <4>1
      <4>2. CASE k # i
        <5>1. k \in 1..(i - 1)
          BY <1>1, <4>2
        <5> QED
          BY <1>1, <2>4, <3>1, <5>1
      <4> QED
        BY <4>1, <4>2
    <3> QED
      BY <3>2, <3>3
  <2>5. Bad = {}
    <3> SUFFICES ASSUME Bad # {}
                 PROVE  FALSE
      OBVIOUS
    <3>1. Bad \in SUBSET Nat /\ Bad \subseteq 1..n
      BY <1>1
    <3> HIDE DEF Same
    <3>2. PICK i \in Bad : \A k \in Bad : i <= k
      <4> HIDE DEF Bad
      <4> QED
        BY <3>1, LeastNatural
    <3>3. i \in 1..n /\ ~Same(i)
      BY <3>2
    <3>4. i # 1
      BY <2>3, <3>3
    <3>5. i - 1 \in 1..n /\ i - 1 \notin Bad
      <4> HIDE DEF Bad
      <4> QED
        BY <1>1, <3>2, <3>3, <3>4
    <3>6. Same(i - 1)
      BY <3>5
    <3> QED
      BY <2>4, <3>3, <3>4, <3>6
  <2>6. n \in 1..n
    BY <1>1, <1>3
  <2>7. Len(F[n]) = n /\ \A k \in 1..n : F[n][k] = s[k]
    BY <2>5, <2>6
  <2>8. F[n] \in Seq(S)
    BY <2>2, <2>6
  <2>9. F[n] = s
    BY <1>1, <2>7, <2>8, SeqEqual DEF n
  <2> QED
    BY <2>2, <2>9 DEF ss
<1> QED
  BY <1>2, <1>3

\* Of sequences all but one of which are empty that one is left.
LEMMA FlattenUnique ==
    ASSUME NEW S, NEW ss \in Seq(Seq(S)), NEW k \in 1..Len(ss),
           \A i \in 1..Len(ss) : i # k => ss[i] = <<>>
    PROVE  FlattenSeq(ss) = ss[k]
<1> DEFINE n == Len(ss)
           F == Flattened(ss)
           Same(i) == F[i] = IF i < k THEN <<>> ELSE ss[k]
           Bad == {i \in 1..n : ~Same(i)}
<1>1. n \in Nat /\ n # 0 /\ \A i \in 1..n : ss[i] \in Seq(S)
  BY LenProperties, ElementOfSeq
<1>2. ss # <<>>
  BY <1>1
<1>3. /\ FlattenSeq(ss) = F[n] /\ F[1] = ss[1]
      /\ \A i \in 1..n : i # 1 => F[i] = Cat(F[i - 1], ss[i])
  BY <1>2, FlattenIsChain DEF Cat
<1>4. \A s \in Seq(S) : Cat(s, <<>>) = s /\ Cat(<<>>, s) = s
  BY ConcatEmptySeq DEF Cat
<1>5. <<>> \in Seq(S)
  BY EmptySeq
<1> HIDE DEF n, F
<1>6. Same(1)
  <2>1. CASE k = 1
    BY <1>3, <2>1
  <2>2. CASE k # 1
    BY <1>1, <1>3, <2>2 DEF n
  <2> QED
    BY <2>1, <2>2
<1>7. ASSUME NEW i \in 1..n, i # 1, Same(i - 1)
      PROVE  Same(i)
  <2>1. F[i] = Cat(F[i - 1], ss[i])
    BY <1>3, <1>7
  <2>2. CASE i < k
    <3>1. F[i - 1] = <<>> /\ ss[i] = <<>>
      BY <1>1, <1>7, <2>2 DEF n
    <3> QED
      BY <1>4, <1>5, <2>1, <2>2, <3>1
  <2>3. CASE i = k
    <3>1. F[i - 1] = <<>>
      BY <1>1, <1>7, <2>3 DEF n
    <3> QED
      BY <1>1, <1>4, <2>1, <2>3, <3>1
  <2>4. CASE i > k
    <3>1. F[i - 1] = ss[k] /\ ss[i] = <<>>
      BY <1>1, <1>7, <2>4 DEF n
    <3>2. ss[k] \in Seq(S)
      BY <1>1 DEF n
    <3>3. F[i] = ss[k]
      BY <1>4, <2>1, <3>1, <3>2
    <3> QED
      BY <2>4, <3>3, <1>1 DEF n
  <2> QED
    BY <1>1, <2>2, <2>3, <2>4 DEF n
<1>8. Bad = {}
  <2> SUFFICES ASSUME Bad # {}
               PROVE  FALSE
    OBVIOUS
  <2>1. Bad \in SUBSET Nat
    BY <1>1
  <2> HIDE DEF Same
  <2>2. PICK i \in Bad : \A j \in Bad : i <= j
    <3> HIDE DEF Bad
    <3> QED
      BY <2>1, LeastNatural
  <2>3. i \in 1..n /\ ~Same(i)
    BY <2>2
  <2>4. i # 1
    BY <1>6, <2>3
  <2>5. i - 1 \in 1..n /\ i - 1 \notin Bad
    <3> HIDE DEF Bad
    <3> QED
      BY <1>1, <2>2, <2>3, <2>4
  <2>6. Same(i - 1)
    BY <2>5
  <2> QED
    BY <1>7, <2>3, <2>4, <2>6
<1>9. n \in 1..n /\ ~(n < k)
  BY <1>1 DEF n
<1>10. F[n] = ss[k]
  BY <1>8, <1>9
<1> QED
  BY <1>3, <1>10

\* Of empty sequences nothing is left.
LEMMA FlattenNone ==
    ASSUME NEW S, NEW ss \in Seq(Seq(S)), \A i \in 1..Len(ss) : ss[i] = <<>>
    PROVE  FlattenSeq(ss) = <<>>
<1>1. CASE Len(ss) = 0
  BY <1>1, FlattenShort
<1>2. CASE Len(ss) # 0
  <2>1. 1 \in 1..Len(ss)
    BY <1>2, LenProperties
  <2> QED
    BY <2>1, FlattenUnique
<1> QED
  BY <1>1, <1>2
=============================================================================
