---------------------------- MODULE BuildProofs ----------------------------
(***************************************************************************)
(* What becomes of a message of build_peppol_message, proved for every     *)
(* attachment map, every order, every packaging and every policy of the    *)
(* receiver.  The invariant says what the parser is given: the message     *)
(* built from the recorded map, as far as the package shows it.  From      *)
(* there on the invariants of ParseProofs apply.                           *)
(*                                                                         *)
(* Before that, what MIMEHandler finds in a package, for every package:    *)
(* the part get_soap_part or get_encrypted_part returns is the first of    *)
(* its type in document order, however deep it is nested.  Both recurse    *)
(* over the parts of a part; that such a function exists follows from      *)
(* SequenceFacts and the one fact that no part is inside itself.           *)
(***************************************************************************)
EXTENDS PeppolBuild, ParseProofs, SequenceFacts

-----------------------------------------------------------------------------
(* The two recursive definitions *)

\* What get_part makes of part p, where f answers for the parts inside it.
FindStep(type, f, p) ==
    LET hits == {i \in DOMAIN p.parts : f[p.parts[i]] # <<>>}
    IN  CASE p.type = type -> <<p>>
          [] p.type = "multipart/related" /\ hits # {} -> f[p.parts[Min(hits)]]
          [] OTHER -> <<>>

FindIn(type) == CHOOSE f : f = [p \in Package |-> FindStep(type, f, p)]

\* The parts in order, where f answers for the parts inside part p.
WalkStep(f, p) ==
    IF p.type = "multipart/related"
    THEN FlattenSeq([i \in DOMAIN p.parts |-> f[p.parts[i]]])
    ELSE <<p>>

WalkOver == CHOOSE f : f = [p \in Package |-> WalkStep(f, p)]

\* Min picks the least element.
LEMMA MinIs ==
    ASSUME NEW S \in SUBSET Nat, S # {}
    PROVE  Min(S) \in S /\ \A k \in S : Min(S) <= k
BY LeastNatural DEF Min

\* The parts inside a part are parts, and less nested than it.
LEMMA InnerParts ==
    ASSUME NEW p \in Package
    PROVE  /\ DOMAIN p.parts \subseteq Nat
           /\ p.parts \in Seq(Package) /\ Len(p.parts) \in Nat /\ DOMAIN p.parts = 1..Len(p.parts)
           /\ \A i \in DOMAIN p.parts : p.parts[i] \in Package /\ Nesting[p.parts[i]] < Nesting[p]
<1>1. p.parts \in Seq(Package)
  BY PackageAssumption
<1>2. Len(p.parts) \in Nat /\ DOMAIN p.parts = 1..Len(p.parts)
  BY <1>1, LenProperties
<1>3. \A i \in DOMAIN p.parts : p.parts[i] \in Package
  BY <1>1, <1>2, ElementOfSeq
<1> QED
  BY <1>1, <1>2, <1>3, PackageAssumption

\* get_soap_part and get_encrypted_part answer for a part by what they answer
\* for the parts inside it.
LEMMA GetPartEquation ==
    ASSUME NEW type
    PROVE  /\ \A p \in Package : GetPart(p, type) = FindIn(type)[p]
           /\ \A p \in Package : FindIn(type)[p] = FindStep(type, FindIn(type), p)
<1> DEFINE V == Seq(Package)
           G == [pf \in Package \X [Package -> V] |-> FindStep(type, pf[2], pf[1])]
           Eq(f) == f = [p \in Package |-> FindStep(type, f, p)]
           hits(f, p) == {i \in DOMAIN p.parts : f[p.parts[i]] # <<>>}
<1>1. <<>> \in V /\ \A p \in Package : <<p>> \in V
  OBVIOUS
<1> HIDE DEF V
<1>2. Grounded(Package, Nesting, V, G)
  <2>1. Nesting \in [Package -> Nat]
    BY PackageAssumption
  <2>2. ASSUME NEW p \in Package, NEW f \in [Package -> V]
        PROVE  FindStep(type, f, p) \in V
    <3>1. CASE p.type = "multipart/related" /\ hits(f, p) # {}
      <4>1. hits(f, p) \in SUBSET Nat
        BY InnerParts
      <4>2. Min(hits(f, p)) \in hits(f, p)
        <5> HIDE DEF hits
        <5> QED
          BY <3>1, <4>1, MinIs
      <4>3. p.parts[Min(hits(f, p))] \in Package
        BY <4>2, InnerParts
      <4>4. f[p.parts[Min(hits(f, p))]] \in V
        BY <4>3
      <4> QED
        BY <1>1, <3>1, <4>4 DEF FindStep
    <3>2. CASE ~(p.type = "multipart/related" /\ hits(f, p) # {})
      BY <1>1, <3>2 DEF FindStep
    <3> QED
      BY <3>1, <3>2
  <2>3. G \in [Package \X [Package -> V] -> V]
    BY <2>2
  <2>4. ASSUME NEW p \in Package, NEW f \in [Package -> V], NEW g \in [Package -> V],
               \A q \in Package : Nesting[q] < Nesting[p] => f[q] = g[q]
        PROVE  G[<<p, f>>] = G[<<p, g>>]
    <3>1. \A i \in DOMAIN p.parts : f[p.parts[i]] = g[p.parts[i]]
      BY <2>4, InnerParts
    <3>2. hits(f, p) = hits(g, p)
      BY <3>1
    <3>3. hits(f, p) # {} => f[p.parts[Min(hits(f, p))]] = g[p.parts[Min(hits(f, p))]]
      <4>1. hits(f, p) \in SUBSET DOMAIN p.parts /\ hits(f, p) \in SUBSET Nat
        BY InnerParts
      <4> HIDE DEF hits
      <4> QED
        BY <3>1, <4>1, MinIs
    <3>4. FindStep(type, f, p) = FindStep(type, g, p)
      BY <3>2, <3>3 DEF FindStep
    <3> QED
      BY <3>4
  <2> QED
    BY <2>1, <2>3, <2>4 DEF Grounded
<1>3. PICK f \in [Package -> V] : \A p \in Package : f[p] = G[<<p, f>>]
  <2> HIDE DEF G
  <2> QED
    BY <1>1, <1>2, Recursion
<1>4. \A p \in Package : f[p] = FindStep(type, f, p)
  BY <1>3
<1>5. Eq(f)
  BY <1>4
<1>6. Eq(FindIn(type))
  BY <1>5 DEF FindIn
<1>7. \A p \in Package : FindIn(type)[p] = FindStep(type, FindIn(type), p)
  BY <1>6
<1>8. \A p \in Package : GetPart(p, type) = FindIn(type)[p]
  BY DEF GetPart, FindIn, FindStep
<1> QED
  BY <1>7, <1>8

\* The parts of a package in document order are those of the parts inside it,
\* one after the other.
LEMMA PartsInOrderEquation ==
    /\ \A p \in Package : PartsInOrder(p) = WalkOver[p]
    /\ \A p \in Package : WalkOver[p] = WalkStep(WalkOver, p)
<1> DEFINE V == Seq(Package)
           G == [pf \in Package \X [Package -> V] |-> WalkStep(pf[2], pf[1])]
           Eq(f) == f = [p \in Package |-> WalkStep(f, p)]
           inner(f, p) == [i \in DOMAIN p.parts |-> f[p.parts[i]]]
<1>1. <<>> \in V /\ \A p \in Package : <<p>> \in V
  OBVIOUS
<1>0. \A ss \in Seq(V) : FlattenSeq(ss) \in V
  BY FlattenType
<1> HIDE DEF V
<1>2. Grounded(Package, Nesting, V, G)
  <2>1. Nesting \in [Package -> Nat]
    BY PackageAssumption
  <2>2. ASSUME NEW p \in Package, NEW f \in [Package -> V]
        PROVE  WalkStep(f, p) \in V
    <3>1. inner(f, p) \in [1..Len(p.parts) -> V] /\ Len(p.parts) \in Nat
      BY InnerParts
    <3>2. inner(f, p) \in Seq(V)
      <4> HIDE DEF inner
      <4> QED
        BY <3>1
    <3> QED
      BY <1>0, <1>1, <3>2 DEF WalkStep
  <2>3. G \in [Package \X [Package -> V] -> V]
    BY <2>2
  <2>4. ASSUME NEW p \in Package, NEW f \in [Package -> V], NEW g \in [Package -> V],
               \A q \in Package : Nesting[q] < Nesting[p] => f[q] = g[q]
        PROVE  G[<<p, f>>] = G[<<p, g>>]
    <3>1. \A i \in DOMAIN p.parts : f[p.parts[i]] = g[p.parts[i]]
      BY <2>4, InnerParts
    <3>2. inner(f, p) = inner(g, p)
      BY <3>1
    <3>3. WalkStep(f, p) = WalkStep(g, p)
      BY <3>2 DEF WalkStep
    <3> QED
      BY <3>3
  <2> QED
    BY <2>1, <2>3, <2>4 DEF Grounded
<1>3. PICK f \in [Package -> V] : \A p \in Package : f[p] = G[<<p, f>>]
  <2> HIDE DEF G
  <2> QED
    BY <1>1, <1>2, Recursion
<1>4. \A p \in Package : f[p] = WalkStep(f, p)
  BY <1>3
<1>5. Eq(f)
  BY <1>4
<1>6. Eq(WalkOver)
  BY <1>5 DEF WalkOver
<1>7. \A p \in Package : WalkOver[p] = WalkStep(WalkOver, p)
  BY <1>6
<1>8. \A p \in Package : PartsInOrder(p) = WalkOver[p]
  BY DEF PartsInOrder, WalkOver, WalkStep
<1> QED
  BY <1>7, <1>8

\* They are parts themselves.
LEMMA PartsInOrderType == \A p \in Package : PartsInOrder(p) \in Seq(Package)
<1> DEFINE Bad == {p \in Package : WalkOver[p] \notin Seq(Package)}
           Ranks == {Nesting[p] : p \in Bad}
<1> SUFFICES ASSUME Bad # {}
             PROVE  FALSE
  BY PartsInOrderEquation
<1>1. PICK p \in Bad : \A q \in Bad : Nesting[p] <= Nesting[q]
  <2>1. Ranks \in SUBSET Nat /\ Ranks # {}
    BY PackageAssumption
  <2>2. PICK k \in Ranks : \A j \in Ranks : k <= j
    <3> HIDE DEF Ranks
    <3> QED
      BY <2>1, LeastNatural
  <2> QED
    BY <2>2
<1> DEFINE inner == [i \in DOMAIN p.parts |-> WalkOver[p.parts[i]]]
<1>2. \A i \in DOMAIN p.parts : WalkOver[p.parts[i]] \in Seq(Package)
  <2> SUFFICES ASSUME NEW i \in DOMAIN p.parts
               PROVE  p.parts[i] \in Package /\ p.parts[i] \notin Bad
    OBVIOUS
  <2>1. p.parts[i] \in Package /\ Nesting[p.parts[i]] < Nesting[p]
    BY InnerParts
  <2>2. Nesting[p.parts[i]] \in Nat /\ Nesting[p] \in Nat
    BY <2>1, PackageAssumption
  <2> QED
    BY <1>1, <2>1, <2>2
<1>3. inner \in Seq(Seq(Package))
  <2>1. inner \in [1..Len(p.parts) -> Seq(Package)] /\ Len(p.parts) \in Nat
    BY <1>2, InnerParts
  <2> HIDE DEF inner
  <2> QED
    BY <2>1
<1>4. WalkStep(WalkOver, p) \in Seq(Package)
  BY <1>3, FlattenType DEF WalkStep
<1> QED
  BY <1>4, PartsInOrderEquation

-----------------------------------------------------------------------------
(* The first part of a type *)

\* The first element of a type in a sequence of parts, as a sequence of it
\* alone, or nothing.
Hits(s, type) == {i \in DOMAIN s : s[i].type = type}

First(s, type) == IF Hits(s, type) = {} THEN <<>> ELSE <<s[Min(Hits(s, type))]>>

\* The first is one of them with none before it, and there is one only.
LEMMA FirstIs ==
    ASSUME NEW s \in Seq(Package), NEW type
    PROVE  /\ Hits(s, type) \in SUBSET Nat
           /\ First(s, type) = <<>> <=> Hits(s, type) = {}
           /\ \A m \in Hits(s, type) :
                 (\A k \in Hits(s, type) : m <= k) => First(s, type) = <<s[m]>>
<1>1. Hits(s, type) \in SUBSET Nat
  BY LenProperties DEF Hits
<1>2. ASSUME NEW m \in Hits(s, type), \A k \in Hits(s, type) : m <= k
      PROVE  First(s, type) = <<s[m]>>
  <2>1. Min(Hits(s, type)) \in Hits(s, type) /\ Min(Hits(s, type)) <= m
    BY <1>1, MinIs
  <2>2. Min(Hits(s, type)) = m
    BY <1>1, <1>2, <2>1
  <2> QED
    BY <2>2 DEF First
<1> QED
  BY <1>1, <1>2 DEF First

\* The first of two sequences in a row is the first of the first, if it has one.
LEMMA FirstOfConcat ==
    ASSUME NEW s \in Seq(Package), NEW t \in Seq(Package), NEW type
    PROVE  First(s \o t, type) =
               IF First(s, type) # <<>> THEN First(s, type) ELSE First(t, type)
<1> DEFINE u == s \o t
<1>1. /\ Len(s) \in Nat /\ Len(t) \in Nat /\ u \in Seq(Package)
      /\ DOMAIN s = 1..Len(s) /\ DOMAIN t = 1..Len(t) /\ DOMAIN u = 1..(Len(s) + Len(t))
  BY LenProperties, ConcatProperties
<1>2. \A i \in 1..Len(s) : u[i] = s[i]
  BY <1>1, ConcatProperties
<1>3. \A i \in 1..Len(t) : u[i + Len(s)] = t[i]
  BY <1>1, ConcatProperties
<1> HIDE DEF u
<1>4. Hits(s, type) = {i \in Hits(u, type) : i <= Len(s)}
  BY <1>1, <1>2 DEF Hits
<1>5. CASE Hits(s, type) # {}
  <2>1. PICK m \in Hits(s, type) : \A k \in Hits(s, type) : m <= k
    BY <1>5, FirstIs, LeastNatural
  <2>2. m \in Hits(u, type) /\ m \in 1..Len(s) /\ \A k \in Hits(u, type) : m <= k
    BY <1>1, <1>4, <2>1 DEF Hits
  <2>3. First(u, type) = <<u[m]>> /\ First(s, type) = <<s[m]>>
    BY <1>1, <2>1, <2>2, FirstIs
  <2> QED
    BY <1>2, <1>5, <2>2, <2>3, FirstIs DEF u
<1>6. CASE Hits(s, type) = {}
  <2>1. Hits(t, type) = {i \in 1..Len(t) : i + Len(s) \in Hits(u, type)}
    BY <1>1, <1>3 DEF Hits
  <2>2. \A k \in Hits(u, type) : k - Len(s) \in Hits(t, type)
    <3> SUFFICES ASSUME NEW k \in Hits(u, type)
                 PROVE  k - Len(s) \in Hits(t, type)
      OBVIOUS
    <3>1. k \in 1..(Len(s) + Len(t)) /\ ~(k <= Len(s))
      BY <1>1, <1>4, <1>6 DEF Hits
    <3>2. k - Len(s) \in 1..Len(t) /\ (k - Len(s)) + Len(s) = k
      BY <1>1, <3>1
    <3> QED
      BY <2>1, <3>2
  <2>3. CASE Hits(t, type) = {}
    BY <1>1, <1>6, <2>2, <2>3, FirstIs DEF u
  <2>4. CASE Hits(t, type) # {}
    <3>1. PICK m \in Hits(t, type) : \A k \in Hits(t, type) : m <= k
      BY <2>4, FirstIs, LeastNatural
    <3>2. m + Len(s) \in Hits(u, type) /\ m \in 1..Len(t)
      BY <2>1, <3>1
    <3>3. \A k \in Hits(u, type) : m + Len(s) <= k
      BY <1>1, <2>2, <3>1, <3>2 DEF Hits
    <3>4. First(u, type) = <<u[m + Len(s)]>> /\ First(t, type) = <<t[m]>>
      BY <1>1, <3>1, <3>2, <3>3, FirstIs
    <3> QED
      BY <1>3, <1>6, <3>2, <3>4, FirstIs DEF u
  <2> QED
    BY <2>3, <2>4
<1> QED
  BY <1>5, <1>6

\* The places, among the first k sequences, of those with a part of the type.
With(ss, type, k) == {i \in 1..k : First(ss[i], type) # <<>>}

\* The first of many sequences in a row is the first of the first that has one.
LEMMA FirstOfFlatten ==
    ASSUME NEW ss \in Seq(Seq(Package)), NEW type
    PROVE  First(FlattenSeq(ss), type) =
               IF With(ss, type, Len(ss)) = {} THEN <<>>
               ELSE First(ss[Min(With(ss, type, Len(ss)))], type)
<1> DEFINE n == Len(ss)
           W(k) == With(ss, type, k)
           FirstUpTo(k) == IF W(k) = {} THEN <<>> ELSE First(ss[Min(W(k))], type)
           Bad == {k \in 1..n : First(Flattened(ss)[k], type) # FirstUpTo(k)}
<1>0. n \in Nat /\ \A i \in 1..n : ss[i] \in Seq(Package)
  BY LenProperties, ElementOfSeq
<1>1. CASE ss = <<>>
  <2>1. W(n) = {} /\ FlattenSeq(ss) = <<>>
    BY <1>1 DEF With, FlattenSeq
  <2>2. First(<<>>, type) = <<>>
    BY DEF First, Hits
  <2> QED
    BY <2>1, <2>2
<1>2. CASE ss # <<>>
  <2>1. n \in 1..n /\ 1 \in 1..n
    BY <1>0, <1>2, EmptySeq
  <2>2. /\ FlattenSeq(ss) = Flattened(ss)[n] /\ Flattened(ss)[1] = ss[1]
        /\ \A i \in 1..n : i # 1 => Flattened(ss)[i] = Flattened(ss)[i - 1] \o ss[i]
        /\ \A i \in 1..n : Flattened(ss)[i] \in Seq(Package)
    BY <1>2, FlattenIsChain
  <2> HIDE DEF n
  <2> SUFFICES Bad = {}
    BY <2>1, <2>2 DEF n
  <2> SUFFICES ASSUME Bad # {}
               PROVE  FALSE
    OBVIOUS
  <2>3. PICK k \in Bad : \A j \in Bad : k <= j
    <3>1. Bad \in SUBSET Nat
      BY <1>0
    <3> HIDE DEF Bad
    <3> QED
      BY <3>1, LeastNatural
  <2>4. \A j \in 1..n : W(j) \in SUBSET Nat
    BY <1>0 DEF With
  <2>5. CASE k = 1
    <3>1. W(1) = IF First(ss[1], type) # <<>> THEN {1} ELSE {}
      BY DEF With
    <3>2. W(1) # {} => Min(W(1)) = 1
      <4>1. W(1) # {} => Min(W(1)) \in W(1)
        <5> HIDE DEF W
        <5> QED
          BY <2>1, <2>4, MinIs
      <4> QED
        BY <3>1, <4>1
    <3>3. First(ss[1], type) = FirstUpTo(1)
      <4> HIDE DEF W
      <4> QED
        BY <3>1, <3>2
    <3> QED
      BY <2>2, <2>3, <2>5, <3>3
  <2>6. CASE k # 1
    <3>1. k - 1 \in 1..n /\ k - 1 \notin Bad /\ k \in 1..n
      BY <1>0, <2>3, <2>6
    <3>2. First(Flattened(ss)[k - 1], type) = FirstUpTo(k - 1)
      BY <3>1
    <3>3. First(Flattened(ss)[k], type) =
             IF FirstUpTo(k - 1) # <<>> THEN FirstUpTo(k - 1) ELSE First(ss[k], type)
      <4>1. Flattened(ss)[k - 1] \in Seq(Package) /\ ss[k] \in Seq(Package)
        BY <1>0, <2>2, <3>1
      <4>2. Flattened(ss)[k] = Flattened(ss)[k - 1] \o ss[k]
        BY <2>2, <2>6, <3>1
      <4> HIDE DEF FirstUpTo
      <4> QED
        BY <3>2, <4>1, <4>2, FirstOfConcat
    <3>4. W(k) = W(k - 1) \cup (IF First(ss[k], type) # <<>> THEN {k} ELSE {})
      <4>1. 1..k = 1..(k - 1) \cup {k}
        BY <1>0, <3>1
      <4> QED
        BY <4>1 DEF With
    <3>5. \A j \in W(k - 1) : j < k /\ First(ss[j], type) # <<>>
      BY <1>0, <3>1 DEF With
    <3>6. CASE W(k - 1) # {}
      <4>1. /\ Min(W(k - 1)) \in W(k - 1) /\ \A j \in W(k - 1) : Min(W(k - 1)) <= j
            /\ Min(W(k)) \in W(k) /\ \A j \in W(k) : Min(W(k)) <= j
        <5> HIDE DEF W
        <5> QED
          BY <2>4, <3>1, <3>4, <3>6, MinIs
      <4>2. W(k) \in SUBSET Nat /\ W(k - 1) \in SUBSET Nat /\ k \in Nat
        BY <1>0, <2>4, <3>1
      <4>3. Min(W(k)) = Min(W(k - 1))
        <5> DEFINE a == Min(W(k))
                   b == Min(W(k - 1))
        <5>1. a \in Nat /\ b \in Nat /\ b < k /\ b \in W(k) /\ a <= b
          <6> HIDE DEF W
          <6> QED
            BY <3>4, <3>5, <4>1, <4>2
        <5>2. a # k
          BY <4>2, <5>1
        <5>3. b <= a
          <6> HIDE DEF W
          <6> QED
            BY <3>4, <4>1, <5>2
        <5> QED
          BY <5>1, <5>3
      <4>4. FirstUpTo(k) = FirstUpTo(k - 1) /\ FirstUpTo(k - 1) # <<>>
        <5> HIDE DEF W
        <5> QED
          BY <3>4, <3>5, <3>6, <4>1, <4>3
      <4> QED
        BY <2>3, <3>3, <4>4
    <3>7. CASE W(k - 1) = {} /\ First(ss[k], type) # <<>>
      <4>1. W(k) = {k}
        BY <3>4, <3>7
      <4>2. Min(W(k)) = k
        <5> HIDE DEF W
        <5> QED
          BY <2>4, <3>1, <4>1, MinIs
      <4>3. FirstUpTo(k) = First(ss[k], type) /\ FirstUpTo(k - 1) = <<>>
        <5> HIDE DEF W
        <5> QED
          BY <3>7, <4>1, <4>2
      <4> QED
        BY <2>3, <3>3, <4>3
    <3>8. CASE W(k - 1) = {} /\ First(ss[k], type) = <<>>
      <4>1. W(k) = {}
        BY <3>4, <3>8
      <4>2. FirstUpTo(k) = <<>> /\ FirstUpTo(k - 1) = <<>>
        BY <3>8, <4>1
      <4> QED
        BY <2>3, <3>3, <3>8, <4>2
    <3> QED
      BY <3>6, <3>7, <3>8
  <2> QED
    BY <2>5, <2>6
<1> QED
  BY <1>1, <1>2

\* get_soap_part and get_encrypted_part return the first part of their type in
\* document order, and nothing only where no part of it can be reached,
\* whatever the package and however deep it nests multipart/related.
THEOREM GetPartIsFirst ==
    ASSUME NEW type, type # "multipart/related"
    PROVE  \A p \in Package : GetPart(p, type) = First(PartsInOrder(p), type)
<1> DEFINE Bad == {p \in Package : FindIn(type)[p] # First(WalkOver[p], type)}
           Ranks == {Nesting[p] : p \in Bad}
<1> SUFFICES ASSUME Bad # {}
             PROVE  FALSE
  BY GetPartEquation, PartsInOrderEquation
<1>1. PICK p \in Bad : \A q \in Bad : Nesting[p] <= Nesting[q]
  <2>1. Ranks \in SUBSET Nat /\ Ranks # {}
    BY PackageAssumption
  <2>2. PICK k \in Ranks : \A j \in Ranks : k <= j
    <3> HIDE DEF Ranks
    <3> QED
      BY <2>1, LeastNatural
  <2> QED
    BY <2>2
<1> DEFINE inner == [i \in DOMAIN p.parts |-> WalkOver[p.parts[i]]]
           hits == {i \in DOMAIN p.parts : FindIn(type)[p.parts[i]] # <<>>}
<1>2. \A i \in DOMAIN p.parts :
        /\ p.parts[i] \in Package
        /\ FindIn(type)[p.parts[i]] = First(inner[i], type)
  <2> SUFFICES ASSUME NEW i \in DOMAIN p.parts
               PROVE  p.parts[i] \in Package /\ p.parts[i] \notin Bad
    OBVIOUS
  <2>1. p.parts[i] \in Package /\ Nesting[p.parts[i]] < Nesting[p]
    BY InnerParts
  <2>2. Nesting[p.parts[i]] \in Nat /\ Nesting[p] \in Nat
    BY <2>1, PackageAssumption
  <2> QED
    BY <1>1, <2>1, <2>2
<1>3. inner \in Seq(Seq(Package)) /\ Len(inner) = Len(p.parts)
  <2>1. inner \in [1..Len(p.parts) -> Seq(Package)] /\ Len(p.parts) \in Nat
    BY <1>2, InnerParts, PartsInOrderEquation, PartsInOrderType
  <2> HIDE DEF inner
  <2> QED
    BY <2>1
<1>4. hits = With(inner, type, Len(inner))
  BY <1>2, <1>3, InnerParts DEF With
<1>5. hits # {} => FindIn(type)[p.parts[Min(hits)]] = First(inner[Min(hits)], type)
  <2>1. hits \in SUBSET DOMAIN p.parts /\ hits \in SUBSET Nat
    BY InnerParts
  <2>2. hits # {} => Min(hits) \in DOMAIN p.parts
    <3> HIDE DEF hits
    <3> QED
      BY <2>1, MinIs
  <2> QED
    BY <1>2, <2>2
<1>6. /\ FindIn(type)[p] = FindStep(type, FindIn(type), p)
      /\ WalkOver[p] = WalkStep(WalkOver, p)
  BY GetPartEquation, PartsInOrderEquation
<1>7. CASE p.type = "multipart/related"
  <2>1. FindIn(type)[p] = IF hits = {} THEN <<>> ELSE FindIn(type)[p.parts[Min(hits)]]
    BY <1>6, <1>7 DEF FindStep
  <2>2. WalkOver[p] = FlattenSeq(inner)
    BY <1>6, <1>7 DEF WalkStep
  <2> HIDE DEF inner, hits
  <2>3. First(WalkOver[p], type) = IF hits = {} THEN <<>> ELSE First(inner[Min(hits)], type)
    BY <1>3, <1>4, <2>2, FirstOfFlatten
  <2> QED
    BY <1>1, <1>5, <2>1, <2>3
<1>8. CASE p.type # "multipart/related"
  <2>1. WalkOver[p] = <<p>>
    BY <1>6, <1>8 DEF WalkStep
  <2>2. FindIn(type)[p] = IF p.type = type THEN <<p>> ELSE <<>>
    BY <1>6, <1>8 DEF FindStep
  <2>3. CASE p.type = type
    <3>1. 1 \in Hits(<<p>>, type) /\ \A k \in Hits(<<p>>, type) : 1 <= k
      BY <2>3 DEF Hits
    <3>2. First(<<p>>, type) = <<p>>
      <4>1. <<p>> \in Seq(Package)
        OBVIOUS
      <4> QED
        BY <3>1, <4>1, FirstIs
    <3> QED
      BY <1>1, <2>1, <2>2, <2>3, <3>2
  <2>4. CASE p.type # type
    <3>1. First(<<p>>, type) = <<>>
      BY <2>4 DEF First, Hits
    <3> QED
      BY <1>1, <2>1, <2>2, <2>4, <3>1
  <2> QED
    BY <2>3, <2>4
<1> QED
  BY <1>7, <1>8

-----------------------------------------------------------------------------
(* The inductive invariant *)

\* The references the caller passes to every build.
MapOK == map \in Seq(Attachment) /\ IsInjective(map)

\* parse has not been called yet.
BeforeEntry ==
    /\ part = 1 /\ parse_error = None
    /\ fields = [message_id |-> FALSE, soap_envelope |-> FALSE,
                 signer_certificate |-> FALSE,
                 decrypted_data |-> [a \in Attachment |-> None],
                 participants |-> FALSE, asked |-> FALSE]

\* The order can be built, and the map and the SBDH belong to it.
Recorded ==
    /\ order \in Orders /\ Identified(order)
    /\ map # <<>>
    /\ sbdh = DocumentIdentification(Split(order.document))

\* Where a message is on its way.
Building == pc = "build" /\ msg = None /\ order = None /\ package = None /\ BeforeEntry
Unbuilt == pc = "raised" /\ msg = None /\ order \in Orders /\ ~Identified(order) /\ package = None
Sent ==
    /\ pc \in {"request", "receive"} /\ BeforeEntry /\ Recorded
    /\ msg = Built(map, order)
    /\ IF pc = "request" THEN package = None ELSE package \in Package
Parsing ==
    /\ pc \in Stage /\ Recorded
    /\ package \in Package
    /\ msg = Unpacked(Built(map, order), package)
    /\ Inv /\ Pipeline

BuildInv ==
    /\ policy \in Policies
    /\ MapOK
    /\ Building \/ Unbuilt \/ Sent \/ Parsing

-----------------------------------------------------------------------------
(* Document type identifiers *)

\* A bounded set of natural numbers that is not empty has a greatest element,
\* which Max picks.
LEMMA MaxIs ==
    ASSUME NEW n \in Nat, NEW S \in SUBSET (1..n), S # {}
    PROVE  Max(S) \in S /\ \A k \in S : k <= Max(S)
<1> DEFINE T == {n - k : k \in S}
<1>1. T \in SUBSET Nat /\ T # {}
  <2>1. \A k \in S : n - k \in Nat
    OBVIOUS
  <2> QED
    BY <2>1
<1>2. PICK t \in T : \A u \in T : t <= u
  <2> HIDE DEF T
  <2> QED
    BY <1>1, LeastNatural
<1>3. PICK m \in S : t = n - m
  BY <1>2
<1>4. ASSUME NEW k \in S
      PROVE  m >= k
  <2>1. n - m <= n - k
    BY <1>2, <1>3
  <2> QED
    BY <2>1
<1>5. \E x \in S : \A y \in S : x >= y
  BY <1>4
<1>6. Max(S) \in S /\ \A y \in S : Max(S) >= y
  BY <1>5 DEF Max
<1> QED
  BY <1>6

\* The one element of a set is its greatest and its least.
LEMMA OnlyOne ==
    ASSUME NEW k \in Nat
    PROVE  Max({k}) = k /\ Min({k}) = k
BY DEF Max, Min

\* A sequence, taken from one place to another.
LEMMA Slice ==
    ASSUME NEW S, NEW s \in Seq(S), NEW m \in 1..(Len(s) + 1), NEW n \in 0..Len(s)
    PROVE  /\ SubSeq(s, m, n) \in Seq(S)
           /\ Len(SubSeq(s, m, n)) = IF m <= n THEN n - m + 1 ELSE 0
           /\ \A i \in 1..(n - m + 1) : SubSeq(s, m, n)[i] = s[m + i - 1]
           /\ SubSeq(s, m, n) = <<>> <=> n < m
<1>1. Len(s) \in Nat
  OBVIOUS
<1>2. \A i \in m..n : s[i] \in S
  BY <1>1, ElementOfSeq
<1>3. /\ SubSeq(s, m, n) \in Seq(S)
      /\ Len(SubSeq(s, m, n)) = IF m <= n THEN n - m + 1 ELSE 0
      /\ \A i \in 1..(n - m + 1) : SubSeq(s, m, n)[i] = s[m + i - 1]
  BY <1>1, <1>2, SubSeqProperties
<1>4. SubSeq(s, m, n) = <<>> <=> Len(SubSeq(s, m, n)) = 0
  BY <1>3, EmptySeq
<1>5. SubSeq(s, m, n) = <<>> <=> n < m
  BY <1>1, <1>3, <1>4
<1> QED
  BY <1>3, <1>5

\* A separator of a slice is one of the whole.
LEMMA PlacesOfSlice ==
    ASSUME NEW v \in Seq(STRING), NEW m \in 1..(Len(v) + 1), NEW n \in 0..Len(v), NEW separator
    PROVE  Places(separator, SubSeq(v, m, n)) =
               {i \in 1..(n - m + 1) : m + i - 1 \in Places(separator, v)}
<1>1. Len(v) \in Nat /\ DOMAIN v = 1..Len(v)
  BY LenProperties
<1>2. DOMAIN SubSeq(v, m, n) = 1..(n - m + 1)
  <2>1. DOMAIN SubSeq(v, m, n) = 1..Len(SubSeq(v, m, n))
    BY Slice, LenProperties
  <2>2. 1..Len(SubSeq(v, m, n)) = 1..(n - m + 1)
    BY <1>1, Slice
  <2> QED
    BY <2>1, <2>2
<1>3. \A i \in 1..(n - m + 1) : SubSeq(v, m, n)[i] = v[m + i - 1] /\ m + i - 1 \in DOMAIN v
  BY <1>1, Slice
<1> QED
  BY <1>2, <1>3 DEF Places

\* Where the greedy expression splits an identifier, if it matches.
SplitAt(v, i, j) ==
    /\ i \in Places("##", v) /\ j \in Places("::", v)
    /\ i \in 1..Len(v) /\ j \in 1..Len(v) /\ i < j
    /\ \A d \in Places("::", v) : d <= j
    /\ \A h \in Places("##", v) : h < j => h <= i
    /\ Split(v) = [syntax_specific_id |-> SubSeq(v, 1, i - 1),
                   customization_id |-> SubSeq(v, i + 1, j - 1),
                   version |-> SubSeq(v, j + 1, Len(v))]

\* from_identifier_value finds such a place whenever a "::" follows a "##".
LEMMA SplitExists ==
    ASSUME NEW v \in Seq(STRING), NEW h \in Places("##", v), NEW c \in Places("::", v), h < c
    PROVE  \E i, j \in Nat : SplitAt(v, i, j)
<1> DEFINE n == Len(v)
           H == {k \in Places("##", v) : \E d \in Places("::", v) : d > k}
           C == Places("::", v)
           i == Max(H)
           j == Max(C)
<1>1. n \in Nat /\ DOMAIN v = 1..n
  BY LenProperties
<1> HIDE DEF n
<1>2. C \in SUBSET (1..n) /\ Places("##", v) \in SUBSET (1..n) /\ H \in SUBSET (1..n)
  BY <1>1 DEF Places
<1>3. h \in H /\ C # {} /\ H # {}
  BY <1>1, <1>2
<1>4. i \in H /\ \A k \in H : k <= i
  <2> HIDE DEF H
  <2> QED
    BY <1>1, <1>2, <1>3, MaxIs
<1>5. j \in C /\ \A k \in C : k <= j
  <2> HIDE DEF C
  <2> QED
    BY <1>1, <1>2, <1>3, MaxIs
<1>6. Split(v) = [syntax_specific_id |-> SubSeq(v, 1, i - 1),
                  customization_id |-> SubSeq(v, i + 1, j - 1),
                  version |-> SubSeq(v, j + 1, Len(v))]
  BY DEF Split
<1> HIDE DEF i, j
<1>7. PICK d \in C : d > i
  BY <1>4
<1>8. i \in 1..n /\ j \in 1..n /\ d \in 1..n
  BY <1>2, <1>4, <1>5
<1>9. i < j
  BY <1>1, <1>5, <1>7, <1>8
<1>10. \A k \in Places("##", v) : k < j => k <= i
  <2> SUFFICES ASSUME NEW k \in Places("##", v), k < j
               PROVE  k <= i
    OBVIOUS
  <2>1. k \in H
    BY <1>2, <1>5, <1>8
  <2> QED
    BY <1>4, <2>1
<1>11. i \in Places("##", v)
  BY <1>4
<1>12. SplitAt(v, i, j)
  BY <1>5, <1>6, <1>8, <1>9, <1>10, <1>11 DEF SplitAt, n
<1> QED
  BY <1>1, <1>8, <1>12

\* What from_identifier_value takes apart identifier_value puts together again.
LEMMA IdentifierRoundTrip ==
    ASSUME NEW v \in Seq(STRING), NEW i \in Nat, NEW j \in Nat, SplitAt(v, i, j)
    PROVE  IdentifierValue(Split(v)) = v
<1> DEFINE n == Len(v)
<1>1. n \in Nat /\ DOMAIN v = 1..n
  BY LenProperties
<1>2. i \in 1..n /\ j \in 1..n /\ i < j /\ v[i] = "##" /\ v[j] = "::"
  BY DEF SplitAt, Places
<1>3. \A k \in 1..n : SubSeq(v, k, k) = <<v[k]>>
  <2> SUFFICES ASSUME NEW k \in 1..n
               PROVE  SubSeq(v, k, k) = <<v[k]>>
    OBVIOUS
  <2>1. k \in 1..(n + 1) /\ k \in 0..n /\ v[k] \in STRING
    BY <1>1, ElementOfSeq
  <2>2. SubSeq(v, k, k) \in Seq(STRING) /\ Len(SubSeq(v, k, k)) = 1 /\ SubSeq(v, k, k)[1] = v[k]
    BY <1>1, <2>1, Slice
  <2>3. <<v[k]>> \in Seq(STRING) /\ Len(<<v[k]>>) = 1 /\ <<v[k]>>[1] = v[k]
    BY <2>1
  <2> DEFINE slice == SubSeq(v, k, k)
             one == <<v[k]>>
  <2>4. slice \in Seq(STRING) /\ one \in Seq(STRING) /\ Len(slice) = 1 /\ Len(one) = 1
        /\ slice[1] = one[1]
    BY <2>2, <2>3
  <2> HIDE DEF slice, one
  <2>5. \A l \in 1..Len(slice) : slice[l] = one[l]
    BY <2>4
  <2>6. slice = one
    BY <2>4, <2>5, SeqEqual
  <2> QED
    BY <2>6 DEF slice, one
<1>4. ASSUME NEW k \in 0..n, NEW l \in k..n
      PROVE  SubSeq(v, 1, k) \o SubSeq(v, k + 1, l) = SubSeq(v, 1, l)
  <2>1. 1 \in 1..(n + 1) /\ k \in (1 - 1)..n
    BY <1>1
  <2> QED
    BY <2>1, ConcatAdjacentSubSeq
<1> HIDE DEF n
<1>5. SubSeq(v, 1, i - 1) \o <<"##">> = SubSeq(v, 1, i)
  <2>1. i - 1 \in 0..n /\ i \in (i - 1)..n /\ (i - 1) + 1 = i
    BY <1>1, <1>2
  <2> QED
    BY <1>2, <1>3, <1>4, <2>1
<1>6. SubSeq(v, 1, i) \o SubSeq(v, i + 1, j - 1) = SubSeq(v, 1, j - 1)
  <2>1. i \in 0..n /\ j - 1 \in i..n
    BY <1>1, <1>2
  <2> QED
    BY <1>4, <2>1
<1>7. SubSeq(v, 1, j - 1) \o <<"::">> = SubSeq(v, 1, j)
  <2>1. j - 1 \in 0..n /\ j \in (j - 1)..n /\ (j - 1) + 1 = j
    BY <1>1, <1>2
  <2> QED
    BY <1>2, <1>3, <1>4, <2>1
<1>8. SubSeq(v, 1, j) \o SubSeq(v, j + 1, n) = SubSeq(v, 1, n)
  <2>1. j \in 0..n /\ n \in j..n
    BY <1>1, <1>2
  <2> QED
    BY <1>4, <2>1
<1>9. SubSeq(v, 1, n) = v
  BY SubSeqFull DEF n
<1>10. /\ Split(v).syntax_specific_id = SubSeq(v, 1, i - 1)
       /\ Split(v).customization_id = SubSeq(v, i + 1, j - 1)
       /\ Split(v).version = SubSeq(v, j + 1, n)
  BY DEF SplitAt, n
<1> QED
  BY <1>5, <1>6, <1>7, <1>8, <1>9, <1>10 DEF IdentifierValue

\* What is left of a sequence from some place on is a suffix of it.
LEMMA RestIsSuffix ==
    ASSUME NEW S, NEW s \in Seq(S), NEW j \in 1..Len(s)
    PROVE  IsSuffix(SubSeq(s, j, Len(s)), s)
<1> DEFINE n == Len(s)
           t == SubSeq(s, j, n)
           k == n - j + 1
           R == Reverse(s)
           Q == Reverse(t)
<1>1. n \in Nat
  OBVIOUS
<1>2. t \in Seq(S) /\ Len(t) = k /\ k \in 1..n /\ \A i \in 1..k : t[i] = s[j + i - 1]
  BY <1>1, Slice
<1> HIDE DEF t
<1>3. \A i \in 1..n : s[(n - i) + 1] \in S
  <2> SUFFICES ASSUME NEW i \in 1..n
               PROVE  s[(n - i) + 1] \in S
    OBVIOUS
  <2>1. (n - i) + 1 \in 1..n
    BY <1>1
  <2> QED
    BY <2>1, ElementOfSeq
<1>4. \A i \in 1..k : t[(k - i) + 1] \in S
  <2> SUFFICES ASSUME NEW i \in 1..k
               PROVE  t[(k - i) + 1] \in S
    OBVIOUS
  <2>1. (k - i) + 1 \in 1..k
    BY <1>1, <1>2
  <2> QED
    BY <1>2, <2>1, ElementOfSeq
<1> HIDE DEF n, k
<1>5. R \in [1..n -> S] /\ \A i \in 1..n : R[i] = s[(n - i) + 1]
  BY <1>3 DEF Reverse, n
<1>6. Q \in [1..k -> S] /\ \A i \in 1..k : Q[i] = t[(k - i) + 1]
  BY <1>2, <1>4 DEF Reverse
<1>7. R \in Seq(S) /\ Len(R) = n /\ Q \in Seq(S) /\ Len(Q) = k
  <2> HIDE DEF R, Q
  <2> QED
    BY <1>1, <1>2, <1>5, <1>6
<1>8. \A i \in 1..k : Q[i] = R[i]
  <2> SUFFICES ASSUME NEW i \in 1..k
               PROVE  Q[i] = R[i]
    OBVIOUS
  <2>1. (k - i) + 1 \in 1..k /\ j + ((k - i) + 1) - 1 = (n - i) + 1 /\ i \in 1..n
    BY <1>1, <1>2 DEF k
  <2> QED
    BY <1>2, <1>5, <1>6, <2>1
<1> HIDE DEF R, Q
<1>9. SubSeq(Q, 1, k) = Q
  BY <1>7, SubSeqFull
<1>10. SubSeq(R, 1, k) = Q
  <2>1. 1 \in 1..(Len(R) + 1) /\ k \in 0..Len(R) /\ k >= 1
    BY <1>1, <1>2, <1>7
  <2>2. SubSeq(R, 1, k) \in Seq(S) /\ Len(SubSeq(R, 1, k)) = k
        /\ \A i \in 1..k : SubSeq(R, 1, k)[i] = R[i]
    BY <1>2, <1>7, <2>1, Slice
  <2> QED
    BY <1>7, <1>8, <2>2, SeqEqual
<1>11. k <= n
  BY <1>1, <1>2
<1> QED
  BY <1>7, <1>9, <1>10, <1>11 DEF IsSuffix, IsPrefix, R, Q, t, n

\* The form the property is about: one "##", and one "::" before it.
UsualForm(v, h, c) ==
    /\ Places("##", v) = {h}
    /\ {d \in Places("::", v) : d < h} = {c}

\* In that form the syntax id is what stands before the "##".
LEMMA UsualSyntax ==
    ASSUME NEW v \in Seq(STRING), NEW h \in DOMAIN v, NEW c \in DOMAIN v, UsualForm(v, h, c)
    PROVE  /\ c \in Places("::", v) /\ c \in 1..(h - 1) /\ h \in 1..Len(v) /\ v[h] = "##"
           /\ Places("::", SubSeq(v, 1, h - 1)) = {c}
<1> DEFINE n == Len(v)
<1>1. n \in Nat /\ DOMAIN v = 1..n
  BY LenProperties
<1>2. c \in Places("::", v) /\ c < h /\ h \in Places("##", v)
  BY DEF UsualForm
<1>3. 1 \in 1..(n + 1) /\ h - 1 \in 0..n /\ (h - 1) - 1 + 1 = h - 1
  BY <1>1
<1>4. Places("::", SubSeq(v, 1, h - 1)) = {k \in 1..(h - 1) : k \in Places("::", v)}
  <2>1. \A k \in 1..(h - 1) : 1 + k - 1 = k
    BY <1>1
  <2>2. Places("::", SubSeq(v, 1, h - 1)) = {k \in 1..((h - 1) - 1 + 1) : 1 + k - 1 \in Places("::", v)}
    BY <1>3, PlacesOfSlice
  <2> QED
    BY <1>3, <2>1, <2>2
<1>5. \A k \in Places("::", v) : k \in 1..(h - 1) <=> k < h
  BY <1>1 DEF Places
<1>6. {k \in 1..(h - 1) : k \in Places("::", v)} = {c}
  BY <1>5 DEF UsualForm
<1>7. c \in 1..(h - 1) /\ h \in 1..n /\ v[h] = "##"
  BY <1>1, <1>2 DEF Places
<1> QED
  BY <1>2, <1>4, <1>6, <1>7

\* Split takes it apart at the "##" and at the last "::".
LEMMA UsualSplit ==
    ASSUME NEW v \in Seq(STRING), NEW h \in DOMAIN v, NEW c \in DOMAIN v, UsualForm(v, h, c),
           NEW d \in Places("::", v), h < d
    PROVE  \E j \in Nat : SplitAt(v, h, j)
<1>1. h \in Places("##", v)
  BY DEF UsualForm
<1>2. PICK i, j \in Nat : SplitAt(v, i, j)
  BY <1>1, SplitExists
<1>3. i = h
  BY <1>2 DEF SplitAt, UsualForm
<1> QED
  BY <1>2, <1>3

\* The namespace and the root element of an identifier of the usual form.
LEMMA UsualRootElement ==
    ASSUME NEW v \in Seq(STRING), NEW h \in DOMAIN v, NEW c \in DOMAIN v, UsualForm(v, h, c),
           NEW j \in Nat, SplitAt(v, h, j)
    PROVE  /\ HasRootElement(Split(v))
           /\ RootElementNamespace(Split(v)) = SubSeq(v, 1, c - 1)
           /\ RootElementName(Split(v)) = SubSeq(v, c + 1, h - 1)
<1> DEFINE n == Len(v)
           syntax == SubSeq(v, 1, h - 1)
           rest == SubSeq(syntax, c + 1, Len(syntax))
<1>1. n \in Nat /\ DOMAIN v = 1..n /\ h \in 1..n /\ c \in 1..(h - 1)
  BY LenProperties, UsualSyntax
<1>2. Split(v).syntax_specific_id = syntax
  BY DEF SplitAt
<1>3. syntax \in Seq(STRING) /\ Len(syntax) = h - 1
      /\ \A k \in 1..(h - 1) : syntax[k] = v[k]
  <2>1. 1 \in 1..(n + 1) /\ h - 1 \in 0..n /\ (h - 1) - 1 + 1 = h - 1 /\ 1 <= h - 1
    BY <1>1
  <2>2. \A k \in 1..((h - 1) - 1 + 1) : SubSeq(v, 1, h - 1)[k] = v[1 + k - 1] /\ 1 + k - 1 = k
    BY <1>1, <2>1, Slice
  <2> QED
    BY <2>1, <2>2, Slice
<1>4. Places("::", syntax) = {c}
  BY UsualSyntax
<1> HIDE DEF syntax, n
<1>5. Min(Places("::", syntax)) = c
  <2>1. c \in Nat
    BY <1>1
  <2> QED
    BY <1>4, <2>1, OnlyOne
<1>6. SubSeq(syntax, 1, c - 1) = SubSeq(v, 1, c - 1)
  <2> DEFINE a == SubSeq(syntax, 1, c - 1)
             b == SubSeq(v, 1, c - 1)
  <2>1. 1 \in 1..(n + 1) /\ c - 1 \in 0..n /\ 1 \in 1..(Len(syntax) + 1) /\ c - 1 \in 0..Len(syntax)
        /\ (c - 1) - 1 + 1 = c - 1
    BY <1>1, <1>3
  <2>2. /\ a \in Seq(STRING) /\ Len(a) = (IF 1 <= c - 1 THEN c - 1 ELSE 0)
        /\ \A k \in 1..(c - 1) : a[k] = syntax[1 + k - 1]
    BY <1>3, <2>1, Slice
  <2>3. /\ b \in Seq(STRING) /\ Len(b) = (IF 1 <= c - 1 THEN c - 1 ELSE 0)
        /\ \A k \in 1..(c - 1) : b[k] = v[1 + k - 1]
    BY <2>1, Slice DEF n
  <2> HIDE DEF a, b
  <2>4. \A k \in 1..Len(a) : a[k] = b[k]
    <3> SUFFICES ASSUME NEW k \in 1..Len(a)
                 PROVE  a[k] = b[k]
      OBVIOUS
    <3>1. k \in 1..(c - 1) /\ k \in 1..(h - 1) /\ 1 + k - 1 = k
      BY <1>1, <2>2
    <3> QED
      BY <1>3, <2>2, <2>3, <3>1
  <2>5. a = b
    BY <2>2, <2>3, <2>4, SeqEqual
  <2> QED
    BY <2>5 DEF a, b
<1>7. rest = SubSeq(v, c + 1, h - 1)
  <2> DEFINE b == SubSeq(v, c + 1, h - 1)
  <2>1. /\ c + 1 \in 1..(n + 1) /\ h - 1 \in 0..n
        /\ c + 1 \in 1..(Len(syntax) + 1) /\ h - 1 \in 0..Len(syntax)
    BY <1>1, <1>3
  <2>0. rest = SubSeq(syntax, c + 1, h - 1)
    BY <1>3
  <2> HIDE DEF rest
  <2>2. /\ rest \in Seq(STRING) /\ Len(rest) = (IF c + 1 <= h - 1 THEN (h - 1) - (c + 1) + 1 ELSE 0)
        /\ \A k \in 1..((h - 1) - (c + 1) + 1) : rest[k] = syntax[(c + 1) + k - 1]
    BY <1>3, <2>0, <2>1, Slice
  <2>3. /\ b \in Seq(STRING) /\ Len(b) = (IF c + 1 <= h - 1 THEN (h - 1) - (c + 1) + 1 ELSE 0)
        /\ \A k \in 1..((h - 1) - (c + 1) + 1) : b[k] = v[(c + 1) + k - 1]
    BY <2>1, Slice DEF n
  <2> HIDE DEF b
  <2>4. \A k \in 1..Len(rest) : rest[k] = b[k]
    <3> SUFFICES ASSUME NEW k \in 1..Len(rest)
                 PROVE  rest[k] = b[k]
      OBVIOUS
    <3>1. k \in 1..((h - 1) - (c + 1) + 1) /\ (c + 1) + k - 1 \in 1..(h - 1)
      BY <1>1, <2>2
    <3> QED
      BY <1>3, <2>2, <2>3, <3>1
  <2>5. rest = b
    BY <2>2, <2>3, <2>4, SeqEqual
  <2> QED
    BY <2>5 DEF b
<1>8. Places("::", rest) = {}
  <2>1. c + 1 \in 1..(Len(syntax) + 1) /\ h - 1 \in 0..Len(syntax)
    BY <1>1, <1>3
  <2>0. rest = SubSeq(syntax, c + 1, h - 1)
    BY <1>3
  <2> HIDE DEF rest
  <2> DEFINE lo == c + 1
             hi == h - 1
  <2>3. \A k \in 1..(hi - lo + 1) : lo + k - 1 # c
    BY <1>1
  <2> HIDE DEF lo, hi
  <2>2. Places("::", rest) = {k \in 1..(hi - lo + 1) : lo + k - 1 \in Places("::", syntax)}
    <3>1. lo \in 1..(Len(syntax) + 1) /\ hi \in 0..Len(syntax) /\ rest = SubSeq(syntax, lo, hi)
      BY <2>0, <2>1 DEF lo, hi
    <3>2. syntax \in Seq(STRING)
      BY <1>3
    <3>3. Places("::", SubSeq(syntax, lo, hi)) =
             {k \in 1..(hi - lo + 1) : lo + k - 1 \in Places("::", syntax)}
      BY <3>1, <3>2, PlacesOfSlice
    <3> QED
      BY <3>1, <3>3
  <2> QED
    BY <1>4, <2>2, <2>3
<1>9. HasRootElement(Split(v))
  BY <1>2, <1>4 DEF HasRootElement
<1>10. RootElementNamespace(Split(v)) = SubSeq(v, 1, c - 1)
  BY <1>2, <1>5, <1>6 DEF RootElementNamespace
<1>11. RootElementName(Split(v)) = rest
  BY <1>2, <1>5, <1>8 DEF RootElementName
<1> QED
  BY <1>7, <1>9, <1>10, <1>11

\* An identifier of the usual form that can be taken apart is declared by its
\* namespace, its root element and its version.
LEMMA UsualDeclared ==
    ASSUME NEW v \in Seq(STRING), IsIdentifier(v),
           NEW h \in DOMAIN v, NEW c \in DOMAIN v, UsualForm(v, h, c)
    PROVE  /\ DocumentIdentification(Split(v)).standard = SubSeq(v, 1, c - 1)
           /\ DocumentIdentification(Split(v)).type = SubSeq(v, c + 1, h - 1)
           /\ "::" \notin Range(DocumentIdentification(Split(v)).type_version)
           /\ IsSuffix(<<"::">> \o DocumentIdentification(Split(v)).type_version, v)
<1> DEFINE n == Len(v)
<1>1. n \in Nat /\ DOMAIN v = 1..n
  BY LenProperties
<1>2. PICK d \in Places("::", v) : h < d
  BY DEF IsIdentifier, UsualForm
<1>3. PICK j \in Nat : SplitAt(v, h, j)
  BY <1>2, UsualSplit
<1>4. /\ DocumentIdentification(Split(v)).standard = SubSeq(v, 1, c - 1)
      /\ DocumentIdentification(Split(v)).type = SubSeq(v, c + 1, h - 1)
  BY <1>3, UsualRootElement DEF DocumentIdentification
<1>5. j \in 1..n /\ v[j] = "::" /\ \A k \in Places("::", v) : k <= j
  BY <1>3 DEF SplitAt, Places
<1> DEFINE version == SubSeq(v, j + 1, n)
<1>6. DocumentIdentification(Split(v)).type_version = version
  BY <1>3 DEF DocumentIdentification, SplitAt
<1>7. Places("::", version) = {}
  <2>1. j + 1 \in 1..(n + 1) /\ n \in 0..n
    BY <1>1, <1>5
  <2>2. Places("::", version) = {k \in 1..(n - (j + 1) + 1) : (j + 1) + k - 1 \in Places("::", v)}
    BY <2>1, PlacesOfSlice
  <2>3. \A k \in 1..(n - (j + 1) + 1) : ~((j + 1) + k - 1 <= j)
    BY <1>1, <1>5
  <2> HIDE DEF version
  <2> QED
    BY <1>5, <2>2, <2>3
<1>8. "::" \notin Range(version)
  BY <1>7 DEF Places, Range
<1>9. <<"::">> \o version = SubSeq(v, j, n)
  <2>1. j \in 1..n /\ n \in j..n
    BY <1>1, <1>5
  <2>2. SubSeq(v, j, n) = <<v[j]>> \o SubSeq(v, j + 1, n)
    BY <2>1, SubSeqRecursiveFirst
  <2> QED
    BY <1>5, <2>2
<1>10. IsSuffix(SubSeq(v, j, n), v)
  BY <1>5, RestIsSuffix
<1> QED
  BY <1>4, <1>6, <1>8, <1>9, <1>10

\* One that cannot lacks the customization or the version.
LEMMA UsualUndeclared ==
    ASSUME NEW v \in Seq(STRING), ~(IsIdentifier(v) /\ HasRootElement(Split(v))),
           NEW h \in DOMAIN v, NEW c \in DOMAIN v, UsualForm(v, h, c)
    PROVE  Max(Places("::", v)) \notin h + 2 .. Len(v) - 1
<1> DEFINE n == Len(v)
           m == Max(Places("::", v))
<1> SUFFICES ASSUME m \in h + 2 .. n - 1
             PROVE  IsIdentifier(v) /\ HasRootElement(Split(v))
  OBVIOUS
<1>1. n \in Nat /\ DOMAIN v = 1..n /\ c \in Places("::", v) /\ c \in 1..(h - 1) /\ h \in 1..n
  BY LenProperties, UsualSyntax
<1>2. Places("::", v) \in SUBSET (1..n)
  BY <1>1 DEF Places
<1>3. m \in Places("::", v) /\ \A k \in Places("::", v) : k <= m
  BY <1>1, <1>2, MaxIs
<1> HIDE DEF m
<1>4. m \in 1..n /\ h < m /\ h + 1 <= m - 1 /\ m + 1 <= n
  BY <1>1, <1>2, <1>3
<1>5. PICK j \in Nat : SplitAt(v, h, j)
  BY <1>3, <1>4, UsualSplit
<1>6. SplitAt(v, h, m)
  <2>1. j = m
    BY <1>2, <1>3, <1>5 DEF SplitAt
  <2> QED
    BY <1>5, <2>1
<1>7. /\ Split(v).syntax_specific_id = SubSeq(v, 1, h - 1)
      /\ Split(v).customization_id = SubSeq(v, h + 1, m - 1)
      /\ Split(v).version = SubSeq(v, m + 1, n)
  <2> DEFINE s == SubSeq(v, 1, h - 1)
             t == SubSeq(v, h + 1, m - 1)
             u == SubSeq(v, m + 1, n)
  <2>1. Split(v) = [syntax_specific_id |-> s, customization_id |-> t, version |-> u]
    BY <1>6 DEF SplitAt
  <2> HIDE DEF s, t, u
  <2>2. Split(v).syntax_specific_id = s /\ Split(v).customization_id = t /\ Split(v).version = u
    BY <2>1
  <2> QED
    BY <2>2 DEF s, t, u
<1>8. SubSeq(v, 1, h - 1) # <<>>
  <2>1. 1 \in 1..(n + 1) /\ h - 1 \in 0..n /\ ~(h - 1 < 1)
    BY <1>1
  <2> QED
    BY <2>1, Slice
<1>9. SubSeq(v, h + 1, m - 1) # <<>>
  <2>1. h + 1 \in 1..(n + 1) /\ m - 1 \in 0..n /\ ~(m - 1 < h + 1)
    BY <1>1, <1>4
  <2> QED
    BY <2>1, Slice
<1>10. SubSeq(v, m + 1, n) # <<>>
  <2>1. m + 1 \in 1..(n + 1) /\ n \in 0..n /\ ~(n < m + 1)
    BY <1>1, <1>4
  <2> QED
    BY <2>1, Slice
<1>11. h \in Places("##", v)
  BY DEF UsualForm
<1>12. IsIdentifier(v)
  BY <1>3, <1>4, <1>7, <1>8, <1>9, <1>10, <1>11 DEF IsIdentifier
<1> QED
  BY <1>5, <1>12, UsualRootElement

-----------------------------------------------------------------------------
(* The message the receiver gets to see *)

Soap == "application/soap+xml"
Payloads == "application/octet-stream"

\* What parse finds in a package is what a reader finds first in it.
LEMMA FoundIsUnpackable ==
    ASSUME package \in Package
    PROVE  /\ Unpackable(package) <=> Found
           /\ Found => /\ GetPart(package, Soap)[1] = FirstOf(Soap)
                       /\ GetPart(package, Payloads)[1] = FirstOf(Payloads)
                       /\ GetContentId(FirstOf(Payloads)) \in Attachment
<1> DEFINE parts == PartsInOrder(package)
<1>1. parts \in Seq(Package)
  BY PartsInOrderType
<1>2. \A type : PlacesOf(type) = Hits(parts, type)
  BY DEF PlacesOf, Hits
<1>3. ASSUME NEW type, type # "multipart/related"
      PROVE  /\ GetPart(package, type) = IF PlacesOf(type) = {} THEN <<>> ELSE <<FirstOf(type)>>
             /\ GetPart(package, type) # <<>> <=> PlacesOf(type) # {}
             /\ PlacesOf(type) # {} => /\ GetPart(package, type)[1] = FirstOf(type)
                                       /\ FirstOf(type) \in Package
  <2>1. GetPart(package, type) = First(parts, type)
    BY <1>3, GetPartIsFirst
  <2>2. First(parts, type) = IF PlacesOf(type) = {} THEN <<>> ELSE <<FirstOf(type)>>
    BY <1>2 DEF First, FirstOf
  <2>3. PlacesOf(type) # {} => FirstOf(type) \in Package
    <3>1. PlacesOf(type) \in SUBSET Nat
      BY <1>1, <1>2, FirstIs
    <3>2. PlacesOf(type) # {} => Min(PlacesOf(type)) \in PlacesOf(type)
      BY <3>1, MinIs
    <3>3. PlacesOf(type) \in SUBSET (1..Len(parts))
      BY <1>1, <1>2, LenProperties DEF Hits
    <3> QED
      BY <1>1, <3>2, <3>3, ElementOfSeq DEF FirstOf
  <2> QED
    BY <2>1, <2>2, <2>3
<1>4. Soap # "multipart/related" /\ Payloads # "multipart/related"
  BY DEF Soap, Payloads
<1>5. Unpackable(package) <=> Found
  BY <1>3, <1>4 DEF Unpackable, Found, Soap, Payloads
<1>6. ASSUME Found
      PROVE  GetContentId(FirstOf(Payloads)) \in Attachment
  <2>1. FirstOf(Payloads) \in Package /\ GetContentId(FirstOf(Payloads)) # NoContentId
    BY <1>3, <1>4, <1>6 DEF Found, Payloads
  <2>2. FirstOf(Payloads).content_id \in ContentId
    BY <2>1, PackageAssumption DEF GetContentId
  <2>3. GetContentId(FirstOf(Payloads)) = Unbracket[FirstOf(Payloads).content_id]
    BY <2>2, ContentIdAssumption DEF GetContentId
  <2> QED
    BY <2>1, <2>2, <2>3, ContentIdAssumption, BuildAssumption
<1>7. Found => PlacesOf(Soap) # {} /\ PlacesOf(Payloads) # {}
  BY DEF Found, Soap, Payloads
<1> QED
  BY <1>3, <1>4, <1>5, <1>6, <1>7

\* A map that is not empty has a first attachment.
LEMMA MapEntries ==
    ASSUME MapOK, map # <<>>
    PROVE  /\ Len(map) \in Nat \ {0} /\ DOMAIN map = 1..Len(map)
           /\ \A i \in 1..Len(map) : map[i] \in Attachment
           /\ Head(map) = map[1] /\ map[1] \in Attachment
           /\ \A i, j \in 1..Len(map) : map[i] = map[j] => i = j
<1>1. map \in Seq(Attachment) /\ Len(map) \in Nat \ {0} /\ DOMAIN map = 1..Len(map)
  BY EmptySeq, LenProperties DEF MapOK
<1>2. \A i \in 1..Len(map) : map[i] \in Attachment
  BY <1>1, ElementOfSeq
<1>3. \A i, j \in 1..Len(map) : map[i] = map[j] => i = j
  BY <1>1 DEF MapOK, IsInjective
<1>4. Head(map) = map[1] /\ 1 \in 1..Len(map)
  BY <1>1
<1> QED
  BY <1>1, <1>2, <1>3, <1>4

\* The parts of the message that the way to the receiver leaves alone.
SameAsBuilt(m) ==
    /\ m.signed = TRUE /\ m.encrypted = TRUE
    /\ m.refs = {[target |-> t, digest |-> "match"] : t \in {"messaging", "body", map[1]}}
    /\ m.parts = PartInfos(map)
    /\ m.layers = [a \in Attachment |-> 1]
    /\ m.size = [a \in Attachment |-> order.size]

\* It has the fields of a message and no others.
HasFields(m) ==
    m = [faults |-> m.faults, signed |-> m.signed, refs |-> m.refs, parts |-> m.parts,
         encrypted |-> m.encrypted, ciphers |-> m.ciphers, mime |-> m.mime, first |-> m.first,
         layers |-> m.layers, size |-> m.size]

\* The content ids and the contents of the parts found.
Cid == GetContentId(FirstOf(Payloads))
Sealed == FirstOf(Payloads).content
Headed == FirstOf(Soap).content = "soap"

\* What the receiver finds without a text, if anything.
LEMMA TextlessIs ==
    ASSUME order \in Orders
    PROVE  /\ Textless(order) \subseteq {"messageId", "envelope", "sbdhModel"}
           /\ Textless(order) = {} <=>
                /\ order.empty = {}
                /\ DocumentIdentification(Split(order.document)).standard # <<>>
                /\ DocumentIdentification(Split(order.document)).type # <<>>
<1> DEFINE id == DocumentIdentification(Split(order.document))
           ids == {"message_id", "messaging_id"}
           envelope == {"sender", "recipient", "process_identifier", "conversation_id"}
           header == {"sender", "recipient", "process_identifier", "c1_country_id",
                      "document_identification_instance_identifier"}
           whole == order.empty \cap header = {} /\ id.standard # <<>> /\ id.type # <<>>
<1>1. order.empty \subseteq Supplied
  BY BuildAssumption
<1>2. order.empty = {} <=> order.empty \cap ids = {} /\ order.empty \cap envelope = {}
                           /\ order.empty \cap header = {}
  BY <1>1 DEF Supplied
<1>3. Textless(order) = (IF order.empty \cap ids = {} THEN {} ELSE {"messageId"})
                        \cup (IF order.empty \cap envelope = {} THEN {} ELSE {"envelope"})
                        \cup (IF whole THEN {} ELSE {"sbdhModel"})
  BY DEF Textless
<1>4. order.empty = {} /\ id.standard # <<>> /\ id.type # <<>>
      <=> order.empty \cap ids = {} /\ order.empty \cap envelope = {} /\ whole
  BY <1>2
<1> HIDE DEF ids, envelope, whole
<1> QED
  BY <1>3, <1>4

\* What build makes of an order.
LEMMA BuiltIs ==
    ASSUME MapOK, map # <<>>, order \in Orders
    PROVE  /\ SameAsBuilt(Built(map, order))
           /\ Built(map, order).faults = Textless(order) \cup order.world
           /\ Built(map, order).mime = {map[1]} /\ Built(map, order).first = map[1]
           /\ Built(map, order).ciphers = DataReferences(map)
           /\ HasFields(Built(map, order))
<1>1. ContentFaults(order) = Textless(order)
  BY DEF ContentFaults, SBDHScopes, SBDHParticipants, MessageProperties
<1>2. ContentFaults(order) \cup order.world = Textless(order) \cup order.world
  BY <1>1
<1>3. Head(map) = map[1]
  BY MapEntries
<1>4. SignedReferences({Head(map)}) =
        {[target |-> t, digest |-> "match"] : t \in {"messaging", "body", map[1]}}
  <2>1. {"messaging", "body"} \cup {map[1]} = {"messaging", "body", map[1]}
    OBVIOUS
  <2> QED
    BY <1>3, <2>1 DEF SignedReferences
<1> QED
  BY <1>2, <1>3, <1>4 DEF Built, SameAsBuilt, HasFields

\* What is left of it behind unpack_message.
LEMMA UnpackedIs ==
    ASSUME MapOK, map # <<>>, order \in Orders, package \in Package
    PROVE  LET m == Unpacked(Built(map, order), package)
           IN  /\ SameAsBuilt(m)
               /\ m.faults = Textless(order) \cup order.world
                             \cup (IF ~Found THEN {"unpack"}
                                   ELSE IF Headed THEN {} ELSE {"messagingHeader"})
               /\ m.mime = IF Found THEN {Cid} ELSE {}
               /\ m.first = IF Found THEN Cid ELSE None
               /\ m.ciphers = IF Found THEN Deciphered(DataReferences(map), Sealed)
                              ELSE DataReferences(map)
               /\ HasFields(m)
<1> DEFINE b == Built(map, order)
           m == Unpacked(b, package)
<1>1. /\ SameAsBuilt(b) /\ b.faults = Textless(order) \cup order.world /\ b.ciphers = DataReferences(map)
      /\ HasFields(b)
  BY BuiltIs
<1>2. CASE ~Found
  <2>1. m = [b EXCEPT !.faults = @ \cup {"unpack"}, !.mime = {}, !.first = None]
    BY <1>2, FoundIsUnpackable DEF Unpacked
  <2> HIDE DEF b, m
  <2> QED
    BY <1>1, <1>2, <2>1 DEF SameAsBuilt, HasFields, b, m
<1>3. CASE Found
  <2>1. m = [b EXCEPT !.faults = @ \cup (IF Headed THEN {} ELSE {"messagingHeader"}),
                      !.mime = {Cid}, !.first = Cid,
                      !.ciphers = Deciphered(@, Sealed)]
    BY <1>3, FoundIsUnpackable DEF Unpacked, Headed, Sealed, Cid, Soap, Payloads
  <2> HIDE DEF b, m
  <2>4. /\ SameAsBuilt(m) /\ m.mime = {Cid} /\ m.first = Cid /\ m.ciphers = Deciphered(DataReferences(map), Sealed)
        /\ m.faults = Textless(order) \cup order.world \cup (IF Headed THEN {} ELSE {"messagingHeader"})
        /\ HasFields(m)
    BY <1>1, <2>1 DEF SameAsBuilt, HasFields
  <2> QED
    BY <1>1, <1>3, <2>4 DEF b, m
<1> QED
  BY <1>2, <1>3

\* What build leaves of a message to be decided on the way, its faults and its
\* MIME parts, is all that can keep it from being one.
LEMMA BuiltType ==
    ASSUME MapOK, map # <<>>, order \in Orders, NEW m, SameAsBuilt(m), HasFields(m),
           m.faults \in SUBSET Fault, m.mime \in SUBSET Attachment,
           m.first \in Attachment \cup {None},
           NEW content,
           \/ m.ciphers = DataReferences(map)
           \/ m.ciphers = Deciphered(DataReferences(map), content)
    PROVE  m \in Message /\ m.parts # <<>>
<1> DEFINE Ref == [target : Element \cup Attachment, digest : {"match", "mismatch", "unsupported"}]
           PartInfo == [href : Attachment \cup {None}, gzip : BOOLEAN]
           Cipher == [target : Attachment \cup {None}, ok : BOOLEAN]
<1>1. order.size \in Nat
  BY BuildAssumption
<1>2. m.signed \in BOOLEAN /\ m.encrypted \in BOOLEAN
      /\ m.layers \in [Attachment -> Nat] /\ m.size \in [Attachment -> Nat]
  <2>1. m.signed \in BOOLEAN /\ m.encrypted \in BOOLEAN
    BY Zenon DEF SameAsBuilt
  <2>2. /\ m.layers = [a \in Attachment |-> 1]
        /\ m.size = [a \in Attachment |-> order.size]
    BY Zenon DEF SameAsBuilt
  <2>3. m.layers \in [Attachment -> Nat] /\ m.size \in [Attachment -> Nat]
    BY <1>1, <2>2
  <2> QED
    BY <2>1, <2>3
<1>3. m.refs \in SUBSET Ref
  <2>1. \A t \in {"messaging", "body", map[1]} : [target |-> t, digest |-> "match"] \in Ref
    BY MapEntries DEF Element
  <2> HIDE DEF Ref
  <2> QED
    BY <2>1 DEF SameAsBuilt
<1>4. m.parts \in Seq(PartInfo) /\ m.parts # <<>>
  <2>1. m.parts \in [1..Len(map) -> PartInfo] /\ Len(map) \in Nat \ {0}
    BY MapEntries DEF SameAsBuilt, PartInfos
  <2> HIDE DEF PartInfo
  <2> QED
    BY <2>1
<1>5. DataReferences(map) \in SUBSET Cipher
  <2>1. \A i \in DOMAIN map : [target |-> map[i], ok |-> TRUE] \in Cipher
    BY MapEntries
  <2> HIDE DEF Cipher
  <2> QED
    BY <2>1 DEF DataReferences
<1>6. Deciphered(DataReferences(map), content) \in SUBSET Cipher
  <2>1. \A c \in Cipher : [c EXCEPT !.ok = content = "sealed"] \in Cipher
    OBVIOUS
  <2> HIDE DEF Cipher
  <2> QED
    BY <1>5, <2>1 DEF Deciphered
<1>7. m.ciphers \in SUBSET Cipher
  BY <1>5, <1>6
<1> DEFINE Parts == Seq(PartInfo)
           Refs == SUBSET Ref
           Ciphers == SUBSET Cipher
<1>8. m.refs \in Refs /\ m.parts \in Parts /\ m.ciphers \in Ciphers
  BY <1>3, <1>4, <1>7
<1>9. Message = [faults : SUBSET Fault, signed : BOOLEAN, refs : Refs, parts : Parts,
                 encrypted : BOOLEAN, ciphers : Ciphers, mime : SUBSET Attachment,
                 first : Attachment \cup {None}, layers : [Attachment -> Nat],
                 size : [Attachment -> Nat]]
  BY DEF Message
<1> HIDE DEF Parts, Refs, Ciphers
<1>10. m \in Message
  BY <1>2, <1>8, <1>9 DEF HasFields
<1> QED
  BY <1>4, <1>10

\* What build returns is a message.
LEMMA BuiltIsMessage ==
    ASSUME MapOK, map # <<>>, order \in Orders
    PROVE  Built(map, order) \in Message
<1> DEFINE m == Built(map, order)
<1>1. /\ SameAsBuilt(m) /\ HasFields(m) /\ m.faults = Textless(order) \cup order.world
      /\ m.mime = {map[1]} /\ m.first = map[1] /\ m.ciphers = DataReferences(map)
  BY BuiltIs
<1> HIDE DEF m
<1>2. m.faults \in SUBSET Fault
  <2>1. order.world \subseteq WorldFaults
    BY BuildAssumption
  <2>2. WorldFaults \subseteq Fault /\ {"messageId", "envelope", "sbdhModel"} \subseteq Fault
    BY DEF WorldFaults, Fault
  <2> QED
    BY <1>1, <2>1, <2>2, TextlessIs
<1>3. m.mime \in SUBSET Attachment /\ m.first \in Attachment \cup {None}
  BY <1>1, MapEntries
<1>4. m \in Message
  BY <1>1, <1>2, <1>3, BuiltType
<1> QED
  BY <1>4 DEF m

\* Whatever package it arrives in, the parser is given a message.
LEMMA UnpackedWellFormed ==
    ASSUME MapOK, map # <<>>, order \in Orders, package \in Package
    PROVE  WellFormed(Unpacked(Built(map, order), package))
<1> DEFINE m == Unpacked(Built(map, order), package)
<1>1. /\ SameAsBuilt(m) /\ HasFields(m)
      /\ m.faults = Textless(order) \cup order.world
                    \cup (IF ~Found THEN {"unpack"}
                          ELSE IF Headed THEN {} ELSE {"messagingHeader"})
      /\ m.mime = IF Found THEN {Cid} ELSE {}
      /\ m.first = IF Found THEN Cid ELSE None
      /\ m.ciphers = IF Found THEN Deciphered(DataReferences(map), Sealed)
                     ELSE DataReferences(map)
  BY UnpackedIs
<1> HIDE DEF m
<1>2. Found => Cid \in Attachment
  BY FoundIsUnpackable DEF Cid
<1>3. order.world \subseteq WorldFaults
  BY BuildAssumption
<1>4. m.faults \subseteq Fault /\ {"userMessage", "payloadInfo"} \cap m.faults = {}
  <2> DEFINE possible == WorldFaults \cup {"unpack", "messagingHeader", "messageId", "envelope", "sbdhModel"}
  <2>1. \A f \in m.faults : f \in possible
    BY <1>1, <1>3, TextlessIs
  <2>2. possible \subseteq Fault
    BY DEF WorldFaults, Fault
  <2>3. {"userMessage", "payloadInfo"} \cap possible = {}
    BY DEF WorldFaults
  <2> HIDE DEF possible
  <2> QED
    BY <2>1, <2>2, <2>3
<1>5. m.mime \in SUBSET Attachment /\ m.first \in Attachment \cup {None}
  BY <1>1, <1>2
<1>6. m.ciphers = DataReferences(map) \/ m.ciphers = Deciphered(DataReferences(map), Sealed)
  BY <1>1
<1>7. m \in Message /\ m.parts # <<>>
  BY <1>1, <1>4, <1>5, <1>6, BuiltType
<1>8. m.first \in m.mime \cup {None} /\ (m.first = None <=> m.mime = {})
  BY <1>1, <1>2, InputsAssumption
<1> QED
  BY <1>1, <1>4, <1>7, <1>8 DEF WellFormed, SameAsBuilt, m

-----------------------------------------------------------------------------
(* The verdict on it *)

\* The attachments the map names.
Names == {map[i] : i \in DOMAIN map}

\* What the receiver has of them, once the parts are found.
LEMMA SeenAttachments ==
    ASSUME MapOK, map # <<>>, NEW m, SameAsBuilt(m),
           Found, m.ciphers = Deciphered(DataReferences(map), Sealed)
    PROVE  /\ {c.target : c \in m.ciphers} = Names
           /\ (\A c \in m.ciphers : c.ok) <=> Sealed = "sealed"
           /\ Declared(m) = Names
           /\ \A i \in 1..Len(map) :
                /\ {k \in DOMAIN m.parts : m.parts[k].href = map[i] /\ m.parts[k].gzip} = {i}
                /\ m.layers[map[i]] = 1 /\ m.size[map[i]] = order.size
<1> DEFINE n == Len(map)
           cipher(i) == [[target |-> map[i], ok |-> TRUE] EXCEPT !.ok = Sealed = "sealed"]
<1>1. n \in Nat \ {0} /\ DOMAIN map = 1..n /\ (\A i \in 1..n : map[i] \in Attachment) /\ 1 \in 1..n
      /\ \A i, j \in 1..n : map[i] = map[j] => i = j
  BY MapEntries
<1> HIDE DEF n
<1>2. /\ \A c \in m.ciphers : \E i \in 1..n : c = cipher(i)
      /\ \A i \in 1..n : cipher(i) \in m.ciphers
  <2>1. ASSUME NEW c \in m.ciphers
        PROVE  \E i \in 1..n : c = cipher(i)
    <3>1. PICK d \in DataReferences(map) : c = [d EXCEPT !.ok = Sealed = "sealed"]
      BY DEF Deciphered
    <3>2. PICK i \in 1..n : d = [target |-> map[i], ok |-> TRUE]
      BY <1>1 DEF DataReferences
    <3> QED
      BY <3>1, <3>2
  <2>2. ASSUME NEW i \in 1..n
        PROVE  cipher(i) \in m.ciphers
    <3>1. [target |-> map[i], ok |-> TRUE] \in DataReferences(map)
      BY <1>1 DEF DataReferences
    <3> QED
      BY <3>1 DEF Deciphered
  <2> QED
    BY <2>1, <2>2
<1>3. \A i \in 1..n : cipher(i).target = map[i] /\ (cipher(i).ok <=> Sealed = "sealed")
  OBVIOUS
<1> HIDE DEF cipher
<1>4. {c.target : c \in m.ciphers} = Names
  BY <1>1, <1>2, <1>3 DEF Names
<1>5. (\A c \in m.ciphers : c.ok) <=> Sealed = "sealed"
  BY <1>1, <1>2, <1>3
<1>6. DOMAIN m.parts = 1..n /\ \A i \in 1..n : m.parts[i].href = map[i] /\ m.parts[i].gzip = TRUE
  BY <1>1 DEF SameAsBuilt, PartInfos
<1>7. None \notin Names
  BY <1>1, InputsAssumption DEF Names
<1>8. Declared(m) = Names
  <2>1. {m.parts[i].href : i \in DOMAIN m.parts} = Names
    BY <1>1, <1>6 DEF Names
  <2> QED
    BY <1>7, <2>1 DEF Declared
<1>9. ASSUME NEW i \in 1..n
      PROVE  {k \in DOMAIN m.parts : m.parts[k].href = map[i] /\ m.parts[k].gzip} = {i}
  BY <1>1, <1>6
<1>10. \A i \in 1..n : m.layers[map[i]] = 1 /\ m.size[map[i]] = order.size
  <2>1. m.layers = [a \in Attachment |-> 1] /\ m.size = [a \in Attachment |-> order.size]
    BY DEF SameAsBuilt
  <2> QED
    BY <1>1, <2>1
<1> QED
  BY <1>4, <1>5, <1>8, <1>9, <1>10 DEF n

\* Build signs eb:Messaging, the Body and the first attachment of the map.
LEMMA SeenSignature ==
    ASSUME MapOK, map # <<>>, NEW m, SameAsBuilt(m)
    PROVE  /\ Targets(m) = {"messaging", "body", map[1]}
           /\ UnresolvedElements(m) = {}
           /\ \A ref \in m.refs : ref.target \in Attachment => ref.target = map[1] /\ ref.digest = "match"
<1>1. map[1] \in Attachment /\ "messaging" \notin Attachment /\ "body" \notin Attachment
  BY MapEntries, InputsAssumption DEF Element
<1>2. m.refs = {[target |-> t, digest |-> "match"] : t \in {"messaging", "body", map[1]}}
  BY DEF SameAsBuilt
<1>3. \A ref \in m.refs : ref.digest = "match" /\ ref.target \in {"messaging", "body", map[1]}
  BY <1>2
<1>4. Targets(m) = {"messaging", "body", map[1]}
  <2>1. \A t \in {"messaging", "body", map[1]} :
          [target |-> t, digest |-> "match"] \in m.refs /\ [target |-> t, digest |-> "match"].target = t
    BY <1>2
  <2>2. \A t \in {"messaging", "body", map[1]} : \E ref \in m.refs : t = ref.target
    BY <2>1
  <2> QED
    BY <1>3, <2>2 DEF Targets
<1>5. UnresolvedElements(m) = {}
  BY <1>1, <1>3 DEF UnresolvedElements
<1> QED
  BY <1>1, <1>3, <1>4, <1>5

\* The map names one attachment, the one that has arrived.
LEMMA OnlyArrived ==
    ASSUME MapOK, map # <<>>, NEW cid
    PROVE  Names \subseteq {cid} <=> Len(map) = 1 /\ cid = map[1]
<1> DEFINE n == Len(map)
<1>1. n \in Nat \ {0} /\ DOMAIN map = 1..n /\ 1 \in 1..n
      /\ \A i, j \in 1..n : map[i] = map[j] => i = j
  BY MapEntries
<1> HIDE DEF n
<1>2. ASSUME Names \subseteq {cid}
      PROVE  n = 1 /\ cid = map[1]
  <2>1. \A i \in 1..n : map[i] = cid
    BY <1>1, <1>2 DEF Names
  <2>2. n \in 1..n /\ map[n] = map[1]
    BY <1>1, <2>1
  <2> QED
    BY <1>1, <2>1, <2>2
<1>3. ASSUME n = 1, cid = map[1]
      PROVE  Names \subseteq {cid}
  <2>1. \A i \in 1..n : i = 1
    BY <1>3
  <2> QED
    BY <1>1, <1>3, <2>1 DEF Names
<1> QED
  BY <1>2, <1>3 DEF n

\* The right side of the round trip.
Addressee ==
    /\ policy.resolver_set
    /\ Textless(order) = {}
    /\ order.world \subseteq (IF policy.acceptor_set THEN {} ELSE {"serviced"})
    /\ Len(map) = 1
    /\ order.size <= policy.maximum_decompressed_size
    /\ ArrivesWhole

\* The faults a built message can have, and which of them a policy overlooks.
LEMMA SeenFaults ==
    ASSUME NEW m, Found, order \in Orders,
           m.faults = Textless(order) \cup order.world \cup (IF Headed THEN {} ELSE {"messagingHeader"})
    PROVE  /\ "participants" \notin m.faults
           /\ (/\ m.faults \cap (Fault \ {"participants", "serviced"}) = {}
               /\ policy.acceptor_set => "serviced" \notin m.faults)
              <=> /\ Textless(order) = {}
                  /\ order.world \subseteq (IF policy.acceptor_set THEN {} ELSE {"serviced"})
                  /\ Headed
<1>1. order.world \subseteq WorldFaults
  BY BuildAssumption
<1>2. "participants" \notin WorldFaults /\ "messagingHeader" \notin WorldFaults
      /\ "messagingHeader" \in Fault \ {"participants", "serviced"}
      /\ \A f \in WorldFaults : f # "serviced" => f \in Fault \ {"participants", "serviced"}
  BY DEF WorldFaults, Fault
<1>5. "participants" \notin Textless(order) /\ "serviced" \notin Textless(order)
      /\ Textless(order) \subseteq Fault \ {"participants", "serviced"}
  BY TextlessIs DEF Fault
<1>3. CASE Headed
  BY <1>1, <1>2, <1>3, <1>5
<1>4. CASE ~Headed
  BY <1>1, <1>2, <1>4, <1>5
<1> QED
  BY <1>3, <1>4

\* The checks accept what build has made of an order exactly when the addressee
\* gets it whole.
LEMMA UnpackedAcceptable ==
    ASSUME MapOK, map # <<>>, order \in Orders, package \in Package, policy \in SecurityPolicy
    PROVE  Acceptable(Unpacked(Built(map, order), package), policy) <=> Addressee
<1> DEFINE m == Unpacked(Built(map, order), package)
           K == Fault \ {"participants", "serviced"}
           gzips(a) == {i \in DOMAIN m.parts : m.parts[i].href = a /\ m.parts[i].gzip}
           decrypted == {c.target : c \in m.ciphers}
           Sign == {"duplicateId", "tokenReference", "bundled", "userMessage", "tokenType",
                    "tokenBytes", "untrusted", "canonicalization", "signatureAlgorithm",
                    "signatureValue", "signature"}
<1>1. /\ SameAsBuilt(m)
      /\ m.faults = Textless(order) \cup order.world
                    \cup (IF ~Found THEN {"unpack"}
                          ELSE IF Headed THEN {} ELSE {"messagingHeader"})
      /\ m.mime = IF Found THEN {Cid} ELSE {}
      /\ m.first = IF Found THEN Cid ELSE None
      /\ m.ciphers = IF Found THEN Deciphered(DataReferences(map), Sealed)
                     ELSE DataReferences(map)
  BY UnpackedIs
<1> HIDE DEF m
<1>2. m.signed /\ m.encrypted
  BY <1>1, Zenon DEF SameAsBuilt
<1>3. Acceptable(m, policy) <=>
        /\ m.faults \cap K = {}
        /\ policy.verify_participants => "participants" \notin m.faults
        /\ policy.acceptor_set => "serviced" \notin m.faults
        /\ SignatureGood(m, policy)
        /\ decrypted \subseteq m.mime /\ \A c \in m.ciphers : c.ok
        /\ policy.verify_digests =>
             \A ref \in m.refs : ref.target \in Attachment =>
                ref.target \in decrypted /\ ref.digest = "match"
        /\ Declared(m) \subseteq m.mime
        /\ m.first \in decrypted
        /\ \A a \in decrypted : /\ Cardinality(gzips(a)) <= m.layers[a]
                                /\ gzips(a) # {} => m.size[a] <= policy.maximum_decompressed_size
        /\ m.layers[m.first] = Cardinality(gzips(m.first))
  <2>1. Fault \ ({"participants", "serviced"} \cup {} \cup {}) = K
    OBVIOUS
  <2> QED
    BY <1>2, <2>1 DEF Acceptable
<1>4. CASE ~Found
  <2>1. "unpack" \in m.faults \cap K
    BY <1>1, <1>4 DEF Fault
  <2> QED
    BY <1>3, <1>4, <2>1 DEF Addressee, ArrivesWhole, m
<1>5. CASE Found
  <2> DEFINE n == Len(map)
  <2>1. /\ decrypted = Names /\ ((\A c \in m.ciphers : c.ok) <=> Sealed = "sealed")
        /\ Declared(m) = Names
        /\ \A i \in 1..n : gzips(map[i]) = {i} /\ m.layers[map[i]] = 1 /\ m.size[map[i]] = order.size
    BY <1>1, <1>5, SeenAttachments
  <2>2. /\ Targets(m) = {"messaging", "body", map[1]} /\ UnresolvedElements(m) = {}
        /\ \A ref \in m.refs : ref.target \in Attachment => ref.target = map[1] /\ ref.digest = "match"
    BY <1>1, SeenSignature
  <2>3. n \in Nat \ {0} /\ DOMAIN map = 1..n /\ 1 \in 1..n
    BY MapEntries
  <2>4. m.mime = {Cid} /\ m.first = Cid
        /\ m.faults = Textless(order) \cup order.world \cup (IF Headed THEN {} ELSE {"messagingHeader"})
    BY <1>1, <1>5
  <2>5. Addressee <=> /\ policy.resolver_set
                      /\ Textless(order) = {}
                      /\ order.world \subseteq (IF policy.acceptor_set THEN {} ELSE {"serviced"})
                      /\ Headed /\ Sealed = "sealed"
                      /\ n = 1 /\ Cid = map[1]
                      /\ order.size <= policy.maximum_decompressed_size
    BY <1>5 DEF Addressee, ArrivesWhole, Headed, Sealed, Cid, Soap, Payloads
  <2> HIDE DEF gzips, decrypted, n, K
  <2>6. ASSUME Acceptable(m, policy)
        PROVE  Addressee
    <3>1. policy.resolver_set
      BY <1>3, <2>6 DEF SignatureGood
    <3>2. /\ order.world \subseteq (IF policy.acceptor_set THEN {} ELSE {"serviced"}) /\ Headed
          /\ Textless(order) = {}
      BY <1>3, <1>5, <2>4, <2>6, SeenFaults DEF K
    <3>3. Sealed = "sealed" /\ n = 1 /\ Cid = map[1]
      BY <1>3, <2>1, <2>4, <2>6, OnlyArrived DEF n
    <3>4. order.size <= policy.maximum_decompressed_size
      <4>1. map[1] \in decrypted /\ gzips(map[1]) # {} /\ m.size[map[1]] = order.size
        BY <2>1, <2>3 DEF Names
      <4> QED
        BY <1>3, <2>6, <4>1
    <3> QED
      BY <2>5, <3>1, <3>2, <3>3, <3>4
  <2>7. ASSUME Addressee
        PROVE  Acceptable(m, policy)
    <3>1. /\ policy.resolver_set /\ Textless(order) = {} /\ Headed /\ Sealed = "sealed" /\ n = 1 /\ Cid = map[1]
          /\ order.world \subseteq (IF policy.acceptor_set THEN {} ELSE {"serviced"})
          /\ order.size <= policy.maximum_decompressed_size
      BY <2>5, <2>7
    <3>2. /\ m.faults \cap K = {} /\ (policy.acceptor_set => "serviced" \notin m.faults)
          /\ "participants" \notin m.faults
      BY <1>5, <2>4, <3>1, SeenFaults DEF K
    <3>3. Names \subseteq {Cid} /\ map[1] \in Names
      BY <2>3, <3>1, OnlyArrived DEF n, Names
    <3>4. Names = {map[1]}
      BY <3>1, <3>3
    <3>5. SignatureGood(m, policy)
      <4>1. Sign \cap m.faults = {}
        <5>1. Sign \subseteq K
          BY DEF K, Fault
        <5> QED
          BY <3>2, <5>1
      <4>2. Coverage \subseteq SignatureCoverage(m)
        BY <2>1, <2>2, <3>4 DEF SignatureCoverage, CoverageByTag, Coverage
      <4>3. policy.required_coverage \subseteq Coverage
        BY DEF SecurityPolicy
      <4> QED
        BY <1>2, <2>2, <3>1, <4>1, <4>2, <4>3 DEF SignatureGood
    <3>6. gzips(map[1]) = {1} /\ m.layers[map[1]] = 1 /\ m.size[map[1]] = order.size
          /\ Cardinality(gzips(map[1])) = 1
      BY <2>1, <2>3, FS_Singleton
    <3>7. /\ decrypted \subseteq m.mime /\ (\A c \in m.ciphers : c.ok)
          /\ Declared(m) \subseteq m.mime /\ m.first \in decrypted
      BY <2>1, <2>4, <3>1, <3>3
    <3>8. \A ref \in m.refs : ref.target \in Attachment =>
                ref.target \in decrypted /\ ref.digest = "match"
      BY <2>1, <2>2, <3>3
    <3>9. \A a \in decrypted : /\ Cardinality(gzips(a)) <= m.layers[a]
                               /\ gzips(a) # {} => m.size[a] <= policy.maximum_decompressed_size
      <4>1. decrypted = {map[1]}
        BY <2>1, <3>4
      <4>2. Cardinality(gzips(map[1])) <= m.layers[map[1]]
        BY <3>6
      <4>3. m.size[map[1]] <= policy.maximum_decompressed_size
        BY <3>1, <3>6
      <4> QED
        BY <4>1, <4>2, <4>3, Zenon
    <3>10. m.layers[m.first] = Cardinality(gzips(m.first))
      BY <2>4, <3>1, <3>6
    <3> QED
      BY <1>3, <3>2, <3>5, <3>7, <3>8, <3>9, <3>10
  <2> QED
    BY <2>6, <2>7 DEF m
<1> QED
  BY <1>4, <1>5

-----------------------------------------------------------------------------
(* The invariant is inductive *)

\* encrypted_data_attachment_mapping leaves a map with an entry, and never two
\* entries for one attachment.
LEMMA MappedMap ==
    ASSUME MapOK, map' \in Mapped(map)
    PROVE  MapOK' /\ map' # <<>>
<1>1. CASE map # <<>>
  BY <1>1 DEF Mapped, MapOK
<1>2. CASE map = <<>>
  <2>1. PICK a \in Attachment : map' = <<a>>
    BY <1>2 DEF Mapped
  <2>2. <<a>> \in Seq(Attachment) /\ <<a>> # <<>> /\ DOMAIN <<a>> = {1}
    OBVIOUS
  <2>3. IsInjective(<<a>>)
    BY <2>2 DEF IsInjective
  <2> QED
    BY <2>1, <2>2, <2>3 DEF MapOK
<1> QED
  BY <1>1, <1>2

\* The map survives every step that leaves it alone.
LEMMA SameMap ==
    ASSUME MapOK, UNCHANGED map
    PROVE  MapOK'
BY DEF MapOK

\* The parser takes over with both its invariants.
LEMMA EntryNext == Entry' => (Inv /\ Pipeline)'
BY EntryInv, EntryPipeline, PTL

\* Before its call, and after an exception, no step of parse is taken.
LEMMA NotParsing ==
    ASSUME pc \in {"build", "request", "receive", "raised"}
    PROVE  ~Process /\ ~ProcessSBDH
<1>1. ~(UnpackMessage \/ PreValidate \/ ValidateEnvelope \/ IndexElements \/ LocateToken)
  BY DEF UnpackMessage, PreValidate, ValidateEnvelope, IndexElements, LocateToken
<1>2. ~(VerifySignature \/ VerifySignatureCoverage \/ VerifyReferenceDigests \/ GetDecryptedData)
  BY DEF VerifySignature, VerifySignatureCoverage, VerifyReferenceDigests, GetDecryptedData
<1>3. ~(VerifyAttachmentDigests \/ RequirePayloadInfo \/ UnpackPart \/ AllPartsUnpacked)
  BY DEF VerifyAttachmentDigests, RequirePayloadInfo, UnpackPart, AllPartsUnpacked
<1>4. ~ProcessSBDH
  BY DEF ProcessSBDH, ReadPayload, ReadParticipants, VerifyParticipantsAgree, AcceptParticipant,
     ReadScopes
<1> QED
  BY <1>1, <1>2, <1>3, <1>4 DEF Process

\* The caller starts with references of his own and nothing built.
LEMMA BuildInitInv == BuildInit => BuildInv
BY BuildAssumption DEF BuildInit, BuildInv, MapOK, Building, BeforeEntry

\* A document type that cannot be taken apart ends the build, and a key that
\* does not sign leaves it where it was.
LEMMA FailedBuildInv ==
    ASSUME BuildInv, NEW o \in Orders, FailToIdentify(o) \/ FailToSign(o)
    PROVE  BuildInv'
<1>1. Building /\ MapOK /\ policy \in Policies
  BY DEF FailToIdentify, FailToSign, BuildInv, Building, Unbuilt, Sent, Parsing, Stage
<1>2. CASE FailToIdentify(o)
  <2>1. MapOK' /\ policy' \in Policies
    BY <1>1, <1>2, SameMap DEF FailToIdentify
  <2>2. Unbuilt'
    BY <1>1, <1>2 DEF FailToIdentify, Building, Unbuilt
  <2> QED
    BY <2>1, <2>2 DEF BuildInv
<1>3. CASE FailToSign(o)
  <2>1. MapOK' /\ policy' \in Policies
    BY <1>1, <1>3, MappedMap DEF FailToSign
  <2>2. Building'
    BY <1>1, <1>3 DEF FailToSign, Building, BeforeEntry
  <2> QED
    BY <2>1, <2>2 DEF BuildInv
<1> QED
  BY <1>2, <1>3

\* A build that succeeds records map and order.
LEMMA BuildMessageInv ==
    ASSUME BuildInv, NEW o \in Orders, BuildMessage(o)
    PROVE  BuildInv'
<1>1. Building /\ MapOK /\ policy \in Policies
  BY DEF BuildMessage, BuildInv, Building, Unbuilt, Sent, Parsing, Stage
<1>2. MapOK' /\ map' # <<>> /\ policy' \in Policies
  BY <1>1, MappedMap DEF BuildMessage
<1>3. BeforeEntry' /\ package' = None /\ pc' = "request"
  BY <1>1 DEF BuildMessage, Building, BeforeEntry
<1>4. Recorded'
  BY <1>2 DEF BuildMessage, Recorded
<1>5. msg' = Built(map', order')
  BY DEF BuildMessage
<1> QED
  BY <1>2, <1>3, <1>4, <1>5 DEF BuildInv, Sent

\* Both ways to pack the request give a package.
LEMMA PackInv ==
    ASSUME BuildInv, GetRequestData \/ Repackage
    PROVE  BuildInv'
<1>1. pc = "request"
  BY DEF GetRequestData, Repackage
<1>2. Sent /\ MapOK /\ policy \in Policies
  BY <1>1 DEF BuildInv, Building, Unbuilt, Parsing, Stage
<1>3. pc' = "receive" /\ UNCHANGED <<msg, policy, part, parse_error, fields, map, order, sbdh>>
  BY DEF GetRequestData, Repackage
<1>4. package' \in Package
  <2>1. CASE GetRequestData
    <3>1. msg.first = map[1] /\ map[1] \in Attachment
      BY <1>2, BuiltIs, MapEntries DEF Sent, Recorded
    <3> QED
      BY <2>1, <3>1, BuildAssumption DEF GetRequestData
  <2>2. CASE Repackage
    <3>1. order.package \in Package \cup {None}
      BY <1>2, BuildAssumption DEF Sent, Recorded
    <3> QED
      BY <2>2, <3>1 DEF Repackage
  <2> QED
    BY <2>1, <2>2
<1>5. MapOK' /\ policy' \in Policies
  BY <1>2, <1>3, SameMap
<1>6. BeforeEntry' /\ Recorded' /\ msg' = Built(map', order')
  BY <1>2, <1>3 DEF Sent, BeforeEntry, Recorded
<1> QED
  BY <1>3, <1>4, <1>5, <1>6 DEF BuildInv, Sent

\* What unpack_message hands over is a message about to be parsed.
LEMMA UnpackBuiltInv ==
    ASSUME BuildInv, Unpack
    PROVE  BuildInv'
<1>1. Sent /\ MapOK /\ policy \in Policies /\ pc = "receive"
  BY DEF Unpack, BuildInv, Building, Unbuilt, Sent, Parsing, Stage
<1>2. package \in Package /\ Recorded /\ BeforeEntry /\ msg = Built(map, order)
  BY <1>1 DEF Sent
<1>3. pc' = "unpack" /\ UNCHANGED <<policy, part, parse_error, fields, map, order, sbdh, package>>
      /\ msg' = Unpacked(msg, package)
  BY DEF Unpack
<1>4. WellFormed(msg')
  BY <1>1, <1>2, <1>3, UnpackedWellFormed DEF Recorded
<1>5. policy \in SecurityPolicy
  BY <1>1, InputsAssumption
<1>6. Entry'
  BY <1>2, <1>3, <1>4, <1>5 DEF Entry, BeforeEntry
<1>7. (Inv /\ Pipeline)'
  BY <1>6, EntryNext
<1>8. msg' = Unpacked(Built(map', order'), package')
  BY <1>2, <1>3
<1>9. Recorded' /\ MapOK' /\ policy' \in Policies /\ package' \in Package
  BY <1>1, <1>2, <1>3, SameMap DEF Recorded
<1>10. pc' \in Stage
  BY <1>3 DEF Stage
<1> QED
  BY <1>7, <1>8, <1>9, <1>10 DEF BuildInv, Parsing

\* From there on it is the parser's work.
LEMMA ParseBuiltInv ==
    ASSUME BuildInv, Process \/ ProcessSBDH \/ Finished, UNCHANGED <<map, order, sbdh, package>>
    PROVE  BuildInv'
<1>1. Next
  BY DEF Next
<1>2. UNCHANGED <<msg, policy>>
  BY <1>1, NextInputs
<1>3. MapOK' /\ policy' \in Policies
  BY <1>2, SameMap DEF BuildInv
<1>4. CASE Parsing
  <2>1. (Inv /\ Pipeline)'
    BY <1>1, <1>4, NextInv, NextPipeline DEF Parsing
  <2>2. pc' \in Stage
    BY <2>1 DEF Pipeline, Typed
  <2>3. Recorded' /\ package' \in Package /\ msg' = Unpacked(Built(map', order'), package')
    BY <1>2, <1>4 DEF Parsing, Recorded
  <2> QED
    BY <1>3, <2>1, <2>2, <2>3 DEF BuildInv, Parsing
<1>5. CASE Unbuilt
  <2>1. Finished
    BY <1>5, NotParsing DEF Unbuilt
  <2>2. Unbuilt'
    BY <1>2, <1>5, <2>1 DEF Finished, vars, Unbuilt
  <2> QED
    BY <1>3, <2>2 DEF BuildInv
<1>6. CASE Building \/ Sent
  <2>1. pc \in {"build", "request", "receive"}
    BY <1>6 DEF Building, Sent
  <2>2. Finished
    BY <2>1, NotParsing
  <2> QED
    BY <2>1, <2>2 DEF Finished
<1> QED
  BY <1>4, <1>5, <1>6 DEF BuildInv

\* Every step keeps the invariant.
LEMMA BuildNextInv == BuildInv /\ [BuildNext]_buildVars => BuildInv'
<1> SUFFICES ASSUME BuildInv, [BuildNext]_buildVars
             PROVE  BuildInv'
  OBVIOUS
<1>1. CASE UNCHANGED buildVars
  <2>1. UNCHANGED <<msg, policy, pc, part, parse_error, fields, map, order, sbdh, package>>
    BY <1>1 DEF buildVars
  <2>2. MapOK' /\ policy' \in Policies
    BY <2>1, SameMap DEF BuildInv
  <2>3. CASE Building \/ Unbuilt \/ Sent
    BY <2>1, <2>2, <2>3 DEF BuildInv, Building, Unbuilt, Sent, BeforeEntry, Recorded
  <2>4. CASE Parsing
    <3>1. (Inv /\ Pipeline)'
      BY <2>1, <2>4, NextInv, NextPipeline DEF Parsing, vars
    <3> QED
      BY <2>1, <2>2, <2>4, <3>1 DEF BuildInv, Parsing, Recorded
  <2> QED
    BY <2>3, <2>4 DEF BuildInv
<1>2. ASSUME NEW o \in Orders, FailToIdentify(o) \/ FailToSign(o) \/ BuildMessage(o)
      PROVE  BuildInv'
  BY <1>2, FailedBuildInv, BuildMessageInv
<1>3. CASE GetRequestData \/ Repackage
  BY <1>3, PackInv
<1>4. CASE Unpack
  BY <1>4, UnpackBuiltInv
<1>5. CASE (Process \/ ProcessSBDH \/ Finished) /\ UNCHANGED <<map, order, sbdh, package>>
  BY <1>5, ParseBuiltInv
<1> QED
  BY <1>1, <1>2, <1>3, <1>4, <1>5 DEF BuildNext

\* The message on its way is always the one built from the recorded map, as far
\* as its package shows it.
LEMMA BuildSpecInv == BuildSpec => []BuildInv
<1> QED
  BY BuildInitInv, BuildNextInv, PTL DEF BuildSpec

-----------------------------------------------------------------------------
(* The theorems *)

\* get_soap_part and get_encrypted_part, searching each package depth first and
\* each for one kind, between them hand the parser the first part of either
\* kind in document order, or refuse the request when there is none: for every
\* request, however deep, also one from another product.
THEOREM UnpacksInDocumentOrderHolds == BuildSpec => []UnpacksInDocumentOrder
<1>1. BuildInv => UnpacksInDocumentOrder
  <2> SUFFICES ASSUME BuildInv, package # None, pc # "receive"
               PROVE  UnpacksInDocumentOrder
    BY DEF UnpacksInDocumentOrder
  <2>1. Parsing /\ MapOK
    BY DEF BuildInv, Building, Unbuilt, Sent
  <2>2. /\ msg.faults = Textless(order) \cup order.world
                        \cup (IF ~Found THEN {"unpack"}
                              ELSE IF Headed THEN {} ELSE {"messagingHeader"})
        /\ msg.mime = IF Found THEN {Cid} ELSE {}
        /\ msg.first = IF Found THEN Cid ELSE None
    BY <2>1, UnpackedIs DEF Parsing, Recorded
  <2>3. {"unpack", "messagingHeader"} \cap (Textless(order) \cup order.world) = {}
    <3>1. order.world \subseteq WorldFaults
      BY <2>1, BuildAssumption DEF Parsing, Recorded
    <3>2. Textless(order) \subseteq {"messageId", "envelope", "sbdhModel"}
      BY <2>1, TextlessIs DEF Parsing, Recorded
    <3> QED
      BY <3>1, <3>2 DEF WorldFaults
  <2>4. CASE ~Found
    BY <2>2, <2>4 DEF UnpacksInDocumentOrder
  <2>5. CASE Found
    <3>1. msg.faults = Textless(order) \cup order.world \cup (IF Headed THEN {} ELSE {"messagingHeader"})
      BY <2>2, <2>5
    <3>2. "unpack" \notin msg.faults /\ ("messagingHeader" \in msg.faults <=> ~Headed)
      BY <2>3, <3>1
    <3>3. msg.mime = {Cid} /\ msg.first \in msg.mime
      BY <2>2, <2>5
    <3> QED
      BY <2>5, <3>2, <3>3 DEF UnpacksInDocumentOrder, Headed, Cid, Soap, Payloads
  <2> QED
    BY <2>4, <2>5
<1> QED
  BY <1>1, BuildSpecInv, PTL

\* The parser's verdict on a message of build is that of its addressee.
LEMMA VerdictOnBuilt ==
    ASSUME BuildInv, pc = "returned"
    PROVE  /\ Parsing
           /\ Accepted <=> Addressee
<1>1. Parsing /\ MapOK /\ policy \in Policies
  BY DEF BuildInv, Building, Unbuilt, Sent
<1>2. Inv /\ Pipeline /\ Recorded /\ package \in Package
      /\ msg = Unpacked(Built(map, order), package)
  BY <1>1 DEF Parsing
<1>3. Accepted <=> Acceptable(msg, policy)
  BY <1>2, PassedIsAcceptable DEF Inv, Pipeline, Verdict, Accepted
<1>4. policy \in SecurityPolicy
  BY <1>1, InputsAssumption
<1>5. Acceptable(msg, policy) <=> Addressee
  BY <1>1, <1>2, <1>4, UnpackedAcceptable DEF Recorded
<1> QED
  BY <1>1, <1>3, <1>5

\* parse accepts what build_peppol_message makes of an order exactly when the
\* access point it reaches has the key, trusts the signer and serves the
\* recipient, the payload is within its limit, the map named one attachment,
\* the parts found first are the sender's, the caller left no value empty and
\* the document type names a namespace and a root element: these last two are
\* the only values that build writes and parse refuses, under any policy.
THEOREM BuiltIsAcceptedByAddresseeHolds == BuildSpec => []BuiltIsAcceptedByAddressee
<1>1. BuildInv => BuiltIsAcceptedByAddressee
  <2>1. SUFFICES ASSUME BuildInv, pc = "returned"
                 PROVE  BuiltIsAcceptedByAddressee
    BY DEF BuiltIsAcceptedByAddressee
  <2>2. Parsing /\ (Accepted <=> Addressee)
    BY <2>1, VerdictOnBuilt
  <2>3. order \in Orders /\ sbdh = DocumentIdentification(Split(order.document))
    BY <2>2 DEF Parsing, Recorded
  <2> QED
    BY <2>2, <2>3, TextlessIs DEF BuiltIsAcceptedByAddressee, Addressee
<1> QED
  BY <1>1, BuildSpecInv, PTL

\* What is accepted is read: the attachment that the sender's map records, and
\* no other, was decrypted and lost its one gzip layer, also when builds that
\* failed to sign came before.
THEOREM RecordedAttachmentIsReadHolds == BuildSpec => []RecordedAttachmentIsRead
<1>1. BuildInv => RecordedAttachmentIsRead
  <2> SUFFICES ASSUME BuildInv, Accepted
               PROVE  /\ msg.first = map[1]
                      /\ fields.decrypted_data[map[1]] = 0
                      /\ \A a \in Attachment \ {map[1]} : fields.decrypted_data[a] = None
    BY DEF RecordedAttachmentIsRead
  <2>1. Parsing /\ Addressee /\ MapOK
    BY VerdictOnBuilt DEF Accepted, BuildInv
  <2>2. Recorded /\ package \in Package /\ msg = Unpacked(Built(map, order), package) /\ Inv
        /\ Pipeline
    BY <2>1 DEF Parsing
  <2>3. Found /\ Cid = map[1] /\ Len(map) = 1
    BY <2>1 DEF Addressee, ArrivesWhole, Cid, Payloads
  <2>4. SameAsBuilt(msg) /\ msg.first = map[1]
        /\ msg.ciphers = Deciphered(DataReferences(map), Sealed)
    BY <2>1, <2>2, <2>3, UnpackedIs DEF Recorded
  <2>5. map[1] \in Attachment /\ DOMAIN map = {1}
    BY <2>1, <2>2, <2>3, MapEntries DEF Recorded
  <2>6. /\ Decrypted = Names
        /\ {k \in DOMAIN msg.parts : msg.parts[k].href = map[1] /\ msg.parts[k].gzip} = {1}
        /\ msg.layers[map[1]] = 1
    BY <2>1, <2>2, <2>3, <2>4, SeenAttachments DEF Recorded, Decrypted
  <2>7. Decrypted = {map[1]}
    BY <2>5, <2>6 DEF Names
  <2>8. Cardinality(Gzips(map[1], Len(msg.parts))) = 1
    <3>1. DOMAIN msg.parts = 1..Len(msg.parts)
      BY <2>2, MessageFields, LenProperties DEF Inv
    <3>2. Gzips(map[1], Len(msg.parts)) = {1}
      BY <2>6, <3>1 DEF Gzips
    <3> QED
      BY <3>2, FS_Singleton
  <2>9. Layers(Len(msg.parts))
    BY <2>2 DEF Accepted, Pipeline, Verdict
  <2>10. fields.decrypted_data[map[1]] = msg.layers[map[1]] - Cardinality(Gzips(map[1], Len(msg.parts)))
    BY <2>5, <2>7, <2>9 DEF Layers
  <2>11. \A a \in Attachment \ {map[1]} : fields.decrypted_data[a] = None
    BY <2>7, <2>9 DEF Layers
  <2> QED
    BY <2>4, <2>6, <2>8, <2>10, <2>11
<1> QED
  BY <1>1, BuildSpecInv, PTL

\* The greedy expression of BusdoxDocidQnsDocumentIdentifier takes every
\* document type apart so that it can be put together again, declares one of
\* the customary form by the right namespace, root element and version, and
\* refuses it only for want of customization or version, whatever separators
\* the customization holds.
THEOREM DocumentTypeIsDeclaredHolds == BuildSpec => []DocumentTypeIsDeclared
<1>1. ASSUME BuildInv, order # None
      PROVE  order \in Orders /\ order.document \in Seq(STRING)
  <2>1. order \in Orders
    BY <1>1 DEF BuildInv, Building, Unbuilt, Sent, Parsing, Recorded
  <2> QED
    BY <2>1, BuildAssumption
<1>2. ASSUME BuildInv, Sent \/ Parsing
      PROVE  /\ msg # None /\ order \in Orders /\ Identified(order)
             /\ sbdh = DocumentIdentification(Split(order.document))
  <2>1. Recorded /\ MapOK
    BY <1>2 DEF BuildInv, Sent, Parsing
  <2>2. msg \in Message
    <3>1. CASE Sent
      BY <2>1, <3>1, BuiltIsMessage DEF Sent, Recorded
    <3>2. CASE Parsing
      BY <2>1, <3>2, UnpackedWellFormed DEF Parsing, Recorded, WellFormed
    <3> QED
      BY <1>2, <3>1, <3>2
  <2> QED
    BY <2>1, <2>2, InputsAssumption DEF Recorded
<1>3. ASSUME BuildInv, Accepted
      PROVE  sbdh.document_id = order.document
  <2>1. Parsing
    BY <1>3 DEF Accepted, BuildInv, Building, Unbuilt, Sent
  <2>2. /\ Identified(order) /\ order.document \in Seq(STRING)
        /\ sbdh = DocumentIdentification(Split(order.document))
    BY <1>2, <1>3, <2>1, BuildAssumption
  <2>3. PICK i, j \in Nat : SplitAt(order.document, i, j)
    BY <2>2, SplitExists DEF Identified, IsIdentifier
  <2> QED
    BY <2>2, <2>3, IdentifierRoundTrip DEF DocumentIdentification
<1>4. ASSUME BuildInv, order # None, NEW h \in DOMAIN order.document,
             NEW c \in DOMAIN order.document, UsualForm(order.document, h, c)
      PROVE  IF msg = None
             THEN Max(Places("::", order.document)) \notin h + 2 .. Len(order.document) - 1
             ELSE /\ sbdh.standard = SubSeq(order.document, 1, c - 1)
                  /\ sbdh.type = SubSeq(order.document, c + 1, h - 1)
                  /\ "::" \notin Range(sbdh.type_version)
                  /\ IsSuffix(<<"::">> \o sbdh.type_version, order.document)
  <2>1. order.document \in Seq(STRING)
    BY <1>1, <1>4
  <2>2. CASE Sent \/ Parsing
    <3>1. /\ msg # None /\ IsIdentifier(order.document)
          /\ sbdh = DocumentIdentification(Split(order.document))
      BY <1>2, <1>4, <2>2 DEF Identified
    <3> QED
      BY <1>4, <2>1, <3>1, UsualDeclared
  <2>3. CASE Unbuilt
    BY <1>4, <2>1, <2>3, UsualUndeclared DEF Unbuilt, Identified
  <2> QED
    BY <1>4, <2>2, <2>3 DEF BuildInv, Building
<1>5. BuildInv => DocumentTypeIsDeclared
  BY <1>3, <1>4 DEF DocumentTypeIsDeclared, UsualForm
<1> QED
  BY <1>5, BuildSpecInv, PTL
=============================================================================
