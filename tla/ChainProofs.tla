---------------------------- MODULE ChainProofs ----------------------------
(***************************************************************************)
(* What the signer resolvers of as4/core/trust.py promise, proved for      *)
(* every set of certificates, every configuration of a resolver and every  *)
(* relation of issuing, loops included.                                    *)
(*                                                                         *)
(* The invariant relates the path climbed so far to every chain the        *)
(* embedded certificate could be trusted for: where issuers are unique,    *)
(* each such chain begins with the path.                                   *)
(***************************************************************************)
EXTENDS PeppolTrust, TLAPS, WellFoundedInduction

-----------------------------------------------------------------------------
(* The inductive invariant *)

CallOK ==
    /\ world.issued \subseteq Certificate \X Certificate
    /\ world.ca \cup world.unfit \cup world.named \subseteq Certificate
    /\ resolver \in Resolver
    /\ embedded \in Certificate \cup {None}

\* From the embedded certificate up, each was issued by the next.
Climbed ==
    /\ embedded \in Certificate /\ path[1] = embedded
    /\ path \in Seq(Certificate) /\ Len(path) >= 1
    /\ \A i \in 1..(Len(path) - 1) : IsIssuer(path[i + 1], path[i])

NoAnchorIssued(c) == \A d \in Configured(Anchors) : ~IsIssuer(d, c)

\* The climb takes an intermediate only where no anchor would do.
OnTheWay ==
    /\ resolver.kind = "chain" /\ checked = 0
    /\ Climbed
    /\ \A i \in 2..Len(path) : path[i] \in Configured(Intermediates)
    /\ \A i \in 1..(Len(path) - 1) : NoAnchorIssued(path[i])

AtAnchor ==
    /\ Climbed
    /\ Len(path) \in 2..resolver.maximum_depth
    /\ path[Len(path)] \in Configured(Anchors)
    /\ \A i \in 2..(Len(path) - 1) : path[i] \in Configured(Intermediates)
    /\ \A i \in 1..(Len(path) - 2) : NoAnchorIssued(path[i])
    /\ \A i \in 1..checked : path[i] \notin world.unfit

\* pinned_certificates checks nothing but that the certificate is there.
AtPin == path = <<embedded>> /\ checked = 1 /\ embedded \in Configured(Anchors) \cap Certificate

Arrived ==
    /\ checked \in 0..Len(path)
    /\ resolver.kind = "chain" => AtAnchor
    /\ resolver.kind = "pinned" => AtPin

\* The chains that would make the embedded certificate trusted.
Chains(n) == {p \in [1..n -> Certificate] : p[1] = embedded /\ TrustedChain(p)}

\* Every such chain begins with the path, and does not end before.
ChainsFollow(least) ==
    \A n \in 2..resolver.maximum_depth : \A p \in Chains(n) :
        n >= least /\ \A i \in 1..Len(path) : p[i] = path[i]

Position ==
    /\ pc = "start" => path = <<>> /\ checked = 0
    /\ pc = "climb" => OnTheWay
    /\ pc \in {"check", "resolved"} => Arrived
    /\ pc = "resolved" =>
          checked = Len(path) /\ (resolver.names_the_sender => path[1] \in world.named)

Determined ==
    IssuersUnique =>
        /\ pc = "climb" => ChainsFollow(Len(path) + 1)
        /\ pc = "check" /\ resolver.kind = "chain" => ChainsFollow(Len(path))
        /\ pc = "refused" => embedded = None \/ ~Trusted(embedded)

Inv ==
    /\ CallOK
    /\ pc \in {"start", "climb", "check", "resolved", "refused", "raised"}
    /\ Position /\ Determined

-----------------------------------------------------------------------------
(* Lemmas on the operators *)

\* A set of naturals that is not empty has a least element.
LEMMA LeastNatural ==
    ASSUME NEW S \in SUBSET Nat, S # {}
    PROVE  \E m \in S : \A k \in S : m <= k
<1> DEFINE R == {ss \in Nat \X Nat : ss[1] < ss[2]}
<1>1. IsWellFoundedOn(R, Nat)
  BY NatLessThanWellFounded DEF OpToRel
<1> HIDE DEF R
<1>2. PICK m \in S : \A k \in S : ~(<<k, m>> \in R)
  BY <1>1, WFMin
<1>3. ASSUME NEW k \in S
      PROVE  m <= k
  <2>1. k \in Nat /\ m \in Nat /\ (k < m => <<k, m>> \in R)
    BY DEF R
  <2> QED
    BY <1>2, <2>1
<1> QED
  BY <1>3

\* The first of several places is one of them.
LEMMA FirstIsOne ==
    ASSUME NEW places \in SUBSET Nat, places # {}
    PROVE  FirstOf(places) \in places
BY LeastNatural DEF FirstOf

\* The places of a configured list are naturals, what stands at them is
\* configured, and there is nothing else.
LEMMA ConfiguredPlaces ==
    ASSUME CallOK
    PROVE  /\ DOMAIN Anchors \subseteq Nat /\ DOMAIN Intermediates \subseteq Nat
           /\ Configured(Anchors) \cup Configured(Intermediates) \subseteq Certificate
           /\ resolver.maximum_depth \in Nat
<1>1. Anchors \in Seq(Certificate) /\ Intermediates \in Seq(Certificate)
      /\ resolver.maximum_depth \in Nat
  BY DEF CallOK, Resolver, Anchors, Intermediates
<1> QED
  BY <1>1 DEF Configured

\* The anchor issuer_of returns is configured and issued the certificate;
\* when it returns none, none did.
LEMMA AnchorFound ==
    ASSUME CallOK, NEW c
    PROVE  /\ IssuingAnchors(c) # {} =>
                 LET a == Anchors[FirstOf(IssuingAnchors(c))]
                 IN  a \in Configured(Anchors) /\ IsIssuer(a, c)
           /\ IssuingAnchors(c) = {} => NoAnchorIssued(c)
<1>1. IssuingAnchors(c) \subseteq Nat
  BY ConfiguredPlaces DEF IssuingAnchors
<1>2. IssuingAnchors(c) # {} => FirstOf(IssuingAnchors(c)) \in IssuingAnchors(c)
  BY <1>1, FirstIsOne
<1> QED
  BY <1>2 DEF IssuingAnchors, NoAnchorIssued, Configured

\* Likewise for intermediates, of which those already climbed are left out.
LEMMA IntermediateFound ==
    ASSUME CallOK, NEW c
    PROVE  /\ IssuingIntermediates(c) # {} =>
                 LET d == Intermediates[FirstOf(IssuingIntermediates(c))]
                 IN  d \in Configured(Intermediates) /\ IsIssuer(d, c)
           /\ IssuingIntermediates(c) = {} =>
                 \A d \in Configured(Intermediates) : IsIssuer(d, c) => InPath(d)
<1>1. IssuingIntermediates(c) \subseteq Nat
  BY ConfiguredPlaces DEF IssuingIntermediates
<1>2. IssuingIntermediates(c) # {} =>
        FirstOf(IssuingIntermediates(c)) \in IssuingIntermediates(c)
  BY <1>1, FirstIsOne
<1> QED
  BY <1>2 DEF IssuingIntermediates, Configured

\* A chain link by link, without its length as a sequence.
LEMMA ChainLinks ==
    ASSUME CallOK, NEW n \in 2..resolver.maximum_depth, NEW p \in Chains(n)
    PROVE  /\ n \in Nat /\ p \in [1..n -> Certificate] /\ p[1] = embedded
           /\ \A i \in 1..(n - 1) : IsIssuer(p[i + 1], p[i])
           /\ p[n] \in Configured(Anchors)
           /\ \A i \in 2..(n - 1) : p[i] \in Configured(Intermediates)
           /\ \A i \in 1..n : p[i] \notin world.unfit
<1>1. n \in Nat
  BY ConfiguredPlaces
<1>2. p \in [1..n -> Certificate] /\ p[1] = embedded /\ TrustedChain(p)
  BY DEF Chains
<1>3. Len(p) = n
  BY <1>1, <1>2
<1> QED
  BY <1>1, <1>2, <1>3 DEF TrustedChain, IsIssuer

\* A certificate with a chain is what Trusted asks for, and the other way
\* round for a resolver that climbs.
LEMMA TrustedHasChain ==
    ASSUME resolver.kind = "chain", Trusted(embedded)
    PROVE  /\ \E n \in 2..resolver.maximum_depth : Chains(n) # {}
           /\ resolver.names_the_sender => embedded \in world.named
BY DEF Trusted, Chains

-----------------------------------------------------------------------------
(* The steps *)

\* The arguments of a call and the world it meets do not change under it.
LEMMA SameCall ==
    ASSUME UNCHANGED call
    PROVE  /\ CallOK' <=> CallOK
           /\ \A c, d : IsIssuer(d, c)' <=> IsIssuer(d, c)
           /\ \A c : NoAnchorIssued(c)' <=> NoAnchorIssued(c)
           /\ Configured(Anchors)' = Configured(Anchors)
           /\ Configured(Intermediates)' = Configured(Intermediates)
           /\ \A n : Chains(n)' = Chains(n)
           /\ IssuersUnique' <=> IssuersUnique
           /\ Trusted(embedded)' <=> Trusted(embedded)
BY DEF call, CallOK, IsIssuer, NoAnchorIssued, Configured, Anchors, Intermediates, Chains,
   TrustedChain, IssuersUnique, Trusted

\* A refusal keeps the invariant when the certificate is not trusted.
LEMMA RefuseInv ==
    ASSUME Inv, Refuse, IssuersUnique => embedded = None \/ ~Trusted(embedded)
    PROVE  Inv'
<1>1. UNCHANGED call /\ pc' = "refused" /\ embedded' = embedded
  BY DEF Refuse, call
<1>2. CallOK' /\ Determined'
  BY <1>1, SameCall DEF Inv, Determined
<1>3. Position'
  BY <1>1 DEF Position
<1> QED
  BY <1>1, <1>2, <1>3 DEF Inv

\* Before the call nothing has been climbed.
LEMMA InitInv == Init => Inv
<1> SUFFICES ASSUME Init
             PROVE  Inv
  OBVIOUS
<1>1. CallOK
  BY ChainAssumption DEF Init, CallOK
<1> QED
  BY <1>1 DEF Init, Inv, Position, Determined

\* A pinned certificate is one of the pins, an unknown one is not trusted.
LEMMA PinnedInv ==
    ASSUME Inv, LookUpPinned
    PROVE  Inv'
<1>1. pc = "start" /\ embedded # None /\ resolver.kind = "pinned" /\ CallOK
  BY DEF LookUpPinned, Inv
<1>2. CASE embedded \notin Configured(Anchors)
  <2>1. Refuse
    BY <1>2 DEF LookUpPinned
  <2>2. ~Trusted(embedded)
    BY <1>1, <1>2 DEF Trusted
  <2> QED
    BY <2>1, <2>2, RefuseInv
<1>3. CASE embedded \in Configured(Anchors)
  <2>1. UNCHANGED call /\ path' = <<embedded>> /\ checked' = 1 /\ pc' = "check"
    BY <1>3 DEF LookUpPinned
  <2>2. embedded' = embedded /\ resolver' = resolver
    BY <2>1 DEF call
  <2>3. CallOK' /\ Configured(Anchors)' = Configured(Anchors)
    BY <1>1, <2>1, SameCall
  <2>4. Arrived'
    BY <1>1, <1>3, <2>1, <2>2, <2>3 DEF Arrived, AtPin, CallOK
  <2>5. Determined' /\ Position'
    BY <1>1, <2>1, <2>2, <2>4 DEF Determined, Position
  <2> QED
    BY <2>1, <2>3, <2>5 DEF Inv
<1> QED
  BY <1>2, <1>3

\* The climb begins at the embedded certificate, where every chain begins.
LEMMA StartInv ==
    ASSUME Inv, StartClimb
    PROVE  Inv'
<1>1. /\ pc = "start" /\ embedded \in Certificate /\ resolver.kind = "chain" /\ CallOK
      /\ checked = 0 /\ UNCHANGED <<call, checked>> /\ path' = <<embedded>> /\ pc' = "climb"
  BY DEF StartClimb, Inv, CallOK, Position
<1>2. embedded' = embedded /\ resolver' = resolver
  BY <1>1 DEF call
<1>3. OnTheWay'
  BY <1>1, <1>2 DEF OnTheWay, Climbed
<1>4. ChainsFollow(Len(path) + 1)'
  <2> SUFFICES ASSUME NEW n \in 2..resolver.maximum_depth, NEW p \in Chains(n)
               PROVE  n >= Len(path') + 1 /\ \A i \in 1..Len(path') : p[i] = path'[i]
    BY <1>1, <1>2, SameCall DEF ChainsFollow
  <2>1. n \in Nat /\ p[1] = embedded
    BY <1>1, ChainLinks
  <2> QED
    BY <1>1, <2>1
<1> QED
  BY <1>1, <1>2, <1>3, <1>4, SameCall DEF Inv, Position, Determined

\* One link further along a chain the path follows: the next certificate of
\* the chain is the configured issuer of the top, where issuers are unique.
LEMMA NextLink ==
    ASSUME CallOK, OnTheWay, IssuersUnique, ChainsFollow(Len(path) + 1),
           NEW n \in 2..resolver.maximum_depth, NEW p \in Chains(n)
    PROVE  /\ p[Len(path)] = Top /\ Len(path) + 1 \in 2..n
           /\ IsIssuer(p[Len(path) + 1], Top)
           /\ p[Len(path) + 1] \in Configured(Anchors) \cup Configured(Intermediates)
           /\ \A d \in Configured(Anchors) \cup Configured(Intermediates) :
                 IsIssuer(d, Top) => d = p[Len(path) + 1]
<1>1. Len(path) \in Nat /\ Len(path) >= 1 /\ n \in Nat /\ n >= Len(path) + 1
  BY ChainLinks DEF OnTheWay, Climbed, ChainsFollow
<1>2. p[Len(path)] = Top
  BY <1>1 DEF ChainsFollow, Top
<1>3. IsIssuer(p[Len(path) + 1], Top)
  BY <1>1, <1>2, ChainLinks
<1>4. p[Len(path) + 1] \in Configured(Anchors) \cup Configured(Intermediates)
  BY <1>1, ChainLinks
<1>5. Top \in Certificate
  BY <1>1 DEF Top, OnTheWay, Climbed
<1> QED
  BY <1>1, <1>2, <1>3, <1>4, <1>5 DEF IssuersUnique

\* What appending an issuer of the top does to the path.
LEMMA AppendIssuer ==
    ASSUME Climbed, NEW d \in Certificate, IsIssuer(d, Top), UNCHANGED call,
           path' = Append(path, d)
    PROVE  /\ Climbed' /\ Len(path') = Len(path) + 1 /\ path'[Len(path')] = d
           /\ \A i \in 1..Len(path) : path'[i] = path[i]
<1>1. path \in Seq(Certificate) /\ Len(path) \in Nat /\ Len(path) >= 1
  BY DEF Climbed
<1>2. /\ path' \in Seq(Certificate) /\ Len(path') = Len(path) + 1 /\ path'[Len(path')] = d
      /\ \A i \in 1..Len(path) : path'[i] = path[i]
  BY <1>1
<1>3. ASSUME NEW i \in 1..Len(path)
      PROVE  IsIssuer(path'[i + 1], path'[i])
  <2>1. CASE i = Len(path)
    BY <1>1, <1>2, <2>1 DEF Top
  <2>2. CASE i # Len(path)
    <3>1. i \in 1..(Len(path) - 1) /\ i + 1 \in 1..Len(path)
      BY <1>1, <2>2
    <3> QED
      BY <1>2, <3>1 DEF Climbed
  <2> QED
    BY <2>1, <2>2
<1>4. embedded' = embedded /\ path'[1] = embedded /\ embedded \in Certificate
  BY <1>1, <1>2 DEF Climbed, call
<1>5. (\A i \in 1..(Len(path) - 1) : IsIssuer(path[i + 1], path[i]))'
  BY <1>1, <1>2, <1>3 DEF IsIssuer, call
<1> QED
  BY <1>1, <1>2, <1>4, <1>5 DEF Climbed

\* Reaching an anchor ends the climb with a path every chain begins with.
LEMMA ReachAnchorInv ==
    ASSUME Inv, ReachAnchor
    PROVE  Inv'
<1> DEFINE a == Anchors[FirstOf(IssuingAnchors(Top))]
<1>1. /\ pc = "climb" /\ pc' = "check" /\ UNCHANGED <<call, checked>> /\ CallOK /\ OnTheWay
      /\ Len(path) < resolver.maximum_depth /\ path' = Append(path, a)
      /\ IssuingAnchors(Top) # {}
  BY DEF ReachAnchor, Inv, Position
<1>2. a \in Configured(Anchors) /\ IsIssuer(a, Top) /\ a \in Certificate
  BY <1>1, AnchorFound, ConfiguredPlaces
<1> HIDE DEF a
<1>3. /\ Climbed' /\ Len(path') = Len(path) + 1 /\ path'[Len(path')] = a
      /\ \A i \in 1..Len(path) : path'[i] = path[i]
  BY <1>1, <1>2, AppendIssuer DEF OnTheWay
<1>4. /\ Len(path) \in Nat /\ Len(path) >= 1 /\ resolver.maximum_depth \in Nat
      /\ resolver' = resolver /\ world' = world
  BY <1>1, ConfiguredPlaces DEF OnTheWay, Climbed, call
<1>5. Arrived'
  <2>1. \A i \in 2..(Len(path') - 1) : path'[i] \in Configured(Intermediates)
    BY <1>1, <1>3, <1>4 DEF OnTheWay
  <2>2. checked' = 0
    BY <1>1 DEF OnTheWay
  <2>3. (\A i \in 1..(Len(path) - 2) : NoAnchorIssued(path[i]))'
    BY <1>1, <1>3, <1>4 DEF OnTheWay, NoAnchorIssued, IsIssuer, Configured, Anchors
  <2> QED
    BY <1>1, <1>2, <1>3, <1>4, <2>1, <2>2, <2>3, SameCall DEF Arrived, AtAnchor, OnTheWay
<1>6. IssuersUnique => ChainsFollow(Len(path))'
  <2> SUFFICES ASSUME IssuersUnique, NEW n \in 2..resolver.maximum_depth, NEW p \in Chains(n)
               PROVE  n >= Len(path') /\ \A i \in 1..Len(path') : p[i] = path'[i]
    BY <1>1, <1>4, SameCall DEF ChainsFollow
  <2>1. ChainsFollow(Len(path) + 1)
    BY <1>1 DEF Inv, Determined
  <2>2. n \in Nat /\ n >= Len(path) + 1 /\ p[Len(path) + 1] = a
    BY <1>1, <1>2, <2>1, NextLink
  <2>3. \A i \in 1..Len(path) : p[i] = path[i]
    BY <2>1 DEF ChainsFollow
  <2> QED
    BY <1>3, <1>4, <2>2, <2>3
<1>7. CallOK' /\ Position' /\ Determined'
  BY <1>1, <1>5, <1>6, SameCall DEF Position, Determined
<1> QED
  BY <1>1, <1>7 DEF Inv

\* Climbing past an intermediate keeps to the one way up there is.
LEMMA ClimbInv ==
    ASSUME Inv, Climb
    PROVE  Inv'
<1> DEFINE d == Intermediates[FirstOf(IssuingIntermediates(Top))]
<1>1. /\ pc = "climb" /\ UNCHANGED <<call, pc, checked>> /\ CallOK /\ OnTheWay
      /\ path' = Append(path, d)
      /\ IssuingAnchors(Top) = {} /\ IssuingIntermediates(Top) # {}
  BY DEF Climb, Inv, Position
<1>2. d \in Configured(Intermediates) /\ IsIssuer(d, Top) /\ d \in Certificate
  BY <1>1, IntermediateFound, ConfiguredPlaces
<1> HIDE DEF d
<1>3. /\ Climbed' /\ Len(path') = Len(path) + 1 /\ path'[Len(path')] = d
      /\ \A i \in 1..Len(path) : path'[i] = path[i]
  BY <1>1, <1>2, AppendIssuer DEF OnTheWay
<1>4. /\ Len(path) \in Nat /\ Len(path) >= 1 /\ resolver.maximum_depth \in Nat
      /\ resolver' = resolver
  BY <1>1, ConfiguredPlaces DEF OnTheWay, Climbed, call
<1>5. NoAnchorIssued(Top)
  BY <1>1, AnchorFound
<1>6. OnTheWay'
  <2>1. \A i \in 2..Len(path') : path'[i] \in Configured(Intermediates)
    BY <1>1, <1>2, <1>3, <1>4 DEF OnTheWay
  <2>2. \A i \in 1..(Len(path') - 1) : NoAnchorIssued(path'[i])
    BY <1>1, <1>3, <1>4, <1>5 DEF OnTheWay, Top
  <2>3. (\A i \in 1..(Len(path) - 1) : NoAnchorIssued(path[i]))'
    BY <1>1, <2>2, SameCall DEF NoAnchorIssued, IsIssuer, call
  <2> QED
    BY <1>1, <1>3, <1>4, <2>1, <2>3, SameCall DEF OnTheWay
<1>7. IssuersUnique => ChainsFollow(Len(path) + 1)'
  <2> SUFFICES ASSUME IssuersUnique, NEW n \in 2..resolver.maximum_depth, NEW p \in Chains(n)
               PROVE  n >= Len(path') + 1 /\ \A i \in 1..Len(path') : p[i] = path'[i]
    BY <1>1, <1>4, SameCall DEF ChainsFollow
  <2>1. ChainsFollow(Len(path) + 1)
    BY <1>1 DEF Inv, Determined
  <2>2. /\ n \in Nat /\ n >= Len(path) + 1 /\ p[Len(path) + 1] = d
        /\ p[Len(path) + 1] \notin Configured(Anchors)
    BY <1>1, <1>2, <1>5, <2>1, NextLink DEF NoAnchorIssued
  <2>3. n # Len(path) + 1
    BY <1>1, <2>2, ChainLinks
  <2>4. \A i \in 1..Len(path) : p[i] = path[i]
    BY <2>1 DEF ChainsFollow
  <2> QED
    BY <1>3, <1>4, <2>2, <2>3, <2>4
<1>8. CallOK' /\ Position' /\ Determined'
  BY <1>1, <1>6, <1>7, SameCall DEF Position, Determined
<1> QED
  BY <1>1, <1>8 DEF Inv

\* Where nothing outside the path issued its top, a chain that begins with
\* the path never leaves it: its certificates repeat those of the path and
\* none of them was issued by an anchor.  So there is no such chain.
LEMMA LoopHasNoAnchor ==
    ASSUME CallOK, OnTheWay, IssuersUnique, ChainsFollow(Len(path) + 1),
           IssuingAnchors(Top) = {}, IssuingIntermediates(Top) = {},
           NEW n \in 2..resolver.maximum_depth
    PROVE  Chains(n) = {}
<1> SUFFICES ASSUME NEW p \in Chains(n)
             PROVE  FALSE
  OBVIOUS
<1>1. Len(path) \in Nat /\ Len(path) >= 1 /\ n \in Nat /\ n >= 2 /\ path \in Seq(Certificate)
  BY ChainLinks DEF OnTheWay, Climbed
<1>2. \A i \in 1..Len(path) : NoAnchorIssued(path[i])
  <2>1. NoAnchorIssued(path[Len(path)])
    BY AnchorFound DEF Top
  <2> QED
    BY <1>1, <2>1 DEF OnTheWay
<1>3. ASSUME NEW i \in 1..Len(path), NEW m \in 2..n, p[m - 1] = path[i]
      PROVE  InPath(p[m])
  <2>1. /\ IsIssuer(p[m], path[i])
        /\ p[m] \in Configured(Anchors) \cup Configured(Intermediates)
    <3>1. m - 1 \in 1..(n - 1) /\ (m - 1) + 1 = m /\ (m = n \/ m \in 2..(n - 1))
      BY <1>1
    <3> QED
      BY <1>3, <3>1, ChainLinks
  <2>2. CASE i = Len(path)
    BY <1>2, <2>1, <2>2, IntermediateFound DEF NoAnchorIssued, Top
  <2>3. CASE i # Len(path)
    <3>1. i \in 1..(Len(path) - 1) /\ i + 1 \in 2..Len(path) /\ path[i] \in Certificate
      BY <1>1, <2>3
    <3>2. IsIssuer(path[i + 1], path[i]) /\ path[i + 1] \in Configured(Intermediates)
      BY <3>1 DEF OnTheWay, Climbed
    <3>3. p[m] = path[i + 1]
      BY <2>1, <3>1, <3>2 DEF IssuersUnique
    <3> QED
      BY <1>1, <3>1, <3>3 DEF InPath
  <2> QED
    BY <2>2, <2>3
<1>4. \A m \in 1..n : InPath(p[m])
  <2> DEFINE Outside == {m \in 1..n : ~InPath(p[m])}
  <2> SUFFICES ASSUME Outside # {}
               PROVE  FALSE
    OBVIOUS
  <2>0. Outside \in SUBSET Nat
    BY <1>1
  <2>1. PICK m \in Outside : \A k \in Outside : m <= k
    <3> HIDE DEF Outside
    <3> QED
      BY <2>0, LeastNatural
  <2>2. InPath(p[1])
    BY <1>1, ChainLinks DEF InPath, OnTheWay, Climbed
  <2>3. m \in 2..n /\ m - 1 \in 1..n /\ m - 1 \notin Outside
    BY <1>1, <2>1, <2>2
  <2>4. InPath(p[m - 1])
    BY <2>3
  <2>5. PICK i \in 1..Len(path) : path[i] = p[m - 1]
    BY <1>1, <2>4 DEF InPath
  <2>6. InPath(p[m])
    BY <1>3, <2>3, <2>5
  <2> QED
    BY <2>1, <2>6
<1>5. PICK i \in 1..Len(path) : path[i] = p[n - 1]
  <2>1. InPath(p[n - 1])
    BY <1>1, <1>4
  <2> QED
    BY <1>1, <2>1 DEF InPath
<1>6. IsIssuer(p[n], p[n - 1]) /\ p[n] \in Configured(Anchors)
  <2>1. n - 1 \in 1..(n - 1) /\ (n - 1) + 1 = n
    BY <1>1
  <2> QED
    BY <2>1, ChainLinks
<1> QED
  BY <1>2, <1>5, <1>6 DEF NoAnchorIssued

\* The climb gives up only on a certificate no chain would make trusted.
LEMMA GiveUpInv ==
    ASSUME Inv, GiveUp
    PROVE  Inv'
<1>1. pc = "climb" /\ Refuse /\ CallOK /\ OnTheWay
  BY DEF GiveUp, Inv, Position
<1>2. ASSUME IssuersUnique, Trusted(embedded)
      PROVE  FALSE
  <2>1. ChainsFollow(Len(path) + 1)
    BY <1>1, <1>2 DEF Inv, Determined
  <2>2. PICK n \in 2..resolver.maximum_depth : Chains(n) # {}
    BY <1>1, <1>2, TrustedHasChain DEF OnTheWay
  <2>3. CASE Len(path) >= resolver.maximum_depth
    <3>1. n >= Len(path) + 1 /\ Len(path) \in Nat /\ resolver.maximum_depth \in Nat
      BY <1>1, <2>1, <2>2, ConfiguredPlaces DEF ChainsFollow, OnTheWay, Climbed
    <3> QED
      BY <2>3, <3>1
  <2>4. CASE IssuingAnchors(Top) = {} /\ IssuingIntermediates(Top) = {}
    BY <1>1, <1>2, <2>1, <2>2, <2>4, LoopHasNoAnchor
  <2> QED
    BY <2>3, <2>4 DEF GiveUp
<1> QED
  BY <1>1, <1>2, RefuseInv

\* A certificate of the path that is unfit is one of every chain.
LEMMA CheckNextInv ==
    ASSUME Inv, CheckNext
    PROVE  Inv'
<1>1. /\ pc = "check" /\ checked < Len(path) /\ CallOK /\ Arrived
      /\ checked \in Nat /\ Len(path) \in Nat
  <2>1. pc = "check" /\ checked < Len(path) /\ CallOK /\ Arrived
    BY DEF CheckNext, Inv, Position
  <2>2. CASE resolver.kind = "chain"
    BY <2>1, <2>2 DEF Arrived, AtAnchor, Climbed
  <2>3. CASE resolver.kind = "pinned"
    BY <2>1, <2>3 DEF Arrived, AtPin
  <2> QED
    BY <2>1, <2>2, <2>3 DEF CallOK, Resolver
<1>2. resolver.kind = "chain" /\ AtAnchor
  <2>1. resolver.kind # "pinned"
    <3> SUFFICES ASSUME resolver.kind = "pinned"
                 PROVE  FALSE
      OBVIOUS
    <3>1. path = <<embedded>> /\ checked = 1
      BY <1>1 DEF Arrived, AtPin
    <3>2. Len(path) = 1
      BY <3>1
    <3> QED
      BY <1>1, <3>1, <3>2
  <2>2. resolver.kind = "chain"
    BY <1>1, <2>1 DEF CallOK, Resolver
  <2> QED
    BY <1>1, <2>2 DEF Arrived
<1>3. CASE path[checked + 1] \in world.unfit
  <2>1. Refuse
    BY <1>3 DEF CheckNext
  <2>2. ASSUME IssuersUnique, Trusted(embedded)
        PROVE  FALSE
    <3>1. PICK n \in 2..resolver.maximum_depth : Chains(n) # {}
      BY <1>2, <2>2, TrustedHasChain
    <3>2. PICK p \in Chains(n) : TRUE
      BY <3>1
    <3>3. n \in Nat /\ n >= Len(path) /\ \A i \in 1..Len(path) : p[i] = path[i]
      BY <1>1, <1>2, <2>2, <3>2, ConfiguredPlaces DEF Inv, Determined, ChainsFollow
    <3>4. checked + 1 \in 1..Len(path) /\ checked + 1 \in 1..n
      BY <1>1, <3>3
    <3> QED
      BY <1>1, <1>3, <3>2, <3>3, <3>4, ChainLinks
  <2> QED
    BY <2>1, <2>2, RefuseInv
<1>4. CASE path[checked + 1] \notin world.unfit
  <2>1. checked' = checked + 1 /\ UNCHANGED <<call, path, pc>>
    BY <1>4 DEF CheckNext
  <2>2. resolver' = resolver /\ world' = world /\ embedded' = embedded
    BY <2>1 DEF call
  <2>3. \A i \in 1..(checked + 1) : path[i] \notin world.unfit
    BY <1>1, <1>2, <1>4 DEF AtAnchor
  <2>4. AtAnchor'
    <3>1. Climbed' /\ (\A i \in 1..(Len(path) - 2) : NoAnchorIssued(path[i]))'
      BY <1>2, <2>1, <2>2 DEF AtAnchor, Climbed, NoAnchorIssued, IsIssuer, Configured, Anchors
    <3>2. (\A i \in 1..checked : path[i] \notin world.unfit)'
      BY <2>1, <2>2, <2>3
    <3> QED
      BY <1>2, <2>1, <2>2, <3>1, <3>2, SameCall DEF AtAnchor
  <2>5. Arrived'
    BY <1>1, <1>2, <2>1, <2>2, <2>4 DEF Arrived
  <2>6. Determined'
    BY <1>1, <2>1, <2>2, SameCall DEF Inv, Determined, ChainsFollow
  <2> QED
    BY <1>1, <2>1, <2>5, <2>6, SameCall DEF Inv, Position
<1> QED
  BY <1>3, <1>4

\* The sender's name is asked for last, of the embedded certificate.
LEMMA NameSenderInv ==
    ASSUME Inv, NameSender
    PROVE  Inv'
<1>1. pc = "check" /\ checked = Len(path) /\ CallOK /\ Arrived
  BY DEF NameSender, Inv, Position
<1>2. path[1] = embedded
  BY <1>1 DEF Arrived, AtAnchor, AtPin, Climbed, CallOK, Resolver
<1>3. CASE ~(resolver.names_the_sender => path[1] \in world.named)
  <2>1. Refuse
    BY <1>3 DEF NameSender
  <2>2. ~Trusted(embedded)
    BY <1>2, <1>3 DEF Trusted
  <2> QED
    BY <2>1, <2>2, RefuseInv
<1>4. CASE resolver.names_the_sender => path[1] \in world.named
  <2>1. pc' = "resolved" /\ UNCHANGED <<call, path, checked>>
    BY <1>4 DEF NameSender
  <2>2. resolver' = resolver /\ world' = world /\ embedded' = embedded
    BY <2>1 DEF call
  <2>3. Arrived'
    BY <1>1, <2>1, <2>2 DEF Arrived, AtAnchor, AtPin, Climbed, NoAnchorIssued,
       IsIssuer, Configured, Anchors, Intermediates
  <2>4. Position' /\ Determined'
    BY <1>1, <1>4, <2>1, <2>2, <2>3 DEF Position, Determined
  <2> QED
    BY <1>1, <2>1, <2>4, SameCall DEF Inv
<1> QED
  BY <1>3, <1>4

\* Every behaviour keeps the invariant.
LEMMA SpecInv == Spec => []Inv
<1>1. Inv /\ [Next]_vars => Inv'
  <2> SUFFICES ASSUME Inv, [Next]_vars
               PROVE  Inv'
    OBVIOUS
  <2>1. CASE NoCertificate
    BY <2>1, RefuseInv DEF NoCertificate
  <2>2. CASE UNCHANGED vars
    <3>1. UNCHANGED <<world, resolver, embedded, path, pc, checked>> /\ UNCHANGED call
      BY <2>2 DEF vars, call
    <3>2. Position'
      BY <3>1 DEF Inv, Position, OnTheWay, Arrived, AtAnchor, AtPin, Climbed, NoAnchorIssued,
         IsIssuer, Configured, Anchors, Intermediates
    <3>3. Determined'
      BY <3>1, SameCall DEF Inv, Determined, ChainsFollow
    <3> QED
      BY <3>1, <3>2, <3>3, SameCall DEF Inv
  <2>3. CASE Raise
    <3>1. UNCHANGED call /\ pc' = "raised"
      BY <2>3 DEF Raise
    <3>2. Position' /\ Determined'
      BY <3>1 DEF Position, Determined
    <3> QED
      BY <3>1, <3>2, SameCall DEF Inv
  <2> QED
    BY <2>1, <2>2, <2>3, PinnedInv, StartInv, ReachAnchorInv, ClimbInv, GiveUpInv,
       CheckNextInv, NameSenderInv DEF Next, Finished
<1> QED
  BY <1>1, InitInv, PTL DEF Spec

-----------------------------------------------------------------------------
(* The policies the Peppol profile ships *)

\* One policy: its root, its access point CA, and what it turned down.
PolicyInv(root, ap) ==
    resolver = PeppolResolver(<<root>>, <<ap>>) =>
        /\ {root, ap} \subseteq world.ca /\ <<ap, root>> \in world.issued
        /\ pc = "refused" => embedded = None \/ ~AccessPointOf(embedded, root, ap)

\* Under such a policy there is one anchor and one intermediate.
LEMMA PolicyCertificates ==
    ASSUME NEW root, NEW ap, resolver = PeppolResolver(<<root>>, <<ap>>)
    PROVE  /\ Configured(Anchors) = {root} /\ Configured(Intermediates) = {ap}
           /\ resolver.maximum_depth = 3 /\ resolver.kind = "chain"
           /\ resolver.names_the_sender = TRUE
<1>1. /\ resolver.maximum_depth = 3 /\ resolver.kind = "chain"
      /\ resolver.names_the_sender = TRUE
      /\ Anchors = <<root>> /\ Intermediates = <<ap>>
  BY DEF PeppolResolver, PEPPOL_CHAIN_DEPTH, Anchors, Intermediates
<1>2. \A c : Configured(<<c>>) = {c}
  BY DEF Configured
<1> QED
  BY <1>1, <1>2

\* A climb stops below the access point CA, since the root issued that.
LEMMA PolicyClimb ==
    ASSUME NEW root, NEW ap, Inv, PolicyInv(root, ap), pc = "climb",
           resolver = PeppolResolver(<<root>>, <<ap>>)
    PROVE  /\ path \in Seq(Certificate) /\ path[1] = embedded
           /\ Len(path) = 1 \/ (Len(path) = 2 /\ Top = ap)
<1>1. OnTheWay /\ Configured(Anchors) = {root} /\ Configured(Intermediates) = {ap}
  BY PolicyCertificates DEF Inv, Position
<1>2. path \in Seq(Certificate) /\ path[1] = embedded /\ Len(path) \in Nat /\ Len(path) >= 1
  BY <1>1 DEF OnTheWay, Climbed
<1>3. \A i \in 2..Len(path) : path[i] = ap
  BY <1>1 DEF OnTheWay
<1>4. ~NoAnchorIssued(ap)
  BY <1>1 DEF NoAnchorIssued, IsIssuer, PolicyInv
<1>5. ASSUME Len(path) > 2
      PROVE  FALSE
  <2>1. 2 \in 1..(Len(path) - 1) /\ path[2] = ap
    BY <1>2, <1>3, <1>5
  <2> QED
    BY <1>1, <1>4, <2>1 DEF OnTheWay
<1>6. Len(path) \in 1..2
  <2>1. Len(path) \in Nat /\ Len(path) >= 1 /\ ~(Len(path) > 2)
    BY <1>2, <1>5
  <2> QED
    BY <2>1
<1>7. Len(path) = 2 => Top = ap
  BY <1>3 DEF Top
<1> QED
  BY <1>2, <1>6, <1>7

\* The two paths that lead to the root.
LEMMA PolicyPath ==
    ASSUME NEW root, NEW ap, Inv, pc \in {"check", "resolved"},
           resolver = PeppolResolver(<<root>>, <<ap>>)
    PROVE  /\ path[1] = embedded /\ checked \in 0..Len(path) /\ AtAnchor
           /\ \/ Len(path) = 2 /\ path[2] = root /\ IsIssuer(root, embedded)
              \/ /\ Len(path) = 3 /\ path[2] = ap /\ path[3] = root
                 /\ IsIssuer(ap, embedded) /\ ~IsIssuer(root, embedded)
<1>1. /\ Arrived /\ AtAnchor /\ Configured(Anchors) = {root} /\ Configured(Intermediates) = {ap}
      /\ resolver.maximum_depth = 3
  BY PolicyCertificates DEF Inv, Position, Arrived
<1>2. /\ path[1] = embedded /\ Len(path) \in 2..3 /\ path[Len(path)] = root
      /\ checked \in 0..Len(path)
  BY <1>1 DEF AtAnchor, Climbed, Arrived
<1>3. IsIssuer(path[2], path[1])
  BY <1>1, <1>2 DEF AtAnchor, Climbed
<1>4. ASSUME Len(path) = 3
      PROVE  path[2] = ap /\ ~IsIssuer(root, embedded)
  BY <1>1, <1>2, <1>4 DEF AtAnchor, NoAnchorIssued
<1>5. CASE Len(path) = 2
  BY <1>1, <1>2, <1>3, <1>5
<1>6. CASE Len(path) = 3
  BY <1>1, <1>2, <1>3, <1>4, <1>6
<1> QED
  BY <1>2, <1>5, <1>6

\* Either policy turns down what is not an access point of its environment.
LEMMA PolicyStep ==
    ASSUME NEW root, NEW ap, Inv, PolicyInv(root, ap), [Next]_vars
    PROVE  PolicyInv(root, ap)'
<1> SUFFICES ASSUME resolver = PeppolResolver(<<root>>, <<ap>>), pc' = "refused",
                    pc # "refused", embedded # None
             PROVE  ~AccessPointOf(embedded, root, ap)
  <2>1. UNCHANGED call
    BY DEF Next, vars, call, NoCertificate, LookUpPinned, StartClimb, ReachAnchor, Climb, GiveUp,
       Raise, CheckNext, NameSender, Finished, Refuse
  <2> QED
    BY <2>1 DEF PolicyInv, call, AccessPointOf, IssuedBy, PeppolResolver, vars, Next
<1>1. /\ Configured(Anchors) = {root} /\ Configured(Intermediates) = {ap} /\ CallOK
      /\ resolver.maximum_depth = 3 /\ resolver.kind = "chain" /\ resolver.names_the_sender
      /\ {root, ap} \subseteq world.ca /\ <<ap, root>> \in world.issued
  BY PolicyCertificates DEF PolicyInv, Inv
<1>2. CASE GiveUp
  <2>1. pc = "climb"
    BY <1>2 DEF GiveUp
  <2>2. path[1] = embedded /\ (Len(path) = 1 \/ (Len(path) = 2 /\ Top = ap))
    BY <2>1, PolicyClimb
  <2>3. NoAnchorIssued(Top) /\ \A d \in Configured(Intermediates) : IsIssuer(d, Top) => InPath(d)
    <3>1. IssuingAnchors(Top) = {} /\ IssuingIntermediates(Top) = {}
      <4>1. ~(Len(path) >= resolver.maximum_depth)
        <5>1. resolver.maximum_depth = 3 /\ Len(path) \in {1, 2}
          BY <1>1, <2>2
        <5>2. \A a \in {1, 2} : ~(a >= 3)
          OBVIOUS
        <5> QED
          BY <5>1, <5>2, Zenon
      <4> QED
        BY <1>2, <4>1 DEF GiveUp
    <3>2. NoAnchorIssued(Top)
      BY <1>1, <3>1, AnchorFound
    <3> QED
      BY <1>1, <3>1, <3>2, IntermediateFound
  <2>4. Top # ap
    BY <1>1, <2>3 DEF NoAnchorIssued, IsIssuer
  <2>5. Len(path) = 1 /\ Top = embedded /\ path \in Seq(Certificate)
    BY <2>1, <2>2, <2>4, PolicyClimb DEF Top
  <2>6. ~InPath(ap)
    BY <2>2, <2>4, <2>5 DEF InPath
  <2>7. ~IsIssuer(root, embedded) /\ ~IsIssuer(ap, embedded)
    BY <1>1, <2>3, <2>5, <2>6 DEF NoAnchorIssued
  <2> QED
    BY <1>1, <2>7 DEF IsIssuer, AccessPointOf, IssuedBy
<1>3. CASE CheckNext
  <2>1. pc = "check" /\ checked < Len(path) /\ path[checked + 1] \in world.unfit
    BY <1>3 DEF CheckNext
  <2>2. CASE Len(path) = 2
    <3>1. path[1] = embedded /\ path[2] = root /\ checked \in 0..1
      BY <2>1, <2>2, PolicyPath
    <3>2. embedded \in world.unfit \/ root \in world.unfit
      BY <2>1, <3>1
    <3> QED
      BY <3>2 DEF AccessPointOf, IssuedBy
  <2>3. CASE Len(path) = 3
    <3>1. /\ path[1] = embedded /\ path[2] = ap /\ path[3] = root /\ checked \in 0..2
          /\ ~IsIssuer(root, embedded)
      BY <2>1, <2>3, PolicyPath
    <3>2. embedded \in world.unfit \/ ap \in world.unfit \/ root \in world.unfit
      BY <2>1, <3>1
    <3> QED
      BY <1>1, <3>1, <3>2 DEF AccessPointOf, IssuedBy, IsIssuer
  <2> QED
    BY <2>1, <2>2, <2>3, PolicyPath
<1>4. CASE NameSender
  <2>1. pc = "check" /\ path[1] \notin world.named
    BY <1>1, <1>4 DEF NameSender
  <2>2. path[1] = embedded
    BY <2>1, PolicyPath
  <2> QED
    BY <2>1, <2>2 DEF AccessPointOf
<1> QED
  BY <1>1, <1>2, <1>3, <1>4 DEF Next, vars, NoCertificate, LookUpPinned, StartClimb, ReachAnchor,
     Climb, Raise, Finished

\* What either policy returns is an access point of its environment.
LEMMA PolicyResolved ==
    ASSUME NEW root, NEW ap, Inv, PolicyInv(root, ap), pc \in {"resolved", "refused"},
           embedded # None, resolver = PeppolResolver(<<root>>, <<ap>>)
    PROVE  pc = "resolved" <=> AccessPointOf(embedded, root, ap)
<1>1. CASE pc = "refused"
  BY <1>1 DEF PolicyInv
<1>2. CASE pc = "resolved"
  <2>1. /\ checked = Len(path) /\ path[1] \in world.named
    BY <1>2, PolicyCertificates DEF Inv, Position
  <2>2. path[1] = embedded /\ \A i \in 1..Len(path) : path[i] \notin world.unfit
    BY <1>2, <2>1, PolicyPath DEF AtAnchor
  <2>3. CASE Len(path) = 2 /\ path[2] = root /\ IsIssuer(root, embedded)
    BY <1>2, <2>1, <2>2, <2>3 DEF AccessPointOf, IssuedBy, IsIssuer
  <2>4. CASE Len(path) = 3 /\ path[2] = ap /\ path[3] = root /\ IsIssuer(ap, embedded)
    BY <1>2, <2>1, <2>2, <2>4 DEF AccessPointOf, IssuedBy, IsIssuer
  <2> QED
    BY <1>2, <2>3, <2>4, PolicyPath
<1> QED
  BY <1>1, <1>2

-----------------------------------------------------------------------------
(* Theorems *)

\* certificate_chain returns a certificate only with a path of allowed length
\* up to an anchor, every link signed by a CA and every certificate fit;
\* pinned_certificates only a pinned one; and either only one that names the
\* sender where certificate_names_the_sender asks.
THEOREM ResolvedIsTrustedHolds == Spec => []ResolvedIsTrusted
<1>1. Inv => ResolvedIsTrusted
  <2> SUFFICES ASSUME Inv, pc = "resolved"
               PROVE  /\ embedded # None /\ path[1] = embedded
                      /\ resolver.names_the_sender => embedded \in world.named
                      /\ CASE resolver.kind = "pinned" -> embedded \in Configured(Anchors)
                           [] resolver.kind = "chain" ->
                                Len(path) \in 2..resolver.maximum_depth /\ TrustedChain(path)
    BY DEF ResolvedIsTrusted
  <2>1. /\ Arrived /\ checked = Len(path)
        /\ resolver.names_the_sender => path[1] \in world.named
    BY DEF Inv, Position
  <2>2. resolver.kind \in {"chain", "pinned"}
    BY DEF Inv, CallOK, Resolver
  <2>3. CASE resolver.kind = "chain"
    <3>1. AtAnchor /\ embedded \in Certificate /\ path[1] = embedded
      BY <2>1, <2>3 DEF Arrived, AtAnchor, Climbed
    <3>2. TrustedChain(path)
      BY <2>1, <3>1 DEF AtAnchor, Climbed, TrustedChain, IsIssuer
    <3> QED
      BY <2>1, <2>3, <3>1, <3>2, ChainAssumption DEF AtAnchor
  <2>4. CASE resolver.kind = "pinned"
    <3>1. AtPin /\ path[1] = embedded
      BY <2>1, <2>4 DEF Arrived, AtPin
    <3> QED
      BY <2>1, <2>4, <3>1, ChainAssumption DEF AtPin
  <2> QED
    BY <2>2, <2>3, <2>4
<1> QED
  BY <1>1, SpecInv, PTL

\* Where no certificate has two configured issuers, taking the first issuer
\* found and never going back refuses no certificate that has a chain.
THEOREM RefusedHasNoChainHolds == Spec => []RefusedHasNoChain
<1>1. Inv => RefusedHasNoChain
  BY DEF Inv, Determined, RefusedHasNoChain
<1> QED
  BY <1>1, SpecInv, PTL

\* PEPPOL_PROD_SECURITY_POLICY and PEPPOL_TEST_SECURITY_POLICY resolve exactly
\* the access points of their own environment, whatever else was issued.
THEOREM PoliciesKeepApartHolds == Spec => []PoliciesKeepApart
<1> DEFINE Prod == PolicyInv("PEPPOL_ROOT_CA_G3", "PEPPOL_AP_CA_G3")
           Test == PolicyInv("PEPPOL_ROOT_TEST_CA_G3", "PEPPOL_AP_TEST_CA_G3")
<1>1. Init => Prod /\ Test
  <2> SUFFICES ASSUME Init
               PROVE  Prod /\ Test
    OBVIOUS
  <2>1. resolver \in {PEPPOL_PROD_SECURITY_POLICY, PEPPOL_TEST_SECURITY_POLICY} =>
            PeppolIssued \subseteq world.issued /\ PeppolCA \subseteq world.ca
    BY PeppolAssumption DEF Init
  <2> QED
    BY <2>1 DEF Init, PolicyInv, PEPPOL_PROD_SECURITY_POLICY, PEPPOL_TEST_SECURITY_POLICY,
       PeppolIssued, PeppolCA
<1>2. Inv /\ Prod /\ Test /\ [Next]_vars => (Prod /\ Test)'
  BY PolicyStep
<1>3. Inv /\ Prod /\ Test => PoliciesKeepApart
  BY PolicyResolved DEF PoliciesKeepApart, PEPPOL_PROD_SECURITY_POLICY,
     PEPPOL_TEST_SECURITY_POLICY
<1> QED
  BY <1>1, <1>2, <1>3, SpecInv, PTL DEF Spec
=============================================================================
