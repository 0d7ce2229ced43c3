-------------------------- MODULE CertificateChain --------------------------
(***************************************************************************)
(* The signer resolvers of as4/core/trust.py and, on top, Peppol's         *)
(* certificate_names_the_sender: pinned_certificates looks the embedded    *)
(* certificate up; certificate_chain climbs from it to a configured        *)
(* anchor, then checks the path for validity and revocation.               *)
(*                                                                         *)
(* The climb takes the first issuer it finds and never goes back; a        *)
(* certificate's signature check against an issuer, its CA flag, validity  *)
(* period and revocation are facts of the world the call meets.            *)
(***************************************************************************)
EXTENDS Naturals, Sequences

CONSTANTS
    Certificate,
    None,
    Cases        \* the calls of a resolver considered, see Case

\* issued: <<certificate, issuer>> pairs that verify_directly_issued_by
\* accepts; unsupported: pairs for which it raises what issuer_of does not
\* catch (UnsupportedAlgorithm); ca: certificates that can issue; unfit:
\* outside their validity period or revoked; named: certificates whose subject
\* names the sender.
World == [issued : SUBSET (Certificate \X Certificate),
          unsupported : SUBSET (Certificate \X Certificate),
          ca : SUBSET Certificate,
          unfit : SUBSET Certificate,
          named : SUBSET Certificate]

\* The arguments of pinned_certificates or certificate_chain; either refuses
\* to be configured with nothing.  For pinned ones anchors are the pins.
Resolver == [kind : {"chain", "pinned"},
             anchors : Seq(Certificate) \ {<<>>},
             intermediates : Seq(Certificate),
             maximum_depth : Nat,
             names_the_sender : BOOLEAN]

Case == [world : World, resolver : Resolver, embedded : Certificate \cup {None}]

ASSUME ChainAssumption ==
    /\ None \notin Certificate
    /\ \A case \in Cases :
          /\ case.world.issued \subseteq Certificate \X Certificate
          /\ case.world.unsupported \subseteq (Certificate \X Certificate) \ case.world.issued
          /\ case.world.ca \cup case.world.unfit \cup case.world.named \subseteq Certificate
          /\ case.resolver \in Resolver
          /\ case.embedded \in Certificate \cup {None}

VARIABLES
    world, resolver, embedded,
    path,   \* the certificates climbed so far, the embedded one first
    pc,     \* "start", "climb", "check", "resolved", "refused", "raised"
    checked \* how many certificates of the path have been checked

call == <<world, resolver, embedded>>
vars == <<world, resolver, embedded, path, pc, checked>>

Anchors == resolver.anchors
Intermediates == resolver.intermediates
Configured(certificates) == {certificates[i] : i \in DOMAIN certificates}

-----------------------------------------------------------------------------

\* Mutant: any certificate that signed another counts as its issuer.
IsSigner(candidate, certificate) == <<certificate, candidate>> \in world.issued

\* can_issue_certificates and verify_directly_issued_by
IsIssuer(candidate, certificate) ==
    candidate \in world.ca /\ <<certificate, candidate>> \in world.issued

InPath(certificate) == \E i \in DOMAIN path : path[i] = certificate

\* issuer_of: the places of the candidates that qualify.  Intermediates
\* already climbed are left out, so a loop of cross-signed certificates is
\* walked once.
IssuingAnchors(certificate) ==
    {i \in DOMAIN Anchors : IsIssuer(Anchors[i], certificate)}

IssuingIntermediates(certificate) ==
    {i \in DOMAIN Intermediates :
        ~InPath(Intermediates[i]) /\ IsIssuer(Intermediates[i], certificate)}

\* issuer_of raises on a candidate it cannot check when that one comes before
\* every candidate that qualifies.
CannotCheck(candidate, certificate) ==
    candidate \in world.ca /\ <<certificate, candidate>> \in world.unsupported

MetBefore(raising, issuing) == \E i \in raising : \A j \in issuing : i < j

IssuerOfRaises(certificate) ==
    \/ MetBefore({i \in DOMAIN Anchors : CannotCheck(Anchors[i], certificate)},
                 IssuingAnchors(certificate))
    \/ /\ IssuingAnchors(certificate) = {}
       /\ MetBefore({i \in DOMAIN Intermediates :
                        ~InPath(Intermediates[i]) /\ CannotCheck(Intermediates[i], certificate)},
                    IssuingIntermediates(certificate))

\* The first in order of configuration.
FirstOf(places) == CHOOSE i \in places : \A j \in places : i <= j

Init ==
    /\ \E case \in Cases :
          world = case.world /\ resolver = case.resolver /\ embedded = case.embedded
    /\ path = <<>>
    /\ pc = "start"
    /\ checked = 0

Refuse == pc' = "refused" /\ UNCHANGED <<call, path, checked>>

Top == path[Len(path)]

\* Both resolvers refuse a signature without a certificate.
NoCertificate == pc = "start" /\ embedded = None /\ Refuse

\* pinned_certificates' resolve: no validity period, no revocation.
LookUpPinned ==
    /\ pc = "start" /\ embedded # None /\ resolver.kind = "pinned"
    /\ IF embedded \in Configured(Anchors)
       THEN path' = <<embedded>> /\ checked' = 1 /\ pc' = "check" /\ UNCHANGED call
       ELSE Refuse

StartClimb ==
    /\ pc = "start" /\ embedded # None /\ resolver.kind = "chain"
    /\ path' = <<embedded>>
    /\ pc' = "climb"
    /\ UNCHANGED <<call, checked>>

ReachAnchor ==
    /\ pc = "climb" /\ Len(path) < resolver.maximum_depth
    /\ IssuingAnchors(Top) # {} /\ ~IssuerOfRaises(Top)
    /\ path' = Append(path, Anchors[FirstOf(IssuingAnchors(Top))])
    /\ pc' = "check"
    /\ UNCHANGED <<call, checked>>

Climb ==
    /\ pc = "climb" /\ Len(path) < resolver.maximum_depth
    /\ IssuingAnchors(Top) = {}
    /\ IssuingIntermediates(Top) # {} /\ ~IssuerOfRaises(Top)
    /\ path' = Append(path, Intermediates[FirstOf(IssuingIntermediates(Top))])
    /\ UNCHANGED <<call, pc, checked>>

\* Mutant: the depth is counted without the anchor.
GiveUpEarly ==
    /\ pc = "climb"
    /\ \/ Len(path) + 1 >= resolver.maximum_depth
       \/ IssuingAnchors(Top) = {} /\ IssuingIntermediates(Top) = {}
    /\ Refuse

\* Neither an anchor nor an intermediate issued the top, or the path is as
\* long as it may get without having reached an anchor.
GiveUp ==
    /\ pc = "climb"
    /\ \/ Len(path) >= resolver.maximum_depth
       \/ /\ IssuingAnchors(Top) = {} /\ IssuingIntermediates(Top) = {}
          /\ ~IssuerOfRaises(Top)
    /\ Refuse

\* An exception of verify_directly_issued_by that issuer_of does not catch
\* leaves resolve, and with it parse.
Raise ==
    /\ pc = "climb" /\ Len(path) < resolver.maximum_depth
    /\ IssuerOfRaises(Top)
    /\ pc' = "raised"
    /\ UNCHANGED <<call, path, checked>>

\* certificate_chain's resolve walks the path once it reaches an anchor.
CheckNext ==
    /\ pc = "check" /\ checked < Len(path)
    /\ IF path[checked + 1] \in world.unfit THEN Refuse
       ELSE checked' = checked + 1 /\ UNCHANGED <<call, path, pc>>

\* certificate_names_the_sender, where it is wrapped around the resolver.
NameSender ==
    /\ pc = "check" /\ checked = Len(path)
    /\ IF resolver.names_the_sender => path[1] \in world.named
       THEN pc' = "resolved" /\ UNCHANGED <<call, path, checked>>
       ELSE Refuse

Finished == pc \in {"resolved", "refused", "raised"} /\ UNCHANGED vars

Next ==
    \/ NoCertificate \/ LookUpPinned \/ StartClimb
    \/ ReachAnchor \/ Climb \/ GiveUp \/ Raise \/ CheckNext \/ NameSender \/ Finished

Spec == Init /\ [][Next]_vars

-----------------------------------------------------------------------------
(* Properties *)

\* p is a chain from its first certificate up to an anchor, each link signed
\* by a certificate that may issue, and every certificate of it is fit.
TrustedChain(p) ==
    /\ \A i \in 1..(Len(p) - 1) : <<p[i], p[i + 1]>> \in world.issued /\ p[i + 1] \in world.ca
    /\ p[Len(p)] \in Configured(Anchors)
    /\ \A i \in 2..(Len(p) - 1) : p[i] \in Configured(Intermediates)
    /\ \A i \in 1..Len(p) : p[i] \notin world.unfit

\* What the resolver may return c for: it is pinned, or has a trusted chain
\* no longer than maximum_depth; and it names the sender where that is asked.
Trusted(c) ==
    /\ resolver.names_the_sender => c \in world.named
    /\ \/ resolver.kind = "pinned" /\ c \in Configured(Anchors)
       \/ /\ resolver.kind = "chain"
          /\ \E n \in 2..resolver.maximum_depth : \E p \in [1..n -> Certificate] :
                p[1] = c /\ TrustedChain(p)

\* A resolver returns the embedded certificate only if it is trusted, and the
\* path it climbed is the reason.
ResolvedIsTrusted ==
    pc = "resolved" =>
        /\ embedded # None /\ path[1] = embedded
        /\ resolver.names_the_sender => embedded \in world.named
        /\ CASE resolver.kind = "pinned" -> embedded \in Configured(Anchors)
             [] resolver.kind = "chain" ->
                    Len(path) \in 2..resolver.maximum_depth /\ TrustedChain(path)

\* At most one configured certificate issued any given one.
IssuersUnique ==
    \A c \in Certificate :
        \A d, e \in Configured(Anchors) \cup Configured(Intermediates) :
            IsIssuer(d, c) /\ IsIssuer(e, c) => d = e

\* Where issuers are unique, taking the first one loses nothing: a
\* certificate that is refused has no chain of allowed length.
RefusedHasNoChain ==
    pc = "refused" /\ IssuersUnique => embedded = None \/ ~Trusted(embedded)
=============================================================================
