----------------------------- MODULE PeppolTrust -----------------------------
(***************************************************************************)
(* The Peppol PKI (as4/profiles/peppol/pki.py) and the two security        *)
(* policies the profile ships (profiles/peppol/profile.py): which          *)
(* certificates each of them trusts.  A certificate stands for the six     *)
(* constants of pki.py by name; who issued which is read from them.        *)
(***************************************************************************)
EXTENDS CertificateChain

PEPPOL_CHAIN_DEPTH == 3

PeppolCA == {"PEPPOL_ROOT_CA_G3", "PEPPOL_AP_CA_G3", "PEPPOL_SMP_CA_G3",
             "PEPPOL_ROOT_TEST_CA_G3", "PEPPOL_AP_TEST_CA_G3", "PEPPOL_SMP_TEST_CA_G3"}

\* The issuer each of them carries; all six are CA certificates.
PeppolIssued ==
    {<<"PEPPOL_ROOT_CA_G3", "PEPPOL_ROOT_CA_G3">>,
     <<"PEPPOL_AP_CA_G3", "PEPPOL_ROOT_CA_G3">>,
     <<"PEPPOL_SMP_CA_G3", "PEPPOL_ROOT_CA_G3">>,
     <<"PEPPOL_ROOT_TEST_CA_G3", "PEPPOL_ROOT_TEST_CA_G3">>,
     <<"PEPPOL_AP_TEST_CA_G3", "PEPPOL_ROOT_TEST_CA_G3">>,
     <<"PEPPOL_SMP_TEST_CA_G3", "PEPPOL_ROOT_TEST_CA_G3">>}

\* peppol_security_policy
PeppolResolver(anchors, intermediates) ==
    [kind |-> "chain", anchors |-> anchors, intermediates |-> intermediates,
     maximum_depth |-> PEPPOL_CHAIN_DEPTH, names_the_sender |-> TRUE]

\* Mutant: the publishers' CA is configured too.
PEPPOL_PROD_WITH_PUBLISHERS ==
    PeppolResolver(<<"PEPPOL_ROOT_CA_G3">>, <<"PEPPOL_AP_CA_G3", "PEPPOL_SMP_CA_G3">>)

PEPPOL_PROD_SECURITY_POLICY == PeppolResolver(<<"PEPPOL_ROOT_CA_G3">>, <<"PEPPOL_AP_CA_G3">>)

PEPPOL_TEST_SECURITY_POLICY ==
    PeppolResolver(<<"PEPPOL_ROOT_TEST_CA_G3">>, <<"PEPPOL_AP_TEST_CA_G3">>)

\* A call under either policy meets a world that holds the six certificates;
\* what else was issued, by them or by others, is left open.
ASSUME PeppolAssumption ==
    \A case \in Cases :
        case.resolver \in {PEPPOL_PROD_SECURITY_POLICY, PEPPOL_TEST_SECURITY_POLICY} =>
            PeppolIssued \subseteq case.world.issued /\ PeppolCA \subseteq case.world.ca

-----------------------------------------------------------------------------
(* Properties *)

IssuedBy(certificate, ca) == <<certificate, ca>> \in world.issued /\ ca \notin world.unfit

\* What a participant of one environment means by an access point of it.
AccessPointOf(certificate, root, ap) ==
    /\ certificate \in world.named \ world.unfit
    /\ \/ IssuedBy(certificate, root)
       \/ IssuedBy(certificate, ap) /\ root \notin world.unfit

\* Each shipped policy trusts the access points of its own environment and
\* nothing else of the PKI: neither the other environment's, nor what a
\* service metadata publisher's CA or a CA further down issued.
PoliciesKeepApart ==
    pc \in {"resolved", "refused"} /\ embedded # None =>
        /\ resolver = PEPPOL_PROD_SECURITY_POLICY =>
              (pc = "resolved" <=> AccessPointOf(embedded, "PEPPOL_ROOT_CA_G3", "PEPPOL_AP_CA_G3"))
        /\ resolver = PEPPOL_TEST_SECURITY_POLICY =>
              (pc = "resolved" <=> AccessPointOf(embedded, "PEPPOL_ROOT_TEST_CA_G3", "PEPPOL_AP_TEST_CA_G3"))
=============================================================================
