------------------------------- MODULE MCChain -------------------------------
(* One anchor, two intermediates that may sign one another and a leaf, with
   chains of every depth; pins; and the Peppol policies before a leaf and a
   further CA that any certificate of the PKI may have issued. *)
EXTENDS PeppolTrust

SmallCertificate == {"leaf", "i1", "i2", "root"}
AllCertificates == SmallCertificate \cup PeppolCA

Issuable == ({"leaf", "i1", "i2"} \X {"i1", "i2", "root"}) \cup {<<"root", "root">>}

SmallWorlds ==
    {w \in [issued : SUBSET Issuable,
            unsupported : {{}, {<<"leaf", "i1">>, <<"i1", "root">>}},
            ca : {{"i1", "i2", "root"}, {"i2", "root"}},
            unfit : {{}, {"i1"}, {"root"}},
            named : {{"leaf"}, {}}] : w.issued \cap w.unsupported = {}}

Chain(depth) ==
    [kind |-> "chain", anchors |-> <<"root">>, intermediates |-> <<"i1", "i2">>,
     maximum_depth |-> depth, names_the_sender |-> TRUE]

ChainCases ==
    [world : SmallWorlds, resolver : {Chain(d) : d \in 2..4}, embedded : {"leaf", "i1"}]

Pinned(pins, names_the_sender) ==
    [kind |-> "pinned", anchors |-> pins, intermediates |-> <<>>,
     maximum_depth |-> 0, names_the_sender |-> names_the_sender]

PinnedCases ==
    [world : [issued : {{}}, unsupported : {{}}, ca : {{}}, unfit : {{}, {"leaf"}}, named : {{"leaf"}, {}}],
     resolver : {Pinned(p, n) : p \in {<<"leaf">>, <<"i1", "i2">>}, n \in BOOLEAN},
     embedded : {"leaf", "i2", None}]

\* "i1" is a CA below the PKI, "leaf" an access point or a publisher.
PeppolWorlds ==
    [issued : {PeppolIssued \cup {<<"i1", ca>>, <<"leaf", issuer>>} :
                  ca \in PeppolCA, issuer \in PeppolCA \cup {"i1", "root"}},
     unsupported : {{}},
     ca : {PeppolCA \cup {"i1", "root"}},
     unfit : {{}} \cup {{c} : c \in PeppolCA \cup {"leaf"}},
     named : {{"leaf"}, {"i1"}, PeppolCA}]

PeppolCases ==
    [world : PeppolWorlds,
     resolver : {PEPPOL_PROD_SECURITY_POLICY, PEPPOL_TEST_SECURITY_POLICY},
     embedded : {"leaf", "i1", "PEPPOL_SMP_CA_G3", None}]

AllCases == ChainCases \cup PinnedCases \cup PeppolCases
=============================================================================
