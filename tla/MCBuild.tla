------------------------------- MODULE MCBuild -------------------------------
(* Fresh, reused and overfull attachment maps, against the default policy and
   two that ask for nothing; packages of two or three parts, each a leaf or a
   package of two leaves;
   document types of up to five tokens, and longer ones of the usual form;
   every one of the values the caller may leave empty. *)
EXTENDS PeppolBuild

CONSTANTS a1, a2, bracketed

StripBrackets == (a1 :> a1) @@ (a2 :> a2) @@ (bracketed :> a2)

Maps == {<<>>, <<a1>>, <<bracketed>>, <<a1, a2>>}

DefaultPolicy ==
    [sign_required |-> TRUE, encrypt_required |-> TRUE, resolver_set |-> TRUE,
     required_coverage |-> Coverage, verify_digests |-> TRUE,
     verify_participants |-> TRUE, acceptor_set |-> TRUE,
     maximum_decompressed_size |-> 2]

\* One that asks for nothing, with and without a resolver.
LenientPolicy(resolver) ==
    [sign_required |-> FALSE, encrypt_required |-> FALSE, resolver_set |-> resolver,
     required_coverage |-> {}, verify_digests |-> FALSE,
     verify_participants |-> FALSE, acceptor_set |-> FALSE,
     maximum_decompressed_size |-> 2]

BuildPolicies == {DefaultPolicy, LenientPolicy(TRUE), LenientPolicy(FALSE)}

Leaves ==
    {SoapPart, Leaf("application/soap+xml", "foreign", NoContentId),
     AttachmentPart(a1), AttachmentPart(NoContentId),
     Leaf("application/octet-stream", "foreign", a1),
     Leaf("application/octet-stream", "foreign", a2),
     Leaf("text/plain", "foreign", NoContentId)}

Inner ==
    Leaves \cup {Multipart(t, <<p, q>>) : t \in {"multipart/related", "multipart/mixed"},
                 p \in {SoapPart, AttachmentPart(a1)},
                 q \in {SoapPart, AttachmentPart(a1), Leaf("text/plain", "foreign", NoContentId)}}

Packages ==
    Leaves
    \cup {Multipart(t, <<p>>) : t \in {"multipart/related", "multipart/mixed"}, p \in Inner}
    \cup {Multipart("multipart/related", <<p, q>>) : p, q \in Inner}
    \cup {Multipart("multipart/related", <<p, q, r>>) : p, q, r \in Leaves}

\* With what the sender makes of a message, and its parts.
AllPackages ==
    Packages \cup Inner \cup {AttachmentPart(a) : a \in Attachment}
    \cup {BuildRequestData(<<a>>) : a \in Attachment}

\* A package of leaves at most is on the level above them, any other above that.
Depth ==
    [p \in AllPackages |->
        IF p.parts = <<>> THEN 0
        ELSE IF \A i \in DOMAIN p.parts : p.parts[i].parts = <<>> THEN 1 ELSE 2]

Usual == <<"ns", "::", "name", "##", "custom", "::", "1">>

DocumentTypes ==
    UNION {[1..n -> {"a", "##", "::"}] : n \in 0..5}
    \cup {Usual, <<"ns", "::", "name", "##", "custom", "::", "2", "::", "1">>,
          <<"ns", "::", "name", "##", "custom", "##", "2", "::", "1">>}

Order(sender, recipient, document, size, empty, world, pack) ==
    [sender |-> sender, recipient |-> recipient, document |-> document,
     size |-> size, empty |-> empty, world |-> world, package |-> pack]

AllOrders ==
    {Order(s, r, Usual, n, {}, w, None) :
        s, r \in {"p1", "p2"}, n \in {2, 3}, w \in SUBSET WorldFaults}
    \cup {Order("p1", "p2", d, 2, {}, {}, None) : d \in DocumentTypes}
    \cup {Order("p1", "p2", Usual, 2, {}, {}, p) : p \in Packages}
    \cup {Order("p1", "p2", Usual, 2, {v}, {}, None) : v \in Supplied}
=============================================================================
