------------------------------ MODULE MCBinding ------------------------------
(* One ds:Reference of every small shape, or two of a few shapes; every error
   class with an argument and, where its constructor allows, without one. *)
EXTENDS SignalBinding

Word(w) == TextOf(<<w>>)
Padded(w) == [words |-> w, padded |-> TRUE]

\* An attribute that is absent, empty or has the one value.
Attr(name, value) == {<<>>, name :> Empty, name :> Word(value)}

InclusiveNamespaces == Element("InclusiveNamespaces", <<>>, Empty, <<>>)

TransformElements ==
    {Element("Transform", a, Empty, c) :
        a \in Attr("Algorithm", "exc-c14n"), c \in {<<>>, <<InclusiveNamespaces>>}}

TransformsElement(seq) == Element("Transforms", <<>>, Empty, seq)
DigestMethodElement(a) == Element("DigestMethod", a, Empty, <<>>)
DigestValueElement(t) == Element("DigestValue", <<>>, t, <<>>)

ReferenceElement(uri, transforms, algorithm, value) ==
    Element("Reference", uri, Empty,
            <<TransformsElement(transforms), DigestMethodElement(algorithm), DigestValueElement(value)>>)

References ==
    {ReferenceElement(u, t, a, v) :
        u \in Attr("URI", "body"),
        t \in {<<>>} \cup {<<x>> : x \in TransformElements}
             \cup {<<x, y>> : x, y \in TransformElements},
        a \in Attr("Algorithm", "sha256"),
        v \in {Word("digest"), Padded(<<"digest">>), Padded(<<>>)}}

Repeated ==
    {[r EXCEPT !.children = Append(@, c)] :
        r \in {ReferenceElement(<<>>, <<>>, "Algorithm" :> Word("sha256"), Word("digest"))},
        c \in {DigestValueElement(Word("digest")), InclusiveNamespaces}}

\* The shapes two of which are combined.
Plain ==
    {ReferenceElement(u, t, "Algorithm" :> a, Word("digest")) :
        u \in Attr("URI", "payload"),
        t \in {<<x>> : x \in {y \in TransformElements : y.attrs = ("Algorithm" :> Word("exc-c14n"))}},
        a \in {Word("sha256"), Empty}}

Ids == {Word("id"), Padded(<<"id">>), Padded(<<>>)}

AcceptedMessages ==
    [refs : {<<r>> : r \in References \cup Repeated}, id : {Word("id")}, verify_digests : BOOLEAN]
    \cup [refs : {<<>>} \cup {<<q, r>> : q, r \in Plain}, id : Ids, verify_digests : BOOLEAN]

RefusedMessages ==
    {m \in [class : ErrorClass, argument : {Empty, Word("argument"), Padded(<<"argument">>)},
            id : Ids \cup {Empty}] :
        m.class \in DOMAIN Given => m.argument # Empty}

\* The references with what is inside them.
AllElements ==
    LET references == References \cup Repeated \cup Plain
        parts == UNION {Range(r.children) : r \in references}
    IN  references \cup parts \cup UNION {Range(e.children) : e \in parts} \cup {InclusiveNamespaces}
=============================================================================
