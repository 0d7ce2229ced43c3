------------------------- MODULE DocumentIdentifier -------------------------
(***************************************************************************)
(* BusdoxDocidQnsDocumentIdentifier                                        *)
(* (as4/profiles/peppol/document_identifier.py): a document type           *)
(* identifier <syntax id>##<customization>::<version> taken apart by a     *)
(* greedy regular expression and put together again.  An identifier is a   *)
(* sequence of tokens, the separators "##" and "::" and words.             *)
(***************************************************************************)
EXTENDS Naturals, SequencesExt

Places(separator, value) == {i \in DOMAIN value : value[i] = separator}

\* Mutant: the groups match as little as they can.
SplitShort(value) ==
    LET i == Min({h \in Places("##", value) : \E c \in Places("::", value) : c > h})
        j == Min({c \in Places("::", value) : c > i})
    IN  [syntax_specific_id |-> SubSeq(value, 1, i - 1),
         customization_id |-> SubSeq(value, i + 1, j - 1),
         version |-> SubSeq(value, j + 1, Len(value))]

\* The groups of (.*)##(.*)::(.*), each as long as the rest allows.
Split(value) ==
    LET i == Max({h \in Places("##", value) : \E c \in Places("::", value) : c > h})
        j == Max(Places("::", value))
    IN  [syntax_specific_id |-> SubSeq(value, 1, i - 1),
         customization_id |-> SubSeq(value, i + 1, j - 1),
         version |-> SubSeq(value, j + 1, Len(value))]

\* from_identifier_value returns: the expression matches and no group is empty.
IsIdentifier(value) ==
    /\ \E h \in Places("##", value), c \in Places("::", value) : h < c
    /\ <<>> \notin {Split(value).syntax_specific_id, Split(value).customization_id, Split(value).version}

\* root_element_name raises IndexError without a separator in the syntax id.
HasRootElement(id) == Places("::", id.syntax_specific_id) # {}

\* root_element_namespace and root_element_name, the first two pieces of
\* split("::").
RootElementNamespace(id) ==
    SubSeq(id.syntax_specific_id, 1, Min(Places("::", id.syntax_specific_id)) - 1)

RootElementName(id) ==
    LET rest == SubSeq(id.syntax_specific_id, Min(Places("::", id.syntax_specific_id)) + 1,
                       Len(id.syntax_specific_id))
    IN  IF Places("::", rest) = {} THEN rest ELSE SubSeq(rest, 1, Min(Places("::", rest)) - 1)

IdentifierValue(id) ==
    id.syntax_specific_id \o <<"##">> \o id.customization_id \o <<"::">> \o id.version
=============================================================================
