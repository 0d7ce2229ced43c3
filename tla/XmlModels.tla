------------------------------ MODULE XmlModels ------------------------------
(***************************************************************************)
(* BaseElement (as4/models/common.py): what becomes of an XML element that *)
(* is read into a model, stored as JSON, and dumped to XML again.  None of *)
(* the three is the identity: reading strips text, dumping drops empty     *)
(* attributes and unknown children, storing forgets the element read.      *)
(***************************************************************************)
EXTENDS EbmsSchema, Naturals, SequencesExt

CONSTANT None

\* A text or an attribute's value: its words and whether white space
\* surrounds them.
Text == [words : Seq(STRING), padded : BOOLEAN]
TextOf(words) == [words |-> words, padded |-> FALSE]
Empty == TextOf(<<>>)
Stripped(text) == TextOf(text.words)
Blank(text) == text.words = <<>>

Element(tag, attrs, text, children) ==
    [tag |-> tag, attrs |-> attrs, text |-> text, children |-> children]

Fields(tag) == Schema[tag].fields
FieldTags(tag) == {Fields(tag)[i].tag : i \in DOMAIN Fields(tag)}
Attributes(tag) == Schema[tag].required \cup Schema[tag].optional

\* The elements of a sequence with one of the tags.
Tagged(children, tags) ==
    FlattenSeq([i \in DOMAIN children |->
        IF children[i].tag \in tags THEN <<children[i]>> ELSE <<>>])

ChildrenOf(element, tag) == Tagged(element.children, {tag})

-----------------------------------------------------------------------------
(* One element or model, given the same operation on those in its fields *)

\* What model_validate_etree accepts: a required attribute may be empty, a
\* required text may not be blank, a Singular field may not be repeated.
ValidBy(element, ValidField(_)) ==
    /\ Schema[element.tag].required \subseteq DOMAIN element.attrs
    /\ Schema[element.tag].text => ~Blank(element.text)
    /\ \A i \in DOMAIN Fields(element.tag) :
          LET field == Fields(element.tag)[i]
              found == ChildrenOf(element, field.tag)
          IN  /\ field.card \in {"one", "optional"} => Len(found) <= 1
              /\ field.card \in {"one", "some"} => Len(found) >= 1
              /\ \A j \in DOMAIN found : ValidField(found[j])

\* A model constructed in code: it has read no element.  Its attributes are
\* None where absent, its fields lists of models by tag.
Model(tag, attrs, text, fields) ==
    [tag |-> tag,
     attrs |-> [a \in Attributes(tag) |-> IF a \in DOMAIN attrs THEN attrs[a] ELSE None],
     text |-> text,
     fields |-> [t \in FieldTags(tag) |-> IF t \in DOMAIN fields THEN fields[t] ELSE <<>>],
     etree_element |-> None]

\* element_to_dict and model_validate on a valid element.
ReadBy(element, ReadField(_)) ==
    [Model(element.tag, element.attrs,
           IF Schema[element.tag].text THEN Stripped(element.text) ELSE None,
           [t \in FieldTags(element.tag) |->
               [j \in DOMAIN ChildrenOf(element, t) |-> ReadField(ChildrenOf(element, t)[j])]])
     EXCEPT !.etree_element = element]

\* wildcard_content: the children of the element read that no field took.
WildcardContent(model) ==
    LET children == model.etree_element.children
    IN  IF model.etree_element = None \/ ~Schema[model.tag].wildcard THEN <<>>
        ELSE Tagged(children, {children[i].tag : i \in DOMAIN children} \ FieldTags(model.tag))

\* dump_to_xml drops the attributes that are None or empty.
DumpedAttributes(model) ==
    [a \in {b \in DOMAIN model.attrs : model.attrs[b] \notin {None, Empty}} |-> model.attrs[a]]

\* dump_to_xml: the fields in order of declaration, then the wildcards.
DumpBy(model, DumpField(_)) ==
    Element(model.tag, DumpedAttributes(model),
            IF model.text = None THEN Empty ELSE model.text,
            FlattenSeq([i \in DOMAIN Fields(model.tag) |->
                LET models == model.fields[Fields(model.tag)[i].tag]
                IN  [j \in DOMAIN models |-> DumpField(models[j])]])
            \o WildcardContent(model))

\* model_dump_json and model_validate: etree_element is excluded.
StoredBy(model, StoredField(_)) ==
    [model EXCEPT !.etree_element = None,
                  !.fields = [t \in DOMAIN model.fields |->
                      [j \in DOMAIN model.fields[t] |-> StoredField(model.fields[t][j])]]]

-----------------------------------------------------------------------------
(* The classes of EbmsSchema nest seven deep, from SignalMessage by way of
   Receipt, NonRepudiationInformation, MessagePartNRInformation, Reference and
   Transforms to Transform; those on the lowest level have no fields. *)

Valid0(element) == ValidBy(element, LAMBDA field : FALSE)
Valid1(element) == ValidBy(element, Valid0)
Valid2(element) == ValidBy(element, Valid1)
Valid3(element) == ValidBy(element, Valid2)
Valid4(element) == ValidBy(element, Valid3)
Valid5(element) == ValidBy(element, Valid4)
Valid(element) == ValidBy(element, Valid5)

Read0(element) == ReadBy(element, LAMBDA field : None)
Read1(element) == ReadBy(element, Read0)
Read2(element) == ReadBy(element, Read1)
Read3(element) == ReadBy(element, Read2)
Read4(element) == ReadBy(element, Read3)
Read5(element) == ReadBy(element, Read4)
Read(element) == ReadBy(element, Read5)

Dump0(model) == DumpBy(model, LAMBDA field : None)
Dump1(model) == DumpBy(model, Dump0)
Dump2(model) == DumpBy(model, Dump1)
Dump3(model) == DumpBy(model, Dump2)
Dump4(model) == DumpBy(model, Dump3)
Dump5(model) == DumpBy(model, Dump4)
Dump(model) == DumpBy(model, Dump5)

Stored0(model) == StoredBy(model, LAMBDA field : None)
Stored1(model) == StoredBy(model, Stored0)
Stored2(model) == StoredBy(model, Stored1)
Stored3(model) == StoredBy(model, Stored2)
Stored4(model) == StoredBy(model, Stored3)
Stored5(model) == StoredBy(model, Stored4)
Stored(model) == StoredBy(model, Stored5)
=============================================================================
