--------------------------- MODULE BindingProofs ---------------------------
(***************************************************************************)
(* Proofs about SignalBinding, for any elements, messages and refusals.    *)
(*                                                                         *)
(* The models of a receipt and of an error are written out, with what JSON *)
(* and XML make of each of their parts; the recursion of XmlModels is      *)
(* unrolled along the way, level by level.  With these, BindingInv can say *)
(* what each variable is: the receipt is the one for the references that   *)
(* arrived, its models with the elements they were read of or, after a     *)
(* restart, without.  The four properties compare two such values.         *)
(***************************************************************************)
EXTENDS SignalBinding, SequenceFacts

-----------------------------------------------------------------------------
(* The class table *)

\* The groups of classes that the table is made of have no tag in common.
LEMMA SchemaIs ==
    /\ \A t \in DOMAIN MessageInfoClasses : Schema[t] = MessageInfoClasses[t]
    /\ \A t \in DOMAIN SignalClasses : Schema[t] = SignalClasses[t]
    /\ \A t \in DOMAIN NonRepudiationClasses : Schema[t] = NonRepudiationClasses[t]
    /\ \A t \in DOMAIN ReferenceClasses : Schema[t] = ReferenceClasses[t]
    /\ \A t \in DOMAIN TransformClasses : Schema[t] = TransformClasses[t]
<1>1. /\ DOMAIN MessageInfoClasses = {"Timestamp", "MessageId", "RefToMessageId", "MessageInfo"}
      /\ DOMAIN SignalClasses = {"Description", "ErrorDetail", "PullRequest", "Receipt", "Error",
                                 "SignalMessage"}
      /\ DOMAIN NonRepudiationClasses = {"MessagePartNRInformation", "NonRepudiationInformation"}
      /\ DOMAIN ReferenceClasses = {"DigestMethod", "DigestValue", "Reference"}
      /\ DOMAIN TransformClasses = {"Transform", "Transforms"}
  BY DEF MessageInfoClasses, SignalClasses, NonRepudiationClasses, ReferenceClasses,
     TransformClasses
<1> QED
  BY <1>1 DEF Schema, Joined

\* The classes of a ds:Reference.
LEMMA ReferenceSchema ==
    /\ Schema["Reference"] = Class({}, {"Id", "URI", "Type"}, FALSE,
            <<Field("Transforms", "one"), Field("DigestMethod", "one"),
              Field("DigestValue", "one")>>, FALSE)
    /\ Schema["Transforms"] = Class({}, {}, FALSE, <<Field("Transform", "many")>>, FALSE)
    /\ Schema["Transform"] = Class({}, {"Algorithm"}, FALSE, <<>>, TRUE)
    /\ Schema["DigestMethod"] = Class({"Algorithm"}, {}, FALSE, <<>>, FALSE)
    /\ Schema["DigestValue"] = TextClass
BY SchemaIs DEF ReferenceClasses, TransformClasses

\* The classes of a signal.
LEMMA SignalSchema ==
    /\ Schema["Timestamp"] = TextClass
    /\ Schema["MessageId"] = TextClass
    /\ Schema["RefToMessageId"] = TextClass
    /\ Schema["MessageInfo"] = Class({}, {}, FALSE,
            <<Field("Timestamp", "one"), Field("MessageId", "one"),
              Field("RefToMessageId", "optional")>>, FALSE)
    /\ Schema["Description"] = Class({}, {"lang"}, TRUE, <<>>, FALSE)
    /\ Schema["ErrorDetail"] = TextClass
    /\ Schema["Error"] = Class({"errorCode", "severity"},
            {"category", "refToMessageInError", "origin", "shortDescription"}, FALSE,
            <<Field("Description", "optional"), Field("ErrorDetail", "optional")>>, FALSE)
    /\ Schema["Receipt"] = Class({}, {}, FALSE,
            <<Field("NonRepudiationInformation", "optional")>>, TRUE)
    /\ Schema["SignalMessage"] = Class({}, {}, FALSE,
            <<Field("MessageInfo", "one"), Field("PullRequest", "optional"),
              Field("Receipt", "optional"), Field("Error", "many")>>, TRUE)
    /\ Schema["MessagePartNRInformation"] =
            Class({}, {}, FALSE, <<Field("Reference", "some")>>, FALSE)
    /\ Schema["NonRepudiationInformation"] =
            Class({}, {}, FALSE, <<Field("MessagePartNRInformation", "many")>>, FALSE)
BY SchemaIs DEF MessageInfoClasses, SignalClasses, NonRepudiationClasses

\* The tags of one to four fields.
LEMMA FieldTagsOf ==
    ASSUME NEW tag
    PROVE  /\ Fields(tag) = <<>> => FieldTags(tag) = {}
           /\ \A a : Fields(tag) = <<a>> => FieldTags(tag) = {a.tag}
           /\ \A a, b : Fields(tag) = <<a, b>> => FieldTags(tag) = {a.tag, b.tag}
           /\ \A a, b, c : Fields(tag) = <<a, b, c>> => FieldTags(tag) = {a.tag, b.tag, c.tag}
           /\ \A a, b, c, d : Fields(tag) = <<a, b, c, d>> =>
                 FieldTags(tag) = {a.tag, b.tag, c.tag, d.tag}
<1>1. Fields(tag) = <<>> => FieldTags(tag) = {}
  BY DEF FieldTags
<1>2. ASSUME NEW a, Fields(tag) = <<a>>
      PROVE  FieldTags(tag) = {a.tag}
  <2>1. DOMAIN Fields(tag) = {1} /\ Fields(tag)[1] = a
    BY <1>2
  <2> QED
    BY <2>1 DEF FieldTags
<1>3. ASSUME NEW a, NEW b, Fields(tag) = <<a, b>>
      PROVE  FieldTags(tag) = {a.tag, b.tag}
  <2>1. DOMAIN Fields(tag) = {1, 2} /\ Fields(tag)[1] = a /\ Fields(tag)[2] = b
    BY <1>3
  <2> QED
    BY <2>1 DEF FieldTags
<1>4. ASSUME NEW a, NEW b, NEW c, Fields(tag) = <<a, b, c>>
      PROVE  FieldTags(tag) = {a.tag, b.tag, c.tag}
  <2>1. /\ DOMAIN Fields(tag) = {1, 2, 3}
        /\ Fields(tag)[1] = a /\ Fields(tag)[2] = b /\ Fields(tag)[3] = c
    BY <1>4
  <2> QED
    BY <2>1 DEF FieldTags
<1>5. ASSUME NEW a, NEW b, NEW c, NEW d, Fields(tag) = <<a, b, c, d>>
      PROVE  FieldTags(tag) = {a.tag, b.tag, c.tag, d.tag}
  <2>1. /\ DOMAIN Fields(tag) = {1, 2, 3, 4}
        /\ Fields(tag)[1] = a /\ Fields(tag)[2] = b /\ Fields(tag)[3] = c /\ Fields(tag)[4] = d
    BY <1>5
  <2> QED
    BY <2>1 DEF FieldTags
<1> QED
  BY <1>1, <1>2, <1>3, <1>4, <1>5

\* The attributes and the fields of a ds:Reference's classes.
LEMMA ReferenceTags ==
    /\ FieldTags("Reference") = {"Transforms", "DigestMethod", "DigestValue"}
    /\ FieldTags("Transforms") = {"Transform"}
    /\ FieldTags("Transform") = {} /\ FieldTags("DigestMethod") = {} /\ FieldTags("DigestValue") = {}
    /\ Attributes("Reference") = {"Id", "URI", "Type"}
    /\ Attributes("Transforms") = {} /\ Attributes("Transform") = {"Algorithm"}
    /\ Attributes("DigestMethod") = {"Algorithm"} /\ Attributes("DigestValue") = {}
<1>1. FieldTags("Reference") = {"Transforms", "DigestMethod", "DigestValue"}
  BY ReferenceSchema, FieldTagsOf DEF Fields, Class, Field
<1>2. FieldTags("Transforms") = {"Transform"}
  BY ReferenceSchema, FieldTagsOf DEF Fields, Class, Field
<1>3. FieldTags("Transform") = {} /\ FieldTags("DigestMethod") = {} /\ FieldTags("DigestValue") = {}
  BY ReferenceSchema, FieldTagsOf DEF Fields, Class, TextClass
<1>4. /\ Attributes("Reference") = {"Id", "URI", "Type"}
      /\ Attributes("Transforms") = {} /\ Attributes("Transform") = {"Algorithm"}
      /\ Attributes("DigestMethod") = {"Algorithm"} /\ Attributes("DigestValue") = {}
  BY ReferenceSchema DEF Attributes, Class, TextClass
<1> QED
  BY <1>1, <1>2, <1>3, <1>4

\* The attributes and the fields of a signal's classes.
LEMMA SignalTags ==
    /\ FieldTags("SignalMessage") = {"MessageInfo", "PullRequest", "Receipt", "Error"}
    /\ FieldTags("MessageInfo") = {"Timestamp", "MessageId", "RefToMessageId"}
    /\ FieldTags("Receipt") = {"NonRepudiationInformation"}
    /\ FieldTags("NonRepudiationInformation") = {"MessagePartNRInformation"}
    /\ FieldTags("MessagePartNRInformation") = {"Reference"}
    /\ FieldTags("Error") = {"Description", "ErrorDetail"}
    /\ \A t \in {"Timestamp", "MessageId", "RefToMessageId", "Description", "ErrorDetail"} :
          FieldTags(t) = {}
    /\ \A t \in {"Timestamp", "MessageId", "RefToMessageId", "ErrorDetail", "MessageInfo", "Receipt",
                 "NonRepudiationInformation", "MessagePartNRInformation", "SignalMessage"} :
          Attributes(t) = {}
    /\ Attributes("Description") = {"lang"}
    /\ Attributes("Error") = {"errorCode", "severity", "category", "refToMessageInError", "origin",
                              "shortDescription"}
<1>1. FieldTags("SignalMessage") = {"MessageInfo", "PullRequest", "Receipt", "Error"}
  BY SignalSchema, FieldTagsOf DEF Fields, Class, Field
<1>2. FieldTags("MessageInfo") = {"Timestamp", "MessageId", "RefToMessageId"}
  BY SignalSchema, FieldTagsOf DEF Fields, Class, Field
<1>3. /\ FieldTags("Receipt") = {"NonRepudiationInformation"}
      /\ FieldTags("NonRepudiationInformation") = {"MessagePartNRInformation"}
      /\ FieldTags("MessagePartNRInformation") = {"Reference"}
  BY SignalSchema, FieldTagsOf DEF Fields, Class, Field
<1>4. FieldTags("Error") = {"Description", "ErrorDetail"}
  BY SignalSchema, FieldTagsOf DEF Fields, Class, Field
<1>5. \A t \in {"Timestamp", "MessageId", "RefToMessageId", "Description", "ErrorDetail"} :
          FieldTags(t) = {}
  BY SignalSchema, FieldTagsOf DEF Fields, Class, TextClass
<1>6. /\ \A t \in {"Timestamp", "MessageId", "RefToMessageId", "ErrorDetail", "MessageInfo", "Receipt",
                   "NonRepudiationInformation", "MessagePartNRInformation", "SignalMessage"} :
            Attributes(t) = {}
      /\ Attributes("Description") = {"lang"}
      /\ Attributes("Error") = {"errorCode", "severity", "category", "refToMessageInError", "origin",
                                "shortDescription"}
  BY SignalSchema DEF Attributes, Class, TextClass
<1> QED
  BY <1>1, <1>2, <1>3, <1>4, <1>5, <1>6

-----------------------------------------------------------------------------
(* Children by tag *)

\* What is found among the children has the tag asked for.
LEMMA TaggedType ==
    ASSUME NEW S, NEW s \in Seq(S), NEW tags
    PROVE  Tagged(s, tags) \in Seq({x \in S : x.tag \in tags})
<1> DEFINE T == {x \in S : x.tag \in tags}
           ss == [i \in DOMAIN s |-> IF s[i].tag \in tags THEN <<s[i]>> ELSE <<>>]
<1>1. DOMAIN s = 1..Len(s) /\ Len(s) \in Nat /\ \A i \in DOMAIN s : s[i] \in S
  BY LenProperties, ElementOfSeq
<1>2. ASSUME NEW i \in DOMAIN s
      PROVE  (IF s[i].tag \in tags THEN <<s[i]>> ELSE <<>>) \in Seq(T)
  <2>1. CASE s[i].tag \in tags
    <3>1. s[i] \in T
      BY <1>1, <2>1
    <3> HIDE DEF T
    <3> QED
      BY <2>1, <3>1
  <2>2. CASE s[i].tag \notin tags
    BY <2>2, EmptySeq
  <2> QED
    BY <2>1, <2>2
<1> HIDE DEF T
<1>3. ss \in [1..Len(s) -> Seq(T)]
  BY <1>1, <1>2
<1>4. ss \in Seq(Seq(T))
  BY <1>1, <1>3
<1> HIDE DEF ss
<1>5. FlattenSeq(ss) \in Seq(T)
  BY <1>4, FlattenType
<1> QED
  BY <1>5 DEF Tagged, ss, T

\* All are found if all have a tag asked for.
LEMMA TaggedAll ==
    ASSUME NEW S, NEW s \in Seq(S), NEW tags, \A i \in DOMAIN s : s[i].tag \in tags
    PROVE  Tagged(s, tags) = s
<1>1. [i \in DOMAIN s |-> IF s[i].tag \in tags THEN <<s[i]>> ELSE <<>>] = [i \in DOMAIN s |-> <<s[i]>>]
  OBVIOUS
<1>2. FlattenSeq([i \in DOMAIN s |-> <<s[i]>>]) = s
  BY FlattenSingles
<1> QED
  BY <1>1, <1>2 DEF Tagged

\* The only child with a tag is found by it.
LEMMA TaggedOne ==
    ASSUME NEW S, NEW s \in Seq(S), NEW tag, NEW k \in 1..Len(s), s[k].tag = tag,
           \A i \in 1..Len(s) : i # k => s[i].tag # tag
    PROVE  Tagged(s, {tag}) = <<s[k]>>
<1> DEFINE ss == [i \in DOMAIN s |-> IF s[i].tag \in {tag} THEN <<s[i]>> ELSE <<>>]
<1>1. DOMAIN s = 1..Len(s) /\ Len(s) \in Nat /\ \A i \in 1..Len(s) : s[i] \in S
  BY LenProperties, ElementOfSeq
<1>2. ss \in [1..Len(s) -> Seq(S)]
  <2>1. \A x \in S : <<x>> \in Seq(S) /\ <<>> \in Seq(S)
    BY EmptySeq
  <2> QED
    BY <1>1, <2>1
<1>3. ss \in Seq(Seq(S)) /\ Len(ss) = Len(s)
  BY <1>1, <1>2
<1>4. ss[k] = <<s[k]>> /\ \A i \in 1..Len(s) : i # k => ss[i] = <<>>
  BY <1>1
<1> HIDE DEF ss
<1>5. FlattenSeq(ss) = <<s[k]>>
  BY <1>3, <1>4, FlattenUnique
<1> QED
  BY <1>5 DEF Tagged, ss

\* A tag that no child has finds none.
LEMMA TaggedNone ==
    ASSUME NEW S, NEW s \in Seq(S), NEW tag, \A i \in 1..Len(s) : s[i].tag # tag
    PROVE  Tagged(s, {tag}) = <<>>
<1> DEFINE ss == [i \in DOMAIN s |-> IF s[i].tag \in {tag} THEN <<s[i]>> ELSE <<>>]
<1>1. DOMAIN s = 1..Len(s) /\ Len(s) \in Nat
  BY LenProperties
<1>2. ss \in [1..Len(s) -> Seq(S)] /\ \A i \in 1..Len(s) : ss[i] = <<>>
  BY <1>1, EmptySeq
<1>3. ss \in Seq(Seq(S)) /\ Len(ss) = Len(s)
  BY <1>1, <1>2
<1>4. \A i \in 1..Len(ss) : ss[i] = <<>>
  BY <1>2, <1>3
<1> HIDE DEF ss
<1>5. FlattenSeq(ss) = <<>>
  BY <1>3, <1>4, FlattenNone
<1> QED
  BY <1>5 DEF Tagged, ss

-----------------------------------------------------------------------------
(* Classes without fields *)

\* A model read from an element, which it still has if it was not stored since.
Kept(model, element, kept) == [model EXCEPT !.etree_element = IF kept THEN element ELSE None]

\* The text a model takes from an element.
TextRead(element) == IF Schema[element.tag].text THEN Stripped(element.text) ELSE None

LeafModel(element, kept) ==
    Kept(Model(element.tag, element.attrs, TextRead(element), <<>>), element, kept)

\* A model is given by what its class takes from the attributes and the fields.
LEMMA SameModel ==
    ASSUME NEW tag, NEW a, NEW text, NEW f, NEW g,
           \A t \in FieldTags(tag) : /\ t \in DOMAIN f <=> t \in DOMAIN g
                                     /\ t \in DOMAIN f => f[t] = g[t]
    PROVE  Model(tag, a, text, f) = Model(tag, a, text, g)
<1>1. [t \in FieldTags(tag) |-> IF t \in DOMAIN f THEN f[t] ELSE <<>>]
      = [t \in FieldTags(tag) |-> IF t \in DOMAIN g THEN g[t] ELSE <<>>]
  OBVIOUS
<1> QED
  BY <1>1 DEF Model

\* A class without fields is read the same on every level.
LEMMA ReadLeaf ==
    ASSUME NEW e, FieldTags(e.tag) = {}
    PROVE  /\ Read0(e) = LeafModel(e, TRUE) /\ Read1(e) = LeafModel(e, TRUE)
           /\ Read2(e) = LeafModel(e, TRUE) /\ Read3(e) = LeafModel(e, TRUE)
           /\ Read4(e) = LeafModel(e, TRUE) /\ Read5(e) = LeafModel(e, TRUE)
<1>1. Read0(e) = LeafModel(e, TRUE)
  BY DEF Read0, ReadBy, LeafModel, Kept, Model, TextRead
<1>2. Read1(e) = LeafModel(e, TRUE)
  BY DEF Read1, ReadBy, LeafModel, Kept, Model, TextRead
<1>3. Read2(e) = LeafModel(e, TRUE)
  BY DEF Read2, ReadBy, LeafModel, Kept, Model, TextRead
<1>4. Read3(e) = LeafModel(e, TRUE)
  BY DEF Read3, ReadBy, LeafModel, Kept, Model, TextRead
<1>5. Read4(e) = LeafModel(e, TRUE)
  BY DEF Read4, ReadBy, LeafModel, Kept, Model, TextRead
<1>6. Read5(e) = LeafModel(e, TRUE)
  BY DEF Read5, ReadBy, LeafModel, Kept, Model, TextRead
<1> QED
  BY <1>1, <1>2, <1>3, <1>4, <1>5, <1>6

\* What an element without fields needs to be valid.
ValidLeafOn(e) ==
    /\ Schema[e.tag].required \subseteq DOMAIN e.attrs
    /\ Schema[e.tag].text => ~Blank(e.text)

\* A class without fields is validated the same on every level.
LEMMA ValidLeaf ==
    ASSUME NEW e, Fields(e.tag) = <<>>
    PROVE  /\ Valid0(e) <=> ValidLeafOn(e)
           /\ Valid1(e) <=> ValidLeafOn(e)
           /\ Valid2(e) <=> ValidLeafOn(e)
           /\ Valid3(e) <=> ValidLeafOn(e)
           /\ Valid4(e) <=> ValidLeafOn(e)
           /\ Valid5(e) <=> ValidLeafOn(e)
<1>1. Valid0(e) <=> ValidLeafOn(e)
  BY DEF Valid0, ValidBy, ValidLeafOn
<1>2. Valid1(e) <=> ValidLeafOn(e)
  BY DEF Valid1, ValidBy, ValidLeafOn
<1>3. Valid2(e) <=> ValidLeafOn(e)
  BY DEF Valid2, ValidBy, ValidLeafOn
<1>4. Valid3(e) <=> ValidLeafOn(e)
  BY DEF Valid3, ValidBy, ValidLeafOn
<1>5. Valid4(e) <=> ValidLeafOn(e)
  BY DEF Valid4, ValidBy, ValidLeafOn
<1>6. Valid5(e) <=> ValidLeafOn(e)
  BY DEF Valid5, ValidBy, ValidLeafOn
<1> QED
  BY <1>1, <1>2, <1>3, <1>4, <1>5, <1>6

\* A model without fields loses nothing but its element when it is stored.
LEMMA StoredLeaf ==
    ASSUME NEW m, m.fields = [t \in {} |-> <<>>]
    PROVE  /\ Stored0(m) = [m EXCEPT !.etree_element = None]
           /\ Stored1(m) = [m EXCEPT !.etree_element = None]
           /\ Stored4(m) = [m EXCEPT !.etree_element = None]
           /\ Stored5(m) = [m EXCEPT !.etree_element = None]
<1>1. Stored0(m) = [m EXCEPT !.etree_element = None]
  BY DEF Stored0, StoredBy
<1>2. Stored1(m) = [m EXCEPT !.etree_element = None]
  BY DEF Stored1, StoredBy
<1>3. Stored4(m) = [m EXCEPT !.etree_element = None]
  BY DEF Stored4, StoredBy
<1>4. Stored5(m) = [m EXCEPT !.etree_element = None]
  BY DEF Stored5, StoredBy
<1> QED
  BY <1>1, <1>2, <1>3, <1>4

\* The text of an element a model is dumped to.
TextDumped(model) == IF model.text = None THEN Empty ELSE model.text

\* A class without fields is dumped the same on every level: its attributes,
\* its text and, where it still has its element, the content it has no field for.
LEMMA DumpLeaf ==
    ASSUME NEW m, Fields(m.tag) = <<>>, NEW S, WildcardContent(m) \in Seq(S)
    PROVE  /\ Dump0(m) = Element(m.tag, DumpedAttributes(m), TextDumped(m), WildcardContent(m))
           /\ Dump1(m) = Element(m.tag, DumpedAttributes(m), TextDumped(m), WildcardContent(m))
           /\ Dump4(m) = Element(m.tag, DumpedAttributes(m), TextDumped(m), WildcardContent(m))
<1> DEFINE W == WildcardContent(m)
<1>1. <<>> \o W = W
  BY ConcatEmptySeq
<1>2. FlattenSeq(<<>>) = <<>>
  BY DEF FlattenSeq
<1> HIDE DEF W
<1>3. Dump0(m) = Element(m.tag, DumpedAttributes(m), TextDumped(m), W)
  <2>1. [i \in DOMAIN Fields(m.tag) |->
            LET models == m.fields[Fields(m.tag)[i].tag]
            IN  [j \in DOMAIN models |-> None]] = <<>>
    OBVIOUS
  <2> QED
    BY <1>1, <1>2, <2>1 DEF Dump0, DumpBy, TextDumped, W
<1>4. Dump1(m) = Element(m.tag, DumpedAttributes(m), TextDumped(m), W)
  <2>1. [i \in DOMAIN Fields(m.tag) |->
            LET models == m.fields[Fields(m.tag)[i].tag]
            IN  [j \in DOMAIN models |-> Dump0(models[j])]] = <<>>
    OBVIOUS
  <2> QED
    BY <1>1, <1>2, <2>1 DEF Dump1, DumpBy, TextDumped, W
<1>5. Dump4(m) = Element(m.tag, DumpedAttributes(m), TextDumped(m), W)
  <2>1. [i \in DOMAIN Fields(m.tag) |->
            LET models == m.fields[Fields(m.tag)[i].tag]
            IN  [j \in DOMAIN models |-> Dump3(models[j])]] = <<>>
    OBVIOUS
  <2> QED
    BY <1>1, <1>2, <2>1 DEF Dump4, DumpBy, TextDumped, W
<1> QED
  BY <1>3, <1>4, <1>5 DEF W

\* A model of a class without wildcards, or that has no element, has no
\* wildcard content.
LEMMA NoWildcards ==
    ASSUME NEW m, m.etree_element = None \/ ~Schema[m.tag].wildcard
    PROVE  WildcardContent(m) = <<>>
BY DEF WildcardContent

-----------------------------------------------------------------------------
(* ds:Reference *)

Child(e, tag) == ChildrenOf(e, tag)[1]

TransformsModel(e, kept) ==
    Kept(Model("Transforms", e.attrs, None,
               [Transform |-> [j \in DOMAIN ChildrenOf(e, "Transform") |->
                                  LeafModel(ChildrenOf(e, "Transform")[j], kept)]]), e, kept)

ReferenceModel(e, kept) ==
    Kept(Model("Reference", e.attrs, None,
               [Transforms |-> <<TransformsModel(Child(e, "Transforms"), kept)>>,
                DigestMethod |-> <<LeafModel(Child(e, "DigestMethod"), kept)>>,
                DigestValue |-> <<LeafModel(Child(e, "DigestValue"), kept)>>]), e, kept)

ReferenceFields == {"Transforms", "DigestMethod", "DigestValue"}

\* A ds:Reference with its three children, and transforms in the first.
Shape(e) ==
    /\ e.tag = "Reference"
    /\ \A t \in ReferenceFields : ChildrenOf(e, t) = <<Child(e, t)>> /\ Child(e, t).tag = t
    /\ \A j \in DOMAIN Transforms(e) : Transforms(e)[j].tag = "Transform"

\* The model pydantic-xml reads of a ds:Transforms element.
LEMMA ReadTransforms ==
    ASSUME NEW e, e.tag = "Transforms",
           \A j \in DOMAIN ChildrenOf(e, "Transform") : ChildrenOf(e, "Transform")[j].tag = "Transform"
    PROVE  Read5(e) = TransformsModel(e, TRUE) /\ Read1(e) = TransformsModel(e, TRUE)
<1> DEFINE c == ChildrenOf(e, "Transform")
<1>1. FieldTags(e.tag) = {"Transform"} /\ ~Schema[e.tag].text
  BY ReferenceSchema, ReferenceTags DEF Class
<1>2. \A j \in DOMAIN c : Read4(c[j]) = LeafModel(c[j], TRUE) /\ Read0(c[j]) = LeafModel(c[j], TRUE)
  BY ReadLeaf, ReferenceTags
<1> HIDE DEF c
<1>3. /\ [j \in DOMAIN c |-> Read4(c[j])] = [j \in DOMAIN c |-> LeafModel(c[j], TRUE)]
      /\ [j \in DOMAIN c |-> Read0(c[j])] = [j \in DOMAIN c |-> LeafModel(c[j], TRUE)]
  BY <1>2
<1> DEFINE f4 == [t \in FieldTags(e.tag) |->
                     [j \in DOMAIN ChildrenOf(e, t) |-> Read4(ChildrenOf(e, t)[j])]]
           f0 == [t \in FieldTags(e.tag) |->
                     [j \in DOMAIN ChildrenOf(e, t) |-> Read0(ChildrenOf(e, t)[j])]]
           f == [Transform |-> [j \in DOMAIN c |-> LeafModel(c[j], TRUE)]]
<1>4. /\ DOMAIN f4 = {"Transform"} /\ DOMAIN f0 = {"Transform"} /\ DOMAIN f = {"Transform"}
      /\ f4["Transform"] = f["Transform"] /\ f0["Transform"] = f["Transform"]
  BY <1>1, <1>3 DEF c
<1>5. /\ Read5(e) = [Model(e.tag, e.attrs, None, f4) EXCEPT !.etree_element = e]
      /\ Read1(e) = [Model(e.tag, e.attrs, None, f0) EXCEPT !.etree_element = e]
  BY <1>1 DEF Read5, Read1, ReadBy
<1>6. TransformsModel(e, TRUE) = [Model(e.tag, e.attrs, None, f) EXCEPT !.etree_element = e]
  BY DEF TransformsModel, Kept, c
<1> HIDE DEF f4, f0, f
<1>7. /\ Model(e.tag, e.attrs, None, f4) = Model(e.tag, e.attrs, None, f)
      /\ Model(e.tag, e.attrs, None, f0) = Model(e.tag, e.attrs, None, f)
  BY <1>1, <1>4, SameModel
<1> QED
  BY <1>5, <1>6, <1>7

\* The model it reads of a ds:Reference.
LEMMA ReadReference ==
    ASSUME NEW e, Shape(e)
    PROVE  Read(e) = ReferenceModel(e, TRUE) /\ Read2(e) = ReferenceModel(e, TRUE)
<1>1. /\ FieldTags(e.tag) = ReferenceFields /\ ~Schema[e.tag].text
      /\ \A t \in ReferenceFields : ChildrenOf(e, t) = <<Child(e, t)>> /\ Child(e, t).tag = t
  BY ReferenceSchema, ReferenceTags DEF Class, Shape, ReferenceFields
<1>2. /\ Read5(Child(e, "Transforms")) = TransformsModel(Child(e, "Transforms"), TRUE)
      /\ Read1(Child(e, "Transforms")) = TransformsModel(Child(e, "Transforms"), TRUE)
  <2>1. Child(e, "Transforms").tag = "Transforms"
    BY <1>1 DEF ReferenceFields
  <2>2. \A j \in DOMAIN ChildrenOf(Child(e, "Transforms"), "Transform") :
           ChildrenOf(Child(e, "Transforms"), "Transform")[j].tag = "Transform"
    BY DEF Shape, Transforms, Child
  <2> QED
    BY <2>1, <2>2, ReadTransforms
<1>3. \A t \in {"DigestMethod", "DigestValue"} :
         /\ Read5(Child(e, t)) = LeafModel(Child(e, t), TRUE)
         /\ Read1(Child(e, t)) = LeafModel(Child(e, t), TRUE)
  <2>1. \A t \in {"DigestMethod", "DigestValue"} : FieldTags(Child(e, t).tag) = {}
    BY <1>1, ReferenceTags DEF ReferenceFields
  <2> QED
    BY <2>1, ReadLeaf
<1> DEFINE f5 == [t \in FieldTags(e.tag) |->
                     [j \in DOMAIN ChildrenOf(e, t) |-> Read5(ChildrenOf(e, t)[j])]]
           f1 == [t \in FieldTags(e.tag) |->
                     [j \in DOMAIN ChildrenOf(e, t) |-> Read1(ChildrenOf(e, t)[j])]]
           f == [Transforms |-> <<TransformsModel(Child(e, "Transforms"), TRUE)>>,
                 DigestMethod |-> <<LeafModel(Child(e, "DigestMethod"), TRUE)>>,
                 DigestValue |-> <<LeafModel(Child(e, "DigestValue"), TRUE)>>]
<1>4. ASSUME NEW t \in ReferenceFields
      PROVE  /\ [j \in DOMAIN ChildrenOf(e, t) |-> Read5(ChildrenOf(e, t)[j])] = <<Read5(Child(e, t))>>
             /\ [j \in DOMAIN ChildrenOf(e, t) |-> Read1(ChildrenOf(e, t)[j])] = <<Read1(Child(e, t))>>
  <2>1. ChildrenOf(e, t) = <<Child(e, t)>>
    BY <1>1
  <2> QED
    BY <2>1
<1>5. /\ DOMAIN f5 = ReferenceFields /\ DOMAIN f1 = ReferenceFields /\ DOMAIN f = ReferenceFields
      /\ \A t \in ReferenceFields : f5[t] = <<Read5(Child(e, t))>> /\ f1[t] = <<Read1(Child(e, t))>>
  BY <1>1, <1>4 DEF ReferenceFields
<1>6. \A t \in ReferenceFields : f[t] = <<Read5(Child(e, t))>> /\ f[t] = <<Read1(Child(e, t))>>
  <2>1. /\ f["Transforms"] = <<TransformsModel(Child(e, "Transforms"), TRUE)>>
        /\ f["DigestMethod"] = <<LeafModel(Child(e, "DigestMethod"), TRUE)>>
        /\ f["DigestValue"] = <<LeafModel(Child(e, "DigestValue"), TRUE)>>
    OBVIOUS
  <2> HIDE DEF f
  <2>2. /\ f["Transforms"] = <<Read5(Child(e, "Transforms"))>>
        /\ f["Transforms"] = <<Read1(Child(e, "Transforms"))>>
    BY <1>2, <2>1
  <2>3. \A t \in {"DigestMethod", "DigestValue"} :
           f[t] = <<Read5(Child(e, t))>> /\ f[t] = <<Read1(Child(e, t))>>
    BY <1>3, <2>1
  <2> QED
    BY <2>2, <2>3 DEF ReferenceFields
<1>7. /\ Read(e) = [Model(e.tag, e.attrs, None, f5) EXCEPT !.etree_element = e]
      /\ Read2(e) = [Model(e.tag, e.attrs, None, f1) EXCEPT !.etree_element = e]
  BY <1>1 DEF Read, Read2, ReadBy
<1>8. ReferenceModel(e, TRUE) = [Model(e.tag, e.attrs, None, f) EXCEPT !.etree_element = e]
  BY DEF ReferenceModel, Kept, Shape
<1> HIDE DEF f5, f1, f
<1>9. \A t \in FieldTags(e.tag) :
         /\ t \in DOMAIN f5 /\ t \in DOMAIN f1 /\ t \in DOMAIN f
         /\ f5[t] = f[t] /\ f1[t] = f[t]
  BY <1>1, <1>5, <1>6
<1>10. Model(e.tag, e.attrs, None, f5) = Model(e.tag, e.attrs, None, f)
  BY <1>9, SameModel
<1>11. Model(e.tag, e.attrs, None, f1) = Model(e.tag, e.attrs, None, f)
  BY <1>9, SameModel
<1> QED
  BY <1>7, <1>8, <1>10, <1>11

\* A ds:Reference that model_validate_etree accepts.
LEMMA ValidReference ==
    ASSUME NEW e \in Elements, e.tag = "Reference", Valid(e)
    PROVE  /\ Shape(e)
           /\ \A t \in ReferenceFields : Child(e, t) \in Elements
           /\ Transforms(e) \in Seq({x \in Elements : x.tag = "Transform"})
           /\ "Algorithm" \in DOMAIN Child(e, "DigestMethod").attrs
           /\ ~Blank(Child(e, "DigestValue").text)
<1>1. e.children \in Seq(Elements)
  BY BindingAssumption
<1>2. Fields(e.tag) = <<Field("Transforms", "one"), Field("DigestMethod", "one"),
                        Field("DigestValue", "one")>>
  BY ReferenceSchema DEF Fields, Class
<1>3. ASSUME NEW t \in ReferenceFields
      PROVE  /\ ChildrenOf(e, t) = <<Child(e, t)>> /\ Child(e, t).tag = t
             /\ Child(e, t) \in Elements /\ Valid5(Child(e, t))
  <2>1. PICK i \in DOMAIN Fields(e.tag) : Fields(e.tag)[i].tag = t /\ Fields(e.tag)[i].card = "one"
    <3>1. /\ 1 \in DOMAIN Fields(e.tag) /\ 2 \in DOMAIN Fields(e.tag) /\ 3 \in DOMAIN Fields(e.tag)
          /\ Fields(e.tag)[1] = Field("Transforms", "one")
          /\ Fields(e.tag)[2] = Field("DigestMethod", "one")
          /\ Fields(e.tag)[3] = Field("DigestValue", "one")
      BY <1>2
    <3> QED
      BY <3>1 DEF ReferenceFields, Field
  <2>2. /\ Len(ChildrenOf(e, t)) <= 1 /\ Len(ChildrenOf(e, t)) >= 1
        /\ \A j \in DOMAIN ChildrenOf(e, t) : Valid5(ChildrenOf(e, t)[j])
    BY <2>1 DEF Valid, ValidBy
  <2> DEFINE S == {x \in Elements : x.tag \in {t}}
  <2>3. ChildrenOf(e, t) \in Seq(S)
    BY <1>1, TaggedType DEF ChildrenOf
  <2>4. \A x \in S : x \in Elements /\ x.tag = t
    OBVIOUS
  <2> HIDE DEF S
  <2>5. Len(ChildrenOf(e, t)) = 1 /\ 1 \in DOMAIN ChildrenOf(e, t)
    <3>1. Len(ChildrenOf(e, t)) \in Nat /\ DOMAIN ChildrenOf(e, t) = 1..Len(ChildrenOf(e, t))
      BY <2>3, LenProperties
    <3>2. Len(ChildrenOf(e, t)) <= 1 /\ Len(ChildrenOf(e, t)) >= 1
      BY <2>2
    <3>3. Len(ChildrenOf(e, t)) = 1
      BY <3>1, <3>2
    <3> QED
      BY <3>1, <3>3
  <2>6. Child(e, t) \in S
    BY <2>3, <2>5, ElementOfSeq DEF Child
  <2>7. ChildrenOf(e, t) = <<ChildrenOf(e, t)[1]>>
    BY <2>3, <2>5, AsTuple
  <2> QED
    BY <2>2, <2>4, <2>5, <2>6, <2>7 DEF Child
<1>4. Transforms(e) \in Seq({x \in Elements : x.tag = "Transform"})
  <2>1. Child(e, "Transforms") \in Elements
    BY <1>3 DEF ReferenceFields
  <2>2. Child(e, "Transforms").children \in Seq(Elements)
    BY <2>1, BindingAssumption
  <2>3. Transforms(e) \in Seq({x \in Elements : x.tag \in {"Transform"}})
    BY <2>2, TaggedType DEF Transforms, Child, ChildrenOf
  <2>4. {x \in Elements : x.tag \in {"Transform"}} = {x \in Elements : x.tag = "Transform"}
    OBVIOUS
  <2> QED
    BY <2>3, <2>4
<1>5. \A j \in DOMAIN Transforms(e) : Transforms(e)[j].tag = "Transform"
  <2> DEFINE S == {x \in Elements : x.tag = "Transform"}
             s == Transforms(e)
  <2>1. s \in Seq(S)
    BY <1>4
  <2>2. \A x \in S : x.tag = "Transform"
    OBVIOUS
  <2> HIDE DEF S, s
  <2>3. \A j \in DOMAIN s : s[j] \in S
    BY <2>1
  <2> QED
    BY <2>2, <2>3 DEF s
<1>6. "Algorithm" \in DOMAIN Child(e, "DigestMethod").attrs
  <2>1. Child(e, "DigestMethod").tag = "DigestMethod" /\ Valid5(Child(e, "DigestMethod"))
    BY <1>3 DEF ReferenceFields
  <2> QED
    BY <2>1, ReferenceSchema DEF Valid5, ValidBy, Class
<1>7. ~Blank(Child(e, "DigestValue").text)
  <2>1. Child(e, "DigestValue").tag = "DigestValue" /\ Valid5(Child(e, "DigestValue"))
    BY <1>3 DEF ReferenceFields
  <2> QED
    BY <2>1, ReferenceSchema DEF Valid5, ValidBy, Class, TextClass
<1> QED
  BY <1>3, <1>4, <1>5, <1>6, <1>7 DEF Shape

-----------------------------------------------------------------------------
(* Storing *)

\* The models in a field.
FieldOf(fields, t) == IF t \in DOMAIN fields THEN fields[t] ELSE <<>>

\* The models of a field as storing, on the level of the field, makes them.
Stores0(u, v) == [j \in DOMAIN u |-> Stored0(u[j])] = v
Stores1(u, v) == [j \in DOMAIN u |-> Stored1(u[j])] = v
Stores2(u, v) == [j \in DOMAIN u |-> Stored2(u[j])] = v
Stores3(u, v) == [j \in DOMAIN u |-> Stored3(u[j])] = v
Stores4(u, v) == [j \in DOMAIN u |-> Stored4(u[j])] = v
Stores5(u, v) == [j \in DOMAIN u |-> Stored5(u[j])] = v

\* A field that is empty or holds one model, stored and loaded.
LEMMA StoresFacts ==
    ASSUME NEW x, NEW y
    PROVE  /\ Stores0(<<>>, <<>>) /\ (Stored0(x) = y => Stores0(<<x>>, <<y>>))
           /\ Stores1(<<>>, <<>>) /\ (Stored1(x) = y => Stores1(<<x>>, <<y>>))
           /\ Stores2(<<>>, <<>>) /\ (Stored2(x) = y => Stores2(<<x>>, <<y>>))
           /\ Stores3(<<>>, <<>>) /\ (Stored3(x) = y => Stores3(<<x>>, <<y>>))
           /\ Stores4(<<>>, <<>>) /\ (Stored4(x) = y => Stores4(<<x>>, <<y>>))
           /\ Stores5(<<>>, <<>>) /\ (Stored5(x) = y => Stores5(<<x>>, <<y>>))
<1>1. Stores0(<<>>, <<>>) /\ (Stored0(x) = y => Stores0(<<x>>, <<y>>))
  BY DEF Stores0
<1>2. Stores1(<<>>, <<>>) /\ (Stored1(x) = y => Stores1(<<x>>, <<y>>))
  BY DEF Stores1
<1>3. Stores2(<<>>, <<>>) /\ (Stored2(x) = y => Stores2(<<x>>, <<y>>))
  BY DEF Stores2
<1>4. Stores3(<<>>, <<>>) /\ (Stored3(x) = y => Stores3(<<x>>, <<y>>))
  BY DEF Stores3
<1>5. Stores4(<<>>, <<>>) /\ (Stored4(x) = y => Stores4(<<x>>, <<y>>))
  BY DEF Stores4
<1>6. Stores5(<<>>, <<>>) /\ (Stored5(x) = y => Stores5(<<x>>, <<y>>))
  BY DEF Stores5
<1> QED
  BY <1>1, <1>2, <1>3, <1>4, <1>5, <1>6

\* The attributes a class takes.
AttrsOf(tag, attrs) == [a \in Attributes(tag) |-> IF a \in DOMAIN attrs THEN attrs[a] ELSE None]

\* A record with the components of a model.
IsModel(m) ==
    m = [tag |-> m.tag, attrs |-> m.attrs, text |-> m.text,
         fields |-> [t \in DOMAIN m.fields |-> m.fields[t]], etree_element |-> m.etree_element]

\* The parts of a model.
LEMMA ModelParts ==
    ASSUME NEW tag, NEW a, NEW text, NEW f, NEW e, NEW kept
    PROVE  LET m == Kept(Model(tag, a, text, f), e, kept)
           IN  /\ IsModel(m)
               /\ m.tag = tag /\ m.attrs = AttrsOf(tag, a) /\ m.text = text
               /\ DOMAIN m.fields = FieldTags(tag)
               /\ \A t \in FieldTags(tag) : m.fields[t] = FieldOf(f, t)
               /\ m.etree_element = IF kept THEN e ELSE None
<1> DEFINE A == AttrsOf(tag, a)
           F == [t \in FieldTags(tag) |-> FieldOf(f, t)]
           k == IF kept THEN e ELSE None
           m == Kept(Model(tag, a, text, f), e, kept)
<1>1. m = [tag |-> tag, attrs |-> A, text |-> text, fields |-> F, etree_element |-> k]
  <2>1. Model(tag, a, text, f)
        = [tag |-> tag, attrs |-> A, text |-> text, fields |-> F, etree_element |-> None]
    BY DEF Model, FieldOf, AttrsOf
  <2> HIDE DEF A, F
  <2> QED
    BY <2>1 DEF Kept
<1>2. DOMAIN F = FieldTags(tag) /\ \A t \in FieldTags(tag) : F[t] = FieldOf(f, t)
  OBVIOUS
<1>3. F = [t \in DOMAIN F |-> F[t]]
  OBVIOUS
<1> HIDE DEF m, A, F, k
<1>4. m.tag = tag /\ m.attrs = A /\ m.text = text /\ m.fields = F /\ m.etree_element = k
  BY <1>1
<1>5. [t \in DOMAIN m.fields |-> m.fields[t]] = F
  BY <1>3, <1>4
<1>6. IsModel(m)
  BY <1>1, <1>4, <1>5 DEF IsModel
<1> QED
  BY <1>2, <1>4, <1>6 DEF m, A, k

\* Models that differ in their fields only, the second without an element.
Drops(m, s) ==
    /\ IsModel(m) /\ IsModel(s)
    /\ m.tag = s.tag /\ m.attrs = s.attrs /\ m.text = s.text
    /\ DOMAIN m.fields = DOMAIN s.fields
    /\ s.etree_element = None

StoresFields0(m, s) == \A t \in DOMAIN m.fields : Stores0(m.fields[t], s.fields[t])
StoresFields1(m, s) == \A t \in DOMAIN m.fields : Stores1(m.fields[t], s.fields[t])
StoresFields2(m, s) == \A t \in DOMAIN m.fields : Stores2(m.fields[t], s.fields[t])
StoresFields3(m, s) == \A t \in DOMAIN m.fields : Stores3(m.fields[t], s.fields[t])
StoresFields4(m, s) == \A t \in DOMAIN m.fields : Stores4(m.fields[t], s.fields[t])
StoresFields5(m, s) == \A t \in DOMAIN m.fields : Stores5(m.fields[t], s.fields[t])

\* Storing a model stores what is in its fields and drops its element.
LEMMA StoredModel ==
    ASSUME NEW m, NEW s, Drops(m, s)
    PROVE  /\ StoresFields0(m, s) => Stored1(m) = s
           /\ StoresFields1(m, s) => Stored2(m) = s
           /\ StoresFields2(m, s) => Stored3(m) = s
           /\ StoresFields3(m, s) => Stored4(m) = s
           /\ StoresFields4(m, s) => Stored5(m) = s
           /\ StoresFields5(m, s) => Stored(m) = s
<1>1. /\ m = [tag |-> m.tag, attrs |-> m.attrs, text |-> m.text,
              fields |-> [t \in DOMAIN m.fields |-> m.fields[t]], etree_element |-> m.etree_element]
      /\ s = [tag |-> m.tag, attrs |-> m.attrs, text |-> m.text,
              fields |-> [t \in DOMAIN m.fields |-> s.fields[t]], etree_element |-> None]
  BY DEF Drops, IsModel
<1> DEFINE G == [t \in DOMAIN m.fields |-> s.fields[t]]
           F == [t \in DOMAIN m.fields |-> m.fields[t]]
           mt == m.tag
           ma == m.attrs
           mx == m.text
           mk == m.etree_element
<1>2. /\ m = [tag |-> mt, attrs |-> ma, text |-> mx, fields |-> F, etree_element |-> mk]
      /\ s = [tag |-> mt, attrs |-> ma, text |-> mx, fields |-> G, etree_element |-> None]
  BY <1>1
<1>3. ASSUME StoresFields0(m, s)
      PROVE  Stored1(m) = s
  <2> DEFINE X == [t \in DOMAIN m.fields |-> [j \in DOMAIN m.fields[t] |-> Stored0(m.fields[t][j])]]
  <2>1. X = G
    BY <1>3 DEF StoresFields0, Stores0
  <2>2. Stored1(m) = [m EXCEPT !.etree_element = None, !.fields = X]
    BY DEF Stored1, StoredBy
  <2> HIDE DEF G, X, F, mt, ma, mx, mk
  <2> QED
    BY <1>2, <2>1, <2>2
<1>4. ASSUME StoresFields1(m, s)
      PROVE  Stored2(m) = s
  <2> DEFINE X == [t \in DOMAIN m.fields |-> [j \in DOMAIN m.fields[t] |-> Stored1(m.fields[t][j])]]
  <2>1. X = G
    BY <1>4 DEF StoresFields1, Stores1
  <2>2. Stored2(m) = [m EXCEPT !.etree_element = None, !.fields = X]
    BY DEF Stored2, StoredBy
  <2> HIDE DEF G, X, F, mt, ma, mx, mk
  <2> QED
    BY <1>2, <2>1, <2>2
<1>5. ASSUME StoresFields2(m, s)
      PROVE  Stored3(m) = s
  <2> DEFINE X == [t \in DOMAIN m.fields |-> [j \in DOMAIN m.fields[t] |-> Stored2(m.fields[t][j])]]
  <2>1. X = G
    BY <1>5 DEF StoresFields2, Stores2
  <2>2. Stored3(m) = [m EXCEPT !.etree_element = None, !.fields = X]
    BY DEF Stored3, StoredBy
  <2> HIDE DEF G, X, F, mt, ma, mx, mk
  <2> QED
    BY <1>2, <2>1, <2>2
<1>6. ASSUME StoresFields3(m, s)
      PROVE  Stored4(m) = s
  <2> DEFINE X == [t \in DOMAIN m.fields |-> [j \in DOMAIN m.fields[t] |-> Stored3(m.fields[t][j])]]
  <2>1. X = G
    BY <1>6 DEF StoresFields3, Stores3
  <2>2. Stored4(m) = [m EXCEPT !.etree_element = None, !.fields = X]
    BY DEF Stored4, StoredBy
  <2> HIDE DEF G, X, F, mt, ma, mx, mk
  <2> QED
    BY <1>2, <2>1, <2>2
<1>7. ASSUME StoresFields4(m, s)
      PROVE  Stored5(m) = s
  <2> DEFINE X == [t \in DOMAIN m.fields |-> [j \in DOMAIN m.fields[t] |-> Stored4(m.fields[t][j])]]
  <2>1. X = G
    BY <1>7 DEF StoresFields4, Stores4
  <2>2. Stored5(m) = [m EXCEPT !.etree_element = None, !.fields = X]
    BY DEF Stored5, StoredBy
  <2> HIDE DEF G, X, F, mt, ma, mx, mk
  <2> QED
    BY <1>2, <2>1, <2>2
<1>8. ASSUME StoresFields5(m, s)
      PROVE  Stored(m) = s
  <2> DEFINE X == [t \in DOMAIN m.fields |-> [j \in DOMAIN m.fields[t] |-> Stored5(m.fields[t][j])]]
  <2>1. X = G
    BY <1>8 DEF StoresFields5, Stores5
  <2>2. Stored(m) = [m EXCEPT !.etree_element = None, !.fields = X]
    BY DEF Stored, StoredBy
  <2> HIDE DEF G, X, F, mt, ma, mx, mk
  <2> QED
    BY <1>2, <2>1, <2>2
<1> QED
  BY <1>3, <1>4, <1>5, <1>6, <1>7, <1>8

\* A model without fields.
LEMMA StoredLeafModel ==
    ASSUME NEW e, NEW kept, FieldTags(e.tag) = {}
    PROVE  /\ Stored0(LeafModel(e, kept)) = LeafModel(e, FALSE)
           /\ Stored1(LeafModel(e, kept)) = LeafModel(e, FALSE)
           /\ Stored4(LeafModel(e, kept)) = LeafModel(e, FALSE)
           /\ Stored5(LeafModel(e, kept)) = LeafModel(e, FALSE)
<1> DEFINE m == LeafModel(e, kept)
<1>1. m.fields = [t \in {} |-> <<>>]
  BY DEF LeafModel, Kept, Model
<1>2. [m EXCEPT !.etree_element = None] = LeafModel(e, FALSE)
  BY DEF LeafModel, Kept, Model
<1> HIDE DEF m
<1>3. /\ Stored0(m) = [m EXCEPT !.etree_element = None]
      /\ Stored1(m) = [m EXCEPT !.etree_element = None]
      /\ Stored4(m) = [m EXCEPT !.etree_element = None]
      /\ Stored5(m) = [m EXCEPT !.etree_element = None]
  BY <1>1, StoredLeaf
<1> QED
  BY <1>2, <1>3 DEF m

\* The parts of the models of a ds:Reference and its Transforms.
LEMMA TransformsParts ==
    ASSUME NEW e, NEW k
    PROVE  LET m == TransformsModel(e, k)
           IN  /\ IsModel(m)
               /\ m.tag = "Transforms" /\ m.attrs = AttrsOf("Transforms", e.attrs) /\ m.text = None
               /\ DOMAIN m.fields = {"Transform"}
               /\ m.fields["Transform"] = [j \in DOMAIN ChildrenOf(e, "Transform") |->
                                              LeafModel(ChildrenOf(e, "Transform")[j], k)]
               /\ m.etree_element = IF k THEN e ELSE None
<1> DEFINE u == [j \in DOMAIN ChildrenOf(e, "Transform") |-> LeafModel(ChildrenOf(e, "Transform")[j], k)]
           f == [Transform |-> u]
           m == TransformsModel(e, k)
<1>1. m = Kept(Model("Transforms", e.attrs, None, f), e, k)
  BY DEF TransformsModel
<1> HIDE DEF u
<1>2. FieldOf(f, "Transform") = u
  BY DEF FieldOf
<1> HIDE DEF m, f
<1>3. /\ IsModel(m)
      /\ m.tag = "Transforms" /\ m.attrs = AttrsOf("Transforms", e.attrs) /\ m.text = None
      /\ DOMAIN m.fields = FieldTags("Transforms")
      /\ \A t \in FieldTags("Transforms") : m.fields[t] = FieldOf(f, t)
      /\ m.etree_element = IF k THEN e ELSE None
  BY <1>1, ModelParts
<1>4. DOMAIN m.fields = {"Transform"} /\ m.fields["Transform"] = u
  BY <1>2, <1>3, ReferenceTags
<1> QED
  BY <1>3, <1>4 DEF m, u

\* The model of one of the fields.
FieldModel(e, t, k) ==
    IF t = "Transforms" THEN TransformsModel(Child(e, t), k) ELSE LeafModel(Child(e, t), k)

\* The parts of the model of a ds:Reference.
LEMMA ReferenceParts ==
    ASSUME NEW e, NEW k
    PROVE  LET m == ReferenceModel(e, k)
           IN  /\ IsModel(m)
               /\ m.tag = "Reference" /\ m.attrs = AttrsOf("Reference", e.attrs) /\ m.text = None
               /\ DOMAIN m.fields = ReferenceFields
               /\ \A t \in ReferenceFields : m.fields[t] = <<FieldModel(e, t, k)>>
               /\ m.etree_element = IF k THEN e ELSE None
<1> DEFINE f == [Transforms |-> <<TransformsModel(Child(e, "Transforms"), k)>>,
                 DigestMethod |-> <<LeafModel(Child(e, "DigestMethod"), k)>>,
                 DigestValue |-> <<LeafModel(Child(e, "DigestValue"), k)>>]
           m == ReferenceModel(e, k)
<1>1. m = Kept(Model("Reference", e.attrs, None, f), e, k)
  BY DEF ReferenceModel
<1>2. ASSUME NEW t \in ReferenceFields
      PROVE  FieldOf(f, t) = <<FieldModel(e, t, k)>>
  <2>1. CASE t = "Transforms"
    BY <2>1 DEF FieldOf, FieldModel
  <2>2. CASE t = "DigestMethod"
    BY <2>2 DEF FieldOf, FieldModel
  <2>3. CASE t = "DigestValue"
    BY <2>3 DEF FieldOf, FieldModel
  <2> QED
    BY <2>1, <2>2, <2>3 DEF ReferenceFields
<1> HIDE DEF m, f
<1>3. /\ IsModel(m)
      /\ m.tag = "Reference" /\ m.attrs = AttrsOf("Reference", e.attrs) /\ m.text = None
      /\ DOMAIN m.fields = FieldTags("Reference")
      /\ \A t \in FieldTags("Reference") : m.fields[t] = FieldOf(f, t)
      /\ m.etree_element = IF k THEN e ELSE None
  BY <1>1, ModelParts
<1>4. FieldTags("Reference") = ReferenceFields
  BY ReferenceTags DEF ReferenceFields
<1> QED
  BY <1>2, <1>3, <1>4 DEF m

\* The models of transforms come back from JSON without their elements.
LEMMA StoredTransforms ==
    ASSUME NEW e, NEW kept,
           \A j \in DOMAIN ChildrenOf(e, "Transform") : ChildrenOf(e, "Transform")[j].tag = "Transform"
    PROVE  /\ Stored5(TransformsModel(e, kept)) = TransformsModel(e, FALSE)
           /\ Stored1(TransformsModel(e, kept)) = TransformsModel(e, FALSE)
<1> DEFINE c == ChildrenOf(e, "Transform")
           u(k) == [j \in DOMAIN c |-> LeafModel(c[j], k)]
           m == TransformsModel(e, kept)
           s == TransformsModel(e, FALSE)
<1>1. \A j \in DOMAIN c : /\ Stored4(LeafModel(c[j], kept)) = LeafModel(c[j], FALSE)
                          /\ Stored0(LeafModel(c[j], kept)) = LeafModel(c[j], FALSE)
  BY StoredLeafModel, ReferenceTags
<1>2. Stores4(u(kept), u(FALSE)) /\ Stores0(u(kept), u(FALSE))
  <2> HIDE DEF c
  <2> QED
    BY <1>1 DEF Stores4, Stores0
<1>3. /\ IsModel(m) /\ m.tag = "Transforms" /\ m.attrs = AttrsOf("Transforms", e.attrs) /\ m.text = None
      /\ DOMAIN m.fields = {"Transform"} /\ m.fields["Transform"] = u(kept)
  BY TransformsParts
<1>4. /\ IsModel(s) /\ s.tag = "Transforms" /\ s.attrs = AttrsOf("Transforms", e.attrs) /\ s.text = None
      /\ DOMAIN s.fields = {"Transform"} /\ s.fields["Transform"] = u(FALSE) /\ s.etree_element = None
  <2> DEFINE no == FALSE
             n == TransformsModel(e, no)
  <2>1. no = FALSE
    OBVIOUS
  <2> HIDE DEF no
  <2>2. /\ IsModel(n) /\ n.tag = "Transforms" /\ n.attrs = AttrsOf("Transforms", e.attrs) /\ n.text = None
        /\ DOMAIN n.fields = {"Transform"} /\ n.fields["Transform"] = u(no)
        /\ n.etree_element = IF no THEN e ELSE None
    BY TransformsParts
  <2> HIDE DEF n, u
  <2>3. n.etree_element = None
    BY <2>1, <2>2
  <2> QED
    BY <2>2, <2>3 DEF n, no
<1> HIDE DEF m, s, u
<1>5. Drops(m, s)
  BY <1>3, <1>4 DEF Drops
<1>6. StoresFields4(m, s) /\ StoresFields0(m, s)
  BY <1>2, <1>3, <1>4 DEF StoresFields4, StoresFields0
<1>7. Stored5(m) = s /\ Stored1(m) = s
  BY <1>5, <1>6, StoredModel
<1> QED
  BY <1>7 DEF m, s

\* The model of a ds:Reference comes back from JSON as it was, without the
\* elements it was read of.
LEMMA StoredReference ==
    ASSUME NEW e, NEW kept, Shape(e)
    PROVE  /\ Stored(ReferenceModel(e, kept)) = ReferenceModel(e, FALSE)
           /\ Stored2(ReferenceModel(e, kept)) = ReferenceModel(e, FALSE)
<1> DEFINE m == ReferenceModel(e, kept)
           s == ReferenceModel(e, FALSE)
<1>1. \A t \in ReferenceFields :
         /\ Stored5(FieldModel(e, t, kept)) = FieldModel(e, t, FALSE)
         /\ Stored1(FieldModel(e, t, kept)) = FieldModel(e, t, FALSE)
  <2>1. \A j \in DOMAIN ChildrenOf(Child(e, "Transforms"), "Transform") :
           ChildrenOf(Child(e, "Transforms"), "Transform")[j].tag = "Transform"
    BY DEF Shape, Transforms, Child
  <2>2. /\ Stored5(FieldModel(e, "Transforms", kept)) = FieldModel(e, "Transforms", FALSE)
        /\ Stored1(FieldModel(e, "Transforms", kept)) = FieldModel(e, "Transforms", FALSE)
    BY <2>1, StoredTransforms DEF FieldModel
  <2>3. \A t \in {"DigestMethod", "DigestValue"} : FieldTags(Child(e, t).tag) = {}
    BY ReferenceTags DEF Shape, ReferenceFields
  <2>4. \A t \in {"DigestMethod", "DigestValue"} :
           /\ Stored5(FieldModel(e, t, kept)) = FieldModel(e, t, FALSE)
           /\ Stored1(FieldModel(e, t, kept)) = FieldModel(e, t, FALSE)
    BY <2>3, StoredLeafModel DEF FieldModel
  <2> QED
    BY <2>2, <2>4 DEF ReferenceFields
<1>2. /\ IsModel(m) /\ m.tag = "Reference" /\ m.attrs = AttrsOf("Reference", e.attrs) /\ m.text = None
      /\ DOMAIN m.fields = ReferenceFields
      /\ \A t \in ReferenceFields : m.fields[t] = <<FieldModel(e, t, kept)>>
  BY ReferenceParts
<1>3. /\ IsModel(s) /\ s.tag = "Reference" /\ s.attrs = AttrsOf("Reference", e.attrs) /\ s.text = None
      /\ DOMAIN s.fields = ReferenceFields /\ s.etree_element = None
      /\ \A t \in ReferenceFields : s.fields[t] = <<FieldModel(e, t, FALSE)>>
  <2> DEFINE no == FALSE
             n == ReferenceModel(e, no)
  <2>1. no = FALSE
    OBVIOUS
  <2> HIDE DEF no
  <2>2. /\ IsModel(n) /\ n.tag = "Reference" /\ n.attrs = AttrsOf("Reference", e.attrs) /\ n.text = None
        /\ DOMAIN n.fields = ReferenceFields /\ n.etree_element = IF no THEN e ELSE None
        /\ \A t \in ReferenceFields : n.fields[t] = <<FieldModel(e, t, no)>>
    BY ReferenceParts
  <2> HIDE DEF n
  <2>3. n.etree_element = None
    BY <2>1, <2>2
  <2> QED
    BY <2>2, <2>3 DEF n, no
<1> HIDE DEF m, s
<1>4. Drops(m, s)
  BY <1>2, <1>3 DEF Drops
<1>5. \A t \in ReferenceFields :
         /\ Stores5(<<FieldModel(e, t, kept)>>, <<FieldModel(e, t, FALSE)>>)
         /\ Stores1(<<FieldModel(e, t, kept)>>, <<FieldModel(e, t, FALSE)>>)
  BY <1>1, StoresFacts
<1>6. StoresFields5(m, s) /\ StoresFields1(m, s)
  BY <1>2, <1>3, <1>5 DEF StoresFields5, StoresFields1
<1>7. Stored(m) = s /\ Stored2(m) = s
  BY <1>4, <1>6, StoredModel
<1> QED
  BY <1>7 DEF m, s

-----------------------------------------------------------------------------
(* The models of a signal *)

\* The parts of a model made in code.
LEMMA MadeParts ==
    ASSUME NEW tag, NEW a, NEW text, NEW f
    PROVE  LET m == Model(tag, a, text, f)
           IN  /\ IsModel(m)
               /\ m.tag = tag /\ m.attrs = AttrsOf(tag, a) /\ m.text = text
               /\ DOMAIN m.fields = FieldTags(tag)
               /\ \A t \in FieldTags(tag) : m.fields[t] = FieldOf(f, t)
               /\ m.etree_element = None
<1> DEFINE A == AttrsOf(tag, a)
           F == [t \in FieldTags(tag) |-> FieldOf(f, t)]
           m == Model(tag, a, text, f)
<1>1. m = [tag |-> tag, attrs |-> A, text |-> text, fields |-> F, etree_element |-> None]
  BY DEF Model, FieldOf, AttrsOf
<1>2. DOMAIN F = FieldTags(tag) /\ \A t \in FieldTags(tag) : F[t] = FieldOf(f, t)
  OBVIOUS
<1>3. F = [t \in DOMAIN F |-> F[t]]
  OBVIOUS
<1> HIDE DEF m, A, F
<1>4. m.tag = tag /\ m.attrs = A /\ m.text = text /\ m.fields = F /\ m.etree_element = None
  BY <1>1
<1>5. [t \in DOMAIN m.fields |-> m.fields[t]] = F
  BY <1>3, <1>4
<1>6. IsModel(m)
  BY <1>1, <1>4, <1>5 DEF IsModel
<1> QED
  BY <1>2, <1>4, <1>6 DEF m, A

\* The classes that are made with a text alone.
TextTags == {"Timestamp", "MessageId", "RefToMessageId", "Description", "ErrorDetail"}

ReceiptModel(references) ==
    Model("Receipt", <<>>, None,
          [NonRepudiationInformation |-> <<NonRepudiationInformation(references)>>])

ErrorAttributes(m) ==
    LET code == Codes[Base[m.parse_error.class]]
    IN  [category |-> TextOf(<<code.category>>),
         errorCode |-> TextOf(<<code.error_code>>),
         refToMessageInError |-> IF m.id = Empty THEN None ELSE m.id,
         severity |-> TextOf(<<code.severity>>),
         shortDescription |-> TextOf(<<code.short_description>>)]

ErrorModel(m) ==
    Model("Error", ErrorAttributes(m), None,
          [Description |-> <<TextModel("Description", TextOf(<<m.parse_error.class>>))>>,
           ErrorDetail |-> <<TextModel("ErrorDetail", m.parse_error.detail)>>])

\* The parts of the models of a signal.
LEMMA TextParts ==
    ASSUME NEW tag \in TextTags, NEW text
    PROVE  LET m == TextModel(tag, text)
           IN  /\ IsModel(m) /\ m.tag = tag /\ m.attrs = AttrsOf(tag, <<>>) /\ m.text = text
               /\ DOMAIN m.fields = {} /\ m.etree_element = None
<1>1. FieldTags(tag) = {}
  BY SignalTags DEF TextTags
<1> QED
  BY <1>1, MadeParts DEF TextModel

InfoTags == {"Timestamp", "MessageId", "RefToMessageId"}

\* What a MessageInfo has in its fields.
InfoField(now, ref, t) ==
    CASE t = "Timestamp" -> <<TextModel("Timestamp", now)>>
      [] t = "MessageId" -> <<TextModel("MessageId", TextOf(<<"own-id">>))>>
      [] t = "RefToMessageId" -> ref

\* The parts of an eb:MessageInfo.
LEMMA InfoParts ==
    ASSUME NEW now, NEW ref
    PROVE  LET m == MessageInfo(now, ref)
           IN  /\ IsModel(m) /\ m.tag = "MessageInfo" /\ m.attrs = AttrsOf("MessageInfo", <<>>)
               /\ m.text = None /\ m.etree_element = None
               /\ DOMAIN m.fields = InfoTags
               /\ \A t \in InfoTags : m.fields[t] = InfoField(now, ref, t)
<1> DEFINE f == [Timestamp |-> <<TextModel("Timestamp", now)>>,
                 MessageId |-> <<TextModel("MessageId", TextOf(<<"own-id">>))>>,
                 RefToMessageId |-> ref]
           m == MessageInfo(now, ref)
<1>1. m = Model("MessageInfo", <<>>, None, f)
  BY DEF MessageInfo
<1>2. ASSUME NEW t \in InfoTags
      PROVE  FieldOf(f, t) = InfoField(now, ref, t)
  <2>1. CASE t = "Timestamp"
    BY <2>1 DEF FieldOf, InfoField
  <2>2. CASE t = "MessageId"
    BY <2>2 DEF FieldOf, InfoField
  <2>3. CASE t = "RefToMessageId"
    BY <2>3 DEF FieldOf, InfoField
  <2> QED
    BY <2>1, <2>2, <2>3 DEF InfoTags
<1>3. FieldTags("MessageInfo") = InfoTags
  BY SignalTags DEF InfoTags
<1> HIDE DEF f, m
<1> QED
  BY <1>1, <1>2, <1>3, MadeParts DEF m

\* The parts of an ebbp:MessagePartNRInformation.
LEMMA PartParts ==
    ASSUME NEW r
    PROVE  LET m == MessagePartNRInformation(r)
           IN  /\ IsModel(m) /\ m.tag = "MessagePartNRInformation"
               /\ m.attrs = AttrsOf("MessagePartNRInformation", <<>>)
               /\ m.text = None /\ m.etree_element = None
               /\ DOMAIN m.fields = {"Reference"} /\ m.fields["Reference"] = <<r>>
<1> DEFINE f == [Reference |-> <<r>>]
           m == MessagePartNRInformation(r)
<1>1. m = Model("MessagePartNRInformation", <<>>, None, f)
  BY DEF MessagePartNRInformation
<1>2. FieldOf(f, "Reference") = <<r>>
  BY DEF FieldOf
<1>3. FieldTags("MessagePartNRInformation") = {"Reference"}
  BY SignalTags
<1> HIDE DEF f, m
<1> QED
  BY <1>1, <1>2, <1>3, MadeParts DEF m

\* The parts of an ebbp:NonRepudiationInformation.
LEMMA InformationParts ==
    ASSUME NEW refs
    PROVE  LET m == NonRepudiationInformation(refs)
           IN  /\ IsModel(m) /\ m.tag = "NonRepudiationInformation"
               /\ m.attrs = AttrsOf("NonRepudiationInformation", <<>>)
               /\ m.text = None /\ m.etree_element = None
               /\ DOMAIN m.fields = {"MessagePartNRInformation"}
               /\ m.fields["MessagePartNRInformation"]
                  = [i \in DOMAIN refs |-> MessagePartNRInformation(refs[i])]
<1> DEFINE u == [i \in DOMAIN refs |-> MessagePartNRInformation(refs[i])]
           f == [MessagePartNRInformation |-> u]
           m == NonRepudiationInformation(refs)
<1>1. m = Model("NonRepudiationInformation", <<>>, None, f)
  BY DEF NonRepudiationInformation
<1> HIDE DEF u
<1>2. FieldOf(f, "MessagePartNRInformation") = u
  BY DEF FieldOf
<1>3. FieldTags("NonRepudiationInformation") = {"MessagePartNRInformation"}
  BY SignalTags
<1> HIDE DEF f, m
<1>4. /\ IsModel(m) /\ m.tag = "NonRepudiationInformation"
      /\ m.attrs = AttrsOf("NonRepudiationInformation", <<>>)
      /\ m.text = None /\ m.etree_element = None
      /\ DOMAIN m.fields = {"MessagePartNRInformation"} /\ m.fields["MessagePartNRInformation"] = u
  BY <1>1, <1>2, <1>3, MadeParts
<1> QED
  BY <1>4 DEF m, u

\* The parts of an eb:Receipt.
LEMMA ReceiptParts ==
    ASSUME NEW refs
    PROVE  LET m == ReceiptModel(refs)
           IN  /\ IsModel(m) /\ m.tag = "Receipt" /\ m.attrs = AttrsOf("Receipt", <<>>)
               /\ m.text = None /\ m.etree_element = None
               /\ DOMAIN m.fields = {"NonRepudiationInformation"}
               /\ m.fields["NonRepudiationInformation"] = <<NonRepudiationInformation(refs)>>
<1> DEFINE f == [NonRepudiationInformation |-> <<NonRepudiationInformation(refs)>>]
           m == ReceiptModel(refs)
<1>1. m = Model("Receipt", <<>>, None, f)
  BY DEF ReceiptModel
<1>2. FieldOf(f, "NonRepudiationInformation") = <<NonRepudiationInformation(refs)>>
  BY DEF FieldOf
<1>3. FieldTags("Receipt") = {"NonRepudiationInformation"}
  BY SignalTags
<1> HIDE DEF f, m
<1> QED
  BY <1>1, <1>2, <1>3, MadeParts DEF m

\* The parts of an eb:Error.
LEMMA ErrorParts ==
    ASSUME NEW msg
    PROVE  LET m == ErrorModel(msg)
           IN  /\ IsModel(m) /\ m.tag = "Error" /\ m.attrs = AttrsOf("Error", ErrorAttributes(msg))
               /\ m.text = None /\ m.etree_element = None
               /\ DOMAIN m.fields = {"Description", "ErrorDetail"}
               /\ m.fields["Description"] = <<TextModel("Description", TextOf(<<msg.parse_error.class>>))>>
               /\ m.fields["ErrorDetail"] = <<TextModel("ErrorDetail", msg.parse_error.detail)>>
<1> DEFINE d == <<TextModel("Description", TextOf(<<msg.parse_error.class>>))>>
           x == <<TextModel("ErrorDetail", msg.parse_error.detail)>>
           f == [Description |-> d, ErrorDetail |-> x]
           m == ErrorModel(msg)
<1>1. m = Model("Error", ErrorAttributes(msg), None, f)
  BY DEF ErrorModel
<1> HIDE DEF d, x
<1>2. FieldOf(f, "Description") = d /\ FieldOf(f, "ErrorDetail") = x
  BY DEF FieldOf
<1>3. FieldTags("Error") = {"Description", "ErrorDetail"}
  BY SignalTags
<1> HIDE DEF f, m
<1>4. /\ IsModel(m) /\ m.tag = "Error" /\ m.attrs = AttrsOf("Error", ErrorAttributes(msg))
      /\ m.text = None /\ m.etree_element = None
      /\ DOMAIN m.fields = {"Description", "ErrorDetail"}
      /\ m.fields["Description"] = d /\ m.fields["ErrorDetail"] = x
  BY <1>1, <1>2, <1>3, MadeParts
<1> QED
  BY <1>4 DEF m, d, x

SignalTagSet == {"MessageInfo", "PullRequest", "Receipt", "Error"}

\* The signal with a MessageInfo and with a receipt or an error.
SignalModel(info, receipts, errors) ==
    [tag |-> "SignalMessage", attrs |-> AttrsOf("SignalMessage", <<>>), text |-> None,
     fields |-> [t \in SignalTagSet |->
                    CASE t = "MessageInfo" -> <<info>>
                      [] t = "PullRequest" -> <<>>
                      [] t = "Receipt" -> receipts
                      [] t = "Error" -> errors],
     etree_element |-> None]

\* A signal is an eb:MessageInfo with a receipt or with an error.
LEMMA SignalsMade ==
    ASSUME NEW m, NEW now
    PROVE  /\ GetSuccessSignalMessage(m, now)
              = SignalModel(MessageInfo(now, <<TextModel("RefToMessageId", m.id)>>),
                            <<ReceiptModel(m.references)>>, <<>>)
           /\ GetErrorSignalMessage(m, now)
              = SignalModel(MessageInfo(now, GetErrorRefToMessageId(m)), <<>>, <<ErrorModel(m)>>)
<1> DEFINE i == MessageInfo(now, <<TextModel("RefToMessageId", m.id)>>)
           j == MessageInfo(now, GetErrorRefToMessageId(m))
           r == ReceiptModel(m.references)
           x == ErrorModel(m)
<1>1. /\ GetSuccessSignalMessage(m, now)
         = Model("SignalMessage", <<>>, None, [MessageInfo |-> <<i>>, Receipt |-> <<r>>])
      /\ GetErrorSignalMessage(m, now)
         = Model("SignalMessage", <<>>, None, [MessageInfo |-> <<j>>, Error |-> <<x>>])
  BY DEF GetSuccessSignalMessage, GetErrorSignalMessage, ReceiptModel, ErrorModel, ErrorAttributes
<1>2. FieldTags("SignalMessage") = SignalTagSet
  BY SignalTags DEF SignalTagSet
<1> HIDE DEF i, j, r, x
<1>3. Model("SignalMessage", <<>>, None, [MessageInfo |-> <<i>>, Receipt |-> <<r>>])
      = SignalModel(i, <<r>>, <<>>)
  BY <1>2 DEF Model, SignalModel, SignalTagSet, AttrsOf
<1>4. Model("SignalMessage", <<>>, None, [MessageInfo |-> <<j>>, Error |-> <<x>>])
      = SignalModel(j, <<>>, <<x>>)
  BY <1>2 DEF Model, SignalModel, SignalTagSet, AttrsOf
<1> QED
  BY <1>1, <1>3, <1>4 DEF i, j, r, x

-----------------------------------------------------------------------------
(* Storing a signal *)

\* A model of text alone comes back from JSON as it was.
LEMMA StoredText ==
    ASSUME NEW tag \in TextTags, NEW text
    PROVE  Stored4(TextModel(tag, text)) = TextModel(tag, text)
<1> DEFINE m == TextModel(tag, text)
<1>1. IsModel(m) /\ DOMAIN m.fields = {} /\ m.etree_element = None
  BY TextParts
<1> HIDE DEF m
<1>2. Drops(m, m) /\ StoresFields3(m, m)
  BY <1>1 DEF Drops, StoresFields3
<1>3. Stored4(m) = m
  BY <1>2, StoredModel
<1> QED
  BY <1>3 DEF m

\* No or one eb:RefToMessageId.
RefFields == {<<>>} \cup {<<TextModel("RefToMessageId", id)>> : id \in Text}

\* So does an eb:MessageInfo.
LEMMA StoredInfo ==
    ASSUME NEW now, NEW ref \in RefFields
    PROVE  Stored5(MessageInfo(now, ref)) = MessageInfo(now, ref)
<1> DEFINE m == MessageInfo(now, ref)
<1>1. /\ IsModel(m) /\ m.etree_element = None /\ DOMAIN m.fields = InfoTags
      /\ \A t \in InfoTags : m.fields[t] = InfoField(now, ref, t)
  BY InfoParts
<1>2. \A t \in InfoTags : Stores4(InfoField(now, ref, t), InfoField(now, ref, t))
  <2>1. \A tag \in TextTags : \A text : Stores4(<<TextModel(tag, text)>>, <<TextModel(tag, text)>>)
    BY StoredText, StoresFacts
  <2>2. Stores4(ref, ref)
    <3>1. CASE ref = <<>>
      BY <3>1, StoresFacts
    <3>2. CASE \E id \in Text : ref = <<TextModel("RefToMessageId", id)>>
      BY <2>1, <3>2 DEF TextTags
    <3> QED
      BY <3>1, <3>2 DEF RefFields
  <2>3. /\ Stores4(InfoField(now, ref, "Timestamp"), InfoField(now, ref, "Timestamp"))
        /\ Stores4(InfoField(now, ref, "MessageId"), InfoField(now, ref, "MessageId"))
        /\ Stores4(InfoField(now, ref, "RefToMessageId"), InfoField(now, ref, "RefToMessageId"))
    BY <2>1, <2>2 DEF InfoField, TextTags
  <2> QED
    BY <2>3 DEF InfoTags
<1> HIDE DEF m
<1>3. Drops(m, m) /\ StoresFields4(m, m)
  BY <1>1, <1>2 DEF Drops, StoresFields4
<1>4. Stored5(m) = m
  BY <1>3, StoredModel
<1> QED
  BY <1>4 DEF m

\* So does an eb:Error.
LEMMA StoredError ==
    ASSUME NEW msg
    PROVE  Stored5(ErrorModel(msg)) = ErrorModel(msg)
<1> DEFINE m == ErrorModel(msg)
           d == TextModel("Description", TextOf(<<msg.parse_error.class>>))
           x == TextModel("ErrorDetail", msg.parse_error.detail)
<1>1. /\ IsModel(m) /\ m.etree_element = None /\ DOMAIN m.fields = {"Description", "ErrorDetail"}
      /\ m.fields["Description"] = <<d>> /\ m.fields["ErrorDetail"] = <<x>>
  BY ErrorParts
<1>2. Stored4(d) = d /\ Stored4(x) = x
  BY StoredText DEF TextTags
<1> HIDE DEF m, d, x
<1>3. Stores4(<<d>>, <<d>>) /\ Stores4(<<x>>, <<x>>)
  BY <1>2, StoresFacts
<1>4. Drops(m, m) /\ StoresFields4(m, m)
  BY <1>1, <1>3 DEF Drops, StoresFields4
<1>5. Stored5(m) = m
  BY <1>4, StoredModel
<1> QED
  BY <1>5 DEF m

\* A receipt for references is stored as one for the references stored.
LEMMA StoredReceipt ==
    ASSUME NEW refs, NEW kept, DOMAIN kept = DOMAIN refs,
           \A i \in DOMAIN refs : Stored2(refs[i]) = kept[i]
    PROVE  Stored5(ReceiptModel(refs)) = ReceiptModel(kept)
<1>1. ASSUME NEW i \in DOMAIN refs
      PROVE  Stored3(MessagePartNRInformation(refs[i])) = MessagePartNRInformation(kept[i])
  <2> DEFINE m == MessagePartNRInformation(refs[i])
             s == MessagePartNRInformation(kept[i])
  <2>1. /\ IsModel(m) /\ m.tag = "MessagePartNRInformation" /\ m.text = None
        /\ m.attrs = AttrsOf("MessagePartNRInformation", <<>>)
        /\ DOMAIN m.fields = {"Reference"} /\ m.fields["Reference"] = <<refs[i]>>
    BY PartParts
  <2>2. /\ IsModel(s) /\ s.tag = "MessagePartNRInformation" /\ s.text = None
        /\ s.attrs = AttrsOf("MessagePartNRInformation", <<>>) /\ s.etree_element = None
        /\ DOMAIN s.fields = {"Reference"} /\ s.fields["Reference"] = <<kept[i]>>
    BY PartParts
  <2>3. Stores2(<<refs[i]>>, <<kept[i]>>)
    BY StoresFacts
  <2> HIDE DEF m, s
  <2>4. Drops(m, s) /\ StoresFields2(m, s)
    BY <2>1, <2>2, <2>3 DEF Drops, StoresFields2
  <2>5. Stored3(m) = s
    BY <2>4, StoredModel
  <2> QED
    BY <2>5 DEF m, s
<1>2. Stored4(NonRepudiationInformation(refs)) = NonRepudiationInformation(kept)
  <2> DEFINE m == NonRepudiationInformation(refs)
             s == NonRepudiationInformation(kept)
             u == [i \in DOMAIN refs |-> MessagePartNRInformation(refs[i])]
             v == [i \in DOMAIN kept |-> MessagePartNRInformation(kept[i])]
  <2>1. /\ IsModel(m) /\ m.tag = "NonRepudiationInformation" /\ m.text = None
        /\ m.attrs = AttrsOf("NonRepudiationInformation", <<>>)
        /\ DOMAIN m.fields = {"MessagePartNRInformation"} /\ m.fields["MessagePartNRInformation"] = u
    BY InformationParts
  <2>2. /\ IsModel(s) /\ s.tag = "NonRepudiationInformation" /\ s.text = None
        /\ s.attrs = AttrsOf("NonRepudiationInformation", <<>>) /\ s.etree_element = None
        /\ DOMAIN s.fields = {"MessagePartNRInformation"} /\ s.fields["MessagePartNRInformation"] = v
    BY InformationParts
  <2>3. Stores3(u, v)
    BY <1>1 DEF Stores3
  <2> HIDE DEF m, s, u, v
  <2>4. Drops(m, s) /\ StoresFields3(m, s)
    BY <2>1, <2>2, <2>3 DEF Drops, StoresFields3
  <2>5. Stored4(m) = s
    BY <2>4, StoredModel
  <2> QED
    BY <2>5 DEF m, s
<1> DEFINE m == ReceiptModel(refs)
           s == ReceiptModel(kept)
           u == NonRepudiationInformation(refs)
           v == NonRepudiationInformation(kept)
<1>3. /\ IsModel(m) /\ m.tag = "Receipt" /\ m.text = None /\ m.attrs = AttrsOf("Receipt", <<>>)
      /\ DOMAIN m.fields = {"NonRepudiationInformation"} /\ m.fields["NonRepudiationInformation"] = <<u>>
  BY ReceiptParts
<1>4. /\ IsModel(s) /\ s.tag = "Receipt" /\ s.text = None /\ s.attrs = AttrsOf("Receipt", <<>>)
      /\ s.etree_element = None
      /\ DOMAIN s.fields = {"NonRepudiationInformation"} /\ s.fields["NonRepudiationInformation"] = <<v>>
  BY ReceiptParts
<1>5. Stores4(<<u>>, <<v>>)
  BY <1>2, StoresFacts
<1> HIDE DEF m, s, u, v
<1>6. Drops(m, s) /\ StoresFields4(m, s)
  BY <1>3, <1>4, <1>5 DEF Drops, StoresFields4
<1>7. Stored5(m) = s
  BY <1>6, StoredModel
<1> QED
  BY <1>7 DEF m, s

\* The parts of a signal.
LEMMA SignalModelParts ==
    ASSUME NEW info, NEW receipts, NEW errors
    PROVE  LET m == SignalModel(info, receipts, errors)
           IN  /\ IsModel(m) /\ m.tag = "SignalMessage" /\ m.text = None
               /\ m.attrs = AttrsOf("SignalMessage", <<>>) /\ m.etree_element = None
               /\ DOMAIN m.fields = SignalTagSet
               /\ m.fields["MessageInfo"] = <<info>> /\ m.fields["PullRequest"] = <<>>
               /\ m.fields["Receipt"] = receipts /\ m.fields["Error"] = errors
<1> DEFINE val(t) == CASE t = "MessageInfo" -> <<info>>
                       [] t = "PullRequest" -> <<>>
                       [] t = "Receipt" -> receipts
                       [] t = "Error" -> errors
           F == [t \in SignalTagSet |-> val(t)]
           m == SignalModel(info, receipts, errors)
<1>1. m = [tag |-> "SignalMessage", attrs |-> AttrsOf("SignalMessage", <<>>), text |-> None,
           fields |-> F, etree_element |-> None]
  BY DEF SignalModel
<1>2. /\ DOMAIN F = SignalTagSet /\ F["MessageInfo"] = <<info>> /\ F["PullRequest"] = <<>>
      /\ F["Receipt"] = receipts /\ F["Error"] = errors
  BY DEF SignalTagSet
<1>3. F = [t \in DOMAIN F |-> F[t]]
  <2> HIDE DEF val
  <2> QED
    OBVIOUS
<1> HIDE DEF m, F
<1>4. /\ m.tag = "SignalMessage" /\ m.attrs = AttrsOf("SignalMessage", <<>>) /\ m.text = None
      /\ m.fields = F /\ m.etree_element = None
  BY <1>1
<1>5. [t \in DOMAIN m.fields |-> m.fields[t]] = F
  BY <1>3, <1>4
<1>6. IsModel(m)
  BY <1>1, <1>4, <1>5 DEF IsModel
<1> QED
  BY <1>2, <1>4, <1>6 DEF m

\* A signal comes back from JSON with its content as it comes back.
LEMMA StoredSignal ==
    ASSUME NEW info, NEW r1, NEW r2, NEW x,
           Stored5(info) = info, Stores5(r1, r2), Stores5(x, x)
    PROVE  Stored(SignalModel(info, r1, x)) = SignalModel(info, r2, x)
<1> DEFINE m == SignalModel(info, r1, x)
           s == SignalModel(info, r2, x)
<1>1. /\ IsModel(m) /\ m.tag = "SignalMessage" /\ m.text = None
      /\ m.attrs = AttrsOf("SignalMessage", <<>>)
      /\ DOMAIN m.fields = SignalTagSet
      /\ m.fields["MessageInfo"] = <<info>> /\ m.fields["PullRequest"] = <<>>
      /\ m.fields["Receipt"] = r1 /\ m.fields["Error"] = x
  BY SignalModelParts
<1>2. /\ IsModel(s) /\ s.tag = "SignalMessage" /\ s.text = None
      /\ s.attrs = AttrsOf("SignalMessage", <<>>) /\ s.etree_element = None
      /\ DOMAIN s.fields = SignalTagSet
      /\ s.fields["MessageInfo"] = <<info>> /\ s.fields["PullRequest"] = <<>>
      /\ s.fields["Receipt"] = r2 /\ s.fields["Error"] = x
  BY SignalModelParts
<1>3. Stores5(<<info>>, <<info>>) /\ Stores5(<<>>, <<>>)
  BY StoresFacts
<1> HIDE DEF m, s
<1>4. Drops(m, s)
  BY <1>1, <1>2 DEF Drops
<1>5. StoresFields5(m, s)
  BY <1>1, <1>2, <1>3 DEF StoresFields5, SignalTagSet
<1>6. Stored(m) = s
  BY <1>4, <1>5, StoredModel
<1> QED
  BY <1>6 DEF m, s

-----------------------------------------------------------------------------
(* Dumping *)

\* The elements of a field as dumping, on the level of the field, makes them.
Dumps0(u, v) == [j \in DOMAIN u |-> Dump0(u[j])] = v
Dumps1(u, v) == [j \in DOMAIN u |-> Dump1(u[j])] = v
Dumps2(u, v) == [j \in DOMAIN u |-> Dump2(u[j])] = v
Dumps3(u, v) == [j \in DOMAIN u |-> Dump3(u[j])] = v
Dumps4(u, v) == [j \in DOMAIN u |-> Dump4(u[j])] = v
Dumps5(u, v) == [j \in DOMAIN u |-> Dump5(u[j])] = v

\* A field that is empty or holds one model, dumped.
LEMMA DumpsFacts ==
    ASSUME NEW x, NEW y
    PROVE  /\ Dumps0(<<>>, <<>>) /\ (Dump0(x) = y => Dumps0(<<x>>, <<y>>))
           /\ Dumps1(<<>>, <<>>) /\ (Dump1(x) = y => Dumps1(<<x>>, <<y>>))
           /\ Dumps2(<<>>, <<>>) /\ (Dump2(x) = y => Dumps2(<<x>>, <<y>>))
           /\ Dumps3(<<>>, <<>>) /\ (Dump3(x) = y => Dumps3(<<x>>, <<y>>))
           /\ Dumps4(<<>>, <<>>) /\ (Dump4(x) = y => Dumps4(<<x>>, <<y>>))
           /\ Dumps5(<<>>, <<>>) /\ (Dump5(x) = y => Dumps5(<<x>>, <<y>>))
<1>1. Dumps0(<<>>, <<>>) /\ (Dump0(x) = y => Dumps0(<<x>>, <<y>>))
  BY DEF Dumps0
<1>2. Dumps1(<<>>, <<>>) /\ (Dump1(x) = y => Dumps1(<<x>>, <<y>>))
  BY DEF Dumps1
<1>3. Dumps2(<<>>, <<>>) /\ (Dump2(x) = y => Dumps2(<<x>>, <<y>>))
  BY DEF Dumps2
<1>4. Dumps3(<<>>, <<>>) /\ (Dump3(x) = y => Dumps3(<<x>>, <<y>>))
  BY DEF Dumps3
<1>5. Dumps4(<<>>, <<>>) /\ (Dump4(x) = y => Dumps4(<<x>>, <<y>>))
  BY DEF Dumps4
<1>6. Dumps5(<<>>, <<>>) /\ (Dump5(x) = y => Dumps5(<<x>>, <<y>>))
  BY DEF Dumps5
<1> QED
  BY <1>1, <1>2, <1>3, <1>4, <1>5, <1>6

DumpsFields0(m, fs) == \A i \in DOMAIN fs : Dumps0(m.fields[Fields(m.tag)[i].tag], fs[i])
DumpsFields1(m, fs) == \A i \in DOMAIN fs : Dumps1(m.fields[Fields(m.tag)[i].tag], fs[i])
DumpsFields2(m, fs) == \A i \in DOMAIN fs : Dumps2(m.fields[Fields(m.tag)[i].tag], fs[i])
DumpsFields3(m, fs) == \A i \in DOMAIN fs : Dumps3(m.fields[Fields(m.tag)[i].tag], fs[i])
DumpsFields4(m, fs) == \A i \in DOMAIN fs : Dumps4(m.fields[Fields(m.tag)[i].tag], fs[i])
DumpsFields5(m, fs) == \A i \in DOMAIN fs : Dumps5(m.fields[Fields(m.tag)[i].tag], fs[i])

\* The element of a model whose fields are dumped to the sequences fs.
ElementOf(m, fs) == Element(m.tag, DumpedAttributes(m), TextDumped(m), FlattenSeq(fs))

\* A model is dumped as its attributes, its text and, in the order of the
\* fields of its class, what its fields are dumped as.
LEMMA DumpModel ==
    ASSUME NEW m, WildcardContent(m) = <<>>,
           NEW S, NEW fs \in Seq(Seq(S)), DOMAIN fs = DOMAIN Fields(m.tag)
    PROVE  /\ DumpsFields0(m, fs) => Dump1(m) = ElementOf(m, fs)
           /\ DumpsFields1(m, fs) => Dump2(m) = ElementOf(m, fs)
           /\ DumpsFields2(m, fs) => Dump3(m) = ElementOf(m, fs)
           /\ DumpsFields3(m, fs) => Dump4(m) = ElementOf(m, fs)
           /\ DumpsFields4(m, fs) => Dump5(m) = ElementOf(m, fs)
           /\ DumpsFields5(m, fs) => Dump(m) = ElementOf(m, fs)
<1>1. FlattenSeq(fs) \o <<>> = FlattenSeq(fs)
  BY FlattenType, ConcatEmptySeq
<1>2. fs = [i \in DOMAIN fs |-> fs[i]]
  OBVIOUS
<1>3. ASSUME DumpsFields0(m, fs)
      PROVE  Dump1(m) = ElementOf(m, fs)
  <2> DEFINE X == [i \in DOMAIN Fields(m.tag) |->
                      LET models == m.fields[Fields(m.tag)[i].tag]
                      IN  [j \in DOMAIN models |-> Dump0(models[j])]]
  <2>1. X = fs
    BY <1>2, <1>3 DEF DumpsFields0, Dumps0
  <2>2. Dump1(m) = Element(m.tag, DumpedAttributes(m), TextDumped(m), FlattenSeq(X) \o WildcardContent(m))
    BY DEF Dump1, DumpBy, TextDumped
  <2> HIDE DEF X
  <2> QED
    BY <1>1, <2>1, <2>2 DEF ElementOf
<1>4. ASSUME DumpsFields1(m, fs)
      PROVE  Dump2(m) = ElementOf(m, fs)
  <2> DEFINE X == [i \in DOMAIN Fields(m.tag) |->
                      LET models == m.fields[Fields(m.tag)[i].tag]
                      IN  [j \in DOMAIN models |-> Dump1(models[j])]]
  <2>1. X = fs
    BY <1>2, <1>4 DEF DumpsFields1, Dumps1
  <2>2. Dump2(m) = Element(m.tag, DumpedAttributes(m), TextDumped(m), FlattenSeq(X) \o WildcardContent(m))
    BY DEF Dump2, DumpBy, TextDumped
  <2> HIDE DEF X
  <2> QED
    BY <1>1, <2>1, <2>2 DEF ElementOf
<1>5. ASSUME DumpsFields2(m, fs)
      PROVE  Dump3(m) = ElementOf(m, fs)
  <2> DEFINE X == [i \in DOMAIN Fields(m.tag) |->
                      LET models == m.fields[Fields(m.tag)[i].tag]
                      IN  [j \in DOMAIN models |-> Dump2(models[j])]]
  <2>1. X = fs
    BY <1>2, <1>5 DEF DumpsFields2, Dumps2
  <2>2. Dump3(m) = Element(m.tag, DumpedAttributes(m), TextDumped(m), FlattenSeq(X) \o WildcardContent(m))
    BY DEF Dump3, DumpBy, TextDumped
  <2> HIDE DEF X
  <2> QED
    BY <1>1, <2>1, <2>2 DEF ElementOf
<1>6. ASSUME DumpsFields3(m, fs)
      PROVE  Dump4(m) = ElementOf(m, fs)
  <2> DEFINE X == [i \in DOMAIN Fields(m.tag) |->
                      LET models == m.fields[Fields(m.tag)[i].tag]
                      IN  [j \in DOMAIN models |-> Dump3(models[j])]]
  <2>1. X = fs
    BY <1>2, <1>6 DEF DumpsFields3, Dumps3
  <2>2. Dump4(m) = Element(m.tag, DumpedAttributes(m), TextDumped(m), FlattenSeq(X) \o WildcardContent(m))
    BY DEF Dump4, DumpBy, TextDumped
  <2> HIDE DEF X
  <2> QED
    BY <1>1, <2>1, <2>2 DEF ElementOf
<1>7. ASSUME DumpsFields4(m, fs)
      PROVE  Dump5(m) = ElementOf(m, fs)
  <2> DEFINE X == [i \in DOMAIN Fields(m.tag) |->
                      LET models == m.fields[Fields(m.tag)[i].tag]
                      IN  [j \in DOMAIN models |-> Dump4(models[j])]]
  <2>1. X = fs
    BY <1>2, <1>7 DEF DumpsFields4, Dumps4
  <2>2. Dump5(m) = Element(m.tag, DumpedAttributes(m), TextDumped(m), FlattenSeq(X) \o WildcardContent(m))
    BY DEF Dump5, DumpBy, TextDumped
  <2> HIDE DEF X
  <2> QED
    BY <1>1, <2>1, <2>2 DEF ElementOf
<1>8. ASSUME DumpsFields5(m, fs)
      PROVE  Dump(m) = ElementOf(m, fs)
  <2> DEFINE X == [i \in DOMAIN Fields(m.tag) |->
                      LET models == m.fields[Fields(m.tag)[i].tag]
                      IN  [j \in DOMAIN models |-> Dump5(models[j])]]
  <2>1. X = fs
    BY <1>2, <1>8 DEF DumpsFields5, Dumps5
  <2>2. Dump(m) = Element(m.tag, DumpedAttributes(m), TextDumped(m), FlattenSeq(X) \o WildcardContent(m))
    BY DEF Dump, DumpBy, TextDumped
  <2> HIDE DEF X
  <2> QED
    BY <1>1, <2>1, <2>2 DEF ElementOf
<1> QED
  BY <1>3, <1>4, <1>5, <1>6, <1>7, <1>8

\* The attributes that are left of those given.
KeptAttrs(tag, attrs) ==
    [a \in {b \in Attributes(tag) : b \in DOMAIN attrs /\ attrs[b] \notin {None, Empty}} |-> attrs[a]]

\* Attributes that are missing or empty are not dumped.
LEMMA DumpedAttrs ==
    ASSUME NEW m, NEW tag, NEW attrs, m.attrs = AttrsOf(tag, attrs)
    PROVE  DumpedAttributes(m) = KeptAttrs(tag, attrs)
<1> DEFINE A == AttrsOf(tag, attrs)
<1>1. DOMAIN A = Attributes(tag)
      /\ \A a \in Attributes(tag) : A[a] = IF a \in DOMAIN attrs THEN attrs[a] ELSE None
  BY DEF AttrsOf
<1> HIDE DEF A
<1>2. {b \in DOMAIN A : A[b] \notin {None, Empty}}
      = {b \in Attributes(tag) : b \in DOMAIN attrs /\ attrs[b] \notin {None, Empty}}
  BY <1>1
<1>3. [a \in {b \in DOMAIN A : A[b] \notin {None, Empty}} |-> A[a]] = KeptAttrs(tag, attrs)
  BY <1>1, <1>2 DEF KeptAttrs
<1>4. m.attrs = A
  BY DEF A
<1>5. {b \in DOMAIN m.attrs : m.attrs[b] \notin {None, Empty}} = {b \in DOMAIN A : A[b] \notin {None, Empty}}
  BY <1>4
<1> QED
  BY <1>3, <1>4, <1>5 DEF DumpedAttributes

-----------------------------------------------------------------------------
(* The XML of a signal *)

TransformXml(e, kept) ==
    Element("Transform", KeptAttrs("Transform", e.attrs), Empty, IF kept THEN e.children ELSE <<>>)

TransformsXml(e, kept) ==
    Element("Transforms", KeptAttrs("Transforms", e.attrs), Empty,
            [j \in DOMAIN ChildrenOf(e, "Transform") |-> TransformXml(ChildrenOf(e, "Transform")[j], kept)])

DigestMethodXml(e) == Element("DigestMethod", KeptAttrs("DigestMethod", e.attrs), Empty, <<>>)

DigestValueXml(e) == Element("DigestValue", KeptAttrs("DigestValue", e.attrs), Stripped(e.text), <<>>)

ReferenceXml(e, kept) ==
    Element("Reference", KeptAttrs("Reference", e.attrs), Empty,
            <<TransformsXml(Child(e, "Transforms"), kept), DigestMethodXml(Child(e, "DigestMethod")),
              DigestValueXml(Child(e, "DigestValue"))>>)

PartXml(e, kept) ==
    Element("MessagePartNRInformation", KeptAttrs("MessagePartNRInformation", <<>>), Empty,
            <<ReferenceXml(e, kept)>>)

InformationXml(refs, kept) ==
    Element("NonRepudiationInformation", KeptAttrs("NonRepudiationInformation", <<>>), Empty,
            [i \in DOMAIN refs |-> PartXml(refs[i], kept)])

ReceiptXml(refs, kept) ==
    Element("Receipt", KeptAttrs("Receipt", <<>>), Empty, <<InformationXml(refs, kept)>>)

TextXml(tag, text) == Element(tag, KeptAttrs(tag, <<>>), text, <<>>)

InfoXml(now, ref) ==
    Element("MessageInfo", KeptAttrs("MessageInfo", <<>>), Empty,
            Cat(<<TextXml("Timestamp", now), TextXml("MessageId", TextOf(<<"own-id">>))>>, ref))

ErrorXml(msg) ==
    Element("Error", KeptAttrs("Error", ErrorAttributes(msg)), Empty,
            <<TextXml("Description", TextOf(<<msg.parse_error.class>>)),
              TextXml("ErrorDetail", msg.parse_error.detail)>>)

SignalXml(info, content) ==
    Element("SignalMessage", KeptAttrs("SignalMessage", <<>>), Empty, <<info, content>>)

\* An element's parts.
LEMMA ElementParts ==
    ASSUME NEW tag, NEW attrs, NEW text, NEW children
    PROVE  LET x == Element(tag, attrs, text, children)
           IN  x.tag = tag /\ x.attrs = attrs /\ x.text = text /\ x.children = children
BY DEF Element

\* The parts of a model read of an element whose class has no fields.
LEMMA LeafParts ==
    ASSUME NEW e, NEW k
    PROVE  LET m == LeafModel(e, k)
           IN  /\ m.tag = e.tag /\ m.attrs = AttrsOf(e.tag, e.attrs) /\ m.text = TextRead(e)
               /\ m.etree_element = IF k THEN e ELSE None
BY ModelParts DEF LeafModel

\* A ds:Transform is dumped with its children while its model has its element.
LEMMA DumpTransform ==
    ASSUME NEW e \in Elements, e.tag = "Transform", NEW k \in BOOLEAN
    PROVE  Dump0(LeafModel(e, k)) = TransformXml(e, k)
<1> DEFINE m == LeafModel(e, k)
<1>1. /\ m.tag = "Transform" /\ m.attrs = AttrsOf("Transform", e.attrs) /\ m.text = None
      /\ m.etree_element = IF k THEN e ELSE None
  <2>1. TextRead(e) = None
    BY ReferenceSchema DEF TextRead, Class
  <2> QED
    BY <2>1, LeafParts
<1> HIDE DEF m
<1>2. e.children \in Seq(Elements) /\ e # None
  BY BindingAssumption
<1>3. Fields(m.tag) = <<>> /\ Schema[m.tag].wildcard /\ FieldTags(m.tag) = {}
  BY <1>1, ReferenceSchema, ReferenceTags DEF Fields, Class
<1>4. WildcardContent(m) = IF k THEN e.children ELSE <<>>
  <2>1. CASE k
    <3>1. m.etree_element = e
      BY <1>1, <2>1
    <3> DEFINE tags == {e.children[i].tag : i \in DOMAIN e.children} \ FieldTags(m.tag)
    <3>2. \A i \in DOMAIN e.children : e.children[i].tag \in tags
      BY <1>3
    <3> HIDE DEF tags
    <3>3. Tagged(e.children, tags) = e.children
      BY <1>2, <3>2, TaggedAll
    <3>4. WildcardContent(m) = Tagged(e.children, tags)
      BY <1>2, <1>3, <3>1 DEF WildcardContent, tags
    <3> QED
      BY <2>1, <3>3, <3>4
  <2>2. CASE ~k
    BY <1>1, <2>2, NoWildcards
  <2> QED
    BY <2>1, <2>2
<1>5. WildcardContent(m) \in Seq(Elements)
  BY <1>2, <1>4, EmptySeq
<1>6. Dump0(m) = Element(m.tag, DumpedAttributes(m), TextDumped(m), WildcardContent(m))
  BY <1>3, <1>5, DumpLeaf
<1>7. DumpedAttributes(m) = KeptAttrs("Transform", e.attrs) /\ TextDumped(m) = Empty
  BY <1>1, DumpedAttrs DEF TextDumped
<1> QED
  BY <1>1, <1>4, <1>6, <1>7 DEF TransformXml, m

\* A digest method or value is dumped as the element it was read of, up to
\* attributes and white space.
LEMMA DumpDigest ==
    ASSUME NEW e \in Elements, NEW k \in BOOLEAN
    PROVE  /\ e.tag = "DigestMethod" => Dump1(LeafModel(e, k)) = DigestMethodXml(e)
           /\ e.tag = "DigestValue" => Dump1(LeafModel(e, k)) = DigestValueXml(e)
<1> DEFINE m == LeafModel(e, k)
<1>1. /\ m.tag = e.tag /\ m.attrs = AttrsOf(e.tag, e.attrs) /\ m.text = TextRead(e)
  BY LeafParts
<1> HIDE DEF m
<1>2. e.tag \in {"DigestMethod", "DigestValue"} =>
         Dump1(m) = Element(e.tag, KeptAttrs(e.tag, e.attrs), TextDumped(m), <<>>)
  <2> SUFFICES ASSUME e.tag \in {"DigestMethod", "DigestValue"}
               PROVE  Dump1(m) = Element(e.tag, KeptAttrs(e.tag, e.attrs), TextDumped(m), <<>>)
    OBVIOUS
  <2>1. Fields(m.tag) = <<>> /\ ~Schema[m.tag].wildcard
    BY <1>1, ReferenceSchema DEF Fields, Class, TextClass
  <2>2. WildcardContent(m) = <<>> /\ WildcardContent(m) \in Seq(Elements)
    BY <2>1, NoWildcards, EmptySeq
  <2>3. Dump1(m) = Element(m.tag, DumpedAttributes(m), TextDumped(m), WildcardContent(m))
    BY <2>1, <2>2, DumpLeaf
  <2>4. DumpedAttributes(m) = KeptAttrs(e.tag, e.attrs)
    BY <1>1, DumpedAttrs
  <2> QED
    BY <1>1, <2>2, <2>3, <2>4
<1>3. e.tag = "DigestMethod" => TextDumped(m) = Empty
  BY <1>1, ReferenceSchema DEF TextDumped, TextRead, Class
<1>4. e.tag = "DigestValue" => TextDumped(m) = Stripped(e.text)
  <2>1. Stripped(e.text) \in Text
    BY BindingAssumption DEF Stripped, TextOf, Text
  <2>2. Stripped(e.text) # None
    BY <2>1, BindingAssumption
  <2> QED
    BY <1>1, <2>2, ReferenceSchema DEF TextDumped, TextRead, Class, TextClass
<1> QED
  BY <1>2, <1>3, <1>4 DEF DigestMethodXml, DigestValueXml, m

\* A model with one field.
LEMMA DumpOneField ==
    ASSUME NEW m, WildcardContent(m) = <<>>, NEW S, NEW v \in Seq(S),
           Len(Fields(m.tag)) = 1, DOMAIN Fields(m.tag) = {1}, NEW u,
           u = m.fields[Fields(m.tag)[1].tag]
    PROVE  /\ Dumps0(u, v) => Dump1(m) = Element(m.tag, DumpedAttributes(m), TextDumped(m), v)
           /\ Dumps1(u, v) => Dump2(m) = Element(m.tag, DumpedAttributes(m), TextDumped(m), v)
           /\ Dumps2(u, v) => Dump3(m) = Element(m.tag, DumpedAttributes(m), TextDumped(m), v)
           /\ Dumps3(u, v) => Dump4(m) = Element(m.tag, DumpedAttributes(m), TextDumped(m), v)
           /\ Dumps4(u, v) => Dump5(m) = Element(m.tag, DumpedAttributes(m), TextDumped(m), v)
<1> DEFINE fs == <<v>>
<1>1. fs \in Seq(Seq(S)) /\ Len(fs) = 1 /\ DOMAIN fs = {1} /\ fs[1] = v
  OBVIOUS
<1> HIDE DEF fs
<1>2. ElementOf(m, fs) = Element(m.tag, DumpedAttributes(m), TextDumped(m), v)
  BY <1>1, FlattenShort DEF ElementOf
<1>3. Dumps0(u, v) => Dump1(m) = ElementOf(m, fs)
  <2>1. Dumps0(u, v) => DumpsFields0(m, fs)
    BY <1>1 DEF DumpsFields0
  <2> QED
    BY <1>1, <2>1, DumpModel
<1>4. Dumps1(u, v) => Dump2(m) = ElementOf(m, fs)
  <2>1. Dumps1(u, v) => DumpsFields1(m, fs)
    BY <1>1 DEF DumpsFields1
  <2> QED
    BY <1>1, <2>1, DumpModel
<1>5. Dumps2(u, v) => Dump3(m) = ElementOf(m, fs)
  <2>1. Dumps2(u, v) => DumpsFields2(m, fs)
    BY <1>1 DEF DumpsFields2
  <2> QED
    BY <1>1, <2>1, DumpModel
<1>6. Dumps3(u, v) => Dump4(m) = ElementOf(m, fs)
  <2>1. Dumps3(u, v) => DumpsFields3(m, fs)
    BY <1>1 DEF DumpsFields3
  <2> QED
    BY <1>1, <2>1, DumpModel
<1>7. Dumps4(u, v) => Dump5(m) = ElementOf(m, fs)
  <2>1. Dumps4(u, v) => DumpsFields4(m, fs)
    BY <1>1 DEF DumpsFields4
  <2> QED
    BY <1>1, <2>1, DumpModel
<1> QED
  BY <1>2, <1>3, <1>4, <1>5, <1>6, <1>7

\* The dump of ds:Transforms has the content of each ds:Transform where the
\* model still has its element.
LEMMA DumpTransforms ==
    ASSUME NEW e, NEW k \in BOOLEAN,
           ChildrenOf(e, "Transform") \in Seq({x \in Elements : x.tag = "Transform"})
    PROVE  Dump1(TransformsModel(e, k)) = TransformsXml(e, k)
<1> DEFINE m == TransformsModel(e, k)
           c == ChildrenOf(e, "Transform")
           u == [j \in DOMAIN c |-> LeafModel(c[j], k)]
           v == [j \in DOMAIN c |-> TransformXml(c[j], k)]
           E == {x \in Elements : x.tag = "Transform"}
           S == {TransformXml(x, k) : x \in E}
<1>1. /\ m.tag = "Transforms" /\ m.attrs = AttrsOf("Transforms", e.attrs) /\ m.text = None
      /\ m.fields["Transform"] = u
  BY TransformsParts
<1>2. \A x \in E : x \in Elements /\ x.tag = "Transform"
  OBVIOUS
<1>3. \A x \in E : Dump0(LeafModel(x, k)) = TransformXml(x, k) /\ TransformXml(x, k) \in S
  BY <1>2, DumpTransform
<1>4. c \in Seq(E)
  OBVIOUS
<1> HIDE DEF c, E, S, m
<1>5. v \in Seq(S)
  BY <1>3, <1>4
<1>6. Dumps0(u, v)
  <2>1. \A j \in DOMAIN c : c[j] \in E
    BY <1>4
  <2>2. \A j \in DOMAIN c : Dump0(LeafModel(c[j], k)) = TransformXml(c[j], k)
    BY <1>3, <2>1
  <2> QED
    BY <2>2 DEF Dumps0
<1> HIDE DEF u
<1>7. /\ Fields(m.tag) = <<Field("Transform", "many")>> /\ ~Schema[m.tag].wildcard
  BY <1>1, ReferenceSchema DEF Fields, Class
<1>8. Len(Fields(m.tag)) = 1 /\ DOMAIN Fields(m.tag) = {1} /\ Fields(m.tag)[1].tag = "Transform"
  BY <1>7 DEF Field
<1>9. WildcardContent(m) = <<>>
  BY <1>7, NoWildcards
<1>10. u = m.fields[Fields(m.tag)[1].tag]
  BY <1>1, <1>8
<1>11. DumpedAttributes(m) = KeptAttrs("Transforms", e.attrs) /\ TextDumped(m) = Empty
  BY <1>1, DumpedAttrs DEF TextDumped
<1>12. TransformsXml(e, k) = Element("Transforms", KeptAttrs("Transforms", e.attrs), Empty, v)
  BY DEF TransformsXml, c
<1> HIDE DEF v
<1>13. Dump1(m) = Element(m.tag, DumpedAttributes(m), TextDumped(m), v)
  BY <1>5, <1>6, <1>8, <1>9, <1>10, DumpOneField
<1> QED
  BY <1>1, <1>11, <1>12, <1>13 DEF m

\* A ds:Reference the receiver accepted.
IsReference(e) == e \in Elements /\ e.tag = "Reference" /\ Valid(e)

\* The dump of a ds:Reference.
LEMMA DumpReference ==
    ASSUME NEW e, IsReference(e), NEW k \in BOOLEAN
    PROVE  Dump2(ReferenceModel(e, k)) = ReferenceXml(e, k)
<1> DEFINE m == ReferenceModel(e, k)
           a == TransformsXml(Child(e, "Transforms"), k)
           b == DigestMethodXml(Child(e, "DigestMethod"))
           c == DigestValueXml(Child(e, "DigestValue"))
           S == {a, b, c}
           s == <<a, b, c>>
           fs == [i \in DOMAIN s |-> <<s[i]>>]
<1>1. /\ Shape(e) /\ \A t \in ReferenceFields : Child(e, t) \in Elements /\ Child(e, t).tag = t
      /\ Transforms(e) \in Seq({x \in Elements : x.tag = "Transform"})
  BY ValidReference DEF IsReference, Shape
<1>2. /\ m.tag = "Reference" /\ m.attrs = AttrsOf("Reference", e.attrs) /\ m.text = None
      /\ \A t \in ReferenceFields : m.fields[t] = <<FieldModel(e, t, k)>>
  BY ReferenceParts
<1>3. Dump1(FieldModel(e, "Transforms", k)) = a
  <2>1. ChildrenOf(Child(e, "Transforms"), "Transform") \in Seq({x \in Elements : x.tag = "Transform"})
    BY <1>1 DEF Transforms, Child
  <2> QED
    BY <2>1, DumpTransforms DEF FieldModel
<1>4. Dump1(FieldModel(e, "DigestMethod", k)) = b /\ Dump1(FieldModel(e, "DigestValue", k)) = c
  BY <1>1, DumpDigest DEF FieldModel, ReferenceFields
<1> HIDE DEF m, a, b, c
<1>5. /\ s \in Seq(S) /\ DOMAIN s = {1, 2, 3} /\ s[1] = a /\ s[2] = b /\ s[3] = c
  OBVIOUS
<1>6. /\ fs \in Seq(Seq(S)) /\ DOMAIN fs = {1, 2, 3}
      /\ fs[1] = <<a>> /\ fs[2] = <<b>> /\ fs[3] = <<c>>
  <2>1. fs[1] = <<a>> /\ fs[2] = <<b>> /\ fs[3] = <<c>> /\ DOMAIN fs = {1, 2, 3}
    BY <1>5
  <2>2. a \in S /\ b \in S /\ c \in S
    OBVIOUS
  <2> HIDE DEF S
  <2>3. \A x \in S : <<x>> \in Seq(S)
    OBVIOUS
  <2>4. DOMAIN s = 1..3
    BY <1>5
  <2>5. fs \in [1..3 -> Seq(S)]
    BY <1>5, <2>2, <2>3, <2>4
  <2> QED
    BY <2>1, <2>5
<1>7. FlattenSeq(fs) = s
  <2> HIDE DEF s, S
  <2> QED
    BY <1>5, FlattenSingles
<1> HIDE DEF fs, S
<1>8. Fields(m.tag) = <<Field("Transforms", "one"), Field("DigestMethod", "one"),
                        Field("DigestValue", "one")>> /\ ~Schema[m.tag].wildcard
  BY <1>2, ReferenceSchema DEF Fields, Class
<1>9. /\ DOMAIN Fields(m.tag) = {1, 2, 3}
      /\ Fields(m.tag)[1].tag = "Transforms" /\ Fields(m.tag)[2].tag = "DigestMethod"
      /\ Fields(m.tag)[3].tag = "DigestValue"
  BY <1>8 DEF Field
<1>10. /\ Dumps1(m.fields["Transforms"], <<a>>) /\ Dumps1(m.fields["DigestMethod"], <<b>>)
       /\ Dumps1(m.fields["DigestValue"], <<c>>)
  BY <1>2, <1>3, <1>4, DumpsFacts DEF ReferenceFields
<1>11. DumpsFields1(m, fs)
  BY <1>6, <1>9, <1>10 DEF DumpsFields1
<1>12. WildcardContent(m) = <<>>
  BY <1>8, NoWildcards
<1>13. Dump2(m) = ElementOf(m, fs)
  BY <1>6, <1>9, <1>11, <1>12, DumpModel
<1>14. DumpedAttributes(m) = KeptAttrs("Reference", e.attrs) /\ TextDumped(m) = Empty
  BY <1>2, DumpedAttrs DEF TextDumped
<1>15. Dump2(m) = Element("Reference", KeptAttrs("Reference", e.attrs), Empty, s)
  BY <1>2, <1>7, <1>13, <1>14 DEF ElementOf
<1>16. ReferenceXml(e, k) = Element("Reference", KeptAttrs("Reference", e.attrs), Empty, s)
  BY DEF ReferenceXml, a, b, c
<1> QED
  BY <1>15, <1>16 DEF m

\* The models of the references of a message.
Models(refs, kept) == [i \in DOMAIN refs |-> ReferenceModel(refs[i], kept)]

AreReferences(refs) == refs \in Seq({e \in Elements : e.tag = "Reference" /\ Valid(e)})

\* The references of a message are a sequence of valid ds:Reference elements.
LEMMA ReferencesAre ==
    ASSUME NEW refs, AreReferences(refs)
    PROVE  /\ \A i \in DOMAIN refs : IsReference(refs[i])
           /\ Len(refs) \in Nat /\ DOMAIN refs = 1..Len(refs)
<1> DEFINE S == {e \in Elements : e.tag = "Reference" /\ Valid(e)}
<1>1. \A e \in S : IsReference(e)
  BY DEF IsReference
<1>2. refs \in Seq(S)
  BY DEF AreReferences
<1> HIDE DEF S
<1>3. \A i \in DOMAIN refs : refs[i] \in S
  BY <1>2
<1> QED
  BY <1>1, <1>2, <1>3, LenProperties

\* The dump of a model with one field, which holds one element or more.
LEMMA DumpPart ==
    ASSUME NEW e, IsReference(e), NEW k \in BOOLEAN
    PROVE  Dump3(MessagePartNRInformation(ReferenceModel(e, k))) = PartXml(e, k)
<1> DEFINE r == ReferenceModel(e, k)
           x == ReferenceXml(e, k)
           m == MessagePartNRInformation(r)
           u == <<r>>
           v == <<x>>
<1>1. /\ m.tag = "MessagePartNRInformation" /\ m.attrs = AttrsOf("MessagePartNRInformation", <<>>)
      /\ m.text = None /\ m.etree_element = None /\ m.fields["Reference"] = u
  BY PartParts
<1>2. Dumps2(u, v)
  BY DumpReference, DumpsFacts
<1> HIDE DEF m, x, r, u
<1>3. v \in Seq({x})
  OBVIOUS
<1>4. Fields(m.tag) = <<Field("Reference", "some")>>
  BY <1>1, SignalSchema DEF Fields, Class
<1>5. Len(Fields(m.tag)) = 1 /\ DOMAIN Fields(m.tag) = {1} /\ Fields(m.tag)[1].tag = "Reference"
  BY <1>4 DEF Field
<1>6. WildcardContent(m) = <<>>
  BY <1>1, NoWildcards
<1>7. DumpedAttributes(m) = KeptAttrs("MessagePartNRInformation", <<>>) /\ TextDumped(m) = Empty
  BY <1>1, DumpedAttrs DEF TextDumped
<1>8. u = m.fields[Fields(m.tag)[1].tag]
  BY <1>1, <1>5
<1>9. PartXml(e, k)
      = Element("MessagePartNRInformation", KeptAttrs("MessagePartNRInformation", <<>>), Empty, v)
  BY DEF PartXml, x
<1> HIDE DEF v
<1>10. Dump3(m) = Element(m.tag, DumpedAttributes(m), TextDumped(m), v)
  BY <1>2, <1>3, <1>5, <1>6, <1>8, DumpOneField
<1> QED
  BY <1>1, <1>7, <1>9, <1>10 DEF m, r

\* The dump of an ebbp:NonRepudiationInformation for those references.
LEMMA DumpInformation ==
    ASSUME NEW refs, AreReferences(refs), NEW k \in BOOLEAN
    PROVE  Dump4(NonRepudiationInformation(Models(refs, k))) = InformationXml(refs, k)
<1> DEFINE m == NonRepudiationInformation(Models(refs, k))
           u == [i \in DOMAIN Models(refs, k) |-> MessagePartNRInformation(Models(refs, k)[i])]
           v == [i \in DOMAIN refs |-> PartXml(refs[i], k)]
           S == {PartXml(refs[i], k) : i \in DOMAIN refs}
<1>1. /\ m.tag = "NonRepudiationInformation" /\ m.attrs = AttrsOf("NonRepudiationInformation", <<>>)
      /\ m.text = None /\ m.etree_element = None /\ m.fields["MessagePartNRInformation"] = u
  BY InformationParts
<1>2. \A i \in DOMAIN refs :
         Dump3(MessagePartNRInformation(ReferenceModel(refs[i], k))) = PartXml(refs[i], k)
  BY ReferencesAre, DumpPart
<1>3. u = [i \in DOMAIN refs |-> MessagePartNRInformation(ReferenceModel(refs[i], k))]
  BY DEF Models
<1> HIDE DEF m, u
<1>4. Dumps3(u, v)
  BY <1>2, <1>3 DEF Dumps3
<1>5. v \in Seq(S)
  <2>1. \A i \in DOMAIN refs : PartXml(refs[i], k) \in S
    OBVIOUS
  <2> HIDE DEF S
  <2>2. v \in [DOMAIN refs -> S]
    BY <2>1
  <2>3. Len(refs) \in Nat /\ DOMAIN refs = 1..Len(refs)
    BY ReferencesAre
  <2>4. v \in [1..Len(refs) -> S]
    BY <2>2, <2>3
  <2> HIDE DEF v
  <2> QED
    BY <2>3, <2>4
<1>6. Fields(m.tag) = <<Field("MessagePartNRInformation", "many")>>
  BY <1>1, SignalSchema DEF Fields, Class
<1>7. /\ Len(Fields(m.tag)) = 1 /\ DOMAIN Fields(m.tag) = {1}
      /\ Fields(m.tag)[1].tag = "MessagePartNRInformation"
  BY <1>6 DEF Field
<1>8. WildcardContent(m) = <<>>
  BY <1>1, NoWildcards
<1>9. DumpedAttributes(m) = KeptAttrs("NonRepudiationInformation", <<>>) /\ TextDumped(m) = Empty
  BY <1>1, DumpedAttrs DEF TextDumped
<1>10. u = m.fields[Fields(m.tag)[1].tag]
  BY <1>1, <1>7
<1>11. InformationXml(refs, k)
       = Element("NonRepudiationInformation", KeptAttrs("NonRepudiationInformation", <<>>), Empty, v)
  BY DEF InformationXml
<1> HIDE DEF v, S
<1>12. Dump4(m) = Element(m.tag, DumpedAttributes(m), TextDumped(m), v)
  BY <1>4, <1>5, <1>7, <1>8, <1>10, DumpOneField
<1> QED
  BY <1>1, <1>9, <1>11, <1>12 DEF m

\* The dump of an eb:Receipt for them.
LEMMA DumpReceipt ==
    ASSUME NEW refs, AreReferences(refs), NEW k \in BOOLEAN
    PROVE  Dump5(ReceiptModel(Models(refs, k))) = ReceiptXml(refs, k)
<1> DEFINE r == NonRepudiationInformation(Models(refs, k))
           x == InformationXml(refs, k)
           m == ReceiptModel(Models(refs, k))
           u == <<r>>
           v == <<x>>
<1>1. /\ m.tag = "Receipt" /\ m.attrs = AttrsOf("Receipt", <<>>)
      /\ m.text = None /\ m.etree_element = None /\ m.fields["NonRepudiationInformation"] = u
  BY ReceiptParts
<1>2. Dumps4(u, v)
  BY DumpInformation, DumpsFacts
<1> HIDE DEF m, x, r, u
<1>3. v \in Seq({x})
  OBVIOUS
<1>4. Fields(m.tag) = <<Field("NonRepudiationInformation", "optional")>>
  BY <1>1, SignalSchema DEF Fields, Class
<1>5. /\ Len(Fields(m.tag)) = 1 /\ DOMAIN Fields(m.tag) = {1}
      /\ Fields(m.tag)[1].tag = "NonRepudiationInformation"
  BY <1>4 DEF Field
<1>6. WildcardContent(m) = <<>>
  BY <1>1, NoWildcards
<1>7. DumpedAttributes(m) = KeptAttrs("Receipt", <<>>) /\ TextDumped(m) = Empty
  BY <1>1, DumpedAttrs DEF TextDumped
<1>8. u = m.fields[Fields(m.tag)[1].tag]
  BY <1>1, <1>5
<1>9. ReceiptXml(refs, k) = Element("Receipt", KeptAttrs("Receipt", <<>>), Empty, v)
  BY DEF ReceiptXml, x
<1> HIDE DEF v
<1>10. Dump5(m) = Element(m.tag, DumpedAttributes(m), TextDumped(m), v)
  BY <1>2, <1>3, <1>5, <1>6, <1>8, DumpOneField
<1> QED
  BY <1>1, <1>7, <1>9, <1>10 DEF m

\* The dump of a model of text alone.
LEMMA DumpText ==
    ASSUME NEW tag \in TextTags, NEW text, text # None
    PROVE  Dump4(TextModel(tag, text)) = TextXml(tag, text)
<1> DEFINE m == TextModel(tag, text)
<1>1. m.tag = tag /\ m.attrs = AttrsOf(tag, <<>>) /\ m.text = text /\ m.etree_element = None
  BY TextParts
<1> HIDE DEF m
<1>2. Fields(m.tag) = <<>>
  BY <1>1, SignalSchema DEF Fields, Class, TextClass, TextTags
<1>3. WildcardContent(m) = <<>> /\ WildcardContent(m) \in Seq(Elements)
  BY <1>1, NoWildcards, EmptySeq
<1>4. Dump4(m) = Element(m.tag, DumpedAttributes(m), TextDumped(m), WildcardContent(m))
  BY <1>2, <1>3, DumpLeaf
<1>5. DumpedAttributes(m) = KeptAttrs(tag, <<>>) /\ TextDumped(m) = text
  BY <1>1, DumpedAttrs DEF TextDumped
<1> QED
  BY <1>1, <1>3, <1>4, <1>5 DEF TextXml, m

-----------------------------------------------------------------------------
(* What is sent *)

\* A sequence of one element.
LEMMA OneOf ==
    ASSUME NEW S, NEW w \in S
    PROVE  <<w>> \in Seq(S) /\ <<w>> # <<>>
OBVIOUS

\* A text with one word.
LEMMA TextOfWord ==
    ASSUME NEW w \in STRING
    PROVE  /\ TextOf(<<w>>) \in Text /\ TextOf(<<w>>) # None /\ TextOf(<<w>>) # Empty
           /\ ~Blank(TextOf(<<w>>)) /\ Stripped(TextOf(<<w>>)) = TextOf(<<w>>)
<1>1. <<w>> \in Seq(STRING) /\ <<w>> # <<>>
  <2> DEFINE S == STRING
  <2>1. w \in S
    OBVIOUS
  <2> HIDE DEF S
  <2>2. <<w>> \in Seq(S) /\ <<w>> # <<>>
    BY <2>1, OneOf
  <2> QED
    BY <2>2 DEF S
<1> DEFINE s == <<w>>
<1> HIDE DEF s
<1>2. s \in Seq(STRING) /\ s # <<>>
  BY <1>1 DEF s
<1>3. TextOf(s) \in Text /\ TextOf(s).words = s
  BY <1>2 DEF TextOf, Text
<1>4. TextOf(s) # None
  BY <1>3, BindingAssumption
<1>5. TextOf(s) # Empty
  BY <1>2, <1>3 DEF Empty, TextOf
<1>6. ~Blank(TextOf(s)) /\ Stripped(TextOf(s)) = TextOf(s)
  BY <1>2, <1>3 DEF Blank, Stripped
<1> QED
  BY <1>3, <1>4, <1>5, <1>6 DEF s

\* The dump of an eb:MessageInfo.
LEMMA DumpInfo ==
    ASSUME NEW now, now # None, NEW ref, NEW c, NEW x \in {<<>>, <<c>>}, Dumps4(ref, x)
    PROVE  Dump5(MessageInfo(now, ref)) = InfoXml(now, x)
<1> DEFINE m == MessageInfo(now, ref)
           a == TextXml("Timestamp", now)
           b == TextXml("MessageId", TextOf(<<"own-id">>))
           S == {a, b, c}
           fs == <<<<a>>, <<b>>, x>>
<1>1. /\ m.tag = "MessageInfo" /\ m.attrs = AttrsOf("MessageInfo", <<>>)
      /\ m.text = None /\ m.etree_element = None
      /\ \A t \in InfoTags : m.fields[t] = InfoField(now, ref, t)
  BY InfoParts
<1>2. Dumps4(<<TextModel("Timestamp", now)>>, <<a>>)
  BY DumpText, DumpsFacts DEF TextTags
<1>3. Dumps4(<<TextModel("MessageId", TextOf(<<"own-id">>))>>, <<b>>)
  <2>1. "own-id" \in STRING
    BY WordsAssumption
  <2>2. TextOf(<<"own-id">>) # None
    BY <2>1, TextOfWord
  <2> QED
    BY <2>2, DumpText, DumpsFacts DEF TextTags
<1> HIDE DEF m, a, b
<1>4. /\ Dumps4(m.fields["Timestamp"], <<a>>) /\ Dumps4(m.fields["MessageId"], <<b>>)
      /\ Dumps4(m.fields["RefToMessageId"], x)
  BY <1>1, <1>2, <1>3 DEF InfoTags, InfoField
<1>5. a \in S /\ b \in S /\ c \in S
  OBVIOUS
<1> HIDE DEF S
<1>6. <<a>> \in Seq(S) /\ <<b>> \in Seq(S) /\ x \in Seq(S)
  <2>1. <<a>> \in Seq(S) /\ <<b>> \in Seq(S) /\ <<c>> \in Seq(S)
    BY <1>5, OneOf
  <2>2. <<>> \in Seq(S)
    OBVIOUS
  <2>3. CASE x = <<>>
    BY <2>1, <2>2, <2>3
  <2>4. CASE x = <<c>>
    BY <2>1, <2>4
  <2> QED
    BY <2>3, <2>4
<1>7. fs \in Seq(Seq(S)) /\ Len(fs) = 3 /\ DOMAIN fs = {1, 2, 3}
      /\ fs[1] = <<a>> /\ fs[2] = <<b>> /\ fs[3] = x
  <2> DEFINE T == Seq(S)
  <2>1. <<a>> \in T /\ <<b>> \in T /\ x \in T
    BY <1>6
  <2> HIDE DEF T
  <2>2. fs \in Seq(T)
    BY <2>1
  <2>3. fs \in Seq(Seq(S))
    BY <2>2 DEF T
  <2> QED
    BY <2>3
<1> HIDE DEF fs
<1>8. FlattenSeq(fs) = Cat(<<a, b>>, x)
  <2>1. FlattenSeq(fs) = Cat(Cat(<<a>>, <<b>>), x)
    BY <1>7, FlattenShort
  <2>2. Cat(<<a>>, <<b>>) = <<a, b>>
    BY <1>5, <1>6, CatFacts
  <2> QED
    BY <2>1, <2>2
<1>9. Fields(m.tag) = <<Field("Timestamp", "one"), Field("MessageId", "one"),
                        Field("RefToMessageId", "optional")>>
  BY <1>1, SignalSchema DEF Fields, Class
<1>10. /\ DOMAIN Fields(m.tag) = {1, 2, 3}
       /\ Fields(m.tag)[1].tag = "Timestamp" /\ Fields(m.tag)[2].tag = "MessageId"
       /\ Fields(m.tag)[3].tag = "RefToMessageId"
  BY <1>9 DEF Field
<1>11. DumpsFields4(m, fs)
  BY <1>4, <1>7, <1>10 DEF DumpsFields4
<1>12. WildcardContent(m) = <<>>
  BY <1>1, NoWildcards
<1>13. Dump5(m) = ElementOf(m, fs)
  BY <1>7, <1>10, <1>11, <1>12, DumpModel
<1>14. DumpedAttributes(m) = KeptAttrs("MessageInfo", <<>>) /\ TextDumped(m) = Empty
  BY <1>1, DumpedAttrs DEF TextDumped
<1>15. Dump5(m) = Element("MessageInfo", KeptAttrs("MessageInfo", <<>>), Empty, Cat(<<a, b>>, x))
  BY <1>1, <1>8, <1>13, <1>14 DEF ElementOf
<1> QED
  BY <1>15 DEF InfoXml, m, a, b

\* The error of a refused message, with the id read of it.
IsError(msg) ==
    /\ msg.parse_error.class \in ErrorClass
    /\ msg.parse_error.detail \in Text /\ ~Blank(msg.parse_error.detail)
    /\ msg.id \in Text

\* The dump of an eb:Error.
LEMMA DumpError ==
    ASSUME NEW msg, IsError(msg)
    PROVE  Dump5(ErrorModel(msg)) = ErrorXml(msg)
<1> DEFINE m == ErrorModel(msg)
           a == TextXml("Description", TextOf(<<msg.parse_error.class>>))
           b == TextXml("ErrorDetail", msg.parse_error.detail)
           S == {a, b}
           fs == <<<<a>>, <<b>>>>
<1>1. /\ m.tag = "Error" /\ m.attrs = AttrsOf("Error", ErrorAttributes(msg))
      /\ m.text = None /\ m.etree_element = None
      /\ m.fields["Description"] = <<TextModel("Description", TextOf(<<msg.parse_error.class>>))>>
      /\ m.fields["ErrorDetail"] = <<TextModel("ErrorDetail", msg.parse_error.detail)>>
  BY ErrorParts
<1>2. TextOf(<<msg.parse_error.class>>) # None
  <2>1. msg.parse_error.class \in STRING
    BY WordsAssumption DEF IsError
  <2> QED
    BY <2>1, TextOfWord
<1>3. msg.parse_error.detail # None
  BY BindingAssumption DEF IsError
<1>4. Dumps4(<<TextModel("Description", TextOf(<<msg.parse_error.class>>))>>, <<a>>)
  BY <1>2, DumpText, DumpsFacts DEF TextTags
<1>5. Dumps4(<<TextModel("ErrorDetail", msg.parse_error.detail)>>, <<b>>)
  BY <1>3, DumpText, DumpsFacts DEF TextTags
<1> HIDE DEF m, a, b
<1>6. Dumps4(m.fields["Description"], <<a>>) /\ Dumps4(m.fields["ErrorDetail"], <<b>>)
  BY <1>1, <1>4, <1>5
<1>7. a \in S /\ b \in S
  OBVIOUS
<1> HIDE DEF S
<1>8. <<a>> \in Seq(S) /\ <<b>> \in Seq(S)
  BY <1>7, OneOf
<1>9. fs \in Seq(Seq(S)) /\ Len(fs) = 2 /\ DOMAIN fs = {1, 2}
      /\ fs[1] = <<a>> /\ fs[2] = <<b>>
  <2> DEFINE T == Seq(S)
  <2>1. <<a>> \in T /\ <<b>> \in T
    BY <1>8
  <2> HIDE DEF T
  <2>2. fs \in Seq(T)
    BY <2>1
  <2>3. fs \in Seq(Seq(S))
    BY <2>2 DEF T
  <2> QED
    BY <2>3
<1> HIDE DEF fs
<1>10. FlattenSeq(fs) = <<a, b>>
  <2>1. FlattenSeq(fs) = Cat(<<a>>, <<b>>)
    BY <1>9, FlattenShort
  <2>2. Cat(<<a>>, <<b>>) = <<a, b>>
    BY <1>7, <1>8, CatFacts
  <2> QED
    BY <2>1, <2>2
<1>11. Fields(m.tag) = <<Field("Description", "optional"), Field("ErrorDetail", "optional")>>
  BY <1>1, SignalSchema DEF Fields, Class
<1>12. /\ DOMAIN Fields(m.tag) = {1, 2}
       /\ Fields(m.tag)[1].tag = "Description" /\ Fields(m.tag)[2].tag = "ErrorDetail"
  BY <1>11 DEF Field
<1>13. DumpsFields4(m, fs)
  BY <1>6, <1>9, <1>12 DEF DumpsFields4
<1>14. WildcardContent(m) = <<>>
  BY <1>1, NoWildcards
<1>15. Dump5(m) = ElementOf(m, fs)
  BY <1>9, <1>12, <1>13, <1>14, DumpModel
<1>16. DumpedAttributes(m) = KeptAttrs("Error", ErrorAttributes(msg)) /\ TextDumped(m) = Empty
  BY <1>1, DumpedAttrs DEF TextDumped
<1>17. Dump5(m) = Element("Error", KeptAttrs("Error", ErrorAttributes(msg)), Empty, <<a, b>>)
  BY <1>1, <1>10, <1>15, <1>16 DEF ElementOf
<1> QED
  BY <1>17 DEF ErrorXml, m, a, b

\* A signal with a receipt or an error is dumped to the two elements in it.
LEMMA DumpSignal ==
    ASSUME NEW info, NEW i, Dump5(info) = i, NEW r, NEW x, NEW c,
           \/ Dumps5(r, <<c>>) /\ x = <<>>
           \/ r = <<>> /\ Dumps5(x, <<c>>)
    PROVE  Dump(SignalModel(info, r, x)) = SignalXml(i, c)
<1> DEFINE m == SignalModel(info, r, x)
           S == {i, c}
           p == IF x = <<>> THEN <<c>> ELSE <<>>
           q == IF x = <<>> THEN <<>> ELSE <<c>>
           fs == <<<<i>>, <<>>, p, q>>
<1>1. /\ m.tag = "SignalMessage" /\ m.text = None
      /\ m.attrs = AttrsOf("SignalMessage", <<>>) /\ m.etree_element = None
      /\ m.fields["MessageInfo"] = <<info>> /\ m.fields["PullRequest"] = <<>>
      /\ m.fields["Receipt"] = r /\ m.fields["Error"] = x
  BY SignalModelParts
<1> HIDE DEF m
<1>2. Dumps5(<<info>>, <<i>>) /\ Dumps5(<<>>, <<>>)
  BY DumpsFacts
<1>3. Dumps5(r, p) /\ Dumps5(x, q)
  <2>1. CASE x = <<>>
    <3>1. Dumps5(r, <<c>>)
      <4>1. <<c>> # <<>>
        OBVIOUS
      <4>2. Dumps5(<<>>, <<c>>) => FALSE
        BY <4>1 DEF Dumps5
      <4> QED
        BY <2>1, <4>2
    <3> QED
      BY <1>2, <2>1, <3>1
  <2>2. CASE x # <<>>
    BY <1>2, <2>2
  <2> QED
    BY <2>1, <2>2
<1>4. i \in S /\ c \in S
  OBVIOUS
<1> HIDE DEF S
<1>5. <<i>> \in Seq(S) /\ <<c>> \in Seq(S) /\ <<>> \in Seq(S)
  <2>1. <<>> \in Seq(S)
    OBVIOUS
  <2> QED
    BY <1>4, <2>1, OneOf
<1>6. (p = <<c>> /\ q = <<>>) \/ (p = <<>> /\ q = <<c>>)
  OBVIOUS
<1>7. p \in Seq(S) /\ q \in Seq(S)
  BY <1>5, <1>6
<1> HIDE DEF p, q
<1>8. fs \in Seq(Seq(S)) /\ Len(fs) = 4 /\ DOMAIN fs = {1, 2, 3, 4}
      /\ fs[1] = <<i>> /\ fs[2] = <<>> /\ fs[3] = p /\ fs[4] = q
  <2> DEFINE T == Seq(S)
  <2>1. <<i>> \in T /\ <<>> \in T /\ p \in T /\ q \in T
    BY <1>5, <1>7
  <2> HIDE DEF T
  <2>2. fs \in Seq(T)
    BY <2>1
  <2>3. fs \in Seq(Seq(S))
    BY <2>2 DEF T
  <2> QED
    BY <2>3
<1> HIDE DEF fs
<1>9. FlattenSeq(fs) = <<i, c>>
  <2>1. FlattenSeq(fs) = Cat(Cat(Cat(<<i>>, <<>>), p), q)
    BY <1>8, FlattenShort
  <2>2. Cat(<<i>>, <<>>) = <<i>>
    BY <1>4, <1>5, CatFacts
  <2>3. Cat(<<i>>, <<c>>) = <<i, c>>
    BY <1>4, <1>5, CatFacts
  <2>4. Cat(<<i, c>>, <<>>) = <<i, c>>
    <3>1. <<i, c>> \in Seq(S)
      BY <1>4
    <3> DEFINE u == <<i, c>>
    <3> HIDE DEF u
    <3>2. u \in Seq(S)
      BY <3>1 DEF u
    <3>3. Cat(u, <<>>) = u
      BY <1>4, <3>2, CatFacts
    <3> QED
      BY <3>3 DEF u
  <2> QED
    BY <1>6, <2>1, <2>2, <2>3, <2>4
<1>10. Fields(m.tag) = <<Field("MessageInfo", "one"), Field("PullRequest", "optional"),
                         Field("Receipt", "optional"), Field("Error", "many")>>
  BY <1>1, SignalSchema DEF Fields, Class
<1>11. /\ DOMAIN Fields(m.tag) = {1, 2, 3, 4}
       /\ Fields(m.tag)[1].tag = "MessageInfo" /\ Fields(m.tag)[2].tag = "PullRequest"
       /\ Fields(m.tag)[3].tag = "Receipt" /\ Fields(m.tag)[4].tag = "Error"
  BY <1>10 DEF Field
<1>12. DumpsFields5(m, fs)
  BY <1>1, <1>2, <1>3, <1>8, <1>11 DEF DumpsFields5
<1>13. WildcardContent(m) = <<>>
  BY <1>1, NoWildcards
<1>14. Dump(m) = ElementOf(m, fs)
  BY <1>8, <1>11, <1>12, <1>13, DumpModel
<1>15. DumpedAttributes(m) = KeptAttrs("SignalMessage", <<>>) /\ TextDumped(m) = Empty
  BY <1>1, DumpedAttrs DEF TextDumped
<1>16. Dump(m) = Element("SignalMessage", KeptAttrs("SignalMessage", <<>>), Empty, <<i, c>>)
  BY <1>1, <1>9, <1>14, <1>15 DEF ElementOf
<1> QED
  BY <1>16 DEF SignalXml, m

\* The eb:RefToMessageId of an answer, as a model and as an element.
RefXml(id) == IF id = Empty THEN <<>> ELSE <<TextXml("RefToMessageId", id)>>

\* The receipt for references whose models have their elements or not.
SuccessModel(id, refs, kept, now) ==
    SignalModel(MessageInfo(now, <<TextModel("RefToMessageId", id)>>), <<ReceiptModel(Models(refs, kept))>>, <<>>)

SuccessXml(id, refs, kept, now) ==
    SignalXml(InfoXml(now, <<TextXml("RefToMessageId", id)>>), ReceiptXml(refs, kept))

FailureXml(msg, now) == SignalXml(InfoXml(now, RefXml(msg.id)), ErrorXml(msg))

\* What get_success_signal_message makes of a message.
LEMMA SuccessMade ==
    ASSUME NEW m, NEW refs, NEW k, m.references = Models(refs, k), NEW now
    PROVE  GetSuccessSignalMessage(m, now) = SuccessModel(m.id, refs, k, now)
BY SignalsMade DEF SuccessModel

\* The dump of the signal that acknowledges a message.
LEMMA DumpSuccess ==
    ASSUME NEW id \in Text, NEW refs, AreReferences(refs), NEW k \in BOOLEAN, NEW now \in Text
    PROVE  Dump(SuccessModel(id, refs, k, now)) = SuccessXml(id, refs, k, now)
<1> DEFINE ref == <<TextModel("RefToMessageId", id)>>
           c == TextXml("RefToMessageId", id)
           x == <<c>>
           info == MessageInfo(now, ref)
           i == InfoXml(now, x)
           r == <<ReceiptModel(Models(refs, k))>>
           d == ReceiptXml(refs, k)
<1>1. id # None /\ now # None
  BY BindingAssumption
<1>2. Dumps4(ref, x)
  BY <1>1, DumpText, DumpsFacts DEF TextTags
<1>3. Dumps5(r, <<d>>)
  BY DumpReceipt, DumpsFacts
<1>4. SuccessModel(id, refs, k, now) = SignalModel(info, r, <<>>)
      /\ SuccessXml(id, refs, k, now) = SignalXml(i, d)
  BY DEF SuccessModel, SuccessXml
<1> HIDE DEF ref, r, d
<1>5. x \in {<<>>, <<c>>}
  OBVIOUS
<1> HIDE DEF x, c
<1>6. Dump5(info) = i
  BY <1>1, <1>2, <1>5, DumpInfo
<1> HIDE DEF info, i
<1> QED
  BY <1>3, <1>4, <1>6, DumpSignal

\* The dump of the signal that refuses one.
LEMMA DumpFailure ==
    ASSUME NEW msg, IsError(msg), NEW now \in Text
    PROVE  Dump(GetErrorSignalMessage(msg, now)) = FailureXml(msg, now)
<1> DEFINE ref == GetErrorRefToMessageId(msg)
           c == TextXml("RefToMessageId", msg.id)
           x == RefXml(msg.id)
           info == MessageInfo(now, ref)
           i == InfoXml(now, x)
           r == <<ErrorModel(msg)>>
           d == ErrorXml(msg)
<1>1. msg.id # None /\ now # None
  BY BindingAssumption DEF IsError
<1>2. Dumps4(ref, x)
  <2>1. Dumps4(<<TextModel("RefToMessageId", msg.id)>>, <<c>>)
    BY <1>1, DumpText, DumpsFacts DEF TextTags
  <2>2. Dumps4(<<>>, <<>>)
    BY DumpsFacts
  <2> QED
    BY <2>1, <2>2 DEF RefXml, GetErrorRefToMessageId
<1>3. Dumps5(r, <<d>>)
  BY DumpError, DumpsFacts
<1>4. GetErrorSignalMessage(msg, now) = SignalModel(info, <<>>, r) /\ FailureXml(msg, now) = SignalXml(i, d)
  BY SignalsMade DEF FailureXml
<1>5. x \in {<<>>, <<c>>}
  BY DEF RefXml
<1> HIDE DEF ref, r, d, x, c
<1>6. Dump5(info) = i
  BY <1>1, <1>2, <1>5, DumpInfo
<1> HIDE DEF info, i
<1> QED
  BY <1>3, <1>4, <1>6, DumpSignal

\* Storing a receipt forgets the elements its references were read from,
\* storing an error forgets nothing.
LEMMA StoredSuccess ==
    ASSUME NEW id \in Text, NEW refs, AreReferences(refs), NEW k \in BOOLEAN, NEW now
    PROVE  Stored(SuccessModel(id, refs, k, now)) = SuccessModel(id, refs, FALSE, now)
<1> DEFINE ref == <<TextModel("RefToMessageId", id)>>
           info == MessageInfo(now, ref)
           no == FALSE
           u == Models(refs, k)
           v == Models(refs, no)
           r1 == <<ReceiptModel(u)>>
           r2 == <<ReceiptModel(v)>>
           e == <<>>
<1>1. ref \in RefFields
  BY DEF RefFields
<1> HIDE DEF ref
<1>2. Stored5(info) = info
  BY <1>1, StoredInfo
<1>3. \A i \in DOMAIN refs : Stored2(ReferenceModel(refs[i], k)) = ReferenceModel(refs[i], FALSE)
  BY ReferencesAre, ValidReference, StoredReference DEF IsReference
<1>4. DOMAIN v = DOMAIN u /\ \A i \in DOMAIN u : Stored2(u[i]) = v[i]
  BY <1>3 DEF Models
<1>5. SuccessModel(id, refs, FALSE, now) = SignalModel(info, r2, e)
      /\ SuccessModel(id, refs, k, now) = SignalModel(info, r1, e)
  BY DEF SuccessModel, ref
<1> HIDE DEF u, v, info
<1>6. Stored5(ReceiptModel(u)) = ReceiptModel(v)
  BY <1>4, StoredReceipt
<1>7. Stores5(r1, r2) /\ Stores5(e, e)
  BY <1>6, StoresFacts
<1> HIDE DEF r1, r2, e
<1>8. Stored(SignalModel(info, r1, e)) = SignalModel(info, r2, e)
  BY <1>2, <1>7, StoredSignal
<1> QED
  BY <1>5, <1>8

\* A signal that refuses a message comes back from JSON as it was.
LEMMA StoredFailure ==
    ASSUME NEW msg, IsError(msg), NEW now
    PROVE  Stored(GetErrorSignalMessage(msg, now)) = GetErrorSignalMessage(msg, now)
<1> DEFINE ref == GetErrorRefToMessageId(msg)
           info == MessageInfo(now, ref)
           x == <<ErrorModel(msg)>>
<1>1. ref \in RefFields
  BY DEF RefFields, GetErrorRefToMessageId, IsError
<1>2. GetErrorSignalMessage(msg, now) = SignalModel(info, <<>>, x)
  BY SignalsMade
<1>3. Stores5(x, x) /\ Stores5(<<>>, <<>>)
  BY StoredError, StoresFacts
<1> HIDE DEF ref, x
<1>4. Stored5(info) = info
  BY <1>1, StoredInfo
<1> QED
  BY <1>2, <1>3, <1>4, StoredSignal

-----------------------------------------------------------------------------
(* Validity *)

\* What is found for a field is accepted: as many as its cardinality allows,
\* all of them valid on the level of the field.
Takes0(found, card) ==
    /\ card \in {"one", "optional"} => Len(found) <= 1
    /\ card \in {"one", "some"} => Len(found) >= 1
    /\ \A j \in DOMAIN found : Valid0(found[j])

Takes1(found, card) ==
    /\ card \in {"one", "optional"} => Len(found) <= 1
    /\ card \in {"one", "some"} => Len(found) >= 1
    /\ \A j \in DOMAIN found : Valid1(found[j])

Takes2(found, card) ==
    /\ card \in {"one", "optional"} => Len(found) <= 1
    /\ card \in {"one", "some"} => Len(found) >= 1
    /\ \A j \in DOMAIN found : Valid2(found[j])

Takes3(found, card) ==
    /\ card \in {"one", "optional"} => Len(found) <= 1
    /\ card \in {"one", "some"} => Len(found) >= 1
    /\ \A j \in DOMAIN found : Valid3(found[j])

Takes4(found, card) ==
    /\ card \in {"one", "optional"} => Len(found) <= 1
    /\ card \in {"one", "some"} => Len(found) >= 1
    /\ \A j \in DOMAIN found : Valid4(found[j])

Takes5(found, card) ==
    /\ card \in {"one", "optional"} => Len(found) <= 1
    /\ card \in {"one", "some"} => Len(found) >= 1
    /\ \A j \in DOMAIN found : Valid5(found[j])

\* An element is valid where its text and attributes are and each field takes
\* the children with its tag.
LEMMA ValidModel ==
    ASSUME NEW x
    PROVE
      /\ Valid1(x) <=> /\ ValidLeafOn(x)
                     /\ \A i \in DOMAIN Fields(x.tag) :
                           Takes0(ChildrenOf(x, Fields(x.tag)[i].tag), Fields(x.tag)[i].card)
      /\ Valid2(x) <=> /\ ValidLeafOn(x)
                     /\ \A i \in DOMAIN Fields(x.tag) :
                           Takes1(ChildrenOf(x, Fields(x.tag)[i].tag), Fields(x.tag)[i].card)
      /\ Valid3(x) <=> /\ ValidLeafOn(x)
                     /\ \A i \in DOMAIN Fields(x.tag) :
                           Takes2(ChildrenOf(x, Fields(x.tag)[i].tag), Fields(x.tag)[i].card)
      /\ Valid4(x) <=> /\ ValidLeafOn(x)
                     /\ \A i \in DOMAIN Fields(x.tag) :
                           Takes3(ChildrenOf(x, Fields(x.tag)[i].tag), Fields(x.tag)[i].card)
      /\ Valid5(x) <=> /\ ValidLeafOn(x)
                     /\ \A i \in DOMAIN Fields(x.tag) :
                           Takes4(ChildrenOf(x, Fields(x.tag)[i].tag), Fields(x.tag)[i].card)
      /\ Valid(x) <=> /\ ValidLeafOn(x)
                     /\ \A i \in DOMAIN Fields(x.tag) :
                           Takes5(ChildrenOf(x, Fields(x.tag)[i].tag), Fields(x.tag)[i].card)
<1>1. Valid1(x) <=> /\ ValidLeafOn(x)
                     /\ \A i \in DOMAIN Fields(x.tag) :
                           Takes0(ChildrenOf(x, Fields(x.tag)[i].tag), Fields(x.tag)[i].card)
  BY Zenon DEF Valid1, ValidBy, ValidLeafOn, Takes0
<1>2. Valid2(x) <=> /\ ValidLeafOn(x)
                     /\ \A i \in DOMAIN Fields(x.tag) :
                           Takes1(ChildrenOf(x, Fields(x.tag)[i].tag), Fields(x.tag)[i].card)
  BY Zenon DEF Valid2, ValidBy, ValidLeafOn, Takes1
<1>3. Valid3(x) <=> /\ ValidLeafOn(x)
                     /\ \A i \in DOMAIN Fields(x.tag) :
                           Takes2(ChildrenOf(x, Fields(x.tag)[i].tag), Fields(x.tag)[i].card)
  BY Zenon DEF Valid3, ValidBy, ValidLeafOn, Takes2
<1>4. Valid4(x) <=> /\ ValidLeafOn(x)
                     /\ \A i \in DOMAIN Fields(x.tag) :
                           Takes3(ChildrenOf(x, Fields(x.tag)[i].tag), Fields(x.tag)[i].card)
  BY Zenon DEF Valid4, ValidBy, ValidLeafOn, Takes3
<1>5. Valid5(x) <=> /\ ValidLeafOn(x)
                     /\ \A i \in DOMAIN Fields(x.tag) :
                           Takes4(ChildrenOf(x, Fields(x.tag)[i].tag), Fields(x.tag)[i].card)
  BY Zenon DEF Valid5, ValidBy, ValidLeafOn, Takes4
<1>6. Valid(x) <=> /\ ValidLeafOn(x)
                     /\ \A i \in DOMAIN Fields(x.tag) :
                           Takes5(ChildrenOf(x, Fields(x.tag)[i].tag), Fields(x.tag)[i].card)
  BY Zenon DEF Valid, ValidBy, ValidLeafOn, Takes5
<1> QED
  BY <1>1, <1>2, <1>3, <1>4, <1>5, <1>6

\* A field takes one child where that is valid, and none where it may be empty.
LEMMA TakesFacts ==
    ASSUME NEW y, NEW card
    PROVE
      /\ Takes0(<<y>>, card) <=> Valid0(y)
      /\ card \in {"optional", "many"} => Takes0(<<>>, card)
      /\ Takes1(<<y>>, card) <=> Valid1(y)
      /\ card \in {"optional", "many"} => Takes1(<<>>, card)
      /\ Takes2(<<y>>, card) <=> Valid2(y)
      /\ card \in {"optional", "many"} => Takes2(<<>>, card)
      /\ Takes3(<<y>>, card) <=> Valid3(y)
      /\ card \in {"optional", "many"} => Takes3(<<>>, card)
      /\ Takes4(<<y>>, card) <=> Valid4(y)
      /\ card \in {"optional", "many"} => Takes4(<<>>, card)
      /\ Takes5(<<y>>, card) <=> Valid5(y)
      /\ card \in {"optional", "many"} => Takes5(<<>>, card)
<1>1. Len(<<y>>) = 1 /\ DOMAIN <<y>> = {1} /\ <<y>>[1] = y /\ Len(<<>>) = 0 /\ DOMAIN <<>> = {}
  OBVIOUS
<1> DEFINE s == <<y>>
           e == <<>>
<1> HIDE DEF s, e
<1>2. Len(s) = 1 /\ DOMAIN s = {1} /\ s[1] = y /\ Len(e) = 0 /\ DOMAIN e = {}
  BY <1>1 DEF s, e
<1>3. (Takes0(s, card) <=> Valid0(y)) /\ (card \in {"optional", "many"} => Takes0(e, card))
  BY <1>2 DEF Takes0
<1>4. (Takes1(s, card) <=> Valid1(y)) /\ (card \in {"optional", "many"} => Takes1(e, card))
  BY <1>2 DEF Takes1
<1>5. (Takes2(s, card) <=> Valid2(y)) /\ (card \in {"optional", "many"} => Takes2(e, card))
  BY <1>2 DEF Takes2
<1>6. (Takes3(s, card) <=> Valid3(y)) /\ (card \in {"optional", "many"} => Takes3(e, card))
  BY <1>2 DEF Takes3
<1>7. (Takes4(s, card) <=> Valid4(y)) /\ (card \in {"optional", "many"} => Takes4(e, card))
  BY <1>2 DEF Takes4
<1>8. (Takes5(s, card) <=> Valid5(y)) /\ (card \in {"optional", "many"} => Takes5(e, card))
  BY <1>2 DEF Takes5
<1> QED
  BY <1>3, <1>4, <1>5, <1>6, <1>7, <1>8 DEF s, e

\* A list takes children that are all valid.
LEMMA TakesMany ==
    ASSUME NEW s
    PROVE  /\ Takes0(s, "many") <=> \A j \in DOMAIN s : Valid0(s[j])
           /\ Takes3(s, "many") <=> \A j \in DOMAIN s : Valid3(s[j])
BY DEF Takes0, Takes3

\* Elements with a text.
LEMMA ValidText ==
    ASSUME NEW tag \in TextTags, NEW text
    PROVE  Valid4(TextXml(tag, text)) <=> ~Blank(text)
<1> DEFINE x == TextXml(tag, text)
<1>1. x.tag = tag /\ x.text = text
  BY ElementParts DEF TextXml
<1> HIDE DEF x
<1>2. Fields(x.tag) = <<>> /\ Schema[x.tag].required = {} /\ Schema[x.tag].text
  BY <1>1, SignalSchema DEF Fields, Class, TextClass, TextTags
<1>3. ValidLeafOn(x) <=> ~Blank(text)
  BY <1>1, <1>2 DEF ValidLeafOn
<1> QED
  BY <1>2, <1>3, ValidLeaf DEF x

\* What is found in a pair or a triple of elements.
LEMMA TaggedTwo ==
    ASSUME NEW a, NEW b, NEW s, s = <<a, b>>, a.tag # b.tag
    PROVE  /\ Tagged(s, {a.tag}) = <<a>> /\ Tagged(s, {b.tag}) = <<b>>
<1> DEFINE S == {a, b}
<1>1. s \in Seq(S) /\ Len(s) = 2 /\ s[1] = a /\ s[2] = b
  OBVIOUS
<1> HIDE DEF S
<1>2. \A i \in 1..Len(s) : i = 1 \/ i = 2
  BY <1>1
<1>3. Tagged(s, {a.tag}) = <<a>>
  <2> DEFINE k == 1
  <2>1. k \in 1..Len(s) /\ s[k] = a /\ \A i \in 1..Len(s) : i # k => s[i].tag # a.tag
    BY <1>1, <1>2
  <2> HIDE DEF k
  <2>2. Tagged(s, {a.tag}) = <<s[k]>>
    BY <1>1, <2>1, TaggedOne
  <2> QED
    BY <2>1, <2>2
<1>4. Tagged(s, {b.tag}) = <<b>>
  <2> DEFINE k == 2
  <2>1. k \in 1..Len(s) /\ s[k] = b /\ \A i \in 1..Len(s) : i # k => s[i].tag # b.tag
    BY <1>1, <1>2
  <2> HIDE DEF k
  <2>2. Tagged(s, {b.tag}) = <<s[k]>>
    BY <1>1, <2>1, TaggedOne
  <2> QED
    BY <2>1, <2>2
<1> QED
  BY <1>3, <1>4

\* No child of two has another tag than theirs.
LEMMA TaggedNeither ==
    ASSUME NEW S, NEW s \in Seq(S), Len(s) = 2, NEW t, s[1].tag # t, s[2].tag # t
    PROVE  Tagged(s, {t}) = <<>>
<1>1. \A i \in 1..Len(s) : s[i].tag # t
  OBVIOUS
<1> QED
  BY <1>1, TaggedNone

\* Three children with different tags are found by their tags.
LEMMA TaggedThree ==
    ASSUME NEW S, NEW s \in Seq(S), Len(s) = 3,
           s[1].tag # s[2].tag, s[1].tag # s[3].tag, s[2].tag # s[3].tag
    PROVE  \A k \in 1..3 : Tagged(s, {s[k].tag}) = <<s[k]>>
<1> TAKE k \in 1..3
<1>1. k \in 1..Len(s) /\ \A i \in 1..Len(s) : i # k => s[i].tag # s[k].tag
  OBVIOUS
<1> DEFINE tag == s[k].tag
<1> HIDE DEF tag
<1>2. s[k].tag = tag /\ \A i \in 1..Len(s) : i # k => s[i].tag # tag
  BY <1>1 DEF tag
<1>3. Tagged(s, {tag}) = <<s[k]>>
  BY <1>1, <1>2, TaggedOne
<1> QED
  BY <1>3 DEF tag

\* The children of the elements of a signal.
LEMMA CatThree ==
    ASSUME NEW a, NEW b, NEW c
    PROVE  Cat(<<a, b>>, <<c>>) = <<a, b, c>>
<1> DEFINE S == {a, b, c}
           u == Cat(<<a, b>>, <<c>>)
<1>1. a \in S /\ b \in S /\ c \in S
  OBVIOUS
<1> HIDE DEF S
<1>2. u \in Seq(S) /\ Len(u) = 3 /\ u[1] = a /\ u[2] = b /\ u[3] = c
  BY <1>1 DEF Cat
<1> HIDE DEF u
<1> QED
  BY <1>2, AsTuple DEF u

\* The children of the eb:MessageInfo sent.
LEMMA InfoChildren ==
    ASSUME NEW now, NEW id, NEW ref \in {<<>>, <<TextXml("RefToMessageId", id)>>}
    PROVE  LET x == InfoXml(now, ref)
           IN  /\ x.tag = "MessageInfo"
               /\ ChildrenOf(x, "Timestamp") = <<TextXml("Timestamp", now)>>
               /\ ChildrenOf(x, "MessageId") = <<TextXml("MessageId", TextOf(<<"own-id">>))>>
               /\ ChildrenOf(x, "RefToMessageId") = ref
<1> DEFINE x == InfoXml(now, ref)
           a == TextXml("Timestamp", now)
           b == TextXml("MessageId", TextOf(<<"own-id">>))
           c == TextXml("RefToMessageId", id)
           S == {a, b, c}
           s == Cat(<<a, b>>, ref)
<1>1. a.tag = "Timestamp" /\ b.tag = "MessageId" /\ c.tag = "RefToMessageId"
  BY ElementParts DEF TextXml
<1>2. x.tag = "MessageInfo" /\ x.children = s
  BY ElementParts DEF InfoXml
<1>3. ref = <<>> \/ ref = <<c>>
  OBVIOUS
<1> HIDE DEF x, a, b, c, s
<1>4. Tagged(s, {"Timestamp"}) = <<a>> /\ Tagged(s, {"MessageId"}) = <<b>> /\ Tagged(s, {"RefToMessageId"}) = ref
  <2>1. a \in S /\ b \in S /\ c \in S
    OBVIOUS
  <2> HIDE DEF S
  <2>2. CASE ref = <<>>
    <3> DEFINE u == <<a, b>>
    <3>1. u \in Seq(S)
      BY <2>1
    <3>2. s = Cat(u, <<>>)
      BY <2>2 DEF s
    <3> HIDE DEF u
    <3>3. s = u
      BY <2>1, <3>1, <3>2, CatFacts
    <3>4. s = <<a, b>>
      BY <3>3 DEF u
    <3>5. Tagged(s, {a.tag}) = <<a>> /\ Tagged(s, {b.tag}) = <<b>>
      BY <1>1, <3>4, TaggedTwo
    <3>6. Tagged(s, {"RefToMessageId"}) = <<>>
      <4>1. s \in Seq(S) /\ Len(s) = 2 /\ s[1].tag # "RefToMessageId" /\ s[2].tag # "RefToMessageId"
        BY <1>1, <2>1, <3>4
      <4> QED
        BY <4>1, TaggedNeither
    <3> QED
      BY <1>1, <2>2, <3>5, <3>6
  <2>3. CASE ref = <<c>>
    <3>0. <<a>> \in Seq(S)
      BY <2>1, OneOf
    <3>1. Cat(<<a, b>>, <<c>>) = <<a, b, c>>
      BY CatThree
    <3>2. s = <<a, b, c>>
      BY <2>3, <3>1 DEF s
    <3>3. Tagged(s, {a.tag}) = <<a>> /\ Tagged(s, {b.tag}) = <<b>> /\ Tagged(s, {c.tag}) = <<c>>
      <4>1. s \in Seq(S) /\ Len(s) = 3 /\ s[1] = a /\ s[2] = b /\ s[3] = c
        BY <2>1, <3>2
      <4>2. s[1].tag # s[2].tag /\ s[1].tag # s[3].tag /\ s[2].tag # s[3].tag
        BY <1>1, <4>1
      <4>3. \A k \in 1..3 : Tagged(s, {s[k].tag}) = <<s[k]>>
        BY <4>1, <4>2, TaggedThree
      <4>4. 1 \in 1..3 /\ 2 \in 1..3 /\ 3 \in 1..3
        OBVIOUS
      <4> QED
        BY <4>1, <4>3, <4>4
    <3> QED
      BY <1>1, <2>3, <3>3
  <2> QED
    BY <1>3, <2>2, <2>3
<1> QED
  BY <1>2, <1>4 DEF ChildrenOf, x, a, b

\* The children of the eb:SignalMessage sent.
LEMMA SignalChildren ==
    ASSUME NEW info, info.tag = "MessageInfo", NEW c, c.tag \in {"Receipt", "Error"}
    PROVE  LET x == SignalXml(info, c)
           IN  /\ x.tag = "SignalMessage"
               /\ ChildrenOf(x, "MessageInfo") = <<info>> /\ ChildrenOf(x, "PullRequest") = <<>>
               /\ c.tag = "Receipt" => ChildrenOf(x, "Receipt") = <<c>> /\ ChildrenOf(x, "Error") = <<>>
               /\ c.tag = "Error" => ChildrenOf(x, "Receipt") = <<>> /\ ChildrenOf(x, "Error") = <<c>>
<1> DEFINE x == SignalXml(info, c)
           s == <<info, c>>
<1>1. x.tag = "SignalMessage" /\ x.children = s
  BY ElementParts DEF SignalXml
<1> HIDE DEF x
<1>2. /\ Tagged(s, {info.tag}) = <<info>> /\ Tagged(s, {c.tag}) = <<c>>
      /\ Tagged(s, {"PullRequest"}) = <<>>
      /\ c.tag = "Receipt" => Tagged(s, {"Error"}) = <<>>
      /\ c.tag = "Error" => Tagged(s, {"Receipt"}) = <<>>
  <2>1. info.tag # c.tag /\ s = <<info, c>>
    OBVIOUS
  <2> HIDE DEF s
  <2>2. Tagged(s, {info.tag}) = <<info>> /\ Tagged(s, {c.tag}) = <<c>>
    BY <2>1, TaggedTwo
  <2>0. s \in Seq({info, c}) /\ Len(s) = 2 /\ s[1] = info /\ s[2] = c
    BY <2>1
  <2>3. Tagged(s, {"PullRequest"}) = <<>>
    <3>1. s[1].tag # "PullRequest" /\ s[2].tag # "PullRequest"
      BY <2>0
    <3> QED
      BY <2>0, <3>1, TaggedNeither
  <2>4. ASSUME c.tag = "Receipt" PROVE Tagged(s, {"Error"}) = <<>>
    <3>1. s[1].tag # "Error" /\ s[2].tag # "Error"
      BY <2>0, <2>4
    <3> QED
      BY <2>0, <3>1, TaggedNeither
  <2>5. ASSUME c.tag = "Error" PROVE Tagged(s, {"Receipt"}) = <<>>
    <3>1. s[1].tag # "Receipt" /\ s[2].tag # "Receipt"
      BY <2>0, <2>5
    <3> QED
      BY <2>0, <3>1, TaggedNeither
  <2> QED
    BY <2>2, <2>3, <2>4, <2>5
<1> HIDE DEF s
<1> QED
  BY <1>1, <1>2 DEF ChildrenOf, x

\* The children of the eb:Error sent.
LEMMA ErrorChildren ==
    ASSUME NEW msg
    PROVE  LET x == ErrorXml(msg)
           IN  /\ x.tag = "Error" /\ x.attrs = KeptAttrs("Error", ErrorAttributes(msg))
               /\ ChildrenOf(x, "Description") = <<TextXml("Description", TextOf(<<msg.parse_error.class>>))>>
               /\ ChildrenOf(x, "ErrorDetail") = <<TextXml("ErrorDetail", msg.parse_error.detail)>>
<1> DEFINE x == ErrorXml(msg)
           a == TextXml("Description", TextOf(<<msg.parse_error.class>>))
           b == TextXml("ErrorDetail", msg.parse_error.detail)
           s == <<a, b>>
<1>1. x.tag = "Error" /\ x.children = s /\ x.attrs = KeptAttrs("Error", ErrorAttributes(msg))
  BY ElementParts DEF ErrorXml
<1>2. a.tag = "Description" /\ b.tag = "ErrorDetail"
  BY ElementParts DEF TextXml
<1> HIDE DEF x, a, b
<1>3. Tagged(s, {a.tag}) = <<a>> /\ Tagged(s, {b.tag}) = <<b>>
  <2>1. a.tag # b.tag /\ s = <<a, b>>
    BY <1>2
  <2> HIDE DEF s
  <2> QED
    BY <2>1, TaggedTwo
<1> HIDE DEF s
<1> QED
  BY <1>1, <1>2, <1>3 DEF ChildrenOf, x, a, b

\* An only child is found by its tag.
LEMMA TaggedSingle ==
    ASSUME NEW x
    PROVE  Tagged(<<x>>, {x.tag}) = <<x>>
<1> DEFINE s == <<x>>
           k == 1
           S == {x}
<1>1. s \in Seq(S) /\ k \in 1..Len(s) /\ s[k] = x /\ \A i \in 1..Len(s) : i = k
  OBVIOUS
<1> HIDE DEF s, k, S
<1>2. Tagged(s, {x.tag}) = <<s[k]>>
  BY <1>1, TaggedOne
<1> QED
  BY <1>1, <1>2 DEF s

\* The child of the ebbp:MessagePartNRInformation sent.
LEMMA PartChildren ==
    ASSUME NEW e, NEW k
    PROVE  LET x == PartXml(e, k)
           IN  x.tag = "MessagePartNRInformation" /\ ChildrenOf(x, "Reference") = <<ReferenceXml(e, k)>>
<1> DEFINE x == PartXml(e, k)
           r == ReferenceXml(e, k)
<1>1. x.tag = "MessagePartNRInformation" /\ x.children = <<r>> /\ r.tag = "Reference"
  BY ElementParts DEF PartXml, ReferenceXml
<1> HIDE DEF x, r
<1>2. Tagged(<<r>>, {r.tag}) = <<r>>
  BY TaggedSingle
<1> QED
  BY <1>1, <1>2 DEF ChildrenOf, x, r

\* The children of the eb:Receipt sent: one part for each reference.
LEMMA ReceiptChildren ==
    ASSUME NEW refs, AreReferences(refs), NEW k
    PROVE  /\ LET x == ReceiptXml(refs, k)
              IN  x.tag = "Receipt" /\ ChildrenOf(x, "NonRepudiationInformation") = <<InformationXml(refs, k)>>
           /\ LET x == InformationXml(refs, k)
              IN  /\ x.tag = "NonRepudiationInformation"
                  /\ ChildrenOf(x, "MessagePartNRInformation") = [i \in DOMAIN refs |-> PartXml(refs[i], k)]
<1>1. \A e : PartXml(e, k).tag = "MessagePartNRInformation"
  BY ElementParts DEF PartXml
<1>2. /\ InformationXml(refs, k).tag = "NonRepudiationInformation"
      /\ InformationXml(refs, k).children = [i \in DOMAIN refs |-> PartXml(refs[i], k)]
      /\ ReceiptXml(refs, k).tag = "Receipt"
      /\ ReceiptXml(refs, k).children = <<InformationXml(refs, k)>>
  BY ElementParts DEF InformationXml, ReceiptXml
<1>4. ChildrenOf(ReceiptXml(refs, k), "NonRepudiationInformation") = <<InformationXml(refs, k)>>
  BY <1>2, TaggedSingle DEF ChildrenOf
<1>6. ChildrenOf(InformationXml(refs, k), "MessagePartNRInformation") = [i \in DOMAIN refs |-> PartXml(refs[i], k)]
  <2> DEFINE s == [i \in DOMAIN refs |-> PartXml(refs[i], k)]
             n == Len(refs)
  <2>1. n \in Nat /\ DOMAIN refs = 1..n
    BY ReferencesAre
  <2> HIDE DEF n
  <2> DEFINE S == {PartXml(refs[i], k) : i \in 1..n}
  <2>2. s \in [1..n -> S] /\ \A i \in DOMAIN s : s[i].tag \in {"MessagePartNRInformation"}
    BY <1>1, <2>1
  <2>3. InformationXml(refs, k).children = s
    BY <1>2
  <2> HIDE DEF s, S
  <2>4. Tagged(s, {"MessagePartNRInformation"}) = s
    <3>1. s \in Seq(S)
      BY <2>1, <2>2
    <3> QED
      BY <2>2, <3>1, TaggedAll
  <2> QED
    BY <2>3, <2>4 DEF ChildrenOf, s
<1> QED
  BY <1>2, <1>4, <1>6

\* The children of a ds:Reference that was dumped.
LEMMA ReferenceChildren ==
    ASSUME NEW e, IsReference(e), NEW k
    PROVE  LET x == ReferenceXml(e, k)
           IN  /\ x.tag = "Reference" /\ x.attrs = KeptAttrs("Reference", e.attrs)
               /\ ChildrenOf(x, "Transforms") = <<TransformsXml(Child(e, "Transforms"), k)>>
               /\ ChildrenOf(x, "DigestMethod") = <<DigestMethodXml(Child(e, "DigestMethod"))>>
               /\ ChildrenOf(x, "DigestValue") = <<DigestValueXml(Child(e, "DigestValue"))>>
<1> DEFINE x == ReferenceXml(e, k)
           a == TransformsXml(Child(e, "Transforms"), k)
           b == DigestMethodXml(Child(e, "DigestMethod"))
           c == DigestValueXml(Child(e, "DigestValue"))
           s == <<a, b, c>>
           S == {a, b, c}
<1>1. x.tag = "Reference" /\ x.attrs = KeptAttrs("Reference", e.attrs) /\ x.children = s
  BY ElementParts DEF ReferenceXml
<1>2. a.tag = "Transforms" /\ b.tag = "DigestMethod" /\ c.tag = "DigestValue"
  BY ElementParts DEF TransformsXml, DigestMethodXml, DigestValueXml
<1> HIDE DEF x, a, b, c
<1>3. s \in Seq(S) /\ Len(s) = 3 /\ s[1] = a /\ s[2] = b /\ s[3] = c
  OBVIOUS
<1> HIDE DEF s, S
<1>4. s[1].tag # s[2].tag /\ s[1].tag # s[3].tag /\ s[2].tag # s[3].tag
  BY <1>2, <1>3
<1>5. \A i \in 1..3 : Tagged(s, {s[i].tag}) = <<s[i]>>
  BY <1>3, <1>4, TaggedThree
<1>6. 1 \in 1..3 /\ 2 \in 1..3 /\ 3 \in 1..3
  OBVIOUS
<1>7. Tagged(s, {a.tag}) = <<a>> /\ Tagged(s, {b.tag}) = <<b>> /\ Tagged(s, {c.tag}) = <<c>>
  BY <1>3, <1>5, <1>6
<1> QED
  BY <1>1, <1>2, <1>7 DEF ChildrenOf, x, a, b, c

\* The children of the ds:Transforms sent: one for each transform.
LEMMA TransformsChildren ==
    ASSUME NEW e, IsReference(e), NEW k
    PROVE  LET x == TransformsXml(Child(e, "Transforms"), k)
           IN  /\ x.tag = "Transforms"
               /\ ChildrenOf(x, "Transform") = [j \in DOMAIN Transforms(e) |-> TransformXml(Transforms(e)[j], k)]
               /\ \A j \in DOMAIN Transforms(e) : TransformXml(Transforms(e)[j], k).tag = "Transform"
<1> DEFINE x == TransformsXml(Child(e, "Transforms"), k)
           c == Transforms(e)
           n == Len(c)
           s == [j \in DOMAIN c |-> TransformXml(c[j], k)]
           E == {y \in Elements : y.tag = "Transform"}
<1>1. c \in Seq(E)
  BY ValidReference DEF IsReference
<1>2. x.tag = "Transforms" /\ x.children = s
  <2>1. c = ChildrenOf(Child(e, "Transforms"), "Transform")
    BY DEF Transforms, Child
  <2> HIDE DEF c
  <2> QED
    BY <2>1, ElementParts DEF TransformsXml
<1>3. \A y : TransformXml(y, k).tag = "Transform"
  BY ElementParts DEF TransformXml
<1> HIDE DEF x, c, E
<1>4. n \in Nat /\ DOMAIN c = 1..n
  BY <1>1, LenProperties
<1> HIDE DEF n
<1> DEFINE S == {TransformXml(c[j], k) : j \in 1..n}
<1>5. s \in [1..n -> S] /\ \A j \in DOMAIN s : s[j].tag \in {"Transform"}
  BY <1>3, <1>4
<1>6. x.children = s
  BY <1>2
<1> HIDE DEF s, S
<1>7. s \in Seq(S)
  BY <1>4, <1>5
<1>8. Tagged(s, {"Transform"}) = s
  BY <1>5, <1>7, TaggedAll
<1>9. ChildrenOf(x, "Transform") = s
  BY <1>6, <1>8 DEF ChildrenOf
<1> QED
  BY <1>2, <1>3, <1>9 DEF x, s, c

\* A reference that was dumped has the shape of one.
LEMMA ShapeKept ==
    ASSUME NEW e, IsReference(e), NEW k
    PROVE  LET x == ReferenceXml(e, k)
           IN  /\ Shape(x)
               /\ Child(x, "Transforms") = TransformsXml(Child(e, "Transforms"), k)
               /\ Child(x, "DigestMethod") = DigestMethodXml(Child(e, "DigestMethod"))
               /\ Child(x, "DigestValue") = DigestValueXml(Child(e, "DigestValue"))
               /\ Transforms(x) = [j \in DOMAIN Transforms(e) |-> TransformXml(Transforms(e)[j], k)]
<1> DEFINE x == ReferenceXml(e, k)
           a == TransformsXml(Child(e, "Transforms"), k)
           b == DigestMethodXml(Child(e, "DigestMethod"))
           c == DigestValueXml(Child(e, "DigestValue"))
<1>1. /\ x.tag = "Reference"
      /\ ChildrenOf(x, "Transforms") = <<a>> /\ ChildrenOf(x, "DigestMethod") = <<b>>
      /\ ChildrenOf(x, "DigestValue") = <<c>>
  BY ReferenceChildren
<1>2. a.tag = "Transforms" /\ b.tag = "DigestMethod" /\ c.tag = "DigestValue"
  BY ElementParts DEF TransformsXml, DigestMethodXml, DigestValueXml
<1>3. /\ ChildrenOf(a, "Transform") = [j \in DOMAIN Transforms(e) |-> TransformXml(Transforms(e)[j], k)]
      /\ \A j \in DOMAIN Transforms(e) : TransformXml(Transforms(e)[j], k).tag = "Transform"
  BY TransformsChildren
<1> HIDE DEF x, a, b, c
<1>4. Child(x, "Transforms") = a /\ Child(x, "DigestMethod") = b /\ Child(x, "DigestValue") = c
  BY <1>1 DEF Child
<1>5. Transforms(x) = ChildrenOf(a, "Transform")
  BY <1>1 DEF Transforms
<1>6. Shape(x)
  BY <1>1, <1>2, <1>3, <1>4, <1>5 DEF Shape, ReferenceFields
<1> QED
  BY <1>3, <1>4, <1>5, <1>6 DEF x, a, b, c

\* The attributes that are dumped are those of the class that are not empty.
LEMMA KeptFacts ==
    ASSUME NEW tag, NEW attrs, NEW a
    PROVE  /\ a \in DOMAIN KeptAttrs(tag, attrs) <=>
                 a \in Attributes(tag) /\ a \in DOMAIN attrs /\ attrs[a] \notin {None, Empty}
           /\ a \in DOMAIN KeptAttrs(tag, attrs) => KeptAttrs(tag, attrs)[a] = attrs[a]
BY DEF KeptAttrs

\* A digest algorithm that is empty is lost, and with it the reference.
LEMMA ValidReferenceXml ==
    ASSUME NEW e, IsReference(e), NEW k
    PROVE  Valid2(ReferenceXml(e, k)) <=> AlgorithmOf(Child(e, "DigestMethod")) # Empty
<1> DEFINE x == ReferenceXml(e, k)
           a == TransformsXml(Child(e, "Transforms"), k)
           m == Child(e, "DigestMethod")
           v == Child(e, "DigestValue")
           b == DigestMethodXml(m)
           c == DigestValueXml(v)
           s == [j \in DOMAIN Transforms(e) |-> TransformXml(Transforms(e)[j], k)]
<1>1. /\ x.tag = "Reference"
      /\ ChildrenOf(x, "Transforms") = <<a>> /\ ChildrenOf(x, "DigestMethod") = <<b>>
      /\ ChildrenOf(x, "DigestValue") = <<c>>
  BY ReferenceChildren
<1>2. /\ b.tag = "DigestMethod" /\ b.attrs = KeptAttrs("DigestMethod", m.attrs)
      /\ c.tag = "DigestValue" /\ c.text = Stripped(v.text)
  BY ElementParts DEF DigestMethodXml, DigestValueXml
<1>3. /\ a.tag = "Transforms" /\ ChildrenOf(a, "Transform") = s
      /\ \A j \in DOMAIN s : s[j].tag = "Transform"
  BY TransformsChildren
<1>4. /\ m \in Elements /\ "Algorithm" \in DOMAIN m.attrs /\ ~Blank(v.text)
  BY ValidReference DEF IsReference, ReferenceFields
<1> HIDE DEF x, a, m, v, b, c, s
<1>5. Valid1(c)
  <2>1. Fields(c.tag) = <<>> /\ Schema[c.tag].required = {}
    BY <1>2, ReferenceSchema DEF Fields, Class, TextClass
  <2>2. ~Blank(c.text)
    BY <1>2, <1>4 DEF Stripped, Blank, TextOf
  <2>3. ValidLeafOn(c)
    BY <2>1, <2>2 DEF ValidLeafOn
  <2> QED
    BY <2>1, <2>3, ValidLeaf
<1>6. Valid1(b) <=> AlgorithmOf(m) # Empty
  <2>1. Fields(b.tag) = <<>> /\ Schema[b.tag].required = {"Algorithm"} /\ ~Schema[b.tag].text
    BY <1>2, ReferenceSchema DEF Fields, Class
  <2>2. ValidLeafOn(b) <=> "Algorithm" \in DOMAIN b.attrs
    BY <2>1 DEF ValidLeafOn
  <2>3. m.attrs["Algorithm"] \in Text
    BY <1>4, BindingAssumption
  <2>4. m.attrs["Algorithm"] # None
    BY <2>3, BindingAssumption
  <2>5. "Algorithm" \in Attributes("DigestMethod")
    BY ReferenceTags
  <2>6. "Algorithm" \in DOMAIN b.attrs <=> m.attrs["Algorithm"] # Empty
    BY <1>2, <1>4, <2>4, <2>5, KeptFacts
  <2> QED
    BY <1>4, <2>1, <2>2, <2>6, ValidLeaf DEF AlgorithmOf
<1>7. Valid1(a)
  <2>1. Fields(a.tag) = <<Field("Transform", "many")>> /\ Schema[a.tag].required = {} /\ ~Schema[a.tag].text
    BY <1>3, ReferenceSchema DEF Fields, Class
  <2>2. DOMAIN Fields(a.tag) = {1} /\ Fields(a.tag)[1].tag = "Transform" /\ Fields(a.tag)[1].card = "many"
    BY <2>1 DEF Field
  <2>3. ASSUME NEW j \in DOMAIN s
        PROVE  Valid0(s[j])
    <3>1. Fields(s[j].tag) = <<>> /\ Schema[s[j].tag].required = {} /\ ~Schema[s[j].tag].text
      BY <1>3, ReferenceSchema DEF Fields, Class
    <3>2. ValidLeafOn(s[j])
      BY <3>1 DEF ValidLeafOn
    <3> QED
      BY <3>1, <3>2, ValidLeaf
  <2>4. Takes0(s, "many")
    BY <2>3, TakesMany
  <2>5. ValidLeafOn(a)
    BY <2>1 DEF ValidLeafOn
  <2> QED
    BY <1>3, <2>2, <2>4, <2>5, ValidModel
<1>8. Fields(x.tag) = <<Field("Transforms", "one"), Field("DigestMethod", "one"),
                        Field("DigestValue", "one")>>
      /\ Schema[x.tag].required = {} /\ ~Schema[x.tag].text
  BY <1>1, ReferenceSchema DEF Fields, Class
<1>9. /\ DOMAIN Fields(x.tag) = {1, 2, 3}
      /\ Fields(x.tag)[1] = Field("Transforms", "one") /\ Fields(x.tag)[2] = Field("DigestMethod", "one")
      /\ Fields(x.tag)[3] = Field("DigestValue", "one")
  BY <1>8
<1>10. ValidLeafOn(x)
  BY <1>8 DEF ValidLeafOn
<1>11. \A t, n : Field(t, n).tag = t /\ Field(t, n).card = n
  BY DEF Field
<1>12. Valid2(x) <=> /\ Takes1(<<a>>, "one") /\ Takes1(<<b>>, "one") /\ Takes1(<<c>>, "one")
  <2>1. Valid2(x) <=> \A i \in {1, 2, 3} :
           Takes1(ChildrenOf(x, Fields(x.tag)[i].tag), Fields(x.tag)[i].card)
    BY <1>9, <1>10, ValidModel
  <2> QED
    BY <1>1, <1>9, <1>11, <2>1
<1>13. Valid2(x) <=> Valid1(a) /\ Valid1(b) /\ Valid1(c)
  BY <1>12, TakesFacts
<1> QED
  BY <1>5, <1>6, <1>7, <1>13 DEF x, m

\* A receipt is readable if the references are.
LEMMA ValidReceiptXml ==
    ASSUME NEW refs, AreReferences(refs), NEW k
    PROVE  Valid5(ReceiptXml(refs, k)) <=>
              \A i \in DOMAIN refs : AlgorithmOf(Child(refs[i], "DigestMethod")) # Empty
<1> DEFINE x == ReceiptXml(refs, k)
           y == InformationXml(refs, k)
           p(i) == PartXml(refs[i], k)
           s == [i \in DOMAIN refs |-> p(i)]
<1>1. x.tag = "Receipt" /\ ChildrenOf(x, "NonRepudiationInformation") = <<y>>
  BY ReceiptChildren
<1>2. y.tag = "NonRepudiationInformation" /\ ChildrenOf(y, "MessagePartNRInformation") = s
  BY ReceiptChildren
<1>3. \A i \in DOMAIN refs : /\ p(i).tag = "MessagePartNRInformation"
                             /\ ChildrenOf(p(i), "Reference") = <<ReferenceXml(refs[i], k)>>
  BY PartChildren
<1>4. ASSUME NEW i \in DOMAIN refs
      PROVE  Valid3(p(i)) <=> AlgorithmOf(Child(refs[i], "DigestMethod")) # Empty
  <2> DEFINE z == p(i)
             r == ReferenceXml(refs[i], k)
  <2>1. z.tag = "MessagePartNRInformation" /\ ChildrenOf(z, "Reference") = <<r>>
    BY <1>3
  <2>2. Valid2(r) <=> AlgorithmOf(Child(refs[i], "DigestMethod")) # Empty
    BY ReferencesAre, ValidReferenceXml
  <2> HIDE DEF z, r
  <2>3. Fields(z.tag) = <<Field("Reference", "some")>> /\ Schema[z.tag].required = {} /\ ~Schema[z.tag].text
    BY <2>1, SignalSchema DEF Fields, Class
  <2>4. DOMAIN Fields(z.tag) = {1} /\ Fields(z.tag)[1].tag = "Reference" /\ Fields(z.tag)[1].card = "some"
    BY <2>3 DEF Field
  <2>5. ValidLeafOn(z)
    BY <2>3 DEF ValidLeafOn
  <2>6. Valid3(z) <=> Takes2(<<r>>, "some")
    BY <2>1, <2>4, <2>5, ValidModel
  <2>7. Valid3(z) <=> Valid2(r)
    BY <2>6, TakesFacts
  <2> QED
    BY <2>2, <2>7 DEF z
<1> HIDE DEF x, y, p
<1>5. Valid4(y) <=> \A i \in DOMAIN refs : Valid3(p(i))
  <2>1. Fields(y.tag) = <<Field("MessagePartNRInformation", "many")>>
        /\ Schema[y.tag].required = {} /\ ~Schema[y.tag].text
    BY <1>2, SignalSchema DEF Fields, Class
  <2>2. /\ DOMAIN Fields(y.tag) = {1} /\ Fields(y.tag)[1].tag = "MessagePartNRInformation"
        /\ Fields(y.tag)[1].card = "many"
    BY <2>1 DEF Field
  <2>3. ValidLeafOn(y)
    BY <2>1 DEF ValidLeafOn
  <2>4. DOMAIN s = DOMAIN refs /\ \A i \in DOMAIN refs : s[i] = p(i)
    OBVIOUS
  <2> HIDE DEF s
  <2>5. Valid4(y) <=> Takes3(s, "many")
    BY <1>2, <2>2, <2>3, ValidModel
  <2> QED
    BY <2>4, <2>5, TakesMany
<1>6. Valid5(x) <=> Valid4(y)
  <2>1. Fields(x.tag) = <<Field("NonRepudiationInformation", "optional")>>
        /\ Schema[x.tag].required = {} /\ ~Schema[x.tag].text
    BY <1>1, SignalSchema DEF Fields, Class
  <2>2. /\ DOMAIN Fields(x.tag) = {1} /\ Fields(x.tag)[1].tag = "NonRepudiationInformation"
        /\ Fields(x.tag)[1].card = "optional"
    BY <2>1 DEF Field
  <2>3. ValidLeafOn(x)
    BY <2>1 DEF ValidLeafOn
  <2>4. Valid5(x) <=> Takes4(<<y>>, "optional")
    BY <1>1, <2>2, <2>3, ValidModel
  <2> QED
    BY <2>4, TakesFacts
<1> QED
  BY <1>4, <1>5, <1>6 DEF x

\* The eb:MessageInfo sent is valid unless the id it refers to is blank.
LEMMA ValidInfo ==
    ASSUME NEW now, ~Blank(now), NEW id, NEW ref \in {<<>>, <<TextXml("RefToMessageId", id)>>}
    PROVE  Valid5(InfoXml(now, ref)) <=> ref = <<>> \/ ~Blank(id)
<1> DEFINE x == InfoXml(now, ref)
           a == TextXml("Timestamp", now)
           b == TextXml("MessageId", TextOf(<<"own-id">>))
           c == TextXml("RefToMessageId", id)
<1>1. /\ x.tag = "MessageInfo"
      /\ ChildrenOf(x, "Timestamp") = <<a>> /\ ChildrenOf(x, "MessageId") = <<b>>
      /\ ChildrenOf(x, "RefToMessageId") = ref
  BY InfoChildren
<1>2. Valid4(a)
  BY ValidText DEF TextTags
<1>3. Valid4(b)
  <2>1. "own-id" \in STRING
    BY WordsAssumption
  <2>2. ~Blank(TextOf(<<"own-id">>))
    BY <2>1, TextOfWord
  <2> QED
    BY <2>2, ValidText DEF TextTags
<1>4. Valid4(c) <=> ~Blank(id)
  BY ValidText DEF TextTags
<1>5. ref = <<>> \/ ref = <<c>>
  OBVIOUS
<1> HIDE DEF x, a, b, c
<1>6. Fields(x.tag) = <<Field("Timestamp", "one"), Field("MessageId", "one"),
                        Field("RefToMessageId", "optional")>>
      /\ Schema[x.tag].required = {} /\ ~Schema[x.tag].text
  BY <1>1, SignalSchema DEF Fields, Class
<1>7. /\ DOMAIN Fields(x.tag) = {1, 2, 3}
      /\ Fields(x.tag)[1] = Field("Timestamp", "one") /\ Fields(x.tag)[2] = Field("MessageId", "one")
      /\ Fields(x.tag)[3] = Field("RefToMessageId", "optional")
  BY <1>6
<1>8. ValidLeafOn(x)
  BY <1>6 DEF ValidLeafOn
<1>9. \A t, n : Field(t, n).tag = t /\ Field(t, n).card = n
  BY DEF Field
<1>10. Valid5(x) <=> Takes4(<<a>>, "one") /\ Takes4(<<b>>, "one") /\ Takes4(ref, "optional")
  <2>1. Valid5(x) <=> \A i \in {1, 2, 3} :
           Takes4(ChildrenOf(x, Fields(x.tag)[i].tag), Fields(x.tag)[i].card)
    BY <1>7, <1>8, ValidModel
  <2> QED
    BY <1>1, <1>7, <1>9, <2>1
<1>11. Takes4(<<a>>, "one") /\ Takes4(<<b>>, "one")
  BY <1>2, <1>3, TakesFacts
<1>12. Takes4(<<>>, "optional")
  BY TakesFacts
<1>13. Takes4(<<c>>, "optional") <=> ~Blank(id)
  BY <1>4, TakesFacts
<1>14. <<c>> # <<>>
  OBVIOUS
<1> QED
  BY <1>5, <1>10, <1>11, <1>12, <1>13, <1>14 DEF x

\* The eb:SignalMessage sent is valid if both of its children are.
LEMMA ValidSignal ==
    ASSUME NEW info, info.tag = "MessageInfo", NEW c, c.tag \in {"Receipt", "Error"}
    PROVE  Valid(SignalXml(info, c)) <=> Valid5(info) /\ Valid5(c)
<1> DEFINE x == SignalXml(info, c)
<1>1. /\ x.tag = "SignalMessage"
      /\ ChildrenOf(x, "MessageInfo") = <<info>> /\ ChildrenOf(x, "PullRequest") = <<>>
      /\ c.tag = "Receipt" => ChildrenOf(x, "Receipt") = <<c>> /\ ChildrenOf(x, "Error") = <<>>
      /\ c.tag = "Error" => ChildrenOf(x, "Receipt") = <<>> /\ ChildrenOf(x, "Error") = <<c>>
  BY SignalChildren
<1> HIDE DEF x
<1>2. Fields(x.tag) = <<Field("MessageInfo", "one"), Field("PullRequest", "optional"),
                        Field("Receipt", "optional"), Field("Error", "many")>>
      /\ Schema[x.tag].required = {} /\ ~Schema[x.tag].text
  BY <1>1, SignalSchema DEF Fields, Class
<1>3. /\ DOMAIN Fields(x.tag) = {1, 2, 3, 4}
      /\ Fields(x.tag)[1] = Field("MessageInfo", "one") /\ Fields(x.tag)[2] = Field("PullRequest", "optional")
      /\ Fields(x.tag)[3] = Field("Receipt", "optional") /\ Fields(x.tag)[4] = Field("Error", "many")
  BY <1>2
<1>4. ValidLeafOn(x)
  BY <1>2 DEF ValidLeafOn
<1>5. \A t, n : Field(t, n).tag = t /\ Field(t, n).card = n
  BY DEF Field
<1>6. Valid(x) <=> /\ Takes5(<<info>>, "one") /\ Takes5(<<>>, "optional")
                   /\ Takes5(ChildrenOf(x, "Receipt"), "optional")
                   /\ Takes5(ChildrenOf(x, "Error"), "many")
  <2>1. Valid(x) <=> \A i \in {1, 2, 3, 4} :
           Takes5(ChildrenOf(x, Fields(x.tag)[i].tag), Fields(x.tag)[i].card)
    BY <1>3, <1>4, ValidModel
  <2> QED
    BY <1>1, <1>3, <1>5, <2>1
<1>7. Takes5(<<info>>, "one") <=> Valid5(info)
  BY TakesFacts
<1>8. (Takes5(<<c>>, "optional") <=> Valid5(c)) /\ (Takes5(<<c>>, "many") <=> Valid5(c))
  BY TakesFacts
<1>9. Takes5(<<>>, "optional") /\ Takes5(<<>>, "many")
  BY TakesFacts
<1>10. CASE c.tag = "Receipt"
  BY <1>1, <1>6, <1>7, <1>8, <1>9, <1>10 DEF x
<1>11. CASE c.tag = "Error"
  BY <1>1, <1>6, <1>7, <1>8, <1>9, <1>11 DEF x
<1> QED
  BY <1>10, <1>11

\* The attributes of an error that reach its receiver.
LEMMA ErrorAttrs ==
    ASSUME NEW msg, IsError(msg)
    PROVE  LET code == Codes[Base[msg.parse_error.class]]
               attrs == KeptAttrs("Error", ErrorAttributes(msg))
           IN  /\ "errorCode" \in DOMAIN attrs /\ attrs["errorCode"] = TextOf(<<code.error_code>>)
               /\ "severity" \in DOMAIN attrs /\ attrs["severity"] = TextOf(<<code.severity>>)
<1> DEFINE code == Codes[Base[msg.parse_error.class]]
           given == ErrorAttributes(msg)
           c == TextOf(<<code.error_code>>)
           s == TextOf(<<code.severity>>)
<1>1. code.error_code \in STRING /\ code.severity \in STRING
  <2>1. code \in [error_code : STRING, short_description : STRING, severity : STRING, category : STRING]
    BY WordsAssumption DEF IsError
  <2> HIDE DEF code
  <2> QED
    BY <2>1
<1>2. /\ "errorCode" \in DOMAIN given /\ given["errorCode"] = c
      /\ "severity" \in DOMAIN given /\ given["severity"] = s
  BY DEF ErrorAttributes
<1> HIDE DEF code, given
<1>3. c \notin {None, Empty} /\ s \notin {None, Empty}
  BY <1>1, TextOfWord
<1> HIDE DEF c, s
<1>4. "errorCode" \in Attributes("Error") /\ "severity" \in Attributes("Error")
  BY SignalTags
<1>5. /\ "errorCode" \in DOMAIN KeptAttrs("Error", given) /\ KeptAttrs("Error", given)["errorCode"] = c
      /\ "severity" \in DOMAIN KeptAttrs("Error", given) /\ KeptAttrs("Error", given)["severity"] = s
  BY <1>2, <1>3, <1>4, KeptFacts
<1> QED
  BY <1>5 DEF given, c, s, code

\* The eb:Error sent is always valid.
LEMMA ValidErrorXml ==
    ASSUME NEW msg, IsError(msg)
    PROVE  Valid5(ErrorXml(msg))
<1> DEFINE x == ErrorXml(msg)
           a == TextXml("Description", TextOf(<<msg.parse_error.class>>))
           b == TextXml("ErrorDetail", msg.parse_error.detail)
<1>1. /\ x.tag = "Error" /\ x.attrs = KeptAttrs("Error", ErrorAttributes(msg))
      /\ ChildrenOf(x, "Description") = <<a>> /\ ChildrenOf(x, "ErrorDetail") = <<b>>
  BY ErrorChildren
<1>2. Valid4(a)
  <2>1. msg.parse_error.class \in STRING
    BY WordsAssumption DEF IsError
  <2>2. ~Blank(TextOf(<<msg.parse_error.class>>))
    BY <2>1, TextOfWord
  <2> QED
    BY <2>2, ValidText DEF TextTags
<1>3. Valid4(b)
  BY ValidText DEF TextTags, IsError
<1>4. "errorCode" \in DOMAIN x.attrs /\ "severity" \in DOMAIN x.attrs
  BY <1>1, ErrorAttrs
<1> HIDE DEF x, a, b
<1>5. Fields(x.tag) = <<Field("Description", "optional"), Field("ErrorDetail", "optional")>>
      /\ Schema[x.tag].required = {"errorCode", "severity"} /\ ~Schema[x.tag].text
  BY <1>1, SignalSchema DEF Fields, Class
<1>6. /\ DOMAIN Fields(x.tag) = {1, 2}
      /\ Fields(x.tag)[1] = Field("Description", "optional") /\ Fields(x.tag)[2] = Field("ErrorDetail", "optional")
  BY <1>5
<1>7. ValidLeafOn(x)
  BY <1>4, <1>5 DEF ValidLeafOn
<1>8. \A t, n : Field(t, n).tag = t /\ Field(t, n).card = n
  BY DEF Field
<1>9. Valid5(x) <=> Takes4(<<a>>, "optional") /\ Takes4(<<b>>, "optional")
  <2>1. Valid5(x) <=> \A i \in {1, 2} :
           Takes4(ChildrenOf(x, Fields(x.tag)[i].tag), Fields(x.tag)[i].card)
    BY <1>6, <1>7, ValidModel
  <2> QED
    BY <1>1, <1>6, <1>8, <2>1
<1>10. Takes4(<<a>>, "optional") /\ Takes4(<<b>>, "optional")
  BY <1>2, <1>3, TakesFacts
<1> QED
  BY <1>9, <1>10 DEF x

\* What the sender can read.
LEMMA ValidSuccess ==
    ASSUME NEW id, NEW refs, AreReferences(refs), NEW k, NEW now, ~Blank(now)
    PROVE  Valid(SuccessXml(id, refs, k, now)) <=>
              /\ ~Blank(id)
              /\ \A i \in DOMAIN refs : AlgorithmOf(Child(refs[i], "DigestMethod")) # Empty
<1> DEFINE ref == <<TextXml("RefToMessageId", id)>>
           i == InfoXml(now, ref)
           c == ReceiptXml(refs, k)
<1>1. ref \in {<<>>, <<TextXml("RefToMessageId", id)>>} /\ ref # <<>>
  OBVIOUS
<1>2. SuccessXml(id, refs, k, now) = SignalXml(i, c)
  BY DEF SuccessXml
<1> HIDE DEF ref
<1>3. i.tag = "MessageInfo"
  BY <1>1, InfoChildren
<1>4. Valid5(i) <=> ~Blank(id)
  BY <1>1, ValidInfo
<1>5. c.tag = "Receipt"
  BY ReceiptChildren
<1>6. Valid5(c) <=> \A j \in DOMAIN refs : AlgorithmOf(Child(refs[j], "DigestMethod")) # Empty
  BY ValidReceiptXml
<1> HIDE DEF i, c
<1>7. Valid(SignalXml(i, c)) <=> Valid5(i) /\ Valid5(c)
  BY <1>3, <1>5, ValidSignal
<1> QED
  BY <1>2, <1>4, <1>6, <1>7

\* The signal that refuses a message can be read, unless the id it answers is
\* white space.
LEMMA ValidFailure ==
    ASSUME NEW msg, IsError(msg), NEW now, ~Blank(now)
    PROVE  Valid(FailureXml(msg, now)) <=> msg.id = Empty \/ ~Blank(msg.id)
<1> DEFINE ref == RefXml(msg.id)
           i == InfoXml(now, ref)
           c == ErrorXml(msg)
<1>1. /\ ref \in {<<>>, <<TextXml("RefToMessageId", msg.id)>>}
      /\ ref = <<>> <=> msg.id = Empty
  BY DEF RefXml
<1>2. FailureXml(msg, now) = SignalXml(i, c)
  BY DEF FailureXml
<1> HIDE DEF ref
<1>3. i.tag = "MessageInfo"
  BY <1>1, InfoChildren
<1>4. Valid5(i) <=> ref = <<>> \/ ~Blank(msg.id)
  BY <1>1, ValidInfo
<1>5. c.tag = "Error"
  BY ErrorChildren
<1>6. Valid5(c)
  BY ValidErrorXml
<1> HIDE DEF i, c
<1>7. Valid(SignalXml(i, c)) <=> Valid5(i) /\ Valid5(c)
  BY <1>3, <1>5, ValidSignal
<1> QED
  BY <1>1, <1>2, <1>4, <1>6, <1>7

-----------------------------------------------------------------------------
(* Reading *)

\* The models of a field, read on the level of the field.
Reads2(found) == [j \in DOMAIN found |-> Read2(found[j])]
Reads3(found) == [j \in DOMAIN found |-> Read3(found[j])]
Reads4(found) == [j \in DOMAIN found |-> Read4(found[j])]
Reads5(found) == [j \in DOMAIN found |-> Read5(found[j])]

\* What is read of an element: the attributes of its class, and for each field
\* what is read of the children with its tag.
LEMMA ReadModel ==
    ASSUME NEW x
    PROVE
      /\ Read(x).attrs = AttrsOf(x.tag, x.attrs)
      /\ \A t \in FieldTags(x.tag) : Read(x).fields[t] = Reads5(ChildrenOf(x, t))
      /\ Read5(x).attrs = AttrsOf(x.tag, x.attrs)
      /\ \A t \in FieldTags(x.tag) : Read5(x).fields[t] = Reads4(ChildrenOf(x, t))
      /\ Read4(x).attrs = AttrsOf(x.tag, x.attrs)
      /\ \A t \in FieldTags(x.tag) : Read4(x).fields[t] = Reads3(ChildrenOf(x, t))
      /\ Read3(x).attrs = AttrsOf(x.tag, x.attrs)
      /\ \A t \in FieldTags(x.tag) : Read3(x).fields[t] = Reads2(ChildrenOf(x, t))
<1>1. /\ Read(x).attrs = AttrsOf(x.tag, x.attrs)
      /\ \A t \in FieldTags(x.tag) : Read(x).fields[t] = Reads5(ChildrenOf(x, t))
  <2> DEFINE f == [t \in FieldTags(x.tag) |->
                      [j \in DOMAIN ChildrenOf(x, t) |-> Read5(ChildrenOf(x, t)[j])]]
             text == IF Schema[x.tag].text THEN Stripped(x.text) ELSE None
             yes == TRUE
  <2>1. Read(x) = [Model(x.tag, x.attrs, text, f) EXCEPT !.etree_element = x]
    BY DEF Read, ReadBy
  <2>2. Read(x) = Kept(Model(x.tag, x.attrs, text, f), x, yes)
    BY <2>1 DEF Kept
  <2>3. \A t \in FieldTags(x.tag) : FieldOf(f, t) = Reads5(ChildrenOf(x, t))
    BY DEF FieldOf, Reads5
  <2> HIDE DEF f, text, yes
  <2>4. Read(x).attrs = AttrsOf(x.tag, x.attrs) /\ \A t \in FieldTags(x.tag) : Read(x).fields[t] = FieldOf(f, t)
    BY <2>2, ModelParts
  <2> QED
    BY <2>3, <2>4
<1>2. /\ Read5(x).attrs = AttrsOf(x.tag, x.attrs)
      /\ \A t \in FieldTags(x.tag) : Read5(x).fields[t] = Reads4(ChildrenOf(x, t))
  <2> DEFINE f == [t \in FieldTags(x.tag) |->
                      [j \in DOMAIN ChildrenOf(x, t) |-> Read4(ChildrenOf(x, t)[j])]]
             text == IF Schema[x.tag].text THEN Stripped(x.text) ELSE None
             yes == TRUE
  <2>1. Read5(x) = [Model(x.tag, x.attrs, text, f) EXCEPT !.etree_element = x]
    BY DEF Read5, ReadBy
  <2>2. Read5(x) = Kept(Model(x.tag, x.attrs, text, f), x, yes)
    BY <2>1 DEF Kept
  <2>3. \A t \in FieldTags(x.tag) : FieldOf(f, t) = Reads4(ChildrenOf(x, t))
    BY DEF FieldOf, Reads4
  <2> HIDE DEF f, text, yes
  <2>4. Read5(x).attrs = AttrsOf(x.tag, x.attrs) /\ \A t \in FieldTags(x.tag) : Read5(x).fields[t] = FieldOf(f, t)
    BY <2>2, ModelParts
  <2> QED
    BY <2>3, <2>4
<1>3. /\ Read4(x).attrs = AttrsOf(x.tag, x.attrs)
      /\ \A t \in FieldTags(x.tag) : Read4(x).fields[t] = Reads3(ChildrenOf(x, t))
  <2> DEFINE f == [t \in FieldTags(x.tag) |->
                      [j \in DOMAIN ChildrenOf(x, t) |-> Read3(ChildrenOf(x, t)[j])]]
             text == IF Schema[x.tag].text THEN Stripped(x.text) ELSE None
             yes == TRUE
  <2>1. Read4(x) = [Model(x.tag, x.attrs, text, f) EXCEPT !.etree_element = x]
    BY DEF Read4, ReadBy
  <2>2. Read4(x) = Kept(Model(x.tag, x.attrs, text, f), x, yes)
    BY <2>1 DEF Kept
  <2>3. \A t \in FieldTags(x.tag) : FieldOf(f, t) = Reads3(ChildrenOf(x, t))
    BY DEF FieldOf, Reads3
  <2> HIDE DEF f, text, yes
  <2>4. Read4(x).attrs = AttrsOf(x.tag, x.attrs) /\ \A t \in FieldTags(x.tag) : Read4(x).fields[t] = FieldOf(f, t)
    BY <2>2, ModelParts
  <2> QED
    BY <2>3, <2>4
<1>4. /\ Read3(x).attrs = AttrsOf(x.tag, x.attrs)
      /\ \A t \in FieldTags(x.tag) : Read3(x).fields[t] = Reads2(ChildrenOf(x, t))
  <2> DEFINE f == [t \in FieldTags(x.tag) |->
                      [j \in DOMAIN ChildrenOf(x, t) |-> Read2(ChildrenOf(x, t)[j])]]
             text == IF Schema[x.tag].text THEN Stripped(x.text) ELSE None
             yes == TRUE
  <2>1. Read3(x) = [Model(x.tag, x.attrs, text, f) EXCEPT !.etree_element = x]
    BY DEF Read3, ReadBy
  <2>2. Read3(x) = Kept(Model(x.tag, x.attrs, text, f), x, yes)
    BY <2>1 DEF Kept
  <2>3. \A t \in FieldTags(x.tag) : FieldOf(f, t) = Reads2(ChildrenOf(x, t))
    BY DEF FieldOf, Reads2
  <2> HIDE DEF f, text, yes
  <2>4. Read3(x).attrs = AttrsOf(x.tag, x.attrs) /\ \A t \in FieldTags(x.tag) : Read3(x).fields[t] = FieldOf(f, t)
    BY <2>2, ModelParts
  <2> QED
    BY <2>3, <2>4
<1> QED
  BY <1>1, <1>2, <1>3, <1>4

\* An attribute is read as it is, or as nothing; a dumped one too, but that
\* an empty one is lost.
LEMMA AttrRead ==
    ASSUME NEW tag, NEW attrs, NEW a \in Attributes(tag),
           a \in DOMAIN attrs => attrs[a] # None
    PROVE  /\ OrEmpty(AttrsOf(tag, attrs)[a]) = IF a \in DOMAIN attrs THEN attrs[a] ELSE Empty
           /\ (IF a \in DOMAIN KeptAttrs(tag, attrs) THEN KeptAttrs(tag, attrs)[a] ELSE Empty)
              = IF a \in DOMAIN attrs THEN attrs[a] ELSE Empty
           /\ a \in DOMAIN KeptAttrs(tag, attrs) => KeptAttrs(tag, attrs)[a] # None
<1>1. AttrsOf(tag, attrs)[a] = IF a \in DOMAIN attrs THEN attrs[a] ELSE None
  BY DEF AttrsOf
<1>2. OrEmpty(AttrsOf(tag, attrs)[a]) = IF a \in DOMAIN attrs THEN attrs[a] ELSE Empty
  BY <1>1 DEF OrEmpty
<1> QED
  BY <1>2, KeptFacts

\* Attributes and texts of the elements considered.
LEMMA ElementTexts ==
    ASSUME NEW e \in Elements
    PROVE  /\ \A a \in DOMAIN e.attrs : e.attrs[a] \in Text /\ e.attrs[a] # None
           /\ e.text \in Text
<1>1. e.attrs \in [DOMAIN e.attrs -> Text] /\ e.text \in Text /\ None \notin Text
  BY BindingAssumption
<1> QED
  BY <1>1

\* The fields that are compared are those that the element declares.
LEMMA Compared ==
    ASSUME NEW x, Shape(x), NEW k,
           "URI" \in DOMAIN x.attrs => x.attrs["URI"] # None,
           \A j \in DOMAIN Transforms(x) :
              "Algorithm" \in DOMAIN Transforms(x)[j].attrs => Transforms(x)[j].attrs["Algorithm"] # None,
           "Algorithm" \in DOMAIN Child(x, "DigestMethod").attrs
    PROVE  ComparableReferenceFields(ReferenceModel(x, k)) = DeclaredFields(x)
<1> DEFINE r == ReferenceModel(x, k)
           ts == Transforms(x)
           m == Child(x, "DigestMethod")
           v == Child(x, "DigestValue")
           models == [j \in DOMAIN ts |-> LeafModel(ts[j], k)]
           tm == TransformsModel(Child(x, "Transforms"), k)
<1>1. /\ r.attrs = AttrsOf("Reference", x.attrs)
      /\ r.fields["Transforms"] = <<tm>>
      /\ r.fields["DigestMethod"] = <<LeafModel(m, k)>> /\ r.fields["DigestValue"] = <<LeafModel(v, k)>>
  BY ReferenceParts DEF FieldModel, ReferenceFields
<1>2. tm.fields["Transform"] = models
  <2>1. ts = ChildrenOf(Child(x, "Transforms"), "Transform")
    BY DEF Transforms, Child
  <2> HIDE DEF ts
  <2> QED
    BY <2>1, TransformsParts
<1>3. m.tag = "DigestMethod" /\ v.tag = "DigestValue" /\ \A j \in DOMAIN ts : ts[j].tag = "Transform"
  BY DEF Shape, ReferenceFields
<1>4. LeafModel(m, k).attrs = AttrsOf("DigestMethod", m.attrs) /\ LeafModel(v, k).text = Stripped(v.text)
  <2>1. TextRead(v) = Stripped(v.text)
    BY <1>3, ReferenceSchema DEF TextRead, TextClass, Class
  <2> QED
    BY <1>3, <2>1, LeafParts
<1>5. \A j \in DOMAIN ts : LeafModel(ts[j], k).attrs = AttrsOf("Transform", ts[j].attrs)
  BY <1>3, LeafParts
<1> HIDE DEF r, ts, m, v, tm
<1>6. OrEmpty(r.attrs["URI"]) = IF "URI" \in DOMAIN x.attrs THEN x.attrs["URI"] ELSE Empty
  BY <1>1, AttrRead, ReferenceTags
<1>7. [j \in DOMAIN models |-> OrEmpty(models[j].attrs["Algorithm"])] = [j \in DOMAIN ts |-> AlgorithmOf(ts[j])]
  <2>1. \A j \in DOMAIN ts : OrEmpty(models[j].attrs["Algorithm"]) = AlgorithmOf(ts[j])
    <3> TAKE j \in DOMAIN ts
    <3>1. models[j].attrs = AttrsOf("Transform", ts[j].attrs)
      BY <1>5
    <3>2. "Algorithm" \in DOMAIN ts[j].attrs => ts[j].attrs["Algorithm"] # None
      BY DEF ts
    <3>3. "Algorithm" \in Attributes("Transform")
      BY ReferenceTags
    <3>4. OrEmpty(AttrsOf("Transform", ts[j].attrs)["Algorithm"]) = AlgorithmOf(ts[j])
      BY <3>2, <3>3, AttrRead DEF AlgorithmOf
    <3> QED
      BY <3>1, <3>4
  <2>2. DOMAIN models = DOMAIN ts
    OBVIOUS
  <2> HIDE DEF models
  <2> QED
    BY <2>1, <2>2
<1>8. LeafModel(m, k).attrs["Algorithm"] = AlgorithmOf(m)
  <2>1. "Algorithm" \in Attributes("DigestMethod") /\ "Algorithm" \in DOMAIN m.attrs
    BY ReferenceTags DEF m
  <2> QED
    BY <1>4, <2>1 DEF AttrsOf, AlgorithmOf
<1>9. Stripped(LeafModel(v, k).text) = Stripped(v.text)
  BY <1>4 DEF Stripped, TextOf
<1> HIDE DEF models
<1>10. ComparableReferenceFields(r)
       = [uri |-> OrEmpty(r.attrs["URI"]),
          transform_algorithms |-> NonEmpty([j \in DOMAIN models |-> OrEmpty(models[j].attrs["Algorithm"])]),
          digest_algorithm |-> LeafModel(m, k).attrs["Algorithm"],
          digest_value |-> Stripped(LeafModel(v, k).text)]
  BY <1>1, <1>2 DEF ComparableReferenceFields
<1>11. DeclaredFields(x)
       = [uri |-> IF "URI" \in DOMAIN x.attrs THEN x.attrs["URI"] ELSE Empty,
          transform_algorithms |-> NonEmpty([j \in DOMAIN ts |-> AlgorithmOf(ts[j])]),
          digest_algorithm |-> AlgorithmOf(m),
          digest_value |-> Stripped(v.text)]
  BY DEF DeclaredFields, ts, m, v, Child
<1> QED
  BY <1>6, <1>7, <1>8, <1>9, <1>10, <1>11 DEF r

\* Dumping a reference changes nothing of what it declares.
LEMMA DeclaredKept ==
    ASSUME NEW e, IsReference(e), NEW k
    PROVE  DeclaredFields(ReferenceXml(e, k)) = DeclaredFields(e)
<1> DEFINE x == ReferenceXml(e, k)
           ts == Transforms(e)
           us == Transforms(x)
           m == Child(e, "DigestMethod")
           v == Child(e, "DigestValue")
           E == {y \in Elements : y.tag = "Transform"}
<1>1. /\ x.attrs = KeptAttrs("Reference", e.attrs)
      /\ Child(x, "DigestMethod") = DigestMethodXml(m) /\ Child(x, "DigestValue") = DigestValueXml(v)
      /\ us = [j \in DOMAIN ts |-> TransformXml(ts[j], k)]
  BY ShapeKept, ReferenceChildren
<1>2. m \in Elements /\ e \in Elements /\ ts \in Seq(E)
  BY ValidReference DEF IsReference, ReferenceFields
<1>3. /\ DigestMethodXml(m).attrs = KeptAttrs("DigestMethod", m.attrs)
      /\ DigestValueXml(v).text = Stripped(v.text)
      /\ \A y : TransformXml(y, k).attrs = KeptAttrs("Transform", y.attrs)
  BY ElementParts DEF DigestMethodXml, DigestValueXml, TransformXml
<1>4. /\ "URI" \in Attributes("Reference") /\ "Algorithm" \in Attributes("DigestMethod")
      /\ "Algorithm" \in Attributes("Transform")
  BY ReferenceTags
<1> HIDE DEF x, ts, us, m, v
<1>5. (IF "URI" \in DOMAIN x.attrs THEN x.attrs["URI"] ELSE Empty)
      = IF "URI" \in DOMAIN e.attrs THEN e.attrs["URI"] ELSE Empty
  BY <1>1, <1>2, <1>4, AttrRead, ElementTexts
<1>6. AlgorithmOf(DigestMethodXml(m)) = AlgorithmOf(m)
  BY <1>2, <1>3, <1>4, AttrRead, ElementTexts DEF AlgorithmOf
<1>7. [j \in DOMAIN us |-> AlgorithmOf(us[j])] = [j \in DOMAIN ts |-> AlgorithmOf(ts[j])]
  <2>1. \A y \in E : y \in Elements
    OBVIOUS
  <2> HIDE DEF E
  <2>2. \A j \in DOMAIN ts : ts[j] \in Elements
    BY <1>2, <2>1
  <2>3. ASSUME NEW j \in DOMAIN ts
        PROVE  AlgorithmOf(TransformXml(ts[j], k)) = AlgorithmOf(ts[j])
    BY <1>3, <1>4, <2>2, AttrRead, ElementTexts DEF AlgorithmOf
  <2> QED
    BY <1>1, <2>3
<1>8. Stripped(DigestValueXml(v).text) = Stripped(v.text)
  BY <1>3 DEF Stripped, TextOf
<1>9. DeclaredFields(x)
      = [uri |-> IF "URI" \in DOMAIN x.attrs THEN x.attrs["URI"] ELSE Empty,
         transform_algorithms |-> NonEmpty([j \in DOMAIN us |-> AlgorithmOf(us[j])]),
         digest_algorithm |-> AlgorithmOf(DigestMethodXml(m)),
         digest_value |-> Stripped(DigestValueXml(v).text)]
  <2>1. ChildrenOf(x, "DigestMethod")[1] = DigestMethodXml(m) /\ ChildrenOf(x, "DigestValue")[1] = DigestValueXml(v)
    BY <1>1 DEF Child
  <2> QED
    BY <2>1 DEF DeclaredFields, us
<1>10. DeclaredFields(e)
       = [uri |-> IF "URI" \in DOMAIN e.attrs THEN e.attrs["URI"] ELSE Empty,
          transform_algorithms |-> NonEmpty([j \in DOMAIN ts |-> AlgorithmOf(ts[j])]),
          digest_algorithm |-> AlgorithmOf(m),
          digest_value |-> Stripped(v.text)]
  BY DEF DeclaredFields, ts, m, v, Child
<1> QED
  BY <1>5, <1>6, <1>7, <1>8, <1>9, <1>10 DEF x

\* What is found once is read once.
LEMMA ReadOne ==
    ASSUME NEW x, NEW t \in FieldTags(x.tag), NEW y, ChildrenOf(x, t) = <<y>>
    PROVE  /\ Read(x).fields[t] = <<Read5(y)>> /\ Read5(x).fields[t] = <<Read4(y)>>
           /\ Read4(x).fields[t] = <<Read3(y)>> /\ Read3(x).fields[t] = <<Read2(y)>>
<1> DEFINE s == <<y>>
<1>1. DOMAIN s = {1} /\ s[1] = y
  OBVIOUS
<1>2. ChildrenOf(x, t) = s
  OBVIOUS
<1> HIDE DEF s
<1>3. \A z : [j \in {1} |-> z] = <<z>>
  OBVIOUS
<1>4. /\ [j \in DOMAIN s |-> Read5(s[j])] = [j \in {1} |-> Read5(y)]
      /\ [j \in DOMAIN s |-> Read4(s[j])] = [j \in {1} |-> Read4(y)]
      /\ [j \in DOMAIN s |-> Read3(s[j])] = [j \in {1} |-> Read3(y)]
      /\ [j \in DOMAIN s |-> Read2(s[j])] = [j \in {1} |-> Read2(y)]
  BY <1>1
<1>5. /\ Read(x).fields[t] = Reads5(s) /\ Read5(x).fields[t] = Reads4(s)
      /\ Read4(x).fields[t] = Reads3(s) /\ Read3(x).fields[t] = Reads2(s)
  BY <1>2, ReadModel
<1> QED
  BY <1>3, <1>4, <1>5 DEF Reads2, Reads3, Reads4, Reads5

\* A reference is compared by what the element it was read from declares.
LEMMA ReadComparable ==
    ASSUME NEW e, IsReference(e), NEW k, AlgorithmOf(Child(e, "DigestMethod")) # Empty
    PROVE  ComparableReferenceFields(Read2(ReferenceXml(e, k))) = DeclaredFields(e)
<1> DEFINE x == ReferenceXml(e, k)
           yes == TRUE
           m == Child(e, "DigestMethod")
<1>1. /\ Shape(x) /\ Child(x, "DigestMethod") = DigestMethodXml(m)
      /\ Transforms(x) = [j \in DOMAIN Transforms(e) |-> TransformXml(Transforms(e)[j], k)]
      /\ x.attrs = KeptAttrs("Reference", e.attrs)
  BY ShapeKept, ReferenceChildren
<1>2. DeclaredFields(x) = DeclaredFields(e)
  BY DeclaredKept
<1>3. m \in Elements /\ "Algorithm" \in DOMAIN m.attrs
  BY ValidReference DEF IsReference, ReferenceFields
<1>4. AlgorithmOf(m) # Empty
  OBVIOUS
<1> HIDE DEF x, m, yes
<1>5. "Algorithm" \in DOMAIN Child(x, "DigestMethod").attrs
  <2>1. DigestMethodXml(m).attrs = KeptAttrs("DigestMethod", m.attrs)
    BY ElementParts DEF DigestMethodXml
  <2>2. m.attrs["Algorithm"] # Empty /\ m.attrs["Algorithm"] # None
    BY <1>3, <1>4, ElementTexts DEF AlgorithmOf
  <2> QED
    BY <1>1, <1>3, <2>1, <2>2, KeptFacts, ReferenceTags
<1>6. "URI" \in DOMAIN x.attrs => x.attrs["URI"] # None
  BY <1>1, KeptFacts
<1>7. \A j \in DOMAIN Transforms(x) :
         "Algorithm" \in DOMAIN Transforms(x)[j].attrs => Transforms(x)[j].attrs["Algorithm"] # None
  <2>1. \A y : TransformXml(y, k).attrs = KeptAttrs("Transform", y.attrs)
    BY ElementParts DEF TransformXml
  <2>2. \A j \in DOMAIN Transforms(e) : Transforms(x)[j].attrs = KeptAttrs("Transform", Transforms(e)[j].attrs)
    BY <1>1, <2>1
  <2>3. DOMAIN Transforms(x) = DOMAIN Transforms(e)
    BY <1>1
  <2> QED
    BY <2>2, <2>3, KeptFacts
<1>8. Read2(x) = ReferenceModel(x, yes)
  BY <1>1, ReadReference DEF yes
<1>9. ComparableReferenceFields(ReferenceModel(x, yes)) = DeclaredFields(x)
  BY <1>1, <1>5, <1>6, <1>7, Compared
<1> QED
  BY <1>2, <1>8, <1>9 DEF x

\* The references read of a receipt are those it was made for.
LEMMA ReadSuccess ==
    ASSUME NEW id, NEW refs, AreReferences(refs), NEW k, NEW now,
           \A i \in DOMAIN refs : AlgorithmOf(Child(refs[i], "DigestMethod")) # Empty
    PROVE  NonRepudiatedReferences(Read(SuccessXml(id, refs, k, now)))
           = [i \in DOMAIN refs |-> DeclaredFields(refs[i])]
<1> DEFINE ref == <<TextXml("RefToMessageId", id)>>
           info == InfoXml(now, ref)
           c == ReceiptXml(refs, k)
           y == InformationXml(refs, k)
           x == SuccessXml(id, refs, k, now)
           s == [i \in DOMAIN refs |-> PartXml(refs[i], k)]
           parts == [i \in DOMAIN refs |-> Read3(PartXml(refs[i], k))]
           fields == [i \in DOMAIN refs |-> DeclaredFields(refs[i])]
           n == Len(refs)
<1>1. n \in Nat /\ DOMAIN refs = 1..n /\ \A i \in DOMAIN refs : IsReference(refs[i])
  BY ReferencesAre
<1>2. x = SignalXml(info, c)
  BY DEF SuccessXml
<1>3. c.tag = "Receipt" /\ ChildrenOf(c, "NonRepudiationInformation") = <<y>>
      /\ y.tag = "NonRepudiationInformation" /\ ChildrenOf(y, "MessagePartNRInformation") = s
  BY ReceiptChildren
<1>4. info.tag = "MessageInfo"
  <2>1. ref \in {<<>>, <<TextXml("RefToMessageId", id)>>}
    OBVIOUS
  <2> HIDE DEF ref
  <2> QED
    BY <2>1, InfoChildren
<1> HIDE DEF ref, info, c, y, x
<1>5. x.tag = "SignalMessage" /\ ChildrenOf(x, "Receipt") = <<c>>
  BY <1>2, <1>3, <1>4, SignalChildren
<1>6. /\ "Receipt" \in FieldTags("SignalMessage") /\ "NonRepudiationInformation" \in FieldTags("Receipt")
      /\ "MessagePartNRInformation" \in FieldTags("NonRepudiationInformation")
      /\ "Reference" \in FieldTags("MessagePartNRInformation")
  BY SignalTags
<1>7. Read(x).fields["Receipt"] = <<Read5(c)>>
  BY <1>5, <1>6, ReadOne
<1>8. Read5(c).fields["NonRepudiationInformation"] = <<Read4(y)>>
  BY <1>3, <1>6, ReadOne
<1>9. Read4(y).fields["MessagePartNRInformation"] = parts
  <2>1. Reads3(s) = parts
    BY DEF Reads3
  <2> HIDE DEF s
  <2>2. Read4(y).fields["MessagePartNRInformation"] = Reads3(s)
    BY <1>3, <1>6, ReadModel
  <2> QED
    BY <2>1, <2>2
<1>10. ASSUME NEW i \in DOMAIN refs
       PROVE  [j \in DOMAIN parts[i].fields["Reference"] |->
                  ComparableReferenceFields(parts[i].fields["Reference"][j])] = <<DeclaredFields(refs[i])>>
  <2> DEFINE p == PartXml(refs[i], k)
             r == ReferenceXml(refs[i], k)
             u == <<Read2(r)>>
  <2>1. p.tag = "MessagePartNRInformation" /\ ChildrenOf(p, "Reference") = <<r>>
    BY PartChildren
  <2>2. parts[i] = Read3(p)
    OBVIOUS
  <2>3. ComparableReferenceFields(Read2(r)) = DeclaredFields(refs[i])
    BY <1>1, ReadComparable
  <2> HIDE DEF p, r, parts
  <2>4. Read3(p).fields["Reference"] = u
    BY <1>6, <2>1, ReadOne
  <2>5. DOMAIN u = {1} /\ u[1] = Read2(r)
    OBVIOUS
  <2> HIDE DEF u
  <2>6. [j \in DOMAIN u |-> ComparableReferenceFields(u[j])] = [j \in {1} |-> DeclaredFields(refs[i])]
    BY <2>3, <2>5
  <2>7. [j \in {1} |-> DeclaredFields(refs[i])] = <<DeclaredFields(refs[i])>>
    OBVIOUS
  <2> QED
    BY <2>2, <2>4, <2>6, <2>7
<1> DEFINE S == {DeclaredFields(refs[i]) : i \in 1..n}
<1>11. fields \in [1..n -> S]
  BY <1>1
<1>12. DOMAIN fields = DOMAIN refs /\ \A i \in DOMAIN refs : fields[i] = DeclaredFields(refs[i])
  OBVIOUS
<1>13. DOMAIN parts = DOMAIN refs
  OBVIOUS
<1> HIDE DEF fields, S, parts
<1>14. fields \in Seq(S)
  BY <1>1, <1>11
<1>15. [i \in DOMAIN parts |-> [j \in DOMAIN parts[i].fields["Reference"] |->
            ComparableReferenceFields(parts[i].fields["Reference"][j])]]
       = [i \in DOMAIN fields |-> <<fields[i]>>]
  BY <1>10, <1>12, <1>13
<1>16. NonRepudiatedReferences(Read(x))
       = FlattenSeq([i \in DOMAIN parts |-> [j \in DOMAIN parts[i].fields["Reference"] |->
            ComparableReferenceFields(parts[i].fields["Reference"][j])]])
  <2> DEFINE receipts == Read(x).fields["Receipt"]
             infos == Read5(c).fields["NonRepudiationInformation"]
  <2>1. receipts[1] = Read5(c) /\ infos[1] = Read4(y)
    BY <1>7, <1>8
  <2> QED
    BY <1>9, <2>1, Zenon DEF NonRepudiatedReferences
<1>17. FlattenSeq([i \in DOMAIN fields |-> <<fields[i]>>]) = fields
  BY <1>14, FlattenSingles
<1> QED
  BY <1>15, <1>16, <1>17 DEF x, fields

\* The error read of a signal is the one it was made for.
LEMMA ReadFailure ==
    ASSUME NEW msg, IsError(msg), NEW now
    PROVE  LET errors == Read(FailureXml(msg, now)).fields["Error"]
               error == errors[1]
               code == Codes[Base[msg.parse_error.class]]
           IN  /\ Len(errors) = 1
               /\ error.attrs["errorCode"] = TextOf(<<code.error_code>>)
               /\ error.attrs["severity"] = TextOf(<<code.severity>>)
               /\ error.fields["ErrorDetail"][1].text = Stripped(msg.parse_error.detail)
<1> DEFINE ref == RefXml(msg.id)
           info == InfoXml(now, ref)
           c == ErrorXml(msg)
           d == TextXml("ErrorDetail", msg.parse_error.detail)
           x == FailureXml(msg, now)
           given == KeptAttrs("Error", ErrorAttributes(msg))
           code == Codes[Base[msg.parse_error.class]]
<1>1. x = SignalXml(info, c)
  BY DEF FailureXml
<1>2. info.tag = "MessageInfo"
  <2>1. ref \in {<<>>, <<TextXml("RefToMessageId", msg.id)>>}
    BY DEF RefXml
  <2> HIDE DEF ref
  <2> QED
    BY <2>1, InfoChildren
<1>3. /\ c.tag = "Error" /\ c.attrs = given /\ ChildrenOf(c, "ErrorDetail") = <<d>>
  BY ErrorChildren
<1>4. d.tag = "ErrorDetail" /\ d.text = msg.parse_error.detail
  BY ElementParts DEF TextXml
<1>5. /\ "errorCode" \in DOMAIN given /\ given["errorCode"] = TextOf(<<code.error_code>>)
      /\ "severity" \in DOMAIN given /\ given["severity"] = TextOf(<<code.severity>>)
  BY ErrorAttrs
<1> HIDE DEF ref, info, c, d, x, given, code
<1>6. x.tag = "SignalMessage" /\ ChildrenOf(x, "Error") = <<c>>
  BY <1>1, <1>2, <1>3, SignalChildren
<1>7. /\ "Error" \in FieldTags("SignalMessage") /\ "ErrorDetail" \in FieldTags("Error")
      /\ FieldTags("ErrorDetail") = {} /\ "errorCode" \in Attributes("Error")
      /\ "severity" \in Attributes("Error")
  BY SignalTags
<1>8. Read(x).fields["Error"] = <<Read5(c)>>
  BY <1>6, <1>7, ReadOne
<1>9. Read5(c).fields["ErrorDetail"] = <<Read4(d)>>
  BY <1>3, <1>7, ReadOne
<1>10. Read5(c).attrs = AttrsOf("Error", given)
  BY <1>3, ReadModel
<1>11. Read4(d).text = Stripped(msg.parse_error.detail)
  <2> DEFINE yes == TRUE
  <2>1. Read4(d) = LeafModel(d, yes)
    BY <1>4, <1>7, ReadLeaf
  <2> HIDE DEF yes
  <2>2. Read4(d).text = TextRead(d)
    BY <2>1, LeafParts
  <2> QED
    BY <1>4, <2>2, SignalSchema DEF TextRead, TextClass, Class
<1>12. /\ Read5(c).attrs["errorCode"] = TextOf(<<code.error_code>>)
       /\ Read5(c).attrs["severity"] = TextOf(<<code.severity>>)
  BY <1>5, <1>7, <1>10 DEF AttrsOf
<1> DEFINE errors == Read(x).fields["Error"]
           details == Read5(c).fields["ErrorDetail"]
<1>13. Len(errors) = 1 /\ errors[1] = Read5(c)
  BY <1>8
<1>14. details[1] = Read4(d)
  BY <1>9
<1> QED
  BY <1>11, <1>12, <1>13, <1>14 DEF x, code

-----------------------------------------------------------------------------
(* What storing changes of a receipt *)

\* A transform of one of the references carries content of its own.
Carries(refs) ==
    \E i \in DOMAIN refs : \E j \in DOMAIN Transforms(refs[i]) : Transforms(refs[i])[j].children # <<>>

\* A ds:Reference is dumped the same with and without its element where no
\* transform has content.
LEMMA SameTransforms ==
    ASSUME NEW e, IsReference(e), NEW yes, yes = TRUE, NEW no, no = FALSE
    PROVE  ReferenceXml(e, yes) = ReferenceXml(e, no) <=>
              \A j \in DOMAIN Transforms(e) : Transforms(e)[j].children = <<>>
<1> DEFINE ts == Transforms(e)
           x(k) == ReferenceXml(e, k)
           a(k) == TransformsXml(Child(e, "Transforms"), k)
           s(k) == [j \in DOMAIN ts |-> TransformXml(ts[j], k)]
<1>1. \A j \in DOMAIN ts : TransformXml(ts[j], yes) = TransformXml(ts[j], no) <=> ts[j].children = <<>>
  <2> TAKE j \in DOMAIN ts
  <2>1. /\ TransformXml(ts[j], yes).children = ts[j].children
        /\ TransformXml(ts[j], no).children = <<>>
    BY ElementParts DEF TransformXml
  <2>2. ASSUME ts[j].children = <<>>
        PROVE  TransformXml(ts[j], yes) = TransformXml(ts[j], no)
    BY <2>2 DEF TransformXml
  <2> QED
    BY <2>1, <2>2
<1>2. s(yes) = s(no) <=> \A j \in DOMAIN ts : TransformXml(ts[j], yes) = TransformXml(ts[j], no)
  <2>1. \A j \in DOMAIN ts : s(yes)[j] = TransformXml(ts[j], yes) /\ s(no)[j] = TransformXml(ts[j], no)
    OBVIOUS
  <2>2. ASSUME s(yes) = s(no)
        PROVE  \A j \in DOMAIN ts : TransformXml(ts[j], yes) = TransformXml(ts[j], no)
    <3> HIDE DEF s
    <3> QED
      BY <2>1, <2>2
  <2>3. ASSUME \A j \in DOMAIN ts : TransformXml(ts[j], yes) = TransformXml(ts[j], no)
        PROVE  s(yes) = s(no)
    BY <2>3
  <2> QED
    BY <2>2, <2>3
<1>3. a(yes) = a(no) <=> s(yes) = s(no)
  <2>1. ChildrenOf(a(yes), "Transform") = s(yes) /\ ChildrenOf(a(no), "Transform") = s(no)
    <3>1. ASSUME NEW k PROVE ChildrenOf(a(k), "Transform") = s(k)
      BY TransformsChildren
    <3> HIDE DEF a, s
    <3> QED
      BY <3>1
  <2>2. ts = ChildrenOf(Child(e, "Transforms"), "Transform")
    BY DEF Transforms, Child
  <2>3. ASSUME NEW k
        PROVE  a(k) = Element("Transforms", KeptAttrs("Transforms", Child(e, "Transforms").attrs), Empty, s(k))
    <3> HIDE DEF ts
    <3> QED
      BY <2>2 DEF TransformsXml
  <2>4. /\ a(yes) = Element("Transforms", KeptAttrs("Transforms", Child(e, "Transforms").attrs), Empty, s(yes))
        /\ a(no) = Element("Transforms", KeptAttrs("Transforms", Child(e, "Transforms").attrs), Empty, s(no))
    BY <2>3
  <2> HIDE DEF a, s
  <2> QED
    BY <2>1, <2>4
<1>4. x(yes) = x(no) <=> a(yes) = a(no)
  <2>1. ChildrenOf(x(yes), "Transforms") = <<a(yes)>> /\ ChildrenOf(x(no), "Transforms") = <<a(no)>>
    BY ReferenceChildren
  <2>2. ASSUME a(yes) = a(no) PROVE x(yes) = x(no)
    BY <2>2 DEF ReferenceXml
  <2>3. ASSUME x(yes) = x(no) PROVE a(yes) = a(no)
    <3> HIDE DEF x, a
    <3>1. <<a(yes)>> = <<a(no)>>
      BY <2>1, <2>3
    <3> QED
      BY <3>1
  <2> QED
    BY <2>2, <2>3
<1> QED
  BY <1>1, <1>2, <1>3, <1>4

\* So is an eb:Receipt, where that holds of all of its references.
LEMMA SameReceipt ==
    ASSUME NEW refs, AreReferences(refs), NEW yes, yes = TRUE, NEW no, no = FALSE
    PROVE  ReceiptXml(refs, yes) = ReceiptXml(refs, no) <=> ~Carries(refs)
<1> DEFINE x(k) == ReceiptXml(refs, k)
           y(k) == InformationXml(refs, k)
           p(k) == [i \in DOMAIN refs |-> PartXml(refs[i], k)]
           r(i, k) == ReferenceXml(refs[i], k)
<1>1. \A i \in DOMAIN refs : r(i, yes) = r(i, no) <=>
         \A j \in DOMAIN Transforms(refs[i]) : Transforms(refs[i])[j].children = <<>>
  BY ReferencesAre, SameTransforms
<1>2. ASSUME NEW i \in DOMAIN refs
      PROVE  PartXml(refs[i], yes) = PartXml(refs[i], no) <=> r(i, yes) = r(i, no)
  <2>1. /\ ChildrenOf(PartXml(refs[i], yes), "Reference") = <<r(i, yes)>>
        /\ ChildrenOf(PartXml(refs[i], no), "Reference") = <<r(i, no)>>
    BY PartChildren
  <2>2. ASSUME r(i, yes) = r(i, no) PROVE PartXml(refs[i], yes) = PartXml(refs[i], no)
    BY <2>2 DEF PartXml
  <2>3. ASSUME PartXml(refs[i], yes) = PartXml(refs[i], no) PROVE r(i, yes) = r(i, no)
    <3> HIDE DEF r
    <3>1. <<r(i, yes)>> = <<r(i, no)>>
      BY <2>1, <2>3
    <3> QED
      BY <3>1
  <2> QED
    BY <2>2, <2>3
<1>3. p(yes) = p(no) <=> \A i \in DOMAIN refs : PartXml(refs[i], yes) = PartXml(refs[i], no)
  <2>1. \A i \in DOMAIN refs : p(yes)[i] = PartXml(refs[i], yes) /\ p(no)[i] = PartXml(refs[i], no)
    OBVIOUS
  <2>2. ASSUME p(yes) = p(no)
        PROVE  \A i \in DOMAIN refs : PartXml(refs[i], yes) = PartXml(refs[i], no)
    <3> HIDE DEF p
    <3> QED
      BY <2>1, <2>2
  <2>3. ASSUME \A i \in DOMAIN refs : PartXml(refs[i], yes) = PartXml(refs[i], no)
        PROVE  p(yes) = p(no)
    BY <2>3
  <2> QED
    BY <2>2, <2>3
<1>4. y(yes) = y(no) <=> p(yes) = p(no)
  <2>1. /\ ChildrenOf(y(yes), "MessagePartNRInformation") = p(yes)
        /\ ChildrenOf(y(no), "MessagePartNRInformation") = p(no)
    <3>1. ASSUME NEW k PROVE ChildrenOf(y(k), "MessagePartNRInformation") = p(k)
      BY ReceiptChildren
    <3> HIDE DEF y, p
    <3> QED
      BY <3>1
  <2>2. /\ y(yes) = Element("NonRepudiationInformation", KeptAttrs("NonRepudiationInformation", <<>>), Empty, p(yes))
        /\ y(no) = Element("NonRepudiationInformation", KeptAttrs("NonRepudiationInformation", <<>>), Empty, p(no))
    BY DEF InformationXml
  <2> HIDE DEF y, p
  <2> QED
    BY <2>1, <2>2
<1>5. x(yes) = x(no) <=> y(yes) = y(no)
  <2>1. /\ ChildrenOf(x(yes), "NonRepudiationInformation") = <<y(yes)>>
        /\ ChildrenOf(x(no), "NonRepudiationInformation") = <<y(no)>>
    BY ReceiptChildren
  <2>2. ASSUME y(yes) = y(no) PROVE x(yes) = x(no)
    BY <2>2 DEF ReceiptXml
  <2>3. ASSUME x(yes) = x(no) PROVE y(yes) = y(no)
    <3> HIDE DEF x, y
    <3>1. <<y(yes)>> = <<y(no)>>
      BY <2>1, <2>3
    <3> QED
      BY <3>1
  <2> QED
    BY <2>2, <2>3
<1> HIDE DEF x, y, p, r
<1>6. x(yes) = x(no) <=> \A i \in DOMAIN refs : \A j \in DOMAIN Transforms(refs[i]) : Transforms(refs[i])[j].children = <<>>
  BY <1>1, <1>2, <1>3, <1>4, <1>5
<1> QED
  BY <1>6 DEF Carries, x

\* And so is the signal.
LEMMA SameSuccess ==
    ASSUME NEW id, NEW refs, AreReferences(refs), NEW now
    PROVE  SuccessXml(id, refs, TRUE, now) = SuccessXml(id, refs, FALSE, now) <=> ~Carries(refs)
<1> DEFINE yes == TRUE
           no == FALSE
           ref == <<TextXml("RefToMessageId", id)>>
           info == InfoXml(now, ref)
<1>1. yes = TRUE /\ no = FALSE
  OBVIOUS
<1>2. info.tag = "MessageInfo"
  <2>1. ref \in {<<>>, <<TextXml("RefToMessageId", id)>>}
    OBVIOUS
  <2> HIDE DEF ref
  <2> QED
    BY <2>1, InfoChildren
<1> HIDE DEF yes, no
<1> DEFINE x(k) == SuccessXml(id, refs, k, now)
           c(k) == ReceiptXml(refs, k)
<1>3. x(yes) = SignalXml(info, c(yes)) /\ x(no) = SignalXml(info, c(no))
  BY DEF SuccessXml
<1>4. c(yes).tag = "Receipt" /\ c(no).tag = "Receipt"
  BY ReceiptChildren
<1>5. c(yes) = c(no) <=> ~Carries(refs)
  BY <1>1, SameReceipt
<1> HIDE DEF info, c, x
<1>6. ChildrenOf(SignalXml(info, c(yes)), "Receipt") = <<c(yes)>>
      /\ ChildrenOf(SignalXml(info, c(no)), "Receipt") = <<c(no)>>
  BY <1>2, <1>4, SignalChildren
<1>7. x(yes) = x(no) <=> c(yes) = c(no)
  <2>1. ASSUME x(yes) = x(no) PROVE c(yes) = c(no)
    <3>1. <<c(yes)>> = <<c(no)>>
      BY <1>3, <1>6, <2>1
    <3> QED
      BY <3>1
  <2> QED
    BY <1>3, <2>1
<1>8. x(yes) = x(no) <=> ~Carries(refs)
  BY <1>5, <1>7
<1> QED
  BY <1>1, <1>8 DEF x

-----------------------------------------------------------------------------
(* The invariant *)

Now == TextOf(<<"now">>)
Owed == pc \in {"owed", "sent", "read", "unreadable"}
Sent == pc \in {"sent", "read", "unreadable"}

\* An accepted message as it is held, its models with their elements or not.
HeldMessage(kept) ==
    [id |-> received.id, parse_error |-> None, references |-> Models(received.refs, kept)]

\* The receipt that was signed is of the models for_message was given; what
\* is sent is of those, or of models without their elements.
AcceptedAs(kept) ==
    /\ message = HeldMessage(kept)
    /\ Owed =>
         /\ signed = SuccessXml(received.id, received.refs, kept, Now)
         /\ resumed => receipt = SuccessModel(received.id, received.refs, FALSE, Now)
         /\ ~resumed => receipt = SuccessModel(received.id, received.refs, kept, Now)
    /\ Sent =>
         /\ resumed => wire = SuccessXml(received.id, received.refs, FALSE, Now)
         /\ ~resumed => wire = SuccessXml(received.id, received.refs, kept, Now)

AcceptedInv ==
    pc # "waiting" /\ received \in Accepted =>
        /\ ~Blank(received.id) /\ AreReferences(received.refs)
        /\ received.verify_digests => \A i \in DOMAIN received.refs : Verifiable(received.refs[i])
        /\ \E kept \in BOOLEAN : AcceptedAs(kept)

\* A refused message is held and sent as what it was refused with.
RefusedInv ==
    pc # "waiting" /\ received \in Refused =>
        /\ message = [id |-> received.id, parse_error |-> Error(received.class, received.argument),
                      references |-> <<>>]
        /\ Owed => /\ receipt = GetErrorSignalMessage(message, Now)
                   /\ signed = FailureXml(message, Now)
        /\ Sent => wire = FailureXml(message, Now)

PhaseInv ==
    /\ pc \in {"waiting", "parsed", "owed", "sent", "read", "unreadable"}
    /\ resumed \in BOOLEAN
    /\ pc \in {"waiting", "parsed"} => resumed = FALSE
    /\ pc # "waiting" => received \in Accepted \cup Refused
    /\ pc = "read" => Valid(wire) /\ read = Read(wire)
    /\ pc = "unreadable" => ~Valid(wire)

BindingInv == PhaseInv /\ AcceptedInv /\ RefusedInv

\* What BindingAssumption says of a message.
LEMMA AcceptedAre ==
    ASSUME NEW m \in Accepted
    PROVE  /\ m.id \in Text /\ m.verify_digests \in BOOLEAN /\ "refs" \in DOMAIN m
           /\ m.refs \in Seq({e \in Elements : e.tag = "Reference"})
<1> DEFINE S == Seq({e \in Elements : e.tag = "Reference"})
<1>1. m \in [refs : S, id : Text, verify_digests : BOOLEAN]
  BY BindingAssumption
<1> HIDE DEF S
<1>2. m.refs \in S /\ m.id \in Text /\ m.verify_digests \in BOOLEAN /\ "refs" \in DOMAIN m
  BY <1>1
<1> QED
  BY <1>2 DEF S

\* What it says of a refusal.
LEMMA RefusedAre ==
    ASSUME NEW m \in Refused
    PROVE  /\ m.class \in ErrorClass /\ m.argument \in Text /\ m.id \in Text /\ "refs" \notin DOMAIN m
           /\ Blank(m.argument) => /\ m.class \notin DOMAIN Given
                                   /\ m.class \in DOMAIN Fixed => m.argument = Empty
<1>1. m \in [class : ErrorClass, argument : Text, id : Text]
  BY BindingAssumption
<1>2. m.class \in ErrorClass /\ m.argument \in Text /\ m.id \in Text /\ "refs" \notin DOMAIN m
  BY <1>1
<1>3. Blank(m.argument) => /\ m.class \notin DOMAIN Given
                           /\ m.class \in DOMAIN Fixed => m.argument = Empty
  BY BindingAssumption
<1> QED
  BY <1>2, <1>3

\* The detail of an error is a text that is not blank.
LEMMA DetailIs ==
    ASSUME NEW m \in Refused
    PROVE  DetailOf(m.class, m.argument) \in Text /\ ~Blank(DetailOf(m.class, m.argument))
<1> DEFINE c == m.class
           a == m.argument
           w == <<c>>
           e == <<"end">>
<1>1. /\ c \in ErrorClass /\ a \in Text
      /\ Blank(a) => c \notin DOMAIN Given /\ (c \in DOMAIN Fixed => a = Empty)
  BY RefusedAre
<1> HIDE DEF a, c
<1>2. c \in STRING /\ "end" \in STRING
  BY <1>1, WordsAssumption
<1>3. c \in DOMAIN Ending \/ c \in DOMAIN Enclosing \/ c \in DOMAIN Fixed \/ c \in DOMAIN Given
  <2>1. \A f, g : DOMAIN Joined(f, g) = DOMAIN f \cup DOMAIN g
    BY DEF Joined
  <2>2. /\ DOMAIN Joined(Fixed, Ending) = DOMAIN Fixed \cup DOMAIN Ending
        /\ DOMAIN Joined(Enclosing, Given) = DOMAIN Enclosing \cup DOMAIN Given
        /\ DOMAIN Base = DOMAIN Joined(Fixed, Ending) \cup DOMAIN Joined(Enclosing, Given)
    BY <2>1 DEF Base
  <2> QED
    BY <1>1, <2>2 DEF ErrorClass
<1>4. w \in Seq(STRING) /\ e \in Seq(STRING) /\ Len(w) = 1
  <2> DEFINE S == STRING
  <2>1. c \in S /\ "end" \in S
    BY <1>2
  <2> HIDE DEF S
  <2>2. w \in Seq(S) /\ e \in Seq(S)
    BY <2>1, OneOf
  <2> QED
    BY <2>2 DEF S
<1>5. a.words \in Seq(STRING) /\ a.padded \in BOOLEAN
  BY <1>1 DEF Text
<1> HIDE DEF w, e
<1>6. w \o a.words \in Seq(STRING) /\ w \o a.words # <<>>
  <2> DEFINE s == a.words
             u == w \o s
  <2>1. s \in Seq(STRING)
    BY <1>5
  <2> HIDE DEF s
  <2>2. u \in Seq(STRING) /\ Len(u) = Len(w) + Len(s) /\ Len(s) \in Nat
    BY <1>4, <2>1, ConcatProperties, LenProperties
  <2> HIDE DEF u
  <2>3. u # <<>>
    BY <1>4, <2>2
  <2> QED
    BY <2>2, <2>3 DEF u, s
<1>7. w \o a.words \o e \in Seq(STRING) /\ w \o a.words \o e # <<>>
  <2> DEFINE u == w \o a.words
             v == u \o e
  <2>1. u \in Seq(STRING) /\ u # <<>>
    BY <1>6
  <2> HIDE DEF u
  <2>2. v \in Seq(STRING) /\ Len(v) = Len(u) + Len(e) /\ Len(u) \in Nat /\ Len(e) \in Nat
    BY <1>4, <2>1, ConcatProperties, LenProperties
  <2>3. Len(u) # 0
    BY <2>1, EmptySeq
  <2> HIDE DEF v
  <2>4. v # <<>>
    BY <2>2, <2>3
  <2> QED
    BY <2>2, <2>4 DEF u, v
<1>8. ASSUME NEW s \in Seq(STRING), s # <<>>, NEW p \in BOOLEAN
      PROVE  /\ [words |-> s, padded |-> p] \in Text /\ ~Blank([words |-> s, padded |-> p])
             /\ TextOf(s) \in Text /\ ~Blank(TextOf(s))
  BY <1>8 DEF Text, Blank, TextOf
<1> DEFINE d == DetailOf(c, a)
           p == \/ a.padded
                \/ Blank(a) /\ c # "EncryptedAttachmentNotFoundException"
           d1 == [words |-> w \o a.words, padded |-> p]
           d2 == TextOf(w \o a.words \o e)
           d3 == IF a = Empty THEN TextOf(w) ELSE a
<1>9. \/ c \in DOMAIN Ending /\ d = d1
      \/ c \in DOMAIN Enclosing /\ d = d2
      \/ c \in DOMAIN Fixed /\ d = d3
      \/ c \in DOMAIN Given /\ d = a
  BY <1>3 DEF DetailOf, w, e
<1>10. d1 \in Text /\ ~Blank(d1)
  <2>1. p \in BOOLEAN
    OBVIOUS
  <2> HIDE DEF p
  <2> QED
    BY <1>6, <1>8, <2>1
<1>11. d2 \in Text /\ ~Blank(d2)
  BY <1>7, <1>8
<1>12. c \in DOMAIN Fixed => d3 \in Text /\ ~Blank(d3)
  <2>1. w # <<>>
    BY <1>4
  <2>2. TextOf(w) \in Text /\ ~Blank(TextOf(w))
    BY <1>4, <1>8, <2>1
  <2> QED
    BY <1>1, <2>2
<1>13. c \in DOMAIN Given => ~Blank(a)
  BY <1>1
<1> HIDE DEF d, d1, d2, d3
<1>14. d \in Text /\ ~Blank(d)
  BY <1>1, <1>9, <1>10, <1>11, <1>12, <1>13
<1> QED
  BY <1>14 DEF d, c, a

\* What a refused message is held with is an error to report.
LEMMA RefusalIsError ==
    ASSUME NEW m \in Refused, NEW msg, msg.id = m.id, msg.parse_error = Error(m.class, m.argument)
    PROVE  /\ IsError(msg) /\ msg.parse_error # None
           /\ msg.parse_error.class = m.class /\ msg.parse_error.detail = DetailOf(m.class, m.argument)
<1>1. /\ m.class \in ErrorClass /\ m.id \in Text
      /\ DetailOf(m.class, m.argument) \in Text /\ ~Blank(DetailOf(m.class, m.argument))
  BY RefusedAre, DetailIs
<1>2. msg.parse_error = [class |-> m.class, detail |-> DetailOf(m.class, m.argument)]
  BY DEF Error
<1>3. msg.parse_error \in [class : ErrorClass, detail : Text]
  BY <1>1, <1>2
<1>4. msg.parse_error # None
  BY <1>3, BindingAssumption
<1>5. msg.parse_error.class = m.class /\ msg.parse_error.detail = DetailOf(m.class, m.argument)
  BY <1>2
<1> QED
  BY <1>1, <1>4, <1>5 DEF IsError

\* The time of a signal is a text.
LEMMA NowIs == Now \in Text /\ ~Blank(Now)
<1>1. "now" \in STRING
  BY WordsAssumption
<1> QED
  BY <1>1, TextOfWord DEF Now

\* The references of an accepted message are models with their elements, and
\* lose those when the message is stored.
LEMMA ParsedModels ==
    ASSUME NEW m \in Accepted, \A i \in DOMAIN m.refs : Valid(m.refs[i])
    PROVE  AreReferences(m.refs) /\ [i \in DOMAIN m.refs |-> Read(m.refs[i])] = Models(m.refs, TRUE)
<1> DEFINE s == m.refs
           S == {e \in Elements : e.tag = "Reference"}
           T == {e \in Elements : e.tag = "Reference" /\ Valid(e)}
<1>1. s \in Seq(S)
  BY AcceptedAre
<1>2. \A i \in DOMAIN s : Valid(s[i])
  OBVIOUS
<1>3. \A e \in S : Valid(e) => e \in T
  OBVIOUS
<1> HIDE DEF s, S, T
<1>4. s \in Seq(T)
  <2>1. Len(s) \in Nat /\ DOMAIN s = 1..Len(s) /\ \A i \in DOMAIN s : s[i] \in S
    BY <1>1, LenProperties, ElementOfSeq
  <2>2. s = [i \in 1..Len(s) |-> s[i]]
    BY <1>1
  <2>3. \A i \in 1..Len(s) : s[i] \in T
    BY <1>2, <1>3, <2>1
  <2>4. s \in [1..Len(s) -> T]
    BY <2>2, <2>3
  <2> QED
    BY <2>1, <2>4
<1>5. AreReferences(s)
  BY <1>4 DEF AreReferences, T
<1>6. \A i \in DOMAIN s : Read(s[i]) = ReferenceModel(s[i], TRUE)
  BY <1>5, ReferencesAre, ValidReference, ReadReference DEF IsReference
<1>7. [i \in DOMAIN s |-> Read(s[i])] = Models(s, TRUE)
  BY <1>6 DEF Models
<1> QED
  BY <1>5, <1>7 DEF s

\* The models of the references lose their elements when they are stored.
LEMMA StoredModels ==
    ASSUME NEW refs, AreReferences(refs), NEW k \in BOOLEAN
    PROVE  [i \in DOMAIN Models(refs, k) |-> Stored(Models(refs, k)[i])] = Models(refs, FALSE)
<1>1. \A i \in DOMAIN refs : Stored(ReferenceModel(refs[i], k)) = ReferenceModel(refs[i], FALSE)
  BY ReferencesAre, ValidReference, StoredReference DEF IsReference
<1> QED
  BY <1>1 DEF Models

\* No message is both accepted and refused.
LEMMA Apart == Accepted \cap Refused = {}
BY AcceptedAre, RefusedAre

\* Initially nothing has arrived.
LEMMA BindingInit == Init => BindingInv
BY DEF Init, BindingInv, PhaseInv, AcceptedInv, RefusedInv

\* parse on a message it accepts preserves the invariant.
LEMMA AcceptedStep ==
    ASSUME BindingInv, NEW m \in Accepted, ParseAccepted(m)
    PROVE  BindingInv'
<1>1. /\ ~Blank(m.id) /\ \A i \in DOMAIN m.refs : Valid(m.refs[i]) /\ (m.verify_digests => Verifiable(m.refs[i]))
      /\ pc = "waiting" /\ received' = m /\ pc' = "parsed" /\ resumed' = resumed
      /\ message' = [id |-> m.id, parse_error |-> None,
                     references |-> [i \in DOMAIN m.refs |-> Read(m.refs[i])]]
  BY DEF ParseAccepted
<1>2. AreReferences(m.refs) /\ [i \in DOMAIN m.refs |-> Read(m.refs[i])] = Models(m.refs, TRUE)
  BY <1>1, ParsedModels
<1>3. m \notin Refused
  BY Apart
<1>4. PhaseInv'
  BY <1>1 DEF BindingInv, PhaseInv
<1>5. AcceptedAs(TRUE)'
  BY <1>1, <1>2 DEF AcceptedAs, HeldMessage, Owed, Sent
<1>6. AcceptedInv'
  <2>1. (\E kept \in BOOLEAN : AcceptedAs(kept))'
    BY <1>5
  <2>2. m.verify_digests => \A i \in DOMAIN m.refs : Verifiable(m.refs[i])
    BY <1>1
  <2> QED
    BY <1>1, <1>2, <2>1, <2>2 DEF AcceptedInv
<1>7. RefusedInv'
  BY <1>1, <1>3 DEF RefusedInv
<1> QED
  BY <1>4, <1>6, <1>7 DEF BindingInv

\* parse on a message it refuses preserves it.
LEMMA RefusedStep ==
    ASSUME BindingInv, NEW m \in Refused, ParseRefused(m)
    PROVE  BindingInv'
<1>1. /\ pc = "waiting" /\ received' = m /\ pc' = "parsed" /\ resumed' = resumed
      /\ message' = [id |-> m.id, parse_error |-> Error(m.class, m.argument), references |-> <<>>]
  BY DEF ParseRefused
<1>2. m \notin Accepted
  BY Apart
<1>3. PhaseInv'
  BY <1>1 DEF BindingInv, PhaseInv
<1>4. AcceptedInv'
  BY <1>1, <1>2 DEF AcceptedInv
<1>5. RefusedInv'
  BY <1>1 DEF RefusedInv, Owed, Sent
<1> QED
  BY <1>3, <1>4, <1>5 DEF BindingInv

\* What BindingInv says of an accepted and of a refused message.
LEMMA AcceptedHeld ==
    ASSUME BindingInv, pc # "waiting", received \in Accepted
    PROVE  /\ ~Blank(received.id) /\ AreReferences(received.refs) /\ received.id \in Text
           /\ received \notin Refused
           /\ \E kept \in BOOLEAN : AcceptedAs(kept)
BY AcceptedAre, Apart DEF BindingInv, AcceptedInv

\* And of a refused one.
LEMMA RefusedHeld ==
    ASSUME BindingInv, pc # "waiting", received \in Refused
    PROVE  /\ message = [id |-> received.id, parse_error |-> Error(received.class, received.argument),
                         references |-> <<>>]
           /\ IsError(message) /\ message.parse_error # None /\ received \notin Accepted
           /\ Owed => /\ receipt = GetErrorSignalMessage(message, Now)
                      /\ signed = FailureXml(message, Now)
           /\ Sent => wire = FailureXml(message, Now)
<1>1. /\ message = [id |-> received.id, parse_error |-> Error(received.class, received.argument),
                    references |-> <<>>]
      /\ Owed => /\ receipt = GetErrorSignalMessage(message, Now)
                 /\ signed = FailureXml(message, Now)
      /\ Sent => wire = FailureXml(message, Now)
  BY DEF BindingInv, RefusedInv
<1>2. message.id = received.id /\ message.parse_error = Error(received.class, received.argument)
  BY <1>1
<1>3. IsError(message) /\ message.parse_error # None
  BY <1>2, RefusalIsError
<1> QED
  BY <1>1, <1>3, Apart

\* Storing and loading the message preserves it.
LEMMA RestoreMessageStep ==
    ASSUME BindingInv, RestoreMessage
    PROVE  BindingInv'
<1>1. /\ pc = "parsed" /\ pc' = pc /\ received' = received /\ resumed' = resumed
      /\ receipt' = receipt /\ signed' = signed /\ wire' = wire /\ read' = read
      /\ message' = [message EXCEPT
           !.references = [i \in DOMAIN message.references |-> Stored(message.references[i])],
           !.parse_error = IF message.parse_error = None THEN None
                           ELSE LoadParseError(DumpParseError(message.parse_error))]
  BY DEF RestoreMessage
<1>2. PhaseInv'
  BY <1>1 DEF BindingInv, PhaseInv
<1>3. CASE received \in Accepted
  <2>1. /\ ~Blank(received.id) /\ AreReferences(received.refs) /\ received \notin Refused
        /\ \E kept \in BOOLEAN : AcceptedAs(kept)
    BY <1>1, <1>3, AcceptedHeld
  <2>2. PICK k \in BOOLEAN : AcceptedAs(k)
    BY <2>1
  <2>3. message = HeldMessage(k)
    BY <2>2 DEF AcceptedAs
  <2>4. [i \in DOMAIN message.references |-> Stored(message.references[i])] = Models(received.refs, FALSE)
    <3>1. message.references = Models(received.refs, k)
      BY <2>3 DEF HeldMessage
    <3>2. [i \in DOMAIN Models(received.refs, k) |-> Stored(Models(received.refs, k)[i])]
          = Models(received.refs, FALSE)
      BY <2>1, StoredModels
    <3> QED
      BY <3>1, <3>2
  <2>5. message' = HeldMessage(FALSE)
    BY <1>1, <2>3, <2>4 DEF HeldMessage
  <2>6. AcceptedAs(FALSE)'
    BY <1>1, <2>5 DEF AcceptedAs, HeldMessage, Owed, Sent
  <2>7. AcceptedInv'
    <3>1. (\E kept \in BOOLEAN : AcceptedAs(kept))'
      BY <2>6
    <3>2. received.verify_digests => \A i \in DOMAIN received.refs : Verifiable(received.refs[i])
      BY <1>1, <1>3 DEF BindingInv, AcceptedInv
    <3> QED
      BY <1>1, <2>1, <3>1, <3>2 DEF AcceptedInv
  <2>8. RefusedInv'
    BY <1>1, <2>1 DEF RefusedInv
  <2> QED
    BY <1>2, <2>7, <2>8 DEF BindingInv
<1>4. CASE received \in Refused
  <2>1. /\ message = [id |-> received.id, parse_error |-> Error(received.class, received.argument),
                      references |-> <<>>]
        /\ message.parse_error # None /\ received \notin Accepted
    BY <1>1, <1>4, RefusedHeld
  <2>2. message.parse_error = Error(received.class, received.argument) /\ message.references = <<>>
    BY <2>1
  <2>3. LoadParseError(DumpParseError(message.parse_error)) = message.parse_error
    BY <2>2 DEF LoadParseError, DumpParseError, Error
  <2>4. [i \in DOMAIN message.references |-> Stored(message.references[i])] = <<>>
    BY <2>2
  <2>5. message' = message
    <3> DEFINE r == [i \in DOMAIN message.references |-> Stored(message.references[i])]
               p == IF message.parse_error = None THEN None
                    ELSE LoadParseError(DumpParseError(message.parse_error))
    <3>1. message' = [message EXCEPT !.references = r, !.parse_error = p]
      BY <1>1
    <3>2. r = <<>> /\ p = Error(received.class, received.argument)
      BY <2>1, <2>2, <2>3, <2>4
    <3> HIDE DEF r, p
    <3>3. [message EXCEPT !.references = r, !.parse_error = p]
          = [id |-> received.id, parse_error |-> p, references |-> r]
      <4> DEFINE q == Error(received.class, received.argument)
                 s == <<>>
                 n == received.id
      <4>1. message = [id |-> n, parse_error |-> q, references |-> s]
        BY <2>1
      <4> HIDE DEF q, s, n
      <4> DEFINE u == [message EXCEPT !.references = r]
      <4>2. [message EXCEPT !.references = r, !.parse_error = p] = [u EXCEPT !.parse_error = p]
        OBVIOUS
      <4>3. u = [id |-> n, parse_error |-> q, references |-> r]
        BY <4>1
      <4> HIDE DEF u
      <4>4. [u EXCEPT !.parse_error = p] = [id |-> n, parse_error |-> p, references |-> r]
        BY <4>3
      <4> QED
        BY <4>2, <4>4 DEF n
    <3>4. message = [id |-> received.id, parse_error |-> p, references |-> r]
      BY <2>1, <3>2
    <3> QED
      BY <3>1, <3>3, <3>4
  <2>6. AcceptedInv'
    BY <1>1, <2>1 DEF AcceptedInv
  <2>7. RefusedInv'
    BY <1>1, <2>1, <2>5 DEF RefusedInv, Owed, Sent
  <2> QED
    BY <1>2, <2>6, <2>7 DEF BindingInv
<1> QED
  BY <1>1, <1>3, <1>4 DEF BindingInv, PhaseInv

\* for_message preserves it.
LEMMA ForMessageStep ==
    ASSUME BindingInv, ForMessage
    PROVE  BindingInv'
<1>1. /\ pc = "parsed" /\ pc' = "owed" /\ received' = received /\ resumed' = resumed
      /\ message' = message /\ wire' = wire /\ read' = read
      /\ receipt' = SignalFor(message, Now) /\ signed' = Dump(SignalFor(message, Now))
  BY DEF ForMessage, Now
<1>2. resumed = FALSE
  BY <1>1 DEF BindingInv, PhaseInv
<1>3. PhaseInv'
  BY <1>1 DEF BindingInv, PhaseInv
<1>4. Now \in Text
  BY NowIs
<1>5. CASE received \in Accepted
  <2>1. /\ ~Blank(received.id) /\ AreReferences(received.refs) /\ received.id \in Text
        /\ received \notin Refused /\ \E kept \in BOOLEAN : AcceptedAs(kept)
    BY <1>1, <1>5, AcceptedHeld
  <2>2. PICK k \in BOOLEAN : AcceptedAs(k)
    BY <2>1
  <2>3. message = HeldMessage(k)
    BY <2>2 DEF AcceptedAs
  <2>4. message.id = received.id /\ message.parse_error = None /\ message.references = Models(received.refs, k)
    BY <2>3 DEF HeldMessage
  <2>5. SignalFor(message, Now) = SuccessModel(received.id, received.refs, k, Now)
    <3>1. GetSuccessSignalMessage(message, Now) = SuccessModel(message.id, received.refs, k, Now)
      BY <2>4, SuccessMade
    <3> QED
      BY <2>4, <3>1 DEF SignalFor
  <2>6. Dump(SignalFor(message, Now)) = SuccessXml(received.id, received.refs, k, Now)
    BY <1>4, <2>1, <2>5, DumpSuccess
  <2>7. AcceptedAs(k)'
    BY <1>1, <1>2, <2>3, <2>5, <2>6 DEF AcceptedAs, HeldMessage, Owed, Sent
  <2>8. AcceptedInv'
    <3>1. (\E kept \in BOOLEAN : AcceptedAs(kept))'
      BY <2>7
    <3>2. received.verify_digests => \A i \in DOMAIN received.refs : Verifiable(received.refs[i])
      BY <1>1, <1>5 DEF BindingInv, AcceptedInv
    <3> QED
      BY <1>1, <2>1, <3>1, <3>2 DEF AcceptedInv
  <2>9. RefusedInv'
    BY <1>1, <2>1 DEF RefusedInv
  <2> QED
    BY <1>3, <2>8, <2>9 DEF BindingInv
<1>6. CASE received \in Refused
  <2>1. /\ message = [id |-> received.id, parse_error |-> Error(received.class, received.argument),
                      references |-> <<>>]
        /\ IsError(message) /\ message.parse_error # None /\ received \notin Accepted
    BY <1>1, <1>6, RefusedHeld
  <2>2. SignalFor(message, Now) = GetErrorSignalMessage(message, Now)
    BY <2>1 DEF SignalFor
  <2>3. Dump(SignalFor(message, Now)) = FailureXml(message, Now)
    BY <1>4, <2>1, <2>2, DumpFailure
  <2>4. AcceptedInv'
    BY <1>1, <2>1 DEF AcceptedInv
  <2>5. RefusedInv'
    BY <1>1, <2>1, <2>2, <2>3 DEF RefusedInv, Owed, Sent
  <2> QED
    BY <1>3, <2>4, <2>5 DEF BindingInv
<1> QED
  BY <1>1, <1>5, <1>6 DEF BindingInv, PhaseInv

\* Storing and loading the exchange preserves it.
LEMMA RestoreExchangeStep ==
    ASSUME BindingInv, RestoreExchange
    PROVE  BindingInv'
<1>1. /\ pc = "owed" /\ pc' = pc /\ received' = received /\ resumed' = TRUE
      /\ message' = message /\ signed' = signed /\ wire' = wire /\ read' = read
      /\ receipt' = Stored(receipt)
  BY DEF RestoreExchange
<1>2. PhaseInv'
  BY <1>1 DEF BindingInv, PhaseInv
<1>3. Owed /\ ~Sent /\ Owed' /\ ~Sent'
  BY <1>1 DEF Owed, Sent
<1>4. CASE received \in Accepted
  <2>1. /\ ~Blank(received.id) /\ AreReferences(received.refs) /\ received.id \in Text
        /\ received \notin Refused /\ \E kept \in BOOLEAN : AcceptedAs(kept)
    BY <1>1, <1>4, AcceptedHeld
  <2>2. PICK k \in BOOLEAN : AcceptedAs(k)
    BY <2>1
  <2>3. message = HeldMessage(k) /\ signed = SuccessXml(received.id, received.refs, k, Now)
    BY <1>3, <2>2 DEF AcceptedAs
  <2>4. Stored(receipt) = SuccessModel(received.id, received.refs, FALSE, Now)
    <3> DEFINE no == FALSE
    <3>1. no \in BOOLEAN /\ no = FALSE
      OBVIOUS
    <3> HIDE DEF no
    <3>2. /\ resumed => receipt = SuccessModel(received.id, received.refs, no, Now)
          /\ ~resumed => receipt = SuccessModel(received.id, received.refs, k, Now)
      BY <1>3, <2>2, <3>1 DEF AcceptedAs
    <3>3. /\ Stored(SuccessModel(received.id, received.refs, no, Now)) = SuccessModel(received.id, received.refs, FALSE, Now)
          /\ Stored(SuccessModel(received.id, received.refs, k, Now)) = SuccessModel(received.id, received.refs, FALSE, Now)
      BY <2>1, <3>1, StoredSuccess
    <3> QED
      BY <3>2, <3>3
  <2>5. AcceptedAs(k)'
    BY <1>1, <1>3, <2>3, <2>4 DEF AcceptedAs, HeldMessage
  <2>6. AcceptedInv'
    <3>1. (\E kept \in BOOLEAN : AcceptedAs(kept))'
      BY <2>5
    <3>2. received.verify_digests => \A i \in DOMAIN received.refs : Verifiable(received.refs[i])
      BY <1>1, <1>4 DEF BindingInv, AcceptedInv
    <3> QED
      BY <1>1, <2>1, <3>1, <3>2 DEF AcceptedInv
  <2>7. RefusedInv'
    BY <1>1, <2>1 DEF RefusedInv
  <2> QED
    BY <1>2, <2>6, <2>7 DEF BindingInv
<1>5. CASE received \in Refused
  <2>1. /\ message = [id |-> received.id, parse_error |-> Error(received.class, received.argument),
                      references |-> <<>>]
        /\ IsError(message) /\ received \notin Accepted
        /\ receipt = GetErrorSignalMessage(message, Now) /\ signed = FailureXml(message, Now)
    BY <1>1, <1>3, <1>5, RefusedHeld
  <2>2. Stored(receipt) = receipt
    BY <2>1, StoredFailure
  <2>3. AcceptedInv'
    BY <1>1, <2>1 DEF AcceptedInv
  <2>4. RefusedInv'
    BY <1>1, <1>3, <2>1, <2>2 DEF RefusedInv
  <2> QED
    BY <1>2, <2>3, <2>4 DEF BindingInv
<1> QED
  BY <1>1, <1>4, <1>5 DEF BindingInv, PhaseInv

\* build_signal preserves it.
LEMMA BuildSignalStep ==
    ASSUME BindingInv, BuildSignal
    PROVE  BindingInv'
<1>1. /\ pc = "owed" /\ pc' = "sent" /\ received' = received /\ resumed' = resumed
      /\ message' = message /\ signed' = signed /\ receipt' = receipt /\ read' = read
      /\ wire' = Dump(receipt)
  BY DEF BuildSignal
<1>2. PhaseInv'
  BY <1>1 DEF BindingInv, PhaseInv
<1>3. Owed /\ ~Sent /\ Owed' /\ Sent'
  BY <1>1 DEF Owed, Sent
<1>4. Now \in Text /\ resumed \in BOOLEAN
  BY NowIs DEF BindingInv, PhaseInv
<1>5. CASE received \in Accepted
  <2>1. /\ ~Blank(received.id) /\ AreReferences(received.refs) /\ received.id \in Text
        /\ received \notin Refused /\ \E kept \in BOOLEAN : AcceptedAs(kept)
    BY <1>1, <1>5, AcceptedHeld
  <2>2. PICK k \in BOOLEAN : AcceptedAs(k)
    BY <2>1
  <2>3. /\ message = HeldMessage(k) /\ signed = SuccessXml(received.id, received.refs, k, Now)
        /\ resumed => receipt = SuccessModel(received.id, received.refs, FALSE, Now)
        /\ ~resumed => receipt = SuccessModel(received.id, received.refs, k, Now)
    BY <1>3, <2>2 DEF AcceptedAs
  <2>4. /\ resumed => Dump(receipt) = SuccessXml(received.id, received.refs, FALSE, Now)
        /\ ~resumed => Dump(receipt) = SuccessXml(received.id, received.refs, k, Now)
    <3> DEFINE no == FALSE
    <3>1. no \in BOOLEAN /\ no = FALSE
      OBVIOUS
    <3> HIDE DEF no
    <3>2. resumed => receipt = SuccessModel(received.id, received.refs, no, Now)
      BY <2>3, <3>1
    <3>3. /\ Dump(SuccessModel(received.id, received.refs, no, Now)) = SuccessXml(received.id, received.refs, no, Now)
          /\ Dump(SuccessModel(received.id, received.refs, k, Now)) = SuccessXml(received.id, received.refs, k, Now)
      BY <1>4, <2>1, <3>1, DumpSuccess
    <3> QED
      BY <2>3, <3>1, <3>2, <3>3
  <2>5. AcceptedAs(k)'
    BY <1>1, <1>3, <2>3, <2>4 DEF AcceptedAs, HeldMessage
  <2>6. AcceptedInv'
    <3>1. (\E kept \in BOOLEAN : AcceptedAs(kept))'
      BY <2>5
    <3>2. received.verify_digests => \A i \in DOMAIN received.refs : Verifiable(received.refs[i])
      BY <1>1, <1>5 DEF BindingInv, AcceptedInv
    <3> QED
      BY <1>1, <2>1, <3>1, <3>2 DEF AcceptedInv
  <2>7. RefusedInv'
    BY <1>1, <2>1 DEF RefusedInv
  <2> QED
    BY <1>2, <2>6, <2>7 DEF BindingInv
<1>6. CASE received \in Refused
  <2>1. /\ message = [id |-> received.id, parse_error |-> Error(received.class, received.argument),
                      references |-> <<>>]
        /\ IsError(message) /\ received \notin Accepted
        /\ receipt = GetErrorSignalMessage(message, Now) /\ signed = FailureXml(message, Now)
    BY <1>1, <1>3, <1>6, RefusedHeld
  <2>2. Dump(receipt) = FailureXml(message, Now)
    BY <1>4, <2>1, DumpFailure
  <2>3. AcceptedInv'
    BY <1>1, <2>1 DEF AcceptedInv
  <2>4. RefusedInv'
    BY <1>1, <1>3, <2>1, <2>2 DEF RefusedInv
  <2> QED
    BY <1>2, <2>3, <2>4 DEF BindingInv
<1> QED
  BY <1>1, <1>5, <1>6 DEF BindingInv, PhaseInv

\* The sender's parse of the signal preserves it.
LEMMA ParseStep ==
    ASSUME BindingInv, Parse
    PROVE  BindingInv'
<1>1. /\ pc = "sent" /\ received' = received /\ resumed' = resumed /\ message' = message
      /\ signed' = signed /\ receipt' = receipt /\ wire' = wire
      /\ \/ Valid(wire) /\ pc' = "read" /\ read' = Read(wire)
         \/ ~Valid(wire) /\ pc' = "unreadable"
  BY DEF Parse
<1>2. PhaseInv'
  BY <1>1 DEF BindingInv, PhaseInv
<1>3. Owed /\ Sent /\ Owed' /\ Sent' /\ pc # "waiting" /\ pc' # "waiting"
  BY <1>1 DEF Owed, Sent
<1>4. \A k : AcceptedAs(k) => AcceptedAs(k)'
  BY <1>1, <1>3 DEF AcceptedAs, HeldMessage
<1>5. AcceptedInv'
  BY <1>1, <1>3, <1>4 DEF BindingInv, AcceptedInv
<1>6. RefusedInv'
  BY <1>1, <1>3 DEF BindingInv, RefusedInv
<1> QED
  BY <1>2, <1>5, <1>6 DEF BindingInv

\* It speaks of the variables only.
LEMMA UnchangedStep ==
    ASSUME BindingInv, UNCHANGED vars
    PROVE  BindingInv'
BY DEF vars, BindingInv, PhaseInv, AcceptedInv, RefusedInv, AcceptedAs, HeldMessage, Owed, Sent

\* Whatever happens, the invariant holds.
LEMMA BindingInvariant == Spec => []BindingInv
<1>1. Init => BindingInv
  BY BindingInit
<1>2. BindingInv /\ [Next]_vars => BindingInv'
  <2> SUFFICES ASSUME BindingInv, [Next]_vars
               PROVE  BindingInv'
    OBVIOUS
  <2>1. ASSUME NEW m \in Accepted, ParseAccepted(m)
        PROVE  BindingInv'
    BY <2>1, AcceptedStep
  <2>2. ASSUME NEW m \in Refused, ParseRefused(m)
        PROVE  BindingInv'
    BY <2>2, RefusedStep
  <2>3. CASE RestoreMessage
    BY <2>3, RestoreMessageStep
  <2>4. CASE ForMessage
    BY <2>4, ForMessageStep
  <2>5. CASE RestoreExchange
    BY <2>5, RestoreExchangeStep
  <2>6. CASE BuildSignal
    BY <2>6, BuildSignalStep
  <2>7. CASE Parse
    BY <2>7, ParseStep
  <2>8. CASE Finished
    BY <2>8, UnchangedStep DEF Finished
  <2>9. CASE UNCHANGED vars
    BY <2>9, UnchangedStep
  <2> QED
    BY <2>1, <2>2, <2>3, <2>4, <2>5, <2>6, <2>7, <2>8, <2>9 DEF Next
<1> QED
  BY <1>1, <1>2, PTL DEF Spec

-----------------------------------------------------------------------------
(* The properties *)

\* What arrived was accepted or refused, and IsAccepted tells which.
LEMMA Kinds ==
    ASSUME BindingInv, pc # "waiting"
    PROVE  /\ received \in Accepted \/ received \in Refused
           /\ received \in Accepted => IsAccepted
           /\ received \in Refused => ~IsAccepted
BY AcceptedAre, RefusedAre DEF IsAccepted, BindingInv, PhaseInv

\* The receipt's content has no field for what some transform carries, and the
\* model for_message was given still knew it.
LEMMA WildcardsAre ==
    ASSUME BindingInv, pc # "waiting", received \in Accepted, NEW k \in BOOLEAN, AcceptedAs(k)
    PROVE  CarriesWildcards <=> k /\ Carries(received.refs)
<1>1. IsAccepted /\ AreReferences(received.refs)
  BY Kinds, AcceptedHeld
<1>2. message.references = Models(received.refs, k)
  BY DEF AcceptedAs, HeldMessage
<1>3. \A i \in DOMAIN received.refs : message.references[i] = ReferenceModel(received.refs[i], k)
  BY <1>2 DEF Models
<1>4. \A i \in DOMAIN received.refs : message.references[i].etree_element # None <=> k
  <2> TAKE i \in DOMAIN received.refs
  <2>1. received.refs[i] # None
    BY <1>1, ReferencesAre, BindingAssumption DEF IsReference
  <2>2. message.references[i].etree_element = IF k THEN received.refs[i] ELSE None
    BY <1>3, ReferenceParts
  <2> QED
    BY <2>1, <2>2
<1> QED
  BY <1>1, <1>4 DEF CarriesWildcards, Carries

\* The invariant says what is signed and what is sent.
LEMMA SignedIsSentFollows == BindingInv => SignedIsSent
<1> SUFFICES ASSUME BindingInv, pc \in {"sent", "read", "unreadable"}
             PROVE  wire = signed <=> ~(resumed /\ CarriesWildcards)
  BY DEF SignedIsSent
<1>1. Owed /\ Sent /\ pc # "waiting" /\ resumed \in BOOLEAN
  BY DEF Owed, Sent, BindingInv, PhaseInv
<1>2. CASE received \in Accepted
  <2>1. PICK k \in BOOLEAN : AcceptedAs(k)
    BY <1>1, <1>2, AcceptedHeld
  <2>2. CarriesWildcards <=> k /\ Carries(received.refs)
    BY <1>1, <1>2, <2>1, WildcardsAre
  <2>3. /\ signed = SuccessXml(received.id, received.refs, k, Now)
        /\ resumed => wire = SuccessXml(received.id, received.refs, FALSE, Now)
        /\ ~resumed => wire = SuccessXml(received.id, received.refs, k, Now)
    BY <1>1, <2>1 DEF AcceptedAs
  <2>4. SuccessXml(received.id, received.refs, TRUE, Now) = SuccessXml(received.id, received.refs, FALSE, Now)
        <=> ~Carries(received.refs)
    BY <1>1, <1>2, AcceptedHeld, SameSuccess
  <2>5. CASE ~resumed
    BY <2>3, <2>5
  <2>6. CASE resumed /\ k = FALSE
    BY <2>2, <2>3, <2>6
  <2>7. CASE resumed /\ k = TRUE
    BY <2>2, <2>3, <2>4, <2>7
  <2> QED
    BY <1>1, <2>5, <2>6, <2>7
<1>3. CASE received \in Refused
  <2>1. wire = signed
    BY <1>1, <1>3, RefusedHeld
  <2>2. ~CarriesWildcards
    BY <1>1, <1>3, Kinds DEF CarriesWildcards
  <2> QED
    BY <2>1, <2>2
<1> QED
  BY <1>1, <1>2, <1>3, Kinds

\* What is on the wire is a receipt for the references received, from models
\* with their elements or without.
LEMMA ReceiptSent ==
    ASSUME BindingInv, Sent, received \in Accepted
    PROVE  \E k \in BOOLEAN : wire = SuccessXml(received.id, received.refs, k, Now)
<1>1. pc # "waiting" /\ resumed \in BOOLEAN
  BY DEF Sent, BindingInv, PhaseInv
<1>2. PICK k \in BOOLEAN : AcceptedAs(k)
  BY <1>1, AcceptedHeld
<1>3. \/ wire = SuccessXml(received.id, received.refs, FALSE, Now)
      \/ wire = SuccessXml(received.id, received.refs, k, Now)
  BY <1>1, <1>2 DEF AcceptedAs
<1> DEFINE no == FALSE
<1>4. no \in BOOLEAN /\ no = FALSE
  OBVIOUS
<1> HIDE DEF no
<1> QED
  BY <1>3, <1>4

\* What the sender reads is of the references received.
LEMMA ReceiptNamesFollows == BindingInv => ReceiptNamesWhatWasSigned
<1> SUFFICES ASSUME BindingInv, IsAccepted, pc = "read"
             PROVE  NonRepudiatedReferences(read)
                    = [i \in DOMAIN received.refs |-> DeclaredFields(received.refs[i])]
  BY DEF ReceiptNamesWhatWasSigned
<1>1. /\ Sent /\ pc # "waiting" /\ received \in Accepted
      /\ Valid(wire) /\ read = Read(wire)
  BY Kinds DEF Sent, BindingInv, PhaseInv
<1>2. PICK k \in BOOLEAN : wire = SuccessXml(received.id, received.refs, k, Now)
  BY <1>1, ReceiptSent
<1>3. AreReferences(received.refs) /\ ~Blank(Now)
  BY <1>1, AcceptedHeld, NowIs
<1>4. Valid(SuccessXml(received.id, received.refs, k, Now))
  BY <1>1, <1>2
<1>5. \A i \in DOMAIN received.refs : AlgorithmOf(Child(received.refs[i], "DigestMethod")) # Empty
  BY <1>3, <1>4, ValidSuccess
<1>6. NonRepudiatedReferences(Read(SuccessXml(received.id, received.refs, k, Now)))
      = [i \in DOMAIN received.refs |-> DeclaredFields(received.refs[i])]
  BY <1>3, <1>5, ReadSuccess
<1> QED
  BY <1>1, <1>2, <1>6

\* A reference that can be verified names a digest algorithm.
LEMMA VerifiableNames ==
    ASSUME NEW e, Verifiable(e)
    PROVE  AlgorithmOf(Child(e, "DigestMethod")) # Empty
<1>1. PICK a \in {"sha256", "sha384", "sha512"} :
         /\ "Algorithm" \in DOMAIN Child(e, "DigestMethod").attrs
         /\ Child(e, "DigestMethod").attrs["Algorithm"] = TextOf(<<a>>)
  BY DEF Verifiable, Child
<1>2. TextOf(<<a>>) # Empty
  <2>1. TextOf(<<a>>).words = <<a>> /\ Empty.words = <<>>
    BY DEF TextOf, Empty
  <2>2. <<a>> # <<>>
    BY OneOf
  <2> QED
    BY <2>1, <2>2
<1> QED
  BY <1>1, <1>2 DEF AlgorithmOf

\* Whether the signal is valid depends on the id and the digest algorithms.
LEMMA SignalIsReadableFollows == BindingInv => SignalIsReadable
<1> SUFFICES ASSUME BindingInv, pc \in {"read", "unreadable"}
             PROVE  pc = "unreadable" <=>
                      \/ received.id # Empty /\ Blank(received.id)
                      \/ /\ IsAccepted /\ ~received.verify_digests
                         /\ \E i \in DOMAIN received.refs :
                               AlgorithmOf(ChildrenOf(received.refs[i], "DigestMethod")[1]) = Empty
  BY DEF SignalIsReadable
<1>1. Sent /\ pc # "waiting" /\ (pc = "unreadable" <=> ~Valid(wire)) /\ ~Blank(Now)
  BY NowIs DEF Sent, BindingInv, PhaseInv
<1>2. CASE received \in Accepted
  <2>1. /\ IsAccepted /\ ~Blank(received.id) /\ AreReferences(received.refs)
        /\ received.verify_digests \in BOOLEAN
    BY <1>1, <1>2, Kinds, AcceptedHeld, AcceptedAre
  <2>2. PICK k \in BOOLEAN : wire = SuccessXml(received.id, received.refs, k, Now)
    BY <1>1, <1>2, ReceiptSent
  <2>3. Valid(SuccessXml(received.id, received.refs, k, Now)) <=>
          /\ ~Blank(received.id)
          /\ \A i \in DOMAIN received.refs : AlgorithmOf(Child(received.refs[i], "DigestMethod")) # Empty
    BY <1>1, <2>1, ValidSuccess
  <2>4. received.verify_digests =>
          \A i \in DOMAIN received.refs : AlgorithmOf(Child(received.refs[i], "DigestMethod")) # Empty
    <3>1. received.verify_digests => \A i \in DOMAIN received.refs : Verifiable(received.refs[i])
      BY <1>1, <1>2 DEF BindingInv, AcceptedInv
    <3> QED
      BY <3>1, VerifiableNames
  <2>5. Valid(wire) <=>
          \A i \in DOMAIN received.refs : AlgorithmOf(Child(received.refs[i], "DigestMethod")) # Empty
    BY <2>1, <2>2, <2>3
  <2> QED
    BY <1>1, <2>1, <2>4, <2>5 DEF Child
<1>3. CASE received \in Refused
  <2>1. ~IsAccepted /\ message.id = received.id /\ IsError(message) /\ wire = FailureXml(message, Now)
    BY <1>1, <1>3, Kinds, RefusedHeld
  <2>2. Valid(wire) <=> received.id = Empty \/ ~Blank(received.id)
    BY <1>1, <2>1, ValidFailure
  <2> QED
    BY <1>1, <2>1, <2>2
<1> QED
  BY <1>1, <1>2, <1>3, Kinds

\* What the sender reads is of the error the message was refused with.
LEMMA ErrorSurvivesFollows == BindingInv => ErrorSurvives
<1> SUFFICES ASSUME BindingInv, ~IsAccepted, pc = "read"
             PROVE  LET error == read.fields.Error[1]
                        code == Codes[Base[received.class]]
                    IN  /\ Len(read.fields.Error) = 1
                        /\ error.attrs.errorCode = TextOf(<<code.error_code>>)
                        /\ error.attrs.severity = TextOf(<<code.severity>>)
                        /\ error.fields.ErrorDetail[1].text
                           = Stripped(DetailOf(received.class, received.argument))
  BY DEF ErrorSurvives
<1>1. Sent /\ pc # "waiting" /\ read = Read(wire) /\ received \in Refused
  BY Kinds DEF Sent, BindingInv, PhaseInv
<1>2. /\ message = [id |-> received.id, parse_error |-> Error(received.class, received.argument),
                    references |-> <<>>]
      /\ IsError(message) /\ wire = FailureXml(message, Now)
  BY <1>1, RefusedHeld
<1>3. message.id = received.id /\ message.parse_error = Error(received.class, received.argument)
  BY <1>2
<1>4. /\ message.parse_error.class = received.class
      /\ message.parse_error.detail = DetailOf(received.class, received.argument)
  BY <1>1, <1>3, RefusalIsError
<1>5. LET errors == Read(FailureXml(message, Now)).fields["Error"]
          error == errors[1]
          code == Codes[Base[message.parse_error.class]]
      IN  /\ Len(errors) = 1
          /\ error.attrs["errorCode"] = TextOf(<<code.error_code>>)
          /\ error.attrs["severity"] = TextOf(<<code.severity>>)
          /\ error.fields["ErrorDetail"][1].text = Stripped(message.parse_error.detail)
  BY <1>2, ReadFailure
<1> QED
  BY <1>1, <1>2, <1>4, <1>5

\* What build_signal sends is what for_message signed, restarts included,
\* unless the exchange was restored with a receipt whose transforms carry
\* content that JSON drops; in that case it never is.
THEOREM SignedIsSentHolds == Spec => []SignedIsSent
BY BindingInvariant, SignedIsSentFollows, PTL

\* Every receipt that its addressee can read names the references that were
\* signed, in number, order and value, whatever was stored and restored.
THEOREM ReceiptNamesWhatWasSignedHolds == Spec => []ReceiptNamesWhatWasSigned
BY BindingInvariant, ReceiptNamesFollows, PTL

\* The signals AS4Receipt.parse cannot read are exactly the answers to an id
\* of white space and the receipts for references without a digest algorithm.
THEOREM SignalIsReadableHolds == Spec => []SignalIsReadable
BY BindingInvariant, SignalIsReadableFollows, PTL

\* The error a message was refused with reaches its sender with its code,
\* severity and detail, through the stored parse error and through the XML.
THEOREM ErrorSurvivesHolds == Spec => []ErrorSurvives
BY BindingInvariant, ErrorSurvivesFollows, PTL
=============================================================================
