----------------------------- MODULE EbmsSchema -----------------------------
(***************************************************************************)
(* The element classes a signal is made of (as4/models/ebms, ebbp and      *)
(* dsig), as a table: the attributes each needs or allows, its text, its   *)
(* fields in order of declaration with how often the model takes them,     *)
(* and whether it keeps children it does not know (wildcard content).      *)
(* A class is named by the tag it is read from.                            *)
(***************************************************************************)
EXTENDS Sequences

\* card: "one", "optional" and "some" (at least one), or "many".
Field(tag, card) == [tag |-> tag, card |-> card]

Class(required, optional, text, fields, wildcard) ==
    [required |-> required, optional |-> optional, text |-> text,
     fields |-> fields, wildcard |-> wildcard]

\* An element with text alone, which must not be blank.
TextClass == Class({}, {}, TRUE, <<>>, FALSE)

MessageInfoClasses ==
    [Timestamp |-> TextClass,
     MessageId |-> TextClass,
     RefToMessageId |-> TextClass,
     MessageInfo |-> Class({}, {}, FALSE,
         <<Field("Timestamp", "one"), Field("MessageId", "one"),
           Field("RefToMessageId", "optional")>>, FALSE)]

SignalClasses ==
    [Description |-> Class({}, {"lang"}, TRUE, <<>>, FALSE),
     ErrorDetail |-> TextClass,
     PullRequest |-> Class({}, {"mpc"}, FALSE, <<>>, TRUE),
     Receipt |-> Class({}, {}, FALSE, <<Field("NonRepudiationInformation", "optional")>>, TRUE),
     Error |-> Class({"errorCode", "severity"},
         {"category", "refToMessageInError", "origin", "shortDescription"}, FALSE,
         <<Field("Description", "optional"), Field("ErrorDetail", "optional")>>, FALSE),
     SignalMessage |-> Class({}, {}, FALSE,
         <<Field("MessageInfo", "one"), Field("PullRequest", "optional"),
           Field("Receipt", "optional"), Field("Error", "many")>>, TRUE)]

NonRepudiationClasses ==
    [MessagePartNRInformation |-> Class({}, {}, FALSE, <<Field("Reference", "some")>>, FALSE),
     NonRepudiationInformation |->
         Class({}, {}, FALSE, <<Field("MessagePartNRInformation", "many")>>, FALSE)]

ReferenceClasses ==
    [DigestMethod |-> Class({"Algorithm"}, {}, FALSE, <<>>, FALSE),
     DigestValue |-> TextClass,
     Reference |-> Class({}, {"Id", "URI", "Type"}, FALSE,
         <<Field("Transforms", "one"), Field("DigestMethod", "one"),
           Field("DigestValue", "one")>>, FALSE)]

TransformClasses ==
    [Transform |-> Class({}, {"Algorithm"}, FALSE, <<>>, TRUE),
     Transforms |-> Class({}, {}, FALSE, <<Field("Transform", "many")>>, FALSE)]

\* Two tables in one.
Joined(f, g) == [x \in DOMAIN f \cup DOMAIN g |-> IF x \in DOMAIN f THEN f[x] ELSE g[x]]

Schema ==
    Joined(Joined(MessageInfoClasses, SignalClasses),
           Joined(NonRepudiationClasses, Joined(ReferenceClasses, TransformClasses)))
=============================================================================
