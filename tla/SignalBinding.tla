---------------------------- MODULE SignalBinding ----------------------------
(***************************************************************************)
(* A signal from the references and the error it is made of to what the    *)
(* sender reads: AS4Receipt.for_message builds an eb:SignalMessage model   *)
(* and signs its dump, build_signal dumps the model again, and between any *)
(* two steps the message or the exchange may have been stored as JSON and  *)
(* restored.  AS4Exchange treats references as values and signals as       *)
(* records; this module checks that XML and JSON let it.                   *)
(***************************************************************************)
EXTENDS ErrorCatalogue

CONSTANTS
    Elements, \* the XML elements considered, with all their children
    Accepted, \* messages to receive, with the ds:Reference elements of their signatures
    Refused   \* errors a message was refused with, and the id read of it

\* A detail that a class has to be given, or that replaces its own, is not blank.
ASSUME BindingAssumption ==
    /\ \A e \in Elements :
         /\ e = Element(e.tag, e.attrs, e.text, e.children)
         /\ e.attrs \in [DOMAIN e.attrs -> Text] /\ e.text \in Text
         /\ e.children \in Seq(Elements)
    /\ Accepted \subseteq
         [refs : Seq({e \in Elements : e.tag = "Reference"}), id : Text, verify_digests : BOOLEAN]
    /\ Refused \subseteq [class : ErrorClass, argument : Text, id : Text]
    /\ \A m \in Refused :
         Blank(m.argument) => /\ m.class \notin DOMAIN Given
                              /\ m.class \in DOMAIN Fixed => m.argument = Empty
    /\ None \notin Text /\ None \notin Elements
    /\ None \notin [class : ErrorClass, detail : Text]

\* The words that signals are made of are strings: a fact about literals,
\* which TLC evaluates and the provers do not know.
ASSUME WordsAssumption ==
    /\ {"own-id", "now", "end"} \cup ErrorClass \subseteq STRING
    /\ \A c \in ErrorClass :
          Codes[Base[c]] \in [error_code : STRING, short_description : STRING,
                             severity : STRING, category : STRING]

VARIABLES
    pc,       \* how far the signal is: "waiting" for a message, "parsed", "owed",
              \* "sent", and at the sender's "read" or "unreadable"
    received, \* what arrived
    message,  \* the parsed message: [id, references, parse_error]
    receipt,  \* the eb:SignalMessage model the exchange holds
    signed,   \* the element its digest was computed of
    resumed,  \* the exchange was restored after for_message
    wire,     \* the eb:SignalMessage element sent
    read      \* the model the sender reads

vars == <<pc, received, message, receipt, signed, resumed, wire, read>>

Init ==
    /\ pc = "waiting"
    /\ received = None /\ message = None /\ receipt = None /\ signed = None
    /\ resumed = FALSE /\ wire = None /\ read = None

\* What digest_matches and digest_matches_bytes ask of the form of a reference:
\* nothing but the one transform, and a digest algorithm that is known.
Verifiable(ref) ==
    LET transforms == ChildrenOf(ChildrenOf(ref, "Transforms")[1], "Transform")
        Names(element, algorithms) ==
            "Algorithm" \in DOMAIN element.attrs
            /\ element.attrs["Algorithm"] \in {TextOf(<<a>>) : a \in algorithms}
    IN  /\ transforms # <<>>
        /\ \E a \in {"exc-c14n", "attachment"} :
              \A i \in DOMAIN transforms : Names(transforms[i], {a})
        /\ Names(ChildrenOf(ref, "DigestMethod")[1], {"sha256", "sha384", "sha512"})

\* parse on a message it accepts: the models of the references and the text
\* of the id as it stands.  That the rest of the message is in order is
\* MessageParse's part.
ParseAccepted(m) ==
    /\ pc = "waiting"
    /\ ~Blank(m.id)
    /\ \A i \in DOMAIN m.refs : Valid(m.refs[i]) /\ (m.verify_digests => Verifiable(m.refs[i]))
    /\ received' = m
    /\ message' = [id |-> m.id, parse_error |-> None,
                   references |-> [i \in DOMAIN m.refs |-> Read(m.refs[i])]]
    /\ pc' = "parsed"
    /\ UNCHANGED <<receipt, signed, resumed, wire, read>>

\* parse on a message it refuses, the id empty where pre_validate raised.
ParseRefused(m) ==
    /\ pc = "waiting"
    /\ received' = m
    /\ message' = [id |-> m.id, parse_error |-> Error(m.class, m.argument), references |-> <<>>]
    /\ pc' = "parsed"
    /\ UNCHANGED <<receipt, signed, resumed, wire, read>>

\* The message is stored before an exchange receives it.
RestoreMessage ==
    /\ pc = "parsed"
    /\ message' = [message EXCEPT
           !.references = [i \in DOMAIN message.references |-> Stored(message.references[i])],
           !.parse_error = IF message.parse_error = None THEN None
                           ELSE LoadParseError(DumpParseError(message.parse_error))]
    /\ UNCHANGED <<pc, received, receipt, signed, resumed, wire, read>>

-----------------------------------------------------------------------------
(* for_message *)

TextModel(tag, text) == Model(tag, <<>>, text, <<>>)

MessageInfo(now, ref_to_message_id) ==
    Model("MessageInfo", <<>>, None,
          [Timestamp |-> <<TextModel("Timestamp", now)>>,
           MessageId |-> <<TextModel("MessageId", TextOf(<<"own-id">>))>>,
           RefToMessageId |-> ref_to_message_id])

MessagePartNRInformation(reference) ==
    Model("MessagePartNRInformation", <<>>, None, [Reference |-> <<reference>>])

\* Mutant: only the first reference is acknowledged.
FirstReferenceInformation(references) ==
    Model("NonRepudiationInformation", <<>>, None,
          [MessagePartNRInformation |->
              [i \in DOMAIN references \cap {1} |-> MessagePartNRInformation(references[i])]])

NonRepudiationInformation(references) ==
    Model("NonRepudiationInformation", <<>>, None,
          [MessagePartNRInformation |->
              [i \in DOMAIN references |-> MessagePartNRInformation(references[i])]])

GetSuccessSignalMessage(m, now) ==
    Model("SignalMessage", <<>>, None,
          [MessageInfo |-> <<MessageInfo(now, <<TextModel("RefToMessageId", m.id)>>)>>,
           Receipt |-> <<Model("Receipt", <<>>, None,
               [NonRepudiationInformation |-> <<NonRepudiationInformation(m.references)>>])>>])

\* Mutant: the reference is there, if empty, for an id that was not readable.
AlwaysRefToMessageId(m) == <<TextModel("RefToMessageId", m.id)>>

GetErrorRefToMessageId(m) ==
    IF m.id = Empty THEN <<>> ELSE <<TextModel("RefToMessageId", m.id)>>

GetErrorSignalMessage(m, now) ==
    LET code == Codes[Base[m.parse_error.class]]
        attrs == [category |-> TextOf(<<code.category>>),
                  errorCode |-> TextOf(<<code.error_code>>),
                  refToMessageInError |-> IF m.id = Empty THEN None ELSE m.id,
                  severity |-> TextOf(<<code.severity>>),
                  shortDescription |-> TextOf(<<code.short_description>>)]
    IN  Model("SignalMessage", <<>>, None,
          [MessageInfo |-> <<MessageInfo(now, GetErrorRefToMessageId(m))>>,
           Error |-> <<Model("Error", attrs, None,
               [Description |-> <<TextModel("Description", TextOf(<<m.parse_error.class>>))>>,
                ErrorDetail |-> <<TextModel("ErrorDetail", m.parse_error.detail)>>])>>])

\* for_message, at some instant now.
SignalFor(m, now) ==
    IF m.parse_error # None THEN GetErrorSignalMessage(m, now) ELSE GetSuccessSignalMessage(m, now)

ForMessage ==
    /\ pc = "parsed"
    /\ receipt' = SignalFor(message, TextOf(<<"now">>))
    /\ signed' = Dump(receipt')
    /\ pc' = "owed"
    /\ UNCHANGED <<received, message, resumed, wire, read>>

\* The exchange is stored and restored with the receipt it owes.
RestoreExchange ==
    /\ pc = "owed"
    /\ receipt' = Stored(receipt)
    /\ resumed' = TRUE
    /\ UNCHANGED <<pc, received, message, signed, wire, read>>

\* Mutant: the signal is made anew when it is sent.
BuildSignalAnew ==
    /\ pc = "owed"
    /\ pc' = "sent"
    /\ wire' = Dump(SignalFor(message, TextOf(<<"later">>)))
    /\ UNCHANGED <<received, message, receipt, signed, resumed, read>>

\* build_signal and get_request_data.
BuildSignal ==
    /\ pc = "owed"
    /\ pc' = "sent"
    /\ wire' = Dump(receipt)
    /\ UNCHANGED <<received, message, receipt, signed, resumed, read>>

\* The sender's AS4Receipt.parse, up to the signature.
Parse ==
    /\ pc = "sent"
    /\ IF Valid(wire) THEN pc' = "read" /\ read' = Read(wire)
                      ELSE pc' = "unreadable" /\ UNCHANGED read
    /\ UNCHANGED <<received, message, receipt, signed, resumed, wire>>

Finished == pc \in {"read", "unreadable"} /\ UNCHANGED vars

Next ==
    \/ \E m \in Accepted : ParseAccepted(m)
    \/ \E m \in Refused : ParseRefused(m)
    \/ RestoreMessage \/ ForMessage \/ RestoreExchange \/ BuildSignal \/ Parse
    \/ Finished

Spec == Init /\ [][Next]_vars

-----------------------------------------------------------------------------
(* Comparison: as4/models/dsig/reference.py *)

OrEmpty(value) == IF value = None THEN Empty ELSE value

NonEmpty(values) == ToBag(SelectSeq(values, LAMBDA value : value # Empty))

\* ComparableReferenceFields.from_reference; a bag stands for the sorted list.
ComparableReferenceFields(reference) ==
    LET transforms == reference.fields.Transforms[1].fields.Transform
        algorithms == [i \in DOMAIN transforms |-> OrEmpty(transforms[i].attrs.Algorithm)]
    IN  [uri |-> OrEmpty(reference.attrs.URI),
         transform_algorithms |-> NonEmpty(algorithms),
         digest_algorithm |-> reference.fields.DigestMethod[1].attrs.Algorithm,
         digest_value |-> Stripped(reference.fields.DigestValue[1].text)]

\* non_repudiated_references
NonRepudiatedReferences(signal) ==
    LET information == signal.fields.Receipt[1].fields.NonRepudiationInformation[1]
        parts == information.fields.MessagePartNRInformation
    IN  FlattenSeq([i \in DOMAIN parts |->
            [j \in DOMAIN parts[i].fields.Reference |->
                ComparableReferenceFields(parts[i].fields.Reference[j])]])

-----------------------------------------------------------------------------
(* Properties *)

Transforms(ref) == ChildrenOf(ChildrenOf(ref, "Transforms")[1], "Transform")

AlgorithmOf(element) ==
    IF "Algorithm" \in DOMAIN element.attrs THEN element.attrs["Algorithm"] ELSE Empty

\* What a ds:Reference says, read off the element the sender signed.
DeclaredFields(ref) ==
    [uri |-> IF "URI" \in DOMAIN ref.attrs THEN ref.attrs["URI"] ELSE Empty,
     transform_algorithms |->
         NonEmpty([i \in DOMAIN Transforms(ref) |-> AlgorithmOf(Transforms(ref)[i])]),
     digest_algorithm |-> AlgorithmOf(ChildrenOf(ref, "DigestMethod")[1]),
     digest_value |-> Stripped(ChildrenOf(ref, "DigestValue")[1].text)]

IsAccepted == pc # "waiting" /\ "refs" \in DOMAIN received

\* Some transform of the message for_message was given carries content its
\* model has no field for, such as ec:InclusiveNamespaces.
CarriesWildcards ==
    /\ IsAccepted
    /\ \E i \in DOMAIN received.refs :
          /\ message.references[i].etree_element # None
          /\ \E j \in DOMAIN Transforms(received.refs[i]) : Transforms(received.refs[i])[j].children # <<>>

\* What is sent is what was signed, restarts included, except for exactly one
\* case: the exchange was restored with a receipt that carries wildcard
\* content.  AS4Exchange's CarriesWildcards is this case.
SignedIsSent ==
    pc \in {"sent", "read", "unreadable"} => (wire = signed <=> ~(resumed /\ CarriesWildcards))

\* Whatever restarts and re-serialisation do to a receipt, the references the
\* sender compares with its own are those it signed, in number and value.
ReceiptNamesWhatWasSigned ==
    IsAccepted /\ pc = "read" =>
        NonRepudiatedReferences(read) = [i \in DOMAIN received.refs |-> DeclaredFields(received.refs[i])]

\* The sender can read every signal but two: the answer to an id of white
\* space alone, and a receipt for a reference whose digest algorithm is
\* empty, an attribute the dump drops and the model requires.  The latter is
\* accepted only where digests are not verified.
SignalIsReadable ==
    pc \in {"read", "unreadable"} =>
        (pc = "unreadable" <=>
            \/ received.id # Empty /\ Blank(received.id)
            \/ /\ IsAccepted /\ ~received.verify_digests
               /\ \E i \in DOMAIN received.refs :
                     AlgorithmOf(ChildrenOf(received.refs[i], "DigestMethod")[1]) = Empty)

\* A refused message's error reaches its sender with the code, severity and
\* detail it was raised with, up to the white space around the detail, also
\* when it was stored and loaded on the way.
ErrorSurvives ==
    ~IsAccepted /\ pc = "read" =>
        LET error == read.fields.Error[1]
            code == Codes[Base[received.class]]
        IN  /\ Len(read.fields.Error) = 1
            /\ error.attrs.errorCode = TextOf(<<code.error_code>>)
            /\ error.attrs.severity = TextOf(<<code.severity>>)
            /\ error.fields.ErrorDetail[1].text = Stripped(DetailOf(received.class, received.argument))
=============================================================================
