----------------------------- MODULE PeppolBuild -----------------------------
(***************************************************************************)
(* build_peppol_message (as4/profiles/peppol/profile.py, message.py) and   *)
(* what a receiver makes of its result: the message is put together from   *)
(* one AS4References, whose attachment map the first build fills and every *)
(* later one reuses, is packed into a MIME request, and is unpacked and    *)
(* handed to the parser of PeppolParse at the other end.                   *)
(***************************************************************************)
EXTENDS PeppolParse, MimePackage, DocumentIdentifier

CONSTANTS
    InitialMaps, \* attachment_id_encrypted_data_id_map as the caller supplies it
    Orders       \* the messages asked for, and what becomes of them

\* What the world can make of a well-built message: it reaches an access
\* point without the key, without trust in the signer, or that does not
\* serve the recipient; the parties are not Peppol's, or the caller's
\* AS4References repeat an id.
WorldFaults == {"sessionKey", "untrusted", "serviced", "partyType", "duplicateId"}

\* The values of PeppolAS4MessageBuilderArgs and AS4References, none of which
\* build looks at, that go into elements the receiver wants a text in.
Supplied == {"sender", "recipient", "process_identifier", "c1_country_id",
             "document_identification_instance_identifier",
             "message_id", "messaging_id", "conversation_id"}

\* Of an order, sender, recipient, document type (see DocumentIdentifier) and
\* size of the payload are the caller's, and empty names those of his values
\* that are "" or white space, which the receiver strips; world is what goes
\* wrong outside of build; package is another product's or a gateway's packaging
\* of the message, or None for the one it was sent in.  A map has no key twice.
ASSUME BuildAssumption ==
    /\ InitialMaps \subseteq Seq(Attachment)
    /\ \A m \in InitialMaps : IsInjective(m)
    /\ ContentId = Attachment
    /\ None \notin Package
    /\ \A a \in Attachment : BuildRequestData(<<a>>) \in Package
    /\ \A o \in Orders :
         /\ o.document \in Seq(STRING) /\ o.size \in Nat
         /\ o.empty \subseteq Supplied
         /\ o.world \subseteq WorldFaults /\ o.package \in Package \cup {None}

VARIABLES
    map,     \* keys of attachment_id_encrypted_data_id_map, in order
    order,   \* the order being built or sent
    sbdh,    \* what the header inside the payload says of the document type
    package  \* the request on its way

buildVars == <<msg, policy, pc, part, parse_error, fields, map, order, sbdh, package>>

-----------------------------------------------------------------------------
(* The parts of a message *)

\* encrypted_data_attachment_mapping: the map gets an entry only when empty.
Mapped(attachments) ==
    IF attachments = <<>> THEN {<<a>> : a \in Attachment} ELSE {attachments}

\* get_standard_business_document: the participants and scopes of the SBDH.
SBDHParticipants(sender, recipient) == <<sender, recipient>>
SBDHScopes == {"DOCUMENTID", "PROCESSID", "COUNTRY_C1"}

\* The document type in it: Standard, Type and TypeVersion, and the instance
\* identifier of the DOCUMENTID scope.
DocumentIdentification(id) ==
    [standard |-> RootElementNamespace(id), type |-> RootElementName(id),
     type_version |-> id.version, document_id |-> IdentifierValue(id)]

\* get_user_message: the originalSender and finalRecipient properties, and
\* an eb:PartInfo for every entry of the map.
MessageProperties(sender, recipient) == <<sender, recipient>>
PartInfos(attachments) ==
    [i \in DOMAIN attachments |-> [href |-> attachments[i], gzip |-> TRUE]]

\* Mutant: the payloads are left out of the signature.
SignedHeaders(compressed_payloads) ==
    {[target |-> t, digest |-> "match"] : t \in {"messaging", "body"}}

\* get_signed_info: eb:Messaging, the Body and the compressed payloads.
SignedReferences(compressed_payloads) ==
    {[target |-> t, digest |-> "match"] : t \in {"messaging", "body"} \cup compressed_payloads}

\* get_encrypted_key and get_encrypted_data: one DataReference, and the
\* EncryptedData it names, for every entry of the map.
DataReferences(attachments) ==
    {[target |-> attachments[i], ok |-> TRUE] : i \in DOMAIN attachments}

\* An element dumped without text has no "#text" to read, and the models of
\* the SBDH and of eb:UserMessage ask for one: the Standard and the Type of a
\* document type like "::##c::1" are empty, and whatever else was not supplied.
Textless(o) ==
    LET id == DocumentIdentification(Split(o.document))
        envelope == {"sender", "recipient", "process_identifier", "conversation_id"}
        header == {"sender", "recipient", "process_identifier", "c1_country_id",
                   "document_identification_instance_identifier"}
    IN  (IF o.empty \cap {"message_id", "messaging_id"} = {} THEN {} ELSE {"messageId"})
        \cup (IF o.empty \cap envelope = {} THEN {} ELSE {"envelope"})
        \cup (IF o.empty \cap header = {} /\ id.standard # <<>> /\ id.type # <<>>
              THEN {} ELSE {"sbdhModel"})

\* What pre_validate, the models, verify_participants_agree and
\* MANDATORY_SBDH_SCOPE_TYPE_VALUES see of it.
ContentFaults(o) ==
    Textless(o)
    \cup (IF SBDHParticipants(o.sender, o.recipient) = MessageProperties(o.sender, o.recipient)
          THEN {} ELSE {"participants"})
    \cup (IF {"PROCESSID", "DOCUMENTID", "COUNTRY_C1"} \subseteq SBDHScopes THEN {} ELSE {"scopes"})

\* get_soap_envelope and build_message: only the first attachment of the map
\* is compressed, signed, encrypted and attached.
Built(attachments, o) ==
    [faults |-> ContentFaults(o) \cup o.world,
     signed |-> TRUE,
     refs |-> SignedReferences({Head(attachments)}),
     parts |-> PartInfos(attachments),
     encrypted |-> TRUE,
     ciphers |-> DataReferences(attachments),
     mime |-> {Head(attachments)},
     first |-> Head(attachments),
     layers |-> [a \in Attachment |-> 1],
     size |-> [a \in Attachment |-> o.size]]

\* decrypt_data on the payload part: one that is not the sender's fails.
Deciphered(ciphers, content) == {[c EXCEPT !.ok = content = "sealed"] : c \in ciphers}

\* payload_from_request, MIMEHandler.parse and unpack_message: what of the
\* message the parser gets to see in a package.  A SOAP part that is not the
\* sender's has no eb:Messaging header.
Unpacked(m, pack) ==
    LET soap == GetPart(pack, "application/soap+xml")[1]
        payload == GetPart(pack, "application/octet-stream")[1]
        content_id == GetContentId(payload)
    IN  IF ~Unpackable(pack)
        THEN [m EXCEPT !.faults = @ \cup {"unpack"}, !.mime = {}, !.first = None]
        ELSE [m EXCEPT
                !.faults = @ \cup (IF soap.content = "soap" THEN {} ELSE {"messagingHeader"}),
                !.mime = {content_id}, !.first = content_id,
                !.ciphers = Deciphered(@, payload.content)]

-----------------------------------------------------------------------------

BuildInit ==
    /\ map \in InitialMaps
    /\ msg = None /\ package = None /\ order = None /\ sbdh = None
    /\ policy \in Policies
    /\ pc = "build"
    /\ part = 1
    /\ parse_error = None
    /\ fields = [message_id |-> FALSE, soap_envelope |-> FALSE,
                 signer_certificate |-> FALSE,
                 decrypted_data |-> [a \in Attachment |-> None],
                 participants |-> FALSE, asked |-> FALSE]

\* The document type can be taken apart as far as the SBDH needs it.
Identified(o) == IsIdentifier(o.document) /\ HasRootElement(Split(o.document))

\* from_identifier_value raises ValueError, or root_element_name IndexError
\* out of get_standard_business_document: nothing is recorded yet, so that
\* the caller who goes on is back where he was.
FailToIdentify(o) ==
    /\ pc = "build" /\ ~Identified(o)
    /\ order' = o
    /\ pc' = "raised"
    /\ UNCHANGED <<msg, policy, part, parse_error, fields, map, sbdh, package>>

\* The private key, which may live elsewhere (AS4PrivateKey), fails to sign:
\* build raises, and the map has its entry all the same.
FailToSign(o) ==
    /\ pc = "build" /\ Identified(o)
    /\ map' \in Mapped(map)
    /\ UNCHANGED <<msg, policy, pc, part, parse_error, fields, order, sbdh, package>>

\* Mutant: every build attaches under a new id and forgets it.
BuildUnrecorded(o) ==
    /\ pc = "build" /\ Identified(o)
    /\ map' \in Mapped(map)
    /\ \E a \in Attachment : msg' = Built(<<a>>, o)
    /\ order' = o
    /\ sbdh' = DocumentIdentification(Split(o.document))
    /\ pc' = "request"
    /\ UNCHANGED <<policy, part, parse_error, fields, package>>

BuildMessage(o) ==
    /\ pc = "build" /\ Identified(o)
    /\ map' \in Mapped(map)
    /\ msg' = Built(map', o)
    /\ order' = o
    /\ sbdh' = DocumentIdentification(Split(o.document))
    /\ pc' = "request"
    /\ UNCHANGED <<policy, part, parse_error, fields, package>>

\* get_request_data: one attachment, the first.
GetRequestData ==
    /\ pc = "request" /\ order.package = None
    /\ package' = BuildRequestData(<<msg.first>>)
    /\ pc' = "receive"
    /\ UNCHANGED <<msg, policy, part, parse_error, fields, map, order, sbdh>>

\* The same parts in another arrangement, with others among them.
Repackage ==
    /\ pc = "request" /\ order.package # None
    /\ package' = order.package
    /\ pc' = "receive"
    /\ UNCHANGED <<msg, policy, part, parse_error, fields, map, order, sbdh>>

Unpack ==
    /\ pc = "receive"
    /\ msg' = Unpacked(msg, package)
    /\ pc' = "unpack"
    /\ UNCHANGED <<policy, part, parse_error, fields, map, order, sbdh, package>>

BuildNext ==
    \/ \E o \in Orders : FailToIdentify(o) \/ FailToSign(o) \/ BuildMessage(o)
    \/ GetRequestData \/ Repackage \/ Unpack
    \/ (Process \/ ProcessSBDH \/ Finished) /\ UNCHANGED <<map, order, sbdh, package>>

BuildSpec == BuildInit /\ [][BuildNext]_buildVars

-----------------------------------------------------------------------------
(* Properties *)

\* The places of the parts of a kind, in document order, and the first part.
PlacesOf(type) ==
    LET parts == PartsInOrder(package) IN {i \in DOMAIN parts : parts[i].type = type}

FirstOf(type) == PartsInOrder(package)[Min(PlacesOf(type))]

\* Parts of both kinds can be reached, and the payload part has an id.
Found ==
    /\ PlacesOf("application/soap+xml") # {} /\ PlacesOf("application/octet-stream") # {}
    /\ GetContentId(FirstOf("application/octet-stream")) # NoContentId

\* The first parts of either kind are the sender's, and the payload part goes
\* by the id the signed header knows it by.
ArrivesWhole ==
    /\ Found
    /\ FirstOf("application/soap+xml").content = "soap"
    /\ FirstOf("application/octet-stream").content = "sealed"
    /\ GetContentId(FirstOf("application/octet-stream")) = map[1]

\* Round trip: an access point that holds the key, trusts the signer and
\* serves the recipient, if it is asked, accepts what build produces, however
\* lenient its policy, and no other does; and build produces nothing
\* acceptable, although it raises no exception, from a value the caller left
\* empty, from a document type with an empty namespace or root element, from a
\* map of several attachments, of which it signs and attaches the first alone,
\* nor from an attachment id that does not survive the brackets of a
\* Content-ID.  However the message is packed on the way, the first part of
\* either kind decides.
BuiltIsAcceptedByAddressee ==
    pc = "returned" =>
        (Accepted <=> /\ policy.resolver_set
                      /\ order.empty = {} /\ sbdh.standard # <<>> /\ sbdh.type # <<>>
                      /\ order.world \subseteq (IF policy.acceptor_set THEN {} ELSE {"serviced"})
                      /\ Len(map) = 1
                      /\ order.size <= policy.maximum_decompressed_size
                      /\ ArrivesWhole)

\* A message is unpacked exactly when parts of both kinds can be reached and
\* the payload part has an id, and then the parser works on the first of
\* either kind in document order, however deep the packages are nested.
UnpacksInDocumentOrder ==
    package # None /\ pc # "receive" =>
        IF ~Found THEN "unpack" \in msg.faults /\ msg.mime = {}
        ELSE /\ "unpack" \notin msg.faults
             /\ msg.mime = {GetContentId(FirstOf("application/octet-stream"))}
             /\ msg.first \in msg.mime
             /\ "messagingHeader" \in msg.faults <=> FirstOf("application/soap+xml").content # "soap"

\* The document type the receiver reads is the one asked for.  One with the
\* customary single "##" behind one namespace and root element is declared by
\* these two and by the version behind the last "::", whatever separators the
\* customization has in it, and build fails only for want of either.
DocumentTypeIsDeclared ==
    /\ Accepted => sbdh.document_id = order.document
    /\ order # None =>
        \A h, c \in DOMAIN order.document :
            (/\ Places("##", order.document) = {h}
             /\ {d \in Places("::", order.document) : d < h} = {c})
            => IF msg = None
               THEN Max(Places("::", order.document)) \notin h + 2 .. Len(order.document) - 1
               ELSE /\ sbdh.standard = SubSeq(order.document, 1, c - 1)
                    /\ sbdh.type = SubSeq(order.document, c + 1, h - 1)
                    /\ "::" \notin Range(sbdh.type_version)
                    /\ IsSuffix(<<"::">> \o sbdh.type_version, order.document)

\* The receiver ends up with exactly the attachment the sender has on record
\* for the message, also after a build that failed half way.
RecordedAttachmentIsRead ==
    Accepted => /\ msg.first = map[1]
                /\ fields.decrypted_data[map[1]] = 0
                /\ \A a \in Attachment \ {map[1]} : fields.decrypted_data[a] = None
=============================================================================
