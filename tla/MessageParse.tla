---------------------------- MODULE MessageParse ----------------------------
(***************************************************************************)
(* AS4Profile.parse_message and AS4Message.parse (as4/core/message.py):    *)
(* the checks an inbound user message goes through, in the order of the    *)
(* code, and the fields each of them leaves behind.  A refused message is  *)
(* returned with the fields recorded so far, and receive_message reads     *)
(* them: signer_certificate names the remote party, the signature          *)
(* references are acknowledged.                                            *)
(*                                                                         *)
(* A message is abstracted to what the checks tell apart.  Checks without  *)
(* structure of their own are named, and msg.faults holds the ones the     *)
(* message would fail; signature references, attachments, PartInfo         *)
(* elements and EncryptedData references are kept as data, since the       *)
(* checks on them depend on each other.                                    *)
(***************************************************************************)
EXTENDS Naturals, Sequences

CONSTANTS
    Attachment, \* MIME content ids
    Messages,   \* the inbound messages considered
    Policies,   \* the SecurityPolicy values considered
    None

-----------------------------------------------------------------------------
(* Data *)

\* What a ds:Reference can point at besides an attachment: the eb:Messaging
\* and the Body the models read, another element with the tag of either (under
\* some other header, say), any other element with an id, or nothing in the
\* document.
Element == {"messaging", "messagingElsewhere", "body", "bodyElsewhere", "other", "nothing"}

\* COVERAGE_BY_TAG: the elements that have the tag of each kind.
CoverageByTag == [messaging |-> {"messaging", "messagingElsewhere"},
                  body |-> {"body", "bodyElsewhere"}]

Fault == {"unpack", "xml", "messagingHeader", "messageId", "partyTo",
          "envelope", "duplicateId", "tokenReference", "bundled",
          "userMessage", "tokenType", "tokenBytes", "untrusted",
          "canonicalization", "signatureAlgorithm", "signatureValue",
          "signature", "cipherValue", "keyTransport", "sessionKey",
          "payloadInfo", "partyType", "payloadXml", "sbdhElement",
          "sbdhSchema", "sbdhModel", "participants", "serviced", "scopes"}

\* refs: the ds:References; parts: the eb:PartInfo elements in order;
\* ciphers: the xenc:DataReferences of the EncryptedKey; mime: the MIME
\* attachments, first of which is the payload part; layers and size: what
\* an attachment holds once decrypted, in gzip layers and inflated length.
Message ==
    [faults : SUBSET Fault,
     signed : BOOLEAN,
     refs : SUBSET [target : Element \cup Attachment,
                    digest : {"match", "mismatch", "unsupported"}],
     parts : Seq([href : Attachment \cup {None}, gzip : BOOLEAN]),
     encrypted : BOOLEAN,
     ciphers : SUBSET [target : Attachment \cup {None}, ok : BOOLEAN],
     mime : SUBSET Attachment,
     first : Attachment \cup {None},
     layers : [Attachment -> Nat],
     size : [Attachment -> Nat]]

Coverage == {"messaging", "body", "payloads"}

SecurityPolicy ==
    [sign_required : BOOLEAN,
     encrypt_required : BOOLEAN,
     resolver_set : BOOLEAN,
     required_coverage : SUBSET Coverage,
     verify_digests : BOOLEAN,
     verify_participants : BOOLEAN,
     acceptor_set : BOOLEAN,
     maximum_decompressed_size : Nat]

\* What every message has in common: its first attachment is one of them, what
\* is not there has no parts, and a message without eb:PayloadInfo declares no
\* part.  Neither does one with an empty eb:PayloadInfo, which is no fault.
WellFormed(m) ==
    /\ m \in Message
    /\ m.first \in m.mime \cup {None}
    /\ m.first = None <=> m.mime = {}
    /\ ~m.signed => m.refs = {}
    /\ ~m.encrypted => m.ciphers = {}
    /\ {"userMessage", "payloadInfo"} \cap m.faults # {} => m.parts = <<>>

ASSUME InputsAssumption ==
    /\ \A m \in Messages : WellFormed(m)
    /\ Policies \subseteq SecurityPolicy
    /\ None \notin Message /\ None \notin Attachment
    /\ None \notin Nat
    /\ Attachment \cap Element = {}

VARIABLES
    msg,         \* the message being parsed
    policy,      \* parse_context.security_policy
    pc,          \* the check to run next, "returned" or "raised"
    part,        \* index of the PartInfo to unpack next
    parse_error, \* None, or the check that refused the message
    fields       \* what AS4Message.process has recorded so far

vars == <<msg, policy, pc, part, parse_error, fields>>

-----------------------------------------------------------------------------
(* Steps of the pipeline *)

\* The message fails one of the checks, and the first it fails, in the order
\* of the code.
Fails(checks) == \E i \in DOMAIN checks : checks[i] \in msg.faults

FirstFailed(checks) ==
    checks[CHOOSE i \in DOMAIN checks :
             checks[i] \in msg.faults /\ \A j \in 1..(i - 1) : checks[j] \notin msg.faults]

Refuse(error) ==
    /\ parse_error' = error
    /\ pc' = "returned"
    /\ UNCHANGED <<msg, policy, part, fields>>

\* An exception parse does not catch leaves the caller without a message.
Raise ==
    /\ pc' = "raised"
    /\ UNCHANGED <<msg, policy, part, parse_error, fields>>

Continue(next) ==
    /\ pc' = next
    /\ UNCHANGED <<msg, policy, part, parse_error>>

\* Run the checks at one place of the code and go on if none fails.
Run(checks, next) ==
    IF Fails(checks) THEN Refuse(FirstFailed(checks))
    ELSE Continue(next) /\ UNCHANGED fields

Init ==
    /\ msg \in Messages
    /\ policy \in Policies
    /\ pc = "unpack"
    /\ part = 1
    /\ parse_error = None
    /\ fields = [message_id |-> FALSE, soap_envelope |-> FALSE,
                 signer_certificate |-> FALSE,
                 decrypted_data |-> [a \in Attachment |-> None],
                 participants |-> FALSE, asked |-> FALSE]

\* AS4Profile.parse_message: unpack_message, then AS4Message.parse as far as
\* parse_xml.
UnpackMessage == pc = "unpack" /\ Run(<<"unpack", "xml">>, "preValidate")

\* AS4Message.pre_validate: from here on an answer can name the message.
PreValidate ==
    /\ pc = "preValidate"
    /\ IF Fails(<<"messagingHeader", "messageId">>)
       THEN Refuse(FirstFailed(<<"messagingHeader", "messageId">>))
       ELSE /\ Continue("envelope")
            /\ fields' = [fields EXCEPT !.message_id = TRUE]

\* get_addressed_to, then Envelope.model_validate_etree at the head of process.
ValidateEnvelope ==
    /\ pc = "envelope"
    /\ IF Fails(<<"partyTo", "envelope">>)
       THEN Refuse(FirstFailed(<<"partyTo", "envelope">>))
       ELSE /\ Continue("index")
            /\ fields' = [fields EXCEPT !.soap_envelope = TRUE]

\* Mutant: a later element with a known id replaces the earlier one.
IndexElementsLastWins == pc = "index" /\ Run(<<>>, "signature")

\* index_elements_by_id
IndexElements == pc = "index" /\ Run(<<"duplicateId">>, "signature")

\* get_verified_signature up to the resolver: the token the signature names,
\* the user message, and the certificate inside the token.  Undecodable
\* certificate bytes raise ValueError, which parse does not catch.
LocateToken ==
    /\ pc = "signature"
    /\ \/ /\ ~msg.signed /\ policy.sign_required
          /\ Refuse("SignatureRequired")
       \/ /\ ~msg.signed /\ ~policy.sign_required
          /\ Continue("decrypt") /\ UNCHANGED fields
       \/ /\ msg.signed
          /\ LET checks == <<"tokenReference", "bundled", "userMessage",
                                    "tokenType", "tokenBytes">>
             IN  \/ ~Fails(checks) /\ Continue("signer") /\ UNCHANGED fields
                 \/ Fails(checks) /\ FirstFailed(checks) = "tokenBytes" /\ Raise
                 \/ Fails(checks) /\ FirstFailed(checks) # "tokenBytes" /\ Refuse(FirstFailed(checks))

\* Mutant: the signer is recorded as soon as the signature value verifies.
VerifySignatureAndRecord ==
    /\ pc = "signer"
    /\ IF ~policy.resolver_set THEN Raise
       ELSE LET checks == <<"untrusted", "canonicalization",
                                   "signatureAlgorithm", "signatureValue", "signature">>
            IN  \/ /\ ~Fails(checks) /\ Continue("coverage")
                   /\ fields' = [fields EXCEPT !.signer_certificate = TRUE]
                \/ Fails(checks) /\ FirstFailed(checks) = "signatureValue" /\ Raise
                \/ Fails(checks) /\ FirstFailed(checks) # "signatureValue" /\ Refuse(FirstFailed(checks))

\* resolve_signer and Signature.verify.  An unset resolver raises by design,
\* an empty ds:SignatureValue raises ValueError.
VerifySignature ==
    /\ pc = "signer"
    /\ IF ~policy.resolver_set THEN Raise
       ELSE LET checks == <<"untrusted", "canonicalization",
                                   "signatureAlgorithm", "signatureValue", "signature">>
            IN  \/ ~Fails(checks) /\ Continue("coverage") /\ UNCHANGED fields
                \/ Fails(checks) /\ FirstFailed(checks) = "signatureValue" /\ Raise
                \/ Fails(checks) /\ FirstFailed(checks) # "signatureValue" /\ Refuse(FirstFailed(checks))

\* signature_coverage: an element counts by its tag, wherever it is; "payloads"
\* is covered when every declared href is signed, whatever is not declared.
Declared(m) == {m.parts[i].href : i \in DOMAIN m.parts} \ {None}

Targets(m) == {ref.target : ref \in m.refs}

SignatureCoverage(m) ==
    {kind \in DOMAIN CoverageByTag : CoverageByTag[kind] \cap Targets(m) # {}}
    \cup (IF Declared(m) \subseteq Targets(m) THEN {"payloads"} ELSE {})

VerifySignatureCoverage ==
    /\ pc = "coverage"
    /\ IF policy.required_coverage \subseteq SignatureCoverage(msg)
       THEN Continue("elementDigests") /\ UNCHANGED fields
       ELSE Refuse("SignatureCoverage")

\* What digest_matches says of a resolved reference.
DigestError(ref) ==
    IF ref.digest = "mismatch" THEN "DigestMismatch" ELSE "UnsupportedDigest"

\* Mutant: a reference to nothing in the document is skipped.
UnresolvedElementsFound(m) ==
    {ref \in m.refs : ref.target \notin Attachment \cup {"nothing"} /\ ref.digest # "match"}

\* verify_reference_digests: every reference that is not a cid: resolves and
\* matches.  Only now is the signer recorded.
UnresolvedElements(m) ==
    {ref \in m.refs : ref.target \notin Attachment /\
                      (ref.target = "nothing" \/ ref.digest # "match")}

VerifyReferenceDigests ==
    /\ pc = "elementDigests"
    /\ \/ /\ policy.verify_digests
          /\ \E ref \in UnresolvedElements(msg) :
               Refuse(IF ref.target = "nothing" THEN "ReferenceTargetNotFound"
                                                ELSE DigestError(ref))
       \/ /\ policy.verify_digests => UnresolvedElements(msg) = {}
          /\ Continue("decrypt")
          /\ fields' = [fields EXCEPT !.signer_certificate = TRUE]

\* get_decrypted_data: every DataReference must lead to an attachment that
\* decrypts; the result is recorded as a whole.
Undecryptable(m) == {c \in m.ciphers : ~c.ok \/ c.target \notin m.mime}

\* Mutant: asking for an attachment nobody decrypted is a KeyError.
DecryptedOnly(m) == [a \in {c.target : c \in m.ciphers} |-> m.layers[a]]

DecryptedBy(m) ==
    [a \in Attachment |-> IF \E c \in m.ciphers : c.target = a THEN m.layers[a] ELSE None]

GetDecryptedData ==
    /\ pc = "decrypt"
    /\ \/ /\ ~msg.encrypted /\ policy.encrypt_required
          /\ Refuse("EncryptionRequired")
       \/ /\ ~msg.encrypted /\ ~policy.encrypt_required
          /\ Continue("attachmentDigests") /\ UNCHANGED fields
       \/ /\ msg.encrypted
          /\ LET checks == <<"cipherValue", "keyTransport", "sessionKey">>
             IN  \/ Fails(checks) /\ Refuse(FirstFailed(checks))
                 \/ ~Fails(checks) /\ Undecryptable(msg) # {} /\ Refuse("EncryptedData")
                 \/ /\ ~Fails(checks) /\ Undecryptable(msg) = {}
                    /\ Continue("attachmentDigests")
                    /\ fields' = [fields EXCEPT !.decrypted_data = DecryptedBy(msg)]

\* Mutant: a signed attachment that was not decrypted is skipped.
UnresolvedAttachmentsFound(m, decrypted_data) ==
    {ref \in m.refs : /\ ref.target \in Attachment
                      /\ decrypted_data[ref.target] # None /\ ref.digest # "match"}

\* verify_attachment_digests over the decrypted, still compressed contents.
UnresolvedAttachments(m, decrypted_data) ==
    {ref \in m.refs : ref.target \in Attachment /\
                      (decrypted_data[ref.target] = None \/ ref.digest # "match")}

VerifyAttachmentDigests ==
    /\ pc = "attachmentDigests"
    /\ LET unresolved == UnresolvedAttachments(msg, fields.decrypted_data)
       IN  \/ /\ msg.signed /\ policy.verify_digests
              /\ \E ref \in unresolved :
                   Refuse(IF fields.decrypted_data[ref.target] = None
                          THEN "ReferenceTargetNotFound" ELSE DigestError(ref))
           \/ /\ msg.signed /\ policy.verify_digests => unresolved = {}
              /\ Continue("payloadInfo") /\ UNCHANGED fields

\* process again: the user message (unchecked so far when unsigned) and its
\* eb:PayloadInfo.
RequirePayloadInfo ==
    pc = "payloadInfo" /\ Run(<<"bundled", "userMessage", "payloadInfo">>, "parts")

\* Mutant: a payload of exactly the maximum is taken for a longer one.
InflatedToTheLimit(m, a, maximum) == IF m.size[a] >= maximum THEN maximum + 1 ELSE m.size[a]

\* PartProperties.decompress reads at most one byte more than allowed.
Inflated(m, a, maximum) == IF m.size[a] > maximum THEN maximum + 1 ELSE m.size[a]

NextPart ==
    /\ part' = part + 1
    /\ UNCHANGED <<msg, policy, pc, parse_error>>

\* One round of the loop over eb:PartInfo.
UnpackPart ==
    /\ pc = "parts" /\ part <= Len(msg.parts)
    /\ LET href == msg.parts[part].href
           content == fields.decrypted_data[href]
       IN  \/ href = None /\ NextPart /\ UNCHANGED fields
           \/ href # None /\ href \notin msg.mime /\ Refuse("PartInfoWithoutMimePart")
           \/ /\ href \in msg.mime
              /\ \/ /\ content = None \/ ~msg.parts[part].gzip
                    /\ NextPart /\ UNCHANGED fields
                 \/ /\ content = 0 /\ msg.parts[part].gzip
                    /\ Refuse("DecompressionFailed")
                 \/ /\ content \notin {None, 0} /\ msg.parts[part].gzip
                    /\ IF Inflated(msg, href, policy.maximum_decompressed_size)
                            > policy.maximum_decompressed_size
                       THEN Refuse("DecompressedPayloadTooLarge")
                       ELSE /\ NextPart
                            /\ fields' = [fields EXCEPT !.decrypted_data[href] = @ - 1]

\* AS4Message.process returns its fields.
AllPartsUnpacked ==
    /\ pc = "parts" /\ part > Len(msg.parts)
    /\ Continue("processed") /\ UNCHANGED fields

Process ==
    \/ UnpackMessage \/ PreValidate \/ ValidateEnvelope \/ IndexElements
    \/ LocateToken \/ VerifySignature \/ VerifySignatureCoverage
    \/ VerifyReferenceDigests \/ GetDecryptedData \/ VerifyAttachmentDigests
    \/ RequirePayloadInfo \/ UnpackPart \/ AllPartsUnpacked

=============================================================================
