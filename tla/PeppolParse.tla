----------------------------- MODULE PeppolParse -----------------------------
(***************************************************************************)
(* PeppolAS4Message.process (as4/profiles/peppol/message.py): the checks   *)
(* of MessageParse followed by those on the Standard Business Document     *)
(* Header inside the first attachment, and the properties of the whole     *)
(* pipeline.                                                               *)
(***************************************************************************)
EXTENDS MessageParse, FiniteSets

\* What decrypted_data holds for the first MIME attachment.
Payload == IF msg.first = None THEN None ELSE fields.decrypted_data[msg.first]

\* verify_party_identifiers, after which the payload is read: the first
\* attachment decrypted, inflated and well formed.
ReadPayload ==
    /\ pc = "processed"
    /\ \/ "partyType" \in msg.faults /\ Refuse("partyType")
       \/ "partyType" \notin msg.faults /\ Payload = None /\ Refuse("NoDecryptedPayload")
       \/ /\ "partyType" \notin msg.faults /\ Payload # None
          /\ IF Payload > 0 THEN Refuse("payloadXml")
             ELSE Run(<<"payloadXml", "sbdhElement", "sbdhSchema">>, "sbdh")

\* StandardBusinessDocument.model_validate_etree; sender and recipient are
\* recorded before they are compared with the ebMS message properties.
ReadParticipants ==
    /\ pc = "sbdh"
    /\ IF "sbdhModel" \in msg.faults THEN Refuse("sbdhModel")
       ELSE /\ Continue("participants")
            /\ fields' = [fields EXCEPT !.participants = TRUE]

\* Mutant: the participants are not compared.
VerifyParticipantsNever ==
    pc = "participants" /\ Continue("accept") /\ UNCHANGED fields

\* verify_participants_agree
VerifyParticipantsAgree ==
    /\ pc = "participants"
    /\ IF policy.verify_participants /\ "participants" \in msg.faults
       THEN Refuse("participants")
       ELSE Continue("accept") /\ UNCHANGED fields

\* The caller's accept_participant, when there is one, is asked about the
\* recipient the SBDH names.
AcceptParticipant ==
    /\ pc = "accept"
    /\ \/ ~policy.acceptor_set /\ Continue("scopes") /\ UNCHANGED fields
       \/ /\ policy.acceptor_set
          /\ fields' = [fields EXCEPT !.asked = TRUE]
          /\ UNCHANGED <<msg, policy, part>>
          /\ \/ /\ "serviced" \in msg.faults
                /\ parse_error' = "serviced" /\ pc' = "returned"
             \/ /\ "serviced" \notin msg.faults
                /\ pc' = "scopes" /\ UNCHANGED parse_error

\* The mandatory scopes, then parse returns the message.
ReadScopes == pc = "scopes" /\ Run(<<"scopes">>, "returned")

ProcessSBDH ==
    \/ ReadPayload \/ ReadParticipants \/ VerifyParticipantsAgree
    \/ AcceptParticipant \/ ReadScopes

Finished == pc \in {"returned", "raised"} /\ UNCHANGED vars

Next == Process \/ ProcessSBDH \/ Finished

Spec == Init /\ [][Next]_vars

-----------------------------------------------------------------------------
(* Properties *)

Stage == {"unpack", "preValidate", "envelope", "index", "signature", "signer",
          "coverage", "elementDigests", "decrypt", "attachmentDigests",
          "payloadInfo", "parts", "processed", "sbdh", "participants",
          "accept", "scopes", "returned", "raised"}

ParseError == Fault \cup
    {"SignatureRequired", "SignatureCoverage", "ReferenceTargetNotFound",
     "DigestMismatch", "UnsupportedDigest", "EncryptionRequired",
     "EncryptedData", "PartInfoWithoutMimePart", "DecompressionFailed",
     "DecompressedPayloadTooLarge", "NoDecryptedPayload"}

ASSUME ErrorAssumption == None \notin ParseError

\* Every variable of the parser has its type.
TypeOK ==
    /\ msg \in Messages
    /\ policy \in Policies
    /\ pc \in Stage
    /\ part \in Nat
    /\ parse_error \in ParseError \cup {None}
    /\ fields \in [message_id : BOOLEAN, soap_envelope : BOOLEAN,
                   signer_certificate : BOOLEAN,
                   decrypted_data : [Attachment -> Nat \cup {None}],
                   participants : BOOLEAN, asked : BOOLEAN]

Accepted == pc = "returned" /\ parse_error = None

\* The signature is good as far as the policy asks: a trusted signer, a
\* signature that verifies, the required coverage (by the tags of the elements
\* it covers), matching element digests.
SignatureGood(m, p) ==
    /\ m.signed /\ p.resolver_set
    /\ {"duplicateId", "tokenReference", "bundled", "userMessage", "tokenType",
        "tokenBytes", "untrusted", "canonicalization", "signatureAlgorithm",
        "signatureValue", "signature"} \cap m.faults = {}
    /\ p.required_coverage \subseteq SignatureCoverage(m)
    /\ p.verify_digests => UnresolvedElements(m) = {}

\* The policy a SecurityPolicy has by default, but for its resolver.
Strict(p) ==
    /\ p.sign_required /\ p.verify_digests
    /\ p.required_coverage = Coverage

\* signer_certificate, from which receive_message takes the remote party, is
\* recorded only for a signature that is good, also in a message that is
\* refused later; and nothing is decrypted for an unverified signature.
AttributedOnlyWhenVerified ==
    /\ fields.signer_certificate => SignatureGood(msg, policy)
    /\ (\E a \in Attachment : fields.decrypted_data[a] # None) /\ msg.signed
         => fields.signer_certificate

\* A message accepted under the default policy delivers every payload it
\* declares: each one is signed, its digest matched, and it was decrypted.
\* No single check of process demands it, since an attachment that was not
\* decrypted is skipped.  Nothing is said of an attachment no eb:PartInfo
\* declares.
DeclaredPayloadsAreDelivered ==
    Accepted /\ Strict(policy) =>
        \A a \in Declared(msg) :
            /\ fields.decrypted_data[a] # None
            /\ \E ref \in msg.refs : ref.target = a
            /\ \A ref \in msg.refs : ref.target = a => ref.digest = "match"

\* The receipt for an accepted message repeats its signature's references:
\* under verify_digests none of them went unverified.
AcknowledgedReferencesVerified ==
    Accepted /\ policy.verify_digests =>
        \A ref \in msg.refs : ref.target # "nothing" /\ ref.digest = "match"

\* accept_participant is asked only about a recipient that comes from a
\* message of a verified signer (where a signature is required) and that the
\* ebMS properties do not contradict (where participants are verified).
AskedOnlyAboutVerified ==
    fields.asked =>
        /\ policy.sign_required => SignatureGood(msg, policy)
        /\ policy.verify_participants => "participants" \notin msg.faults

\* The verdict as one predicate on message and policy, in no order.
Acceptable(m, p) ==
    LET checked == Fault \ ({"participants", "serviced"}
            \cup (IF m.signed THEN {} ELSE {"tokenReference", "tokenType", "tokenBytes",
                    "untrusted", "canonicalization", "signatureAlgorithm",
                    "signatureValue", "signature"})
            \cup (IF m.encrypted THEN {} ELSE {"cipherValue", "keyTransport", "sessionKey"}))
        gzips(a) == {i \in DOMAIN m.parts : m.parts[i].href = a /\ m.parts[i].gzip}
        decrypted == {c.target : c \in m.ciphers}
    IN  /\ m.faults \cap checked = {}
        /\ p.verify_participants => "participants" \notin m.faults
        /\ p.acceptor_set => "serviced" \notin m.faults
        /\ m.signed \/ ~p.sign_required
        /\ m.signed => SignatureGood(m, p)
        /\ m.encrypted
        /\ decrypted \subseteq m.mime /\ \A c \in m.ciphers : c.ok
        /\ m.signed /\ p.verify_digests =>
             \A ref \in m.refs : ref.target \in Attachment =>
                ref.target \in decrypted /\ ref.digest = "match"
        /\ Declared(m) \subseteq m.mime
        /\ m.first \in decrypted
        /\ \A a \in decrypted : /\ Cardinality(gzips(a)) <= m.layers[a]
                                /\ gzips(a) # {} => m.size[a] <= p.maximum_decompressed_size
        /\ m.layers[m.first] = Cardinality(gzips(m.first))

\* The pipeline accepts exactly the messages its checks together describe:
\* the order of the checks and what each leaves behind decide which error is
\* reported, never whether one is.
VerdictIsOrderFree == pc = "returned" => (Accepted <=> Acceptable(msg, policy))

\* "a profile answers a malformed message rather than raising"
\* (tests/test_message_parse/test_malformed_input.py:126): with a signer
\* resolver configured, parse_message never raises.
AnswersRatherThanRaises == policy.resolver_set => pc # "raised"
=============================================================================
