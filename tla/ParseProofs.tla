---------------------------- MODULE ParseProofs ----------------------------
(***************************************************************************)
(* What AS4Message.process records of a sender, and what it and            *)
(* PeppolAS4Message.process accept, proved for every message and every     *)
(* policy.  A first invariant, Inv, follows the signature: each stage      *)
(* knows which checks lie behind it.  A second, Pipeline, follows the      *)
(* whole pipeline to its verdict: the checks behind each stage, and the    *)
(* gzip layers the loop over eb:PartInfo has taken off each attachment.    *)
(***************************************************************************)
EXTENDS PeppolParse, TLAPS, FiniteSetTheorems

-----------------------------------------------------------------------------
(* The inductive invariant *)

Fields == [message_id : BOOLEAN, soap_envelope : BOOLEAN,
           signer_certificate : BOOLEAN,
           decrypted_data : [Attachment -> Nat \cup {None}],
           participants : BOOLEAN, asked : BOOLEAN]

\* Of the message and the policy no more is used than that they are ones.
InputsOK == WellFormed(msg) /\ policy \in SecurityPolicy /\ fields \in Fields

\* The stages behind index_elements_by_id, and those behind the signature.
Indexed == {"signature", "signer", "coverage", "elementDigests"}
Attributed == {"decrypt", "attachmentDigests", "payloadInfo", "parts", "processed",
               "sbdh", "participants", "accept", "scopes"}

TokenLocated ==
    /\ msg.signed
    /\ {"tokenReference", "bundled", "userMessage", "tokenType", "tokenBytes"}
         \cap msg.faults = {}

SignatureVerified ==
    /\ TokenLocated
    /\ policy.resolver_set
    /\ {"untrusted", "canonicalization", "signatureAlgorithm", "signatureValue",
        "signature"} \cap msg.faults = {}

Covered == policy.required_coverage \subseteq SignatureCoverage(msg)

Untouched == \A a \in Attachment : fields.decrypted_data[a] = None

\* What is known at each stage.
Behind ==
    /\ pc \in Indexed => "duplicateId" \notin msg.faults
    /\ pc = "signer" => TokenLocated
    /\ pc \in {"coverage", "elementDigests"} => SignatureVerified
    /\ pc = "elementDigests" => Covered
    /\ pc \in Attributed => IF msg.signed THEN fields.signer_certificate
                                          ELSE ~policy.sign_required
    /\ pc \notin Attributed \cup {"returned", "raised"} => Untouched
    /\ pc \in {"accept", "scopes"} /\ policy.verify_participants
         => "participants" \notin msg.faults

Inv == InputsOK /\ Behind /\ AttributedOnlyWhenVerified /\ AskedOnlyAboutVerified

-----------------------------------------------------------------------------
(* Lemmas *)

\* parse is called: any message, any policy, nothing on record.
Entry ==
    /\ WellFormed(msg) /\ policy \in SecurityPolicy
    /\ pc = "unpack" /\ part = 1 /\ parse_error = None
    /\ fields = [message_id |-> FALSE, soap_envelope |-> FALSE,
                 signer_certificate |-> FALSE,
                 decrypted_data |-> [a \in Attachment |-> None],
                 participants |-> FALSE, asked |-> FALSE]

\* The states parse begins in are of this kind.
LEMMA InitEntry == Init => Entry
BY InputsAssumption DEF Init, Entry

\* A message that is about to be parsed has nothing on record.
LEMMA EntryInv == Entry => Inv
<1> SUFFICES ASSUME Entry
             PROVE  Inv
  OBVIOUS
<1>1. fields \in Fields
  BY DEF Entry, Fields
<1>2. ~fields.signer_certificate /\ ~fields.asked /\ Untouched
  BY DEF Entry, Untouched
<1> QED
  BY <1>1, <1>2 DEF Entry, Inv, InputsOK, Behind, Indexed, Attributed,
     Untouched, AttributedOnlyWhenVerified, AskedOnlyAboutVerified

\* A step that leaves message, policy and fields alone and goes on to a stage
\* that knows no more, or ends, keeps the invariant.
LEMMA RefuseInv ==
    ASSUME Inv, UNCHANGED <<msg, policy, fields>>, pc' \in {"returned", "raised"}
    PROVE  Inv'
BY DEF Inv, InputsOK, Behind, Indexed, Attributed, TokenLocated, SignatureVerified, Covered,
   Untouched, AttributedOnlyWhenVerified, AskedOnlyAboutVerified, SignatureGood,
   SignatureCoverage, Declared, Targets, UnresolvedElements

\* While the fields stay as they are, so does what they imply.
LEMMA SameFields ==
    ASSUME Inv, UNCHANGED <<msg, policy, fields>>
    PROVE  InputsOK' /\ AttributedOnlyWhenVerified' /\ AskedOnlyAboutVerified'
BY DEF Inv, InputsOK, AttributedOnlyWhenVerified, AskedOnlyAboutVerified

\* What earlier stages knew is still known.
LEMMA SameKnowledge ==
    ASSUME UNCHANGED <<msg, policy>>
    PROVE  TokenLocated' = TokenLocated /\ SignatureVerified' = SignatureVerified
           /\ Covered' = Covered
BY DEF TokenLocated, SignatureVerified, Covered

-----------------------------------------------------------------------------
(* The steps that leave the fields alone *)

\* Nothing is recorded before pre_validate and while the ids are indexed.
LEMMA EarlyInv ==
    ASSUME Inv, UnpackMessage \/ IndexElements
    PROVE  Inv'
<1>1. CASE pc' = "returned" /\ UNCHANGED <<msg, policy, fields>>
  BY <1>1, RefuseInv
<1>2. CASE UnpackMessage /\ pc' # "returned"
  <2>1. UNCHANGED <<msg, policy, fields>> /\ pc = "unpack" /\ pc' = "preValidate"
    BY <1>2 DEF UnpackMessage, Run, Refuse, Continue
  <2>2. Behind'
    BY <2>1 DEF Inv, Behind, Indexed, Attributed, Untouched
  <2> QED
    BY <2>1, <2>2, SameFields DEF Inv
<1>3. CASE IndexElements /\ pc' # "returned"
  <2>1. /\ UNCHANGED <<msg, policy, fields>> /\ pc = "index" /\ pc' = "signature"
        /\ ~Fails(<<"duplicateId">>)
    BY <1>3 DEF IndexElements, Run, Refuse, Continue
  <2>2. "duplicateId" \notin msg.faults
    BY <2>1 DEF Fails
  <2>3. Behind'
    BY <2>1, <2>2 DEF Inv, Behind, Indexed, Attributed, Untouched
  <2> QED
    BY <2>1, <2>3, SameFields DEF Inv
<1> QED
  BY <1>1, <1>2, <1>3 DEF UnpackMessage, IndexElements, Run, Refuse, Continue

\* Past LocateToken a signed message has a token that can be read.
LEMMA LocateTokenInv ==
    ASSUME Inv, LocateToken
    PROVE  Inv'
<1>1. UNCHANGED <<msg, policy, fields>> /\ pc = "signature"
  BY DEF LocateToken, Refuse, Raise, Continue
<1>2. CASE pc' \in {"returned", "raised"}
  BY <1>1, <1>2, RefuseInv
<1>3. CASE pc' = "decrypt" /\ ~msg.signed /\ ~policy.sign_required
  <2>1. Behind'
    BY <1>1, <1>3 DEF Inv, Behind, Indexed, Attributed
  <2> QED
    BY <1>1, <2>1, SameFields DEF Inv
<1>4. CASE /\ pc' = "signer" /\ msg.signed
           /\ ~Fails(<<"tokenReference", "bundled", "userMessage", "tokenType", "tokenBytes">>)
  <2>1. {"tokenReference", "bundled", "userMessage", "tokenType", "tokenBytes"}
          \cap msg.faults = {}
    BY <1>4 DEF Fails
  <2>2. TokenLocated'
    BY <1>1, <1>4, <2>1 DEF TokenLocated
  <2>3. Behind'
    BY <1>1, <1>4, <2>2 DEF Inv, Behind, Indexed, Attributed, Untouched
  <2> QED
    BY <1>1, <2>3, SameFields DEF Inv
<1> QED
  BY <1>2, <1>3, <1>4 DEF LocateToken, Refuse, Raise, Continue

\* Past VerifySignature the signature is one of a trusted signer.
LEMMA VerifySignatureInv ==
    ASSUME Inv, VerifySignature
    PROVE  Inv'
<1>1. UNCHANGED <<msg, policy, fields>> /\ pc = "signer"
  BY DEF VerifySignature, Refuse, Raise, Continue
<1>2. CASE pc' \in {"returned", "raised"}
  BY <1>1, <1>2, RefuseInv
<1>3. CASE /\ pc' = "coverage" /\ policy.resolver_set
           /\ ~Fails(<<"untrusted", "canonicalization", "signatureAlgorithm",
                       "signatureValue", "signature">>)
  <2>1. {"untrusted", "canonicalization", "signatureAlgorithm", "signatureValue",
         "signature"} \cap msg.faults = {}
    BY <1>3 DEF Fails
  <2>2. SignatureVerified
    BY <1>1, <1>3, <2>1 DEF Inv, Behind, SignatureVerified
  <2>3. Behind'
    BY <1>1, <1>3, <2>2, SameKnowledge DEF Inv, Behind, Indexed, Attributed, Untouched
  <2> QED
    BY <1>1, <2>3, SameFields DEF Inv
<1> QED
  BY <1>2, <1>3 DEF VerifySignature, Refuse, Raise, Continue

\* Past VerifySignatureCoverage it covers what the policy requires.
LEMMA CoverageInv ==
    ASSUME Inv, VerifySignatureCoverage
    PROVE  Inv'
<1>1. UNCHANGED <<msg, policy, fields>> /\ pc = "coverage"
  BY DEF VerifySignatureCoverage, Refuse, Continue
<1>2. CASE pc' = "returned"
  BY <1>1, <1>2, RefuseInv
<1>3. CASE pc' = "elementDigests" /\ Covered
  <2>1. Behind'
    BY <1>1, <1>3, SameKnowledge DEF Inv, Behind, Indexed, Attributed, Untouched
  <2> QED
    BY <1>1, <2>1, SameFields DEF Inv
<1> QED
  BY <1>2, <1>3 DEF VerifySignatureCoverage, Refuse, Continue, Covered

\* The steps behind the signature that record nothing.
LEMMA LateInv ==
    ASSUME Inv, \/ VerifyAttachmentDigests \/ RequirePayloadInfo \/ AllPartsUnpacked
                \/ ReadPayload \/ VerifyParticipantsAgree \/ ReadScopes \/ Finished
    PROVE  Inv'
<1>1. UNCHANGED <<msg, policy, fields>>
  BY DEF VerifyAttachmentDigests, RequirePayloadInfo, AllPartsUnpacked, ReadPayload,
     VerifyParticipantsAgree, ReadScopes, Finished, vars, Run, Refuse, Continue
<1>2. CASE pc' \in {"returned", "raised"}
  BY <1>1, <1>2, RefuseInv
<1>3. CASE pc' \notin {"returned", "raised"}
  <2>1. /\ pc \in Attributed
        /\ pc' \in {"payloadInfo", "parts", "processed", "sbdh", "accept"}
        /\ pc' = "accept" /\ policy.verify_participants => "participants" \notin msg.faults
    BY <1>3 DEF VerifyAttachmentDigests, RequirePayloadInfo, AllPartsUnpacked, ReadPayload,
       VerifyParticipantsAgree, ReadScopes, Finished, vars, Run, Refuse, Continue, Attributed
  <2>2. Behind'
    BY <1>1, <2>1 DEF Inv, Behind, Indexed, Attributed
  <2> QED
    BY <1>1, <2>2, SameFields DEF Inv
<1> QED
  BY <1>2, <1>3

-----------------------------------------------------------------------------
(* The steps that record something *)

\* Recording a fact about the message leaves the other fields as they were.
LEMMA RecordField ==
    ASSUME NEW f \in Fields
    PROVE  /\ LET g == [f EXCEPT !.message_id = TRUE]
              IN  /\ g \in Fields /\ g.decrypted_data = f.decrypted_data
                  /\ g.signer_certificate = f.signer_certificate /\ g.asked = f.asked
           /\ LET g == [f EXCEPT !.soap_envelope = TRUE]
              IN  /\ g \in Fields /\ g.decrypted_data = f.decrypted_data
                  /\ g.signer_certificate = f.signer_certificate /\ g.asked = f.asked
           /\ LET g == [f EXCEPT !.participants = TRUE]
              IN  /\ g \in Fields /\ g.decrypted_data = f.decrypted_data
                  /\ g.signer_certificate = f.signer_certificate /\ g.asked = f.asked
           /\ LET g == [f EXCEPT !.signer_certificate = TRUE]
              IN  /\ g \in Fields /\ g.decrypted_data = f.decrypted_data
                  /\ g.signer_certificate /\ g.asked = f.asked
           /\ LET g == [f EXCEPT !.asked = TRUE]
              IN  /\ g \in Fields /\ g.decrypted_data = f.decrypted_data
                  /\ g.signer_certificate = f.signer_certificate /\ g.asked
BY DEF Fields

\* So does replacing what was decrypted.
LEMMA RecordDecrypted ==
    ASSUME NEW f \in Fields, NEW d \in [Attachment -> Nat \cup {None}]
    PROVE  LET g == [f EXCEPT !.decrypted_data = d]
           IN  /\ g \in Fields /\ g.decrypted_data = d
               /\ g.signer_certificate = f.signer_certificate /\ g.asked = f.asked
BY DEF Fields

\* A step that keeps the signer, the decrypted data and what was asked, at a
\* stage that knows as much as the one before.
LEMMA RecordInv ==
    ASSUME Inv, UNCHANGED <<msg, policy>>, fields' \in Fields, Behind',
           fields'.decrypted_data = fields.decrypted_data,
           fields'.signer_certificate = fields.signer_certificate,
           fields'.asked = fields.asked
    PROVE  Inv'
BY DEF Inv, InputsOK, AttributedOnlyWhenVerified, AskedOnlyAboutVerified

\* pre_validate, the envelope and the participants are recorded.
LEMMA RecordingInv ==
    ASSUME Inv, PreValidate \/ ValidateEnvelope \/ ReadParticipants
    PROVE  Inv'
<1>0. UNCHANGED <<msg, policy>> /\ fields \in Fields
  BY DEF PreValidate, ValidateEnvelope, ReadParticipants, Refuse, Continue, Inv, InputsOK
<1>1. CASE pc' = "returned" /\ UNCHANGED fields
  BY <1>0, <1>1, RefuseInv
<1>2. CASE PreValidate /\ pc' # "returned"
  <2>1. /\ pc = "preValidate" /\ pc' = "envelope"
        /\ fields' = [fields EXCEPT !.message_id = TRUE]
    BY <1>2 DEF PreValidate, Refuse, Continue
  <2>2. /\ fields' \in Fields /\ fields'.decrypted_data = fields.decrypted_data
        /\ fields'.signer_certificate = fields.signer_certificate
        /\ fields'.asked = fields.asked
    BY <1>0, <2>1, RecordField
  <2>3. Behind'
    BY <1>0, <2>1, <2>2 DEF Inv, Behind, Indexed, Attributed, Untouched
  <2> QED
    BY <1>0, <2>2, <2>3, RecordInv
<1>3. CASE ValidateEnvelope /\ pc' # "returned"
  <2>1. /\ pc = "envelope" /\ pc' = "index"
        /\ fields' = [fields EXCEPT !.soap_envelope = TRUE]
    BY <1>3 DEF ValidateEnvelope, Refuse, Continue
  <2>2. /\ fields' \in Fields /\ fields'.decrypted_data = fields.decrypted_data
        /\ fields'.signer_certificate = fields.signer_certificate
        /\ fields'.asked = fields.asked
    BY <1>0, <2>1, RecordField
  <2>3. Behind'
    BY <1>0, <2>1, <2>2 DEF Inv, Behind, Indexed, Attributed, Untouched
  <2> QED
    BY <1>0, <2>2, <2>3, RecordInv
<1>4. CASE ReadParticipants /\ pc' # "returned"
  <2>1. /\ pc = "sbdh" /\ pc' = "participants"
        /\ fields' = [fields EXCEPT !.participants = TRUE]
    BY <1>4 DEF ReadParticipants, Refuse, Continue
  <2>2. /\ fields' \in Fields /\ fields'.decrypted_data = fields.decrypted_data
        /\ fields'.signer_certificate = fields.signer_certificate
        /\ fields'.asked = fields.asked
    BY <1>0, <2>1, RecordField
  <2>3. Behind'
    BY <1>0, <2>1, <2>2 DEF Inv, Behind, Indexed, Attributed, Untouched
  <2> QED
    BY <1>0, <2>2, <2>3, RecordInv
<1> QED
  BY <1>1, <1>2, <1>3, <1>4
  DEF PreValidate, ValidateEnvelope, ReadParticipants, Refuse, Continue

\* The signer is recorded with every check of the signature behind it.
LEMMA SignerInv ==
    ASSUME Inv, VerifyReferenceDigests
    PROVE  Inv'
<1>0. UNCHANGED <<msg, policy>> /\ fields \in Fields /\ pc = "elementDigests"
  BY DEF VerifyReferenceDigests, Refuse, Continue, Inv, InputsOK
<1>1. CASE pc' = "returned" /\ UNCHANGED fields
  BY <1>0, <1>1, RefuseInv
<1>2. CASE /\ pc' = "decrypt"
           /\ policy.verify_digests => UnresolvedElements(msg) = {}
           /\ fields' = [fields EXCEPT !.signer_certificate = TRUE]
  <2>1. SignatureGood(msg, policy)
    BY <1>0, <1>2 DEF Inv, Behind, Indexed, SignatureVerified, TokenLocated, Covered,
       SignatureGood
  <2>2. /\ fields' \in Fields /\ fields'.decrypted_data = fields.decrypted_data
        /\ fields'.signer_certificate /\ fields'.asked = fields.asked
    BY <1>0, <1>2, RecordField
  <2>3. Behind'
    BY <1>0, <1>2, <2>1, <2>2 DEF Behind, Indexed, Attributed, SignatureGood
  <2> QED
    BY <1>0, <2>1, <2>2, <2>3
    DEF Inv, InputsOK, AttributedOnlyWhenVerified, AskedOnlyAboutVerified
<1> QED
  BY <1>1, <1>2 DEF VerifyReferenceDigests, Refuse, Continue

\* Attachments are decrypted, and inflated, only behind the signature.
LEMMA PayloadInv ==
    ASSUME Inv, UNCHANGED <<msg, policy>>, pc \in Attributed,
           pc' \in {"attachmentDigests", "parts"},
           NEW d \in [Attachment -> Nat \cup {None}],
           fields' = [fields EXCEPT !.decrypted_data = d]
    PROVE  Inv'
<1>1. fields \in Fields
  BY DEF Inv, InputsOK
<1>2. /\ fields' \in Fields
      /\ fields'.signer_certificate = fields.signer_certificate
      /\ fields'.asked = fields.asked
  BY <1>1, RecordDecrypted
<1>3. Behind'
  BY <1>2 DEF Inv, Behind, Indexed, Attributed
<1>4. AttributedOnlyWhenVerified' /\ AskedOnlyAboutVerified'
  BY <1>2 DEF Inv, Behind, AttributedOnlyWhenVerified, AskedOnlyAboutVerified
<1> QED
  BY <1>2, <1>3, <1>4 DEF Inv, InputsOK

\* What get_decrypted_data returns is a content, or nothing, per attachment.
LEMMA DecryptedType ==
    ASSUME NEW m, WellFormed(m)
    PROVE  DecryptedBy(m) \in [Attachment -> Nat \cup {None}] /\ m.mime \subseteq Attachment
<1>1. m \in Message
  BY DEF WellFormed
<1>2. m.layers \in [Attachment -> Nat] /\ m.mime \subseteq Attachment
  BY <1>1 DEF Message
<1> QED
  BY <1>2 DEF DecryptedBy

\* Decryption starts behind the signature.
LEMMA DecryptInv ==
    ASSUME Inv, GetDecryptedData
    PROVE  Inv'
<1>0. UNCHANGED <<msg, policy>> /\ fields \in Fields /\ WellFormed(msg) /\ pc = "decrypt"
  BY DEF GetDecryptedData, Refuse, Continue, Inv, InputsOK
<1>1. CASE pc' = "returned" /\ UNCHANGED fields
  BY <1>0, <1>1, RefuseInv
<1>2. CASE pc' = "attachmentDigests" /\ UNCHANGED fields
  <2>1. Behind'
    BY <1>0, <1>2 DEF Inv, Behind, Indexed, Attributed
  <2> QED
    BY <1>0, <1>2, <2>1, SameFields DEF Inv
<1>3. CASE /\ pc' = "attachmentDigests"
           /\ fields' = [fields EXCEPT !.decrypted_data = DecryptedBy(msg)]
  BY <1>0, <1>3, DecryptedType, PayloadInv DEF Attributed
<1> QED
  BY <1>1, <1>2, <1>3 DEF GetDecryptedData, Refuse, Continue

\* One layer fewer is still a content.
LEMMA UnpackInv ==
    ASSUME Inv, UnpackPart
    PROVE  Inv'
<1>0. UNCHANGED <<msg, policy>> /\ fields \in Fields /\ WellFormed(msg) /\ pc = "parts"
  BY DEF UnpackPart, NextPart, Refuse, Inv, InputsOK
<1>1. CASE pc' = "returned" /\ UNCHANGED fields
  BY <1>0, <1>1, RefuseInv
<1>2. CASE pc' = "parts" /\ UNCHANGED fields
  <2>1. Behind'
    BY <1>0, <1>2 DEF Inv, Behind, Indexed, Attributed
  <2> QED
    BY <1>0, <1>2, <2>1, SameFields DEF Inv
<1>3. ASSUME NEW href \in msg.mime, fields.decrypted_data[href] \notin {None, 0},
             pc' = "parts",
             fields' = [fields EXCEPT !.decrypted_data[href] = @ - 1]
      PROVE  Inv'
  <2> DEFINE d == [fields.decrypted_data EXCEPT ![href] = @ - 1]
  <2>1. fields.decrypted_data \in [Attachment -> Nat \cup {None}] /\ href \in Attachment
    BY <1>0, <1>3, DecryptedType DEF Fields
  <2>2. fields.decrypted_data[href] \in Nat \ {0}
    BY <1>3, <2>1
  <2>3. d \in [Attachment -> Nat \cup {None}]
    BY <2>1, <2>2
  <2>4. fields' = [fields EXCEPT !.decrypted_data = d]
    BY <1>3
  <2> HIDE DEF d
  <2> QED
    BY <1>0, <1>3, <2>3, <2>4, PayloadInv DEF Attributed
<1> QED
  BY <1>0, <1>1, <1>2, <1>3 DEF UnpackPart, NextPart, Refuse

\* accept_participant is asked behind the participants' comparison.
LEMMA AcceptInv ==
    ASSUME Inv, AcceptParticipant
    PROVE  Inv'
<1>0. UNCHANGED <<msg, policy>> /\ fields \in Fields /\ pc = "accept"
  BY DEF AcceptParticipant, Continue, Inv, InputsOK
<1>1. CASE pc' = "scopes" /\ UNCHANGED fields
  <2>1. Behind'
    BY <1>0, <1>1 DEF Inv, Behind, Indexed, Attributed
  <2> QED
    BY <1>0, <1>1, <2>1, SameFields DEF Inv
<1>2. CASE pc' \in {"scopes", "returned"} /\ fields' = [fields EXCEPT !.asked = TRUE]
  <2>1. /\ fields' \in Fields /\ fields'.decrypted_data = fields.decrypted_data
        /\ fields'.signer_certificate = fields.signer_certificate /\ fields'.asked
    BY <1>0, <1>2, RecordField
  <2>2. Behind'
    BY <1>0, <1>2, <2>1 DEF Inv, Behind, Indexed, Attributed
  <2>3. policy.sign_required => SignatureGood(msg, policy)
    BY <1>0 DEF Inv, Behind, Attributed, AttributedOnlyWhenVerified
  <2>4. policy.verify_participants => "participants" \notin msg.faults
    BY <1>0 DEF Inv, Behind
  <2>5. AttributedOnlyWhenVerified' /\ AskedOnlyAboutVerified'
    BY <1>0, <2>1, <2>3, <2>4 DEF Inv, AttributedOnlyWhenVerified, AskedOnlyAboutVerified
  <2> QED
    BY <1>0, <2>1, <2>2, <2>5 DEF Inv, InputsOK
<1> QED
  BY <1>1, <1>2 DEF AcceptParticipant, Continue

-----------------------------------------------------------------------------
(* The theorems *)

\* Every step of parse keeps the invariant.
LEMMA NextInv == Inv /\ [Next]_vars => Inv'
<1> SUFFICES ASSUME Inv, [Next]_vars
             PROVE  Inv'
  OBVIOUS
<1>1. CASE UNCHANGED vars
  BY <1>1 DEF vars, Inv, InputsOK, Behind, AttributedOnlyWhenVerified,
     AskedOnlyAboutVerified, TokenLocated, SignatureVerified, Covered, Untouched
<1>2. CASE Next
  BY <1>2, EarlyInv, LocateTokenInv, VerifySignatureInv, CoverageInv, LateInv, RecordingInv,
     SignerInv, DecryptInv, UnpackInv, AcceptInv
  DEF Next, Process, ProcessSBDH
<1> QED
  BY <1>1, <1>2

\* AS4Message.process records a signer only for a signature whose every check
\* has passed, whatever refuses the message afterwards, and decrypts nothing
\* of a signed message before that.
THEOREM Attribution == Spec => []AttributedOnlyWhenVerified
<1>1. Inv => AttributedOnlyWhenVerified
  BY DEF Inv
<1> QED
  BY <1>1, InitEntry, EntryInv, NextInv, PTL DEF Spec

\* PeppolAS4Message.process asks accept_participant only about a recipient
\* that a verified signer sent to and that the ebMS properties confirm.
THEOREM Acceptance == Spec => []AskedOnlyAboutVerified
<1>1. Inv => AskedOnlyAboutVerified
  BY DEF Inv
<1> QED
  BY <1>1, InitEntry, EntryInv, NextInv, PTL DEF Spec

-----------------------------------------------------------------------------
(* What each check asks for *)

Free(checks) == checks \cap msg.faults = {}

SignatureSettled ==
    /\ msg.signed \/ ~policy.sign_required
    /\ msg.signed => SignatureGood(msg, policy)

Decryption ==
    IF msg.encrypted
    THEN Free({"cipherValue", "keyTransport", "sessionKey"}) /\ Undecryptable(msg) = {}
    ELSE ~policy.encrypt_required

Decrypted == {c.target : c \in msg.ciphers}

SignedAttachments ==
    msg.signed /\ policy.verify_digests =>
        \A ref \in msg.refs : ref.target \in Attachment =>
            ref.target \in Decrypted /\ ref.digest = "match"

\* The first k PartInfo elements that name attachment a as compressed.
Gzips(a, k) == {i \in 1..k : msg.parts[i].href = a /\ msg.parts[i].gzip}

\* The first k PartInfo elements name attachments that are there, none is
\* inflated more often than it was compressed, and none beyond the limit.
PartsFit(k) ==
    /\ \A i \in 1..k : msg.parts[i].href \in msg.mime \cup {None}
    /\ \A a \in Decrypted :
          /\ Cardinality(Gzips(a, k)) <= msg.layers[a]
          /\ Gzips(a, k) # {} => msg.size[a] <= policy.maximum_decompressed_size

PayloadReadable ==
    /\ Free({"partyType", "payloadXml", "sbdhElement", "sbdhSchema"})
    /\ msg.first \in Decrypted
    /\ msg.layers[msg.first] = Cardinality(Gzips(msg.first, Len(msg.parts)))

ParticipantsAgree == policy.verify_participants => Free({"participants"})

Serviced == policy.acceptor_set => Free({"serviced"})

\* All of it, in the order of the code.
Passed ==
    /\ Free({"unpack", "xml"}) /\ Free({"messagingHeader", "messageId"})
    /\ Free({"partyTo", "envelope"}) /\ Free({"duplicateId"})
    /\ SignatureSettled /\ Decryption /\ SignedAttachments
    /\ Free({"bundled", "userMessage", "payloadInfo"})
    /\ PartsFit(Len(msg.parts)) /\ PayloadReadable
    /\ Free({"sbdhModel"}) /\ ParticipantsAgree /\ Serviced /\ Free({"scopes"})

-----------------------------------------------------------------------------
(* The inductive invariant *)

\* The stages past each check.
PastAccept == {"scopes"}
PastParticipants == {"accept"} \cup PastAccept
PastSbdh == {"participants"} \cup PastParticipants
PastPayload == {"sbdh"} \cup PastSbdh
PastParts == {"processed"} \cup PastPayload
PastPayloadInfo == {"parts"} \cup PastParts
PastAttachments == {"payloadInfo"} \cup PastPayloadInfo
PastDecrypt == {"attachmentDigests"} \cup PastAttachments
PastSignature == {"decrypt"} \cup PastDecrypt
PastIndex == Indexed \cup PastSignature
PastEnvelope == {"index"} \cup PastIndex
PastPreValidate == {"envelope"} \cup PastEnvelope
PastUnpack == {"preValidate"} \cup PastPreValidate
Ended == {"returned", "raised"}

Known ==
    /\ pc \in PastUnpack => Free({"unpack", "xml"})
    /\ pc \in PastPreValidate => Free({"messagingHeader", "messageId"})
    /\ pc \in PastEnvelope => Free({"partyTo", "envelope"})
    /\ pc \in PastIndex => Free({"duplicateId"})
    /\ pc \in PastSignature => SignatureSettled
    /\ pc \in PastDecrypt => Decryption
    /\ pc \in PastAttachments => SignedAttachments
    /\ pc \in PastPayloadInfo => Free({"bundled", "userMessage", "payloadInfo"})
    /\ pc \in PastParts => PartsFit(Len(msg.parts))
    /\ pc \in PastPayload => PayloadReadable
    /\ pc \in PastSbdh => Free({"sbdhModel"})
    /\ pc \in PastParticipants => ParticipantsAgree
    /\ pc \in PastAccept => Serviced

\* An attachment that was decrypted has lost a layer for each of the first
\* k PartInfo elements that calls it compressed; the others are None.
Layers(k) ==
    \A a \in Attachment :
        fields.decrypted_data[a] =
            IF a \in Decrypted THEN msg.layers[a] - Cardinality(Gzips(a, k)) ELSE None

Content ==
    /\ pc \notin PastPayloadInfo \cup Ended => part = 1
    /\ pc = "parts" => part \in 1..(Len(msg.parts) + 1) /\ PartsFit(part - 1) /\ Layers(part - 1)
    /\ pc \in {"attachmentDigests", "payloadInfo"} => Layers(0)
    /\ pc \in PastParts => Layers(Len(msg.parts))
    /\ pc \notin PastDecrypt \cup Ended => Untouched

\* Whether an error was recorded is decided by the checks together.
Verdict ==
    /\ pc \notin Ended => parse_error = None
    /\ pc = "returned" => (parse_error = None <=> Passed)
    /\ pc = "returned" /\ parse_error = None => Layers(Len(msg.parts))

Typed ==
    /\ pc \in Stage
    /\ part \in Nat
    /\ parse_error \in ParseError \cup {None}

Pipeline == Typed /\ Known /\ Content /\ Verdict

-----------------------------------------------------------------------------
(* Lemmas on the operators *)

\* The message being parsed, field by field.
LEMMA MessageFields ==
    ASSUME InputsOK
    PROVE  /\ msg.faults \subseteq Fault /\ msg.mime \subseteq Attachment
           /\ msg.parts \in Seq([href : Attachment \cup {None}, gzip : BOOLEAN])
           /\ msg.layers \in [Attachment -> Nat] /\ msg.size \in [Attachment -> Nat]
           /\ msg.first \in Attachment \cup {None}
           /\ \A ref \in msg.refs : ref.target \in Element \cup Attachment
           /\ msg.first \in msg.mime \cup {None}
           /\ ~msg.signed => msg.refs = {}
           /\ ~msg.encrypted => msg.ciphers = {}
           /\ policy.maximum_decompressed_size \in Nat
<1>1. msg \in Message /\ policy \in SecurityPolicy
  BY DEF InputsOK, WellFormed
<1> QED
  BY <1>1 DEF InputsOK, WellFormed, Message, SecurityPolicy

\* A counted set of PartInfo elements is finite.
LEMMA GzipsFinite ==
    ASSUME NEW a, NEW k \in Nat
    PROVE  IsFiniteSet(Gzips(a, k)) /\ Cardinality(Gzips(a, k)) \in Nat
<1>1. IsFiniteSet(1..k)
  BY FS_Interval
<1>2. Gzips(a, k) \in SUBSET (1..k)
  BY DEF Gzips
<1>3. IsFiniteSet(Gzips(a, k))
  BY <1>1, <1>2, FS_Subset
<1> QED
  BY <1>3, FS_CardinalityType

\* Before the loop none has been counted.
LEMMA GzipsNone == \A a : Gzips(a, 0) = {} /\ Cardinality(Gzips(a, 0)) = 0
<1>1. \A a : Gzips(a, 0) = {}
  BY DEF Gzips
<1> QED
  BY <1>1, FS_EmptySet

\* One round of the loop counts its own element or nothing.
LEMMA GzipsNext ==
    ASSUME NEW a, NEW k \in Nat
    PROVE  /\ msg.parts[k + 1].href = a /\ msg.parts[k + 1].gzip =>
                 /\ Gzips(a, k + 1) = Gzips(a, k) \cup {k + 1}
                 /\ Cardinality(Gzips(a, k + 1)) = Cardinality(Gzips(a, k)) + 1
           /\ ~(msg.parts[k + 1].href = a /\ msg.parts[k + 1].gzip) =>
                 Gzips(a, k + 1) = Gzips(a, k)
<1>1. /\ msg.parts[k + 1].href = a /\ msg.parts[k + 1].gzip =>
            Gzips(a, k + 1) = Gzips(a, k) \cup {k + 1}
      /\ ~(msg.parts[k + 1].href = a /\ msg.parts[k + 1].gzip) =>
            Gzips(a, k + 1) = Gzips(a, k)
  <2>1. 1..(k + 1) = (1..k) \cup {k + 1}
    OBVIOUS
  <2> QED
    BY <2>1 DEF Gzips
<1>2. k + 1 \notin Gzips(a, k)
  BY DEF Gzips
<1>3. Cardinality(Gzips(a, k) \cup {k + 1}) = Cardinality(Gzips(a, k)) + 1
  BY <1>2, GzipsFinite, FS_AddElement
<1> QED
  BY <1>1, <1>3

\* What the loop has counted is part of what it will count.
LEMMA GzipsGrow ==
    ASSUME NEW a, NEW k \in Nat, NEW n \in Nat, k <= n
    PROVE  /\ Gzips(a, k) \subseteq Gzips(a, n)
           /\ Cardinality(Gzips(a, k)) <= Cardinality(Gzips(a, n))
<1>1. Gzips(a, k) \in SUBSET Gzips(a, n)
  BY DEF Gzips
<1> QED
  BY <1>1, GzipsFinite, FS_Subset

\* The checks, taken together, are the verdict in no order.
LEMMA PassedIsAcceptable ==
    ASSUME InputsOK
    PROVE  Passed <=> Acceptable(msg, policy)
<1> DEFINE n == Len(msg.parts)
           gzips(a) == {i \in DOMAIN msg.parts : msg.parts[i].href = a /\ msg.parts[i].gzip}
           unchecked == {"participants", "serviced"}
                       \cup (IF msg.signed THEN {} ELSE {"tokenReference", "tokenType", "tokenBytes",
                          "untrusted", "canonicalization", "signatureAlgorithm",
                          "signatureValue", "signature"})
                       \cup (IF msg.encrypted THEN {} ELSE {"cipherValue", "keyTransport", "sessionKey"})
           always == {"unpack", "xml", "messagingHeader", "messageId", "partyTo", "envelope",
                      "duplicateId", "bundled", "userMessage", "payloadInfo", "partyType",
                      "payloadXml", "sbdhElement", "sbdhSchema", "sbdhModel", "scopes"}
           Ciphers == {"cipherValue", "keyTransport", "sessionKey"}
<1>1. \A a : gzips(a) = Gzips(a, n)
  BY MessageFields DEF Gzips
<1>2. Declared(msg) \subseteq msg.mime <=> \A i \in 1..n : msg.parts[i].href \in msg.mime \cup {None}
  BY MessageFields DEF Declared
<1>3. Acceptable(msg, policy) <=>
        /\ msg.faults \cap (Fault \ unchecked) = {}
        /\ ParticipantsAgree /\ Serviced /\ SignatureSettled /\ msg.encrypted
        /\ Decrypted \subseteq msg.mime /\ (\A c \in msg.ciphers : c.ok)
        /\ SignedAttachments /\ PartsFit(n)
        /\ msg.first \in Decrypted
        /\ msg.layers[msg.first] = Cardinality(Gzips(msg.first, n))
  <2>1. Acceptable(msg, policy) <=>
        /\ msg.faults \cap (Fault \ unchecked) = {}
        /\ policy.verify_participants => "participants" \notin msg.faults
        /\ policy.acceptor_set => "serviced" \notin msg.faults
        /\ SignatureSettled /\ msg.encrypted
        /\ Decrypted \subseteq msg.mime /\ (\A c \in msg.ciphers : c.ok)
        /\ SignedAttachments
        /\ Declared(msg) \subseteq msg.mime
        /\ msg.first \in Decrypted
        /\ \A a \in Decrypted : /\ Cardinality(gzips(a)) <= msg.layers[a]
                                /\ gzips(a) # {} => msg.size[a] <= policy.maximum_decompressed_size
        /\ msg.layers[msg.first] = Cardinality(gzips(msg.first))
    BY DEF Acceptable, SignatureSettled, Decrypted, SignedAttachments
  <2> HIDE DEF gzips, unchecked, n
  <2>2. PartsFit(n) <=>
        /\ Declared(msg) \subseteq msg.mime
        /\ \A a \in Decrypted : /\ Cardinality(gzips(a)) <= msg.layers[a]
                                /\ gzips(a) # {} => msg.size[a] <= policy.maximum_decompressed_size
    BY <1>1, <1>2 DEF PartsFit
  <2>3. /\ ParticipantsAgree <=> (policy.verify_participants => "participants" \notin msg.faults)
        /\ Serviced <=> (policy.acceptor_set => "serviced" \notin msg.faults)
    BY DEF ParticipantsAgree, Serviced, Free
  <2>4. gzips(msg.first) = Gzips(msg.first, n)
    BY <1>1
  <2> QED
    BY <2>1, <2>2, <2>3, <2>4
<1>4. ASSUME msg.encrypted, SignatureSettled
      PROVE  msg.faults \cap (Fault \ unchecked) = {}
               <=> Free(always) /\ Free(Ciphers)
  <2>0. msg.faults \subseteq Fault
    BY MessageFields
  <2>1. CASE ~msg.signed
    BY <1>4, <2>0, <2>1 DEF Fault, Free
  <2>2. CASE msg.signed
    <3>1. {"duplicateId", "tokenReference", "bundled", "userMessage", "tokenType",
           "tokenBytes", "untrusted", "canonicalization", "signatureAlgorithm",
           "signatureValue", "signature"} \cap msg.faults = {}
      BY <1>4, <2>2 DEF SignatureSettled, SignatureGood
    <3>2. Fault \ unchecked = always \cup Ciphers \cup
            {"tokenReference", "tokenType", "tokenBytes", "untrusted", "canonicalization",
             "signatureAlgorithm", "signatureValue", "signature"}
      BY <1>4, <2>2 DEF Fault
    <3> QED
      BY <3>1, <3>2 DEF Free
  <2> QED
    BY <2>1, <2>2
<1>5. Passed <=>
        /\ Free(always) /\ ParticipantsAgree /\ Serviced /\ SignatureSettled
        /\ Decryption /\ SignedAttachments /\ PartsFit(n)
        /\ msg.first \in Decrypted
        /\ msg.layers[msg.first] = Cardinality(Gzips(msg.first, n))
  <2>1. Free(always) <=>
          /\ Free({"unpack", "xml"}) /\ Free({"messagingHeader", "messageId"})
          /\ Free({"partyTo", "envelope"}) /\ Free({"duplicateId"})
          /\ Free({"bundled", "userMessage", "payloadInfo"})
          /\ Free({"partyType", "payloadXml", "sbdhElement", "sbdhSchema"})
          /\ Free({"sbdhModel"}) /\ Free({"scopes"})
    BY DEF Free
  <2> HIDE DEF always
  <2> QED
    BY <2>1 DEF Passed, PayloadReadable
<1>6. ASSUME msg.first \in Decrypted
      PROVE  /\ msg.encrypted
             /\ Decryption <=> /\ Free(Ciphers)
                               /\ Decrypted \subseteq msg.mime /\ \A c \in msg.ciphers : c.ok
  <2>1. msg.encrypted
    BY <1>6, MessageFields DEF Decrypted
  <2>2. Undecryptable(msg) = {} <=> Decrypted \subseteq msg.mime /\ \A c \in msg.ciphers : c.ok
    BY DEF Undecryptable, Decrypted
  <2> QED
    BY <2>1, <2>2 DEF Decryption
<1> HIDE DEF n, unchecked, always, Ciphers
<1> QED
  BY <1>3, <1>4, <1>5, <1>6

\* The check FirstFailed reports is one that fails.
LEMMA FirstFailedIsFault ==
    ASSUME NEW checks \in Seq(Fault), Fails(checks)
    PROVE  FirstFailed(checks) \in Fault
<1> DEFINE R == {ss \in Nat \X Nat : ss[1] < ss[2]}
           failing == {i \in DOMAIN checks : checks[i] \in msg.faults}
<1>1. IsWellFoundedOn(R, Nat)
  BY NatLessThanWellFounded DEF OpToRel
<1>2. failing \subseteq Nat /\ failing # {}
  BY DEF Fails
<1>3. PICK m \in failing : \A i \in failing : ~(<<i, m>> \in R)
  <2> HIDE DEF R, failing
  <2> QED
    BY <1>1, <1>2, WFMin
<1>4. ASSUME NEW j \in 1..(m - 1)
      PROVE  checks[j] \notin msg.faults
  <2>1. m \in DOMAIN checks /\ m \in Nat /\ j \in DOMAIN checks /\ j \in Nat /\ j < m
    OBVIOUS
  <2>2. <<j, m>> \in R
    BY <2>1
  <2>3. j \notin failing
    BY <1>3, <2>2
  <2> QED
    BY <2>1, <2>3
<1>5. \E i \in DOMAIN checks :
        checks[i] \in msg.faults /\ \A j \in 1..(i - 1) : checks[j] \notin msg.faults
  BY <1>4
<1> QED
  BY <1>5 DEF FirstFailed

\* None of the checks of one place fails when the pipeline goes past it.
LEMMA FailsIsNotFree ==
    /\ Fails(<<"unpack", "xml">>) <=> ~Free({"unpack", "xml"})
    /\ Fails(<<"messagingHeader", "messageId">>) <=> ~Free({"messagingHeader", "messageId"})
    /\ Fails(<<"partyTo", "envelope">>) <=> ~Free({"partyTo", "envelope"})
    /\ Fails(<<"duplicateId">>) <=> ~Free({"duplicateId"})
    /\ Fails(<<"cipherValue", "keyTransport", "sessionKey">>)
         <=> ~Free({"cipherValue", "keyTransport", "sessionKey"})
    /\ Fails(<<"bundled", "userMessage", "payloadInfo">>)
         <=> ~Free({"bundled", "userMessage", "payloadInfo"})
    /\ Fails(<<"payloadXml", "sbdhElement", "sbdhSchema">>)
         <=> ~Free({"payloadXml", "sbdhElement", "sbdhSchema"})
    /\ Fails(<<"scopes">>) <=> ~Free({"scopes"})
BY DEF Fails, Free

\* What is known of the message stays known.
LEMMA SameChecks ==
    ASSUME UNCHANGED <<msg, policy>>
    PROVE  /\ \A checks : Free(checks)' <=> Free(checks)
           /\ SignatureSettled' <=> SignatureSettled
           /\ Decryption' <=> Decryption
           /\ Decrypted' = Decrypted
           /\ SignedAttachments' <=> SignedAttachments
           /\ \A a, k : Gzips(a, k)' = Gzips(a, k)
           /\ \A k : PartsFit(k)' <=> PartsFit(k)
           /\ PartsFit(Len(msg.parts))' <=> PartsFit(Len(msg.parts))
           /\ PayloadReadable' <=> PayloadReadable
           /\ ParticipantsAgree' <=> ParticipantsAgree
           /\ Serviced' <=> Serviced
           /\ Passed' <=> Passed
BY DEF Free, SignatureSettled, Decryption, Decrypted, SignedAttachments, Gzips, PartsFit,
   PayloadReadable, ParticipantsAgree, Serviced, Passed

-----------------------------------------------------------------------------
(* Refusing and going on *)

\* A refusal keeps the invariant when some check fails.
LEMMA RefusedStep ==
    ASSUME Pipeline, UNCHANGED <<msg, policy, part>>, pc' = "returned",
           parse_error' \in ParseError, ~Passed
    PROVE  Pipeline'
<1>1. Typed'
  BY DEF Pipeline, Typed, Stage
<1>2. Known' /\ Content'
  BY DEF Known, Content, Ended, PastAccept, PastParticipants, PastSbdh, PastPayload, PastParts,
     PastPayloadInfo, PastAttachments, PastDecrypt, PastSignature, PastIndex, Indexed,
     PastEnvelope, PastPreValidate, PastUnpack
<1>3. parse_error' # None /\ ~Passed'
  BY ErrorAssumption, SameChecks
<1>4. Verdict'
  BY <1>3 DEF Verdict, Ended
<1> QED
  BY <1>1, <1>2, <1>4 DEF Pipeline

\* So does an exception, after which there is no message to judge.
LEMMA RaisedStep ==
    ASSUME Pipeline, Raise
    PROVE  Pipeline'
<1>1. Typed'
  BY DEF Raise, Pipeline, Typed, Stage
<1>2. Known' /\ Content' /\ Verdict'
  BY DEF Raise, Known, Content, Verdict, Ended, PastAccept, PastParticipants, PastSbdh,
     PastPayload, PastParts, PastPayloadInfo, PastAttachments, PastDecrypt, PastSignature,
     PastIndex, Indexed, PastEnvelope, PastPreValidate, PastUnpack
<1> QED
  BY <1>1, <1>2 DEF Pipeline

\* Refusing a message for the first of several checks that fails.
LEMMA FailedStep ==
    ASSUME Pipeline, NEW checks \in Seq(Fault), Fails(checks), ~Passed,
           Refuse(FirstFailed(checks))
    PROVE  Pipeline'
<1>1. FirstFailed(checks) \in ParseError
  BY FirstFailedIsFault DEF ParseError
<1> QED
  BY <1>1, RefusedStep DEF Refuse

\* Going on with the decrypted contents as they are.
LEMMA AdvanceStep ==
    ASSUME Pipeline, UNCHANGED <<msg, policy, part, parse_error>>,
           fields'.decrypted_data = fields.decrypted_data,
           pc \notin Ended, pc' \in Stage \ Ended, Known',
           \/ pc \notin PastDecrypt /\ pc' \notin PastDecrypt
           \/ {pc, pc'} \subseteq {"attachmentDigests", "payloadInfo"}
           \/ {pc, pc'} \subseteq PastParts
    PROVE  Pipeline'
<1>1. Typed' /\ Verdict'
  BY DEF Pipeline, Typed, Verdict, Ended
<1>2. \A k : Layers(k)' <=> Layers(k)
  BY SameChecks DEF Layers
<1>3. Layers(Len(msg.parts))' <=> Layers(Len(msg.parts))
  BY SameChecks DEF Layers
<1>4. Untouched' <=> Untouched
  BY DEF Untouched
<1>5. Content'
  <2>1. CASE pc \notin PastDecrypt /\ pc' \notin PastDecrypt
    BY <1>4, <2>1 DEF Pipeline, Content, Ended, PastAttachments, PastPayloadInfo, PastDecrypt
  <2>2. CASE {pc, pc'} \subseteq {"attachmentDigests", "payloadInfo"}
    BY <1>2, <2>2 DEF Pipeline, Content, Ended, PastAccept, PastParticipants, PastSbdh,
       PastPayload, PastParts, PastPayloadInfo, PastAttachments, PastDecrypt
  <2>3. CASE {pc, pc'} \subseteq PastParts
    BY <1>3, <2>3 DEF Pipeline, Content, Ended, PastAccept, PastParticipants, PastSbdh,
       PastPayload, PastParts, PastPayloadInfo, PastAttachments, PastDecrypt
  <2> QED
    BY <2>1, <2>2, <2>3
<1> QED
  BY <1>1, <1>5 DEF Pipeline

-----------------------------------------------------------------------------
(* One lemma per step of the pipeline *)

USE DEF Ended, PastAccept, PastParticipants, PastSbdh, PastPayload, PastParts, PastPayloadInfo,
        PastAttachments, PastDecrypt, PastSignature, PastIndex, Indexed, PastEnvelope,
        PastPreValidate, PastUnpack

\* unpack_message and parse_xml
LEMMA UnpackStep ==
    ASSUME Pipeline, UnpackMessage
    PROVE  Pipeline'
<1>1. CASE Fails(<<"unpack", "xml">>)
  <2>1. ~Passed /\ <<"unpack", "xml">> \in Seq(Fault)
    BY <1>1, FailsIsNotFree DEF Passed, Fault
  <2> QED
    BY <1>1, <2>1, FailedStep DEF UnpackMessage, Run
<1>2. CASE ~Fails(<<"unpack", "xml">>)
  <2>1. /\ UNCHANGED <<msg, policy, part, parse_error, fields>>
        /\ pc = "unpack" /\ pc' = "preValidate" /\ Free({"unpack", "xml"})
    BY <1>2, FailsIsNotFree DEF UnpackMessage, Run, Continue
  <2>2. Known'
    BY <2>1, SameChecks DEF Known
  <2> QED
    BY <2>1, <2>2, AdvanceStep DEF Stage
<1> QED
  BY <1>1, <1>2

\* pre_validate
LEMMA PreValidateStep ==
    ASSUME Inv, Pipeline, PreValidate
    PROVE  Pipeline'
<1> DEFINE checks == <<"messagingHeader", "messageId">>
<1>1. CASE Fails(checks)
  <2>1. ~Passed /\ checks \in Seq(Fault)
    BY <1>1, FailsIsNotFree DEF Passed, Fault
  <2> QED
    BY <1>1, <2>1, FailedStep DEF PreValidate
<1>2. CASE ~Fails(checks)
  <2>1. /\ UNCHANGED <<msg, policy, part, parse_error>>
        /\ pc = "preValidate" /\ pc' = "envelope" /\ Free({"messagingHeader", "messageId"})
        /\ fields' = [fields EXCEPT !.message_id = TRUE]
    BY <1>2, FailsIsNotFree DEF PreValidate, Continue
  <2>2. Known'
    BY <2>1, SameChecks DEF Pipeline, Known
  <2>3. fields'.decrypted_data = fields.decrypted_data
    BY <2>1, RecordField DEF Inv, InputsOK
  <2> QED
    BY <2>1, <2>2, <2>3, AdvanceStep DEF Stage
<1> QED
  BY <1>1, <1>2

\* get_addressed_to and the envelope's model
LEMMA EnvelopeStep ==
    ASSUME Inv, Pipeline, ValidateEnvelope
    PROVE  Pipeline'
<1> DEFINE checks == <<"partyTo", "envelope">>
<1>1. CASE Fails(checks)
  <2>1. ~Passed /\ checks \in Seq(Fault)
    BY <1>1, FailsIsNotFree DEF Passed, Fault
  <2> QED
    BY <1>1, <2>1, FailedStep DEF ValidateEnvelope
<1>2. CASE ~Fails(checks)
  <2>1. /\ UNCHANGED <<msg, policy, part, parse_error>>
        /\ pc = "envelope" /\ pc' = "index" /\ Free({"partyTo", "envelope"})
        /\ fields' = [fields EXCEPT !.soap_envelope = TRUE]
    BY <1>2, FailsIsNotFree DEF ValidateEnvelope, Continue
  <2>2. Known'
    BY <2>1, SameChecks DEF Pipeline, Known
  <2>3. fields'.decrypted_data = fields.decrypted_data
    BY <2>1, RecordField DEF Inv, InputsOK
  <2> QED
    BY <2>1, <2>2, <2>3, AdvanceStep DEF Stage
<1> QED
  BY <1>1, <1>2

\* index_elements_by_id
LEMMA IndexStep ==
    ASSUME Pipeline, IndexElements
    PROVE  Pipeline'
<1>1. CASE Fails(<<"duplicateId">>)
  <2>1. ~Passed /\ <<"duplicateId">> \in Seq(Fault)
    BY <1>1, FailsIsNotFree DEF Passed, Fault
  <2> QED
    BY <1>1, <2>1, FailedStep DEF IndexElements, Run
<1>2. CASE ~Fails(<<"duplicateId">>)
  <2>1. /\ UNCHANGED <<msg, policy, part, parse_error, fields>>
        /\ pc = "index" /\ pc' = "signature" /\ Free({"duplicateId"})
    BY <1>2, FailsIsNotFree DEF IndexElements, Run, Continue
  <2>2. Known'
    BY <2>1, SameChecks DEF Pipeline, Known
  <2> QED
    BY <2>1, <2>2, AdvanceStep DEF Stage
<1> QED
  BY <1>1, <1>2

\* get_verified_signature up to the resolver
LEMMA LocateTokenStep ==
    ASSUME Pipeline, LocateToken
    PROVE  Pipeline'
<1> DEFINE checks == <<"tokenReference", "bundled", "userMessage", "tokenType", "tokenBytes">>
<1>1. CASE ~msg.signed /\ policy.sign_required
  <2>1. ~Passed
    BY <1>1 DEF Passed, SignatureSettled
  <2>2. UNCHANGED <<msg, policy, part>> /\ pc' = "returned" /\ parse_error' \in ParseError
    BY <1>1 DEF LocateToken, Refuse, ParseError
  <2> QED
    BY <2>1, <2>2, RefusedStep
<1>2. CASE ~msg.signed /\ ~policy.sign_required
  <2>1. UNCHANGED <<msg, policy, part, parse_error, fields>> /\ pc = "signature" /\ pc' = "decrypt"
    BY <1>2 DEF LocateToken, Continue
  <2>2. Known'
    BY <1>2, <2>1, SameChecks DEF Pipeline, Known, SignatureSettled
  <2> QED
    BY <2>1, <2>2, AdvanceStep DEF Stage
<1>3. CASE msg.signed /\ ~Fails(checks)
  <2>1. UNCHANGED <<msg, policy, part, parse_error, fields>> /\ pc = "signature" /\ pc' = "signer"
    BY <1>3 DEF LocateToken, Continue
  <2>2. Known'
    BY <2>1, SameChecks DEF Pipeline, Known
  <2> QED
    BY <2>1, <2>2, AdvanceStep DEF Stage
<1>4. CASE msg.signed /\ Fails(checks)
  <2>1. Raise \/ Refuse(FirstFailed(checks))
    BY <1>4 DEF LocateToken
  <2>2. ~SignatureGood(msg, policy)
    BY <1>4 DEF Fails, SignatureGood
  <2>3. ~Passed /\ checks \in Seq(Fault)
    BY <1>4, <2>2 DEF Passed, SignatureSettled, Fault
  <2> HIDE DEF checks
  <2> QED
    BY <1>4, <2>1, <2>3, FailedStep, RaisedStep
<1> QED
  BY <1>1, <1>2, <1>3, <1>4

\* resolve_signer and Signature.verify
LEMMA VerifySignatureStep ==
    ASSUME Inv, Pipeline, VerifySignature
    PROVE  Pipeline'
<1> DEFINE checks == <<"untrusted", "canonicalization", "signatureAlgorithm",
                       "signatureValue", "signature">>
<1>0. pc = "signer" /\ msg.signed
  BY DEF VerifySignature, Inv, Behind, TokenLocated
<1>1. CASE ~policy.resolver_set
  BY <1>1, RaisedStep DEF VerifySignature
<1>2. CASE policy.resolver_set /\ ~Fails(checks)
  <2>1. UNCHANGED <<msg, policy, part, parse_error, fields>> /\ pc' = "coverage"
    BY <1>2 DEF VerifySignature, Continue
  <2>2. Known'
    BY <1>0, <2>1, SameChecks DEF Pipeline, Known
  <2> QED
    BY <1>0, <2>1, <2>2, AdvanceStep DEF Stage
<1>3. CASE policy.resolver_set /\ Fails(checks)
  <2>1. Raise \/ Refuse(FirstFailed(checks))
    BY <1>3 DEF VerifySignature
  <2>2. ~SignatureGood(msg, policy)
    BY <1>3 DEF Fails, SignatureGood
  <2>3. ~Passed /\ checks \in Seq(Fault)
    BY <1>0, <2>2 DEF Passed, SignatureSettled, Fault
  <2> HIDE DEF checks
  <2> QED
    BY <1>3, <2>1, <2>3, FailedStep, RaisedStep
<1> QED
  BY <1>1, <1>2, <1>3

\* verify_signature_coverage
LEMMA CoverageStep ==
    ASSUME Inv, Pipeline, VerifySignatureCoverage
    PROVE  Pipeline'
<1>0. pc = "coverage" /\ msg.signed
  BY DEF VerifySignatureCoverage, Inv, Behind, SignatureVerified, TokenLocated
<1>1. CASE Covered
  <2>1. UNCHANGED <<msg, policy, part, parse_error, fields>> /\ pc' = "elementDigests"
    BY <1>1 DEF VerifySignatureCoverage, Continue, Covered
  <2>2. Known'
    BY <1>0, <2>1, SameChecks DEF Pipeline, Known
  <2> QED
    BY <1>0, <2>1, <2>2, AdvanceStep DEF Stage
<1>2. CASE ~Covered
  <2>1. ~Passed
    BY <1>0, <1>2 DEF Passed, SignatureSettled, SignatureGood, Covered
  <2>2. UNCHANGED <<msg, policy, part>> /\ pc' = "returned" /\ parse_error' \in ParseError
    BY <1>2 DEF VerifySignatureCoverage, Refuse, ParseError, Covered
  <2> QED
    BY <2>1, <2>2, RefusedStep
<1> QED
  BY <1>1, <1>2

\* verify_reference_digests
LEMMA ElementDigestsStep ==
    ASSUME Inv, Pipeline, VerifyReferenceDigests
    PROVE  Pipeline'
<1>0. pc = "elementDigests" /\ msg.signed /\ UNCHANGED <<msg, policy, part>>
  BY DEF VerifyReferenceDigests, Refuse, Continue, Inv, Behind, SignatureVerified, TokenLocated
<1>1. CASE /\ policy.verify_digests /\ UnresolvedElements(msg) # {}
           /\ pc' = "returned" /\ parse_error' \in ParseError
  <2>1. ~Passed
    BY <1>0, <1>1 DEF Passed, SignatureSettled, SignatureGood
  <2> QED
    BY <1>0, <1>1, <2>1, RefusedStep
<1>2. CASE /\ policy.verify_digests => UnresolvedElements(msg) = {}
           /\ pc' = "decrypt" /\ UNCHANGED parse_error
           /\ fields' = [fields EXCEPT !.signer_certificate = TRUE]
  <2>1. SignatureGood(msg, policy)
    BY <1>0, <1>2 DEF Inv, Behind, SignatureVerified, TokenLocated, Covered, SignatureGood
  <2>2. SignatureSettled
    BY <1>0, <2>1 DEF SignatureSettled
  <2>3. Known'
    BY <1>0, <1>2, <2>2, SameChecks DEF Pipeline, Known
  <2>4. fields'.decrypted_data = fields.decrypted_data
    BY <1>2, RecordField DEF Inv, InputsOK
  <2> QED
    BY <1>0, <1>2, <2>3, <2>4, AdvanceStep DEF Stage
<1>3. \A ref : DigestError(ref) \in ParseError
  BY DEF DigestError, ParseError
<1> QED
  BY <1>1, <1>2, <1>3 DEF VerifyReferenceDigests, Refuse, Continue, ParseError

\* get_decrypted_data: what it returns has every gzip layer still on.
LEMMA DecryptStep ==
    ASSUME Inv, Pipeline, GetDecryptedData
    PROVE  Pipeline'
<1> DEFINE checks == <<"cipherValue", "keyTransport", "sessionKey">>
<1>0. pc = "decrypt" /\ UNCHANGED <<msg, policy, part>>
  BY DEF GetDecryptedData, Refuse, Continue
<1>1. CASE ~Decryption /\ pc' = "returned" /\ parse_error' \in ParseError
  BY <1>0, <1>1, RefusedStep DEF Passed
<1>2. CASE msg.encrypted /\ Fails(checks) /\ Refuse(FirstFailed(checks))
  <2>1. ~Passed /\ checks \in Seq(Fault)
    BY <1>2, FailsIsNotFree DEF Passed, Decryption, Fault
  <2> HIDE DEF checks
  <2> QED
    BY <1>2, <2>1, FailedStep
<1>3. CASE /\ pc' = "attachmentDigests" /\ UNCHANGED parse_error /\ Decryption
           /\ fields'.decrypted_data = DecryptedBy(msg)
  <2>1. Known'
    BY <1>0, <1>3, SameChecks DEF Pipeline, Known
  <2>2. Layers(0)'
    <3>1. msg.layers \in [Attachment -> Nat]
      BY MessageFields DEF Inv
    <3>2. \A a \in Attachment : fields'.decrypted_data[a] =
             IF a \in Decrypted THEN msg.layers[a] - Cardinality(Gzips(a, 0)) ELSE None
      BY <1>3, <3>1, GzipsNone DEF DecryptedBy, Decrypted
    <3> QED
      BY <1>0, <3>2, SameChecks DEF Layers
  <2>3. Typed' /\ Verdict' /\ Content'
    BY <1>0, <1>3, <2>2 DEF Pipeline, Typed, Verdict, Content, Stage
  <2> QED
    BY <2>1, <2>3 DEF Pipeline
<1>4. CASE /\ ~msg.encrypted /\ ~policy.encrypt_required
           /\ Continue("attachmentDigests") /\ UNCHANGED fields
  <2>1. \A a \in Attachment : fields.decrypted_data[a] = None
    BY <1>0 DEF Pipeline, Content, Untouched
  <2>2. fields.decrypted_data = DecryptedBy(msg)
    <3>1. msg.ciphers = {}
      BY <1>4, MessageFields DEF Inv
    <3>2. fields.decrypted_data \in [Attachment -> Nat \cup {None}]
      BY DEF Inv, InputsOK, Fields
    <3> QED
      BY <2>1, <3>1, <3>2 DEF DecryptedBy
  <2> QED
    BY <1>3, <1>4, <2>2 DEF Continue, Decryption
<1>5. CASE /\ msg.encrypted /\ ~Fails(checks) /\ Undecryptable(msg) = {}
           /\ Continue("attachmentDigests")
           /\ fields' = [fields EXCEPT !.decrypted_data = DecryptedBy(msg)]
  <2>1. fields'.decrypted_data = DecryptedBy(msg)
    BY <1>5, RecordDecrypted, DecryptedType DEF Inv, InputsOK
  <2>2. Decryption
    BY <1>5, FailsIsNotFree DEF Decryption
  <2> QED
    BY <1>3, <1>5, <2>1, <2>2 DEF Continue
<1>6. CASE /\ Refuse("EncryptionRequired") /\ ~msg.encrypted /\ policy.encrypt_required
  BY <1>1, <1>6 DEF Refuse, Decryption, ParseError
<1>7. CASE Refuse("EncryptedData") /\ msg.encrypted /\ Undecryptable(msg) # {}
  BY <1>1, <1>7 DEF Refuse, Decryption, ParseError
<1> QED
  BY <1>2, <1>4, <1>5, <1>6, <1>7 DEF GetDecryptedData

\* Only attachments of the MIME package have been decrypted.
LEMMA DecryptedInMime ==
    ASSUME InputsOK, Decryption
    PROVE  Decrypted \subseteq msg.mime
BY MessageFields DEF Decryption, Decrypted, Undecryptable

\* While no layer has been taken off, decrypted_data tells which attachments
\* were decrypted.
LEMMA LayersTellDecrypted ==
    ASSUME InputsOK, Layers(0), NEW a \in Attachment
    PROVE  fields.decrypted_data[a] = None <=> a \notin Decrypted
<1>1. msg.layers[a] \in Nat /\ None \notin Nat
  BY MessageFields, InputsAssumption
<1> QED
  BY <1>1, GzipsNone DEF Layers

\* verify_attachment_digests
LEMMA AttachmentDigestsStep ==
    ASSUME Inv, Pipeline, VerifyAttachmentDigests
    PROVE  Pipeline'
<1> DEFINE unresolved == UnresolvedAttachments(msg, fields.decrypted_data)
<1>0. pc = "attachmentDigests" /\ UNCHANGED <<msg, policy, part>>
  BY DEF VerifyAttachmentDigests, Refuse, Continue
<1>1. unresolved = {} <=> \A ref \in msg.refs : ref.target \in Attachment =>
                            ref.target \in Decrypted /\ ref.digest = "match"
  BY <1>0, LayersTellDecrypted DEF UnresolvedAttachments, Inv, Pipeline, Content
<1>2. SignedAttachments <=> (msg.signed /\ policy.verify_digests => unresolved = {})
  BY <1>1 DEF SignedAttachments
<1> HIDE DEF unresolved
<1>3. CASE ~SignedAttachments /\ pc' = "returned" /\ parse_error' \in ParseError
  BY <1>0, <1>3, RefusedStep DEF Passed
<1>4. CASE SignedAttachments /\ Continue("payloadInfo") /\ UNCHANGED fields
  <2>1. Known'
    BY <1>0, <1>4, SameChecks DEF Pipeline, Known, Continue
  <2> QED
    BY <1>0, <1>4, <2>1, AdvanceStep DEF Stage, Continue
<1>5. \A ref : DigestError(ref) \in ParseError
  BY DEF DigestError, ParseError
<1>6. \/ msg.signed /\ policy.verify_digests /\ unresolved # {} /\ pc' = "returned" /\ parse_error' \in ParseError
      \/ (msg.signed /\ policy.verify_digests => unresolved = {}) /\ Continue("payloadInfo") /\ UNCHANGED fields
  BY <1>5 DEF VerifyAttachmentDigests, Refuse, ParseError, unresolved
<1> QED
  BY <1>2, <1>3, <1>4, <1>6

\* The user message and its eb:PayloadInfo, after which the loop begins.
LEMMA PayloadInfoStep ==
    ASSUME Inv, Pipeline, RequirePayloadInfo
    PROVE  Pipeline'
<1> DEFINE checks == <<"bundled", "userMessage", "payloadInfo">>
<1>0. pc = "payloadInfo"
  BY DEF RequirePayloadInfo
<1>1. CASE Fails(checks)
  <2>1. ~Passed /\ checks \in Seq(Fault)
    BY <1>1, FailsIsNotFree DEF Passed, Fault
  <2> QED
    BY <1>1, <2>1, FailedStep DEF RequirePayloadInfo, Run
<1>2. CASE ~Fails(checks)
  <2>1. /\ UNCHANGED <<msg, policy, part, parse_error, fields>>
        /\ pc' = "parts" /\ Free({"bundled", "userMessage", "payloadInfo"})
    BY <1>2, FailsIsNotFree DEF RequirePayloadInfo, Run, Continue
  <2>2. Known'
    BY <1>0, <2>1, SameChecks DEF Pipeline, Known
  <2>3. part = 1 /\ Layers(0)
    BY <1>0 DEF Pipeline, Content
  <2>4. PartsFit(0)
    <3>1. InputsOK /\ Decryption
      BY <1>0 DEF Inv, Pipeline, Known
    <3>2. \A a \in Decrypted : msg.layers[a] \in Nat
      BY <3>1, MessageFields, DecryptedInMime
    <3> QED
      BY <3>2, GzipsNone DEF PartsFit
  <2>5. Len(msg.parts) \in Nat
    BY MessageFields DEF Inv
  <2>6. Layers(0)'
    BY <2>1, <2>3, SameChecks DEF Layers
  <2>7. PartsFit(0)'
    BY <2>1, <2>4, SameChecks
  <2>8. (/\ part \in 1..(Len(msg.parts) + 1) /\ PartsFit(part - 1)
         /\ Layers(part - 1))'
    <3>1. part' = 1 /\ part' - 1 = 0 /\ Len(msg'.parts) \in Nat
      BY <2>1, <2>3, <2>5
    <3> QED
      BY <3>1, <2>6, <2>7
  <2>9. Typed' /\ Verdict' /\ Content'
    BY <1>0, <2>1, <2>8 DEF Pipeline, Typed, Verdict, Content, Stage
  <2> QED
    BY <2>2, <2>9 DEF Pipeline
<1> QED
  BY <1>1, <1>2

\* What the loop finds in decrypted_data before its next round.
LEMMA RoundContents ==
    ASSUME InputsOK, Decryption, NEW k \in Nat, PartsFit(k), Layers(k)
    PROVE  /\ \A a \in Decrypted :
                 /\ a \in Attachment /\ msg.layers[a] \in Nat /\ msg.size[a] \in Nat
                 /\ Cardinality(Gzips(a, k)) \in Nat
                 /\ Cardinality(Gzips(a, k)) <= msg.layers[a]
                 /\ fields.decrypted_data[a] = msg.layers[a] - Cardinality(Gzips(a, k))
                 /\ fields.decrypted_data[a] # None
           /\ \A a \in Attachment \ Decrypted : fields.decrypted_data[a] = None
<1>1. \A a \in Attachment \ Decrypted : fields.decrypted_data[a] = None
  BY DEF Layers
<1>2. ASSUME NEW a \in Decrypted
      PROVE  /\ a \in Attachment /\ msg.layers[a] \in Nat /\ msg.size[a] \in Nat
             /\ Cardinality(Gzips(a, k)) \in Nat
             /\ Cardinality(Gzips(a, k)) <= msg.layers[a]
             /\ fields.decrypted_data[a] = msg.layers[a] - Cardinality(Gzips(a, k))
             /\ fields.decrypted_data[a] # None
  <2>1. a \in Attachment /\ msg.layers[a] \in Nat /\ msg.size[a] \in Nat
    BY <1>2, MessageFields, DecryptedInMime
  <2>2. Cardinality(Gzips(a, k)) \in Nat
    BY GzipsFinite
  <2>3. Cardinality(Gzips(a, k)) <= msg.layers[a]
    BY <1>2 DEF PartsFit
  <2>4. fields.decrypted_data[a] = msg.layers[a] - Cardinality(Gzips(a, k))
    BY <1>2, <2>1 DEF Layers
  <2>5. msg.layers[a] - Cardinality(Gzips(a, k)) \in Nat
    BY <2>1, <2>2, <2>3
  <2> QED
    BY <2>1, <2>2, <2>3, <2>4, <2>5, InputsAssumption
<1> QED
  BY <1>1, <1>2

\* A round that inflates nothing that was decrypted.
LEMMA SkippedPart ==
    ASSUME InputsOK, Decryption, NEW k \in Nat, k < Len(msg.parts), PartsFit(k), Layers(k),
           msg.parts[k + 1].href \in msg.mime \cup {None},
           ~(msg.parts[k + 1].href \in Decrypted /\ msg.parts[k + 1].gzip)
    PROVE  PartsFit(k + 1) /\ Layers(k + 1)
<1>1. \A a \in Decrypted : Gzips(a, k + 1) = Gzips(a, k)
  BY GzipsNext
<1>2. \A i \in 1..(k + 1) : i \in 1..k \/ i = k + 1
  OBVIOUS
<1>3. \A i \in 1..(k + 1) : msg.parts[i].href \in msg.mime \cup {None}
  BY <1>2 DEF PartsFit
<1> QED
  BY <1>1, <1>3 DEF PartsFit, Layers

\* A round that takes a layer off attachment href.
LEMMA InflatedPart ==
    ASSUME InputsOK, Decryption, NEW k \in Nat, k < Len(msg.parts), PartsFit(k), Layers(k),
           NEW href \in Decrypted, msg.parts[k + 1].href = href, msg.parts[k + 1].gzip,
           fields.decrypted_data[href] # 0, msg.size[href] <= policy.maximum_decompressed_size,
           NEW a \in Attachment
    PROVE  /\ PartsFit(k + 1)
           /\ (IF a = href THEN fields.decrypted_data[a] - 1 ELSE fields.decrypted_data[a])
                = IF a \in Decrypted THEN msg.layers[a] - Cardinality(Gzips(a, k + 1)) ELSE None
<1>1. \A i \in 1..(k + 1) : i \in 1..k \/ i = k + 1
  OBVIOUS
<1>2. \A i \in 1..(k + 1) : msg.parts[i].href \in msg.mime \cup {None}
  BY <1>1, DecryptedInMime DEF PartsFit
<1>3. \A b \in Decrypted : b # href => Gzips(b, k + 1) = Gzips(b, k)
  BY GzipsNext
<1>4. Cardinality(Gzips(href, k + 1)) = Cardinality(Gzips(href, k)) + 1
  BY GzipsNext
<1>5. /\ msg.layers[href] \in Nat /\ Cardinality(Gzips(href, k)) \in Nat
      /\ Cardinality(Gzips(href, k)) <= msg.layers[href]
      /\ fields.decrypted_data[href] = msg.layers[href] - Cardinality(Gzips(href, k))
  BY RoundContents
<1>6. /\ Cardinality(Gzips(href, k + 1)) <= msg.layers[href]
      /\ fields.decrypted_data[href] - 1 = msg.layers[href] - Cardinality(Gzips(href, k + 1))
  BY <1>4, <1>5
<1>7. \A b \in Decrypted :
          /\ Cardinality(Gzips(b, k + 1)) <= msg.layers[b]
          /\ Gzips(b, k + 1) # {} => msg.size[b] <= policy.maximum_decompressed_size
  <2> SUFFICES ASSUME NEW b \in Decrypted
               PROVE  /\ Cardinality(Gzips(b, k + 1)) <= msg.layers[b]
                      /\ Gzips(b, k + 1) # {} => msg.size[b] <= policy.maximum_decompressed_size
    OBVIOUS
  <2>1. CASE b = href
    BY <1>6, <2>1
  <2>2. CASE b # href
    BY <1>3, <2>2 DEF PartsFit
  <2> QED
    BY <2>1, <2>2
<1>8. PartsFit(k + 1)
  BY <1>2, <1>7 DEF PartsFit
<1>9. CASE a = href
  BY <1>6, <1>8, <1>9
<1>10. CASE a # href
  BY <1>3, <1>8, <1>10 DEF Layers
<1> QED
  BY <1>9, <1>10

\* A content that has no layer left to take off, or is too long without it,
\* is one the checks together refuse.
LEMMA RefusedPart ==
    ASSUME InputsOK, Decryption, NEW k \in Nat, k < Len(msg.parts), PartsFit(k), Layers(k),
           NEW href \in Decrypted, msg.parts[k + 1].href = href, msg.parts[k + 1].gzip,
           \/ fields.decrypted_data[href] = 0
           \/ msg.size[href] > policy.maximum_decompressed_size
    PROVE  ~PartsFit(Len(msg.parts))
<1> DEFINE n == Len(msg.parts)
<1>1. n \in Nat /\ k + 1 \in Nat /\ k + 1 <= n /\ policy.maximum_decompressed_size \in Nat
  BY MessageFields
<1> HIDE DEF n
<1>2. /\ Gzips(href, k + 1) = Gzips(href, k) \cup {k + 1}
      /\ Cardinality(Gzips(href, k + 1)) = Cardinality(Gzips(href, k)) + 1
  BY GzipsNext
<1>3. /\ Gzips(href, k + 1) \subseteq Gzips(href, n)
      /\ Cardinality(Gzips(href, k + 1)) <= Cardinality(Gzips(href, n))
  BY <1>1, GzipsGrow
<1>4. /\ msg.layers[href] \in Nat /\ msg.size[href] \in Nat /\ Cardinality(Gzips(href, k)) \in Nat
      /\ fields.decrypted_data[href] = msg.layers[href] - Cardinality(Gzips(href, k))
  BY RoundContents
<1>5. Cardinality(Gzips(href, n)) \in Nat
  BY <1>1, GzipsFinite
<1>6. CASE fields.decrypted_data[href] = 0
  <2>1. ~(Cardinality(Gzips(href, n)) <= msg.layers[href])
    BY <1>2, <1>3, <1>4, <1>5, <1>6
  <2> QED
    BY <2>1 DEF PartsFit, n
<1>7. CASE msg.size[href] > policy.maximum_decompressed_size
  <2>1. ~(msg.size[href] <= policy.maximum_decompressed_size)
    BY <1>1, <1>4, <1>7
  <2>2. Gzips(href, n) # {}
    BY <1>2, <1>3
  <2> QED
    BY <2>1, <2>2 DEF PartsFit, n
<1> QED
  BY <1>6, <1>7

\* The loop goes on with the next PartInfo.
LEMMA NextPartStep ==
    ASSUME Inv, Pipeline, NextPart, pc = "parts", part \in 1..Len(msg.parts), PartsFit(part),
           \A a \in Attachment : fields'.decrypted_data[a] =
              IF a \in Decrypted THEN msg.layers[a] - Cardinality(Gzips(a, part)) ELSE None
    PROVE  Pipeline'
<1>1. /\ UNCHANGED <<msg, policy, pc, parse_error>> /\ part' = part + 1 /\ part \in Nat
      /\ Len(msg.parts) \in Nat /\ part' - 1 = part /\ part' \in 1..(Len(msg.parts) + 1)
  BY MessageFields DEF NextPart, Inv
<1>2. Known'
  BY <1>1, SameChecks DEF Pipeline, Known
<1>3. (Layers(part - 1))'
  <2>1. \A a : (Gzips(a, part - 1))' = Gzips(a, part)
    BY <1>1 DEF Gzips
  <2> QED
    BY <1>1, <2>1, SameChecks DEF Layers
<1>4. (PartsFit(part - 1))'
  BY <1>1 DEF PartsFit, Gzips, Decrypted
<1>5. (part \in 1..(Len(msg.parts) + 1) /\ PartsFit(part - 1) /\ Layers(part - 1))'
  BY <1>1, <1>3, <1>4
<1>6. Typed' /\ Verdict' /\ Content'
  BY <1>1, <1>5 DEF Pipeline, Typed, Verdict, Content, Stage
<1> QED
  BY <1>2, <1>6 DEF Pipeline

\* One round of the loop over eb:PartInfo.
LEMMA UnpackPartStep ==
    ASSUME Inv, Pipeline, UnpackPart
    PROVE  Pipeline'
<1> DEFINE k == part - 1
           href == msg.parts[part].href
           content == fields.decrypted_data[href]
           gzip == msg.parts[part].gzip
           limit == policy.maximum_decompressed_size
<1>1. /\ InputsOK /\ Decryption /\ pc = "parts" /\ part \in Nat /\ Len(msg.parts) \in Nat
      /\ part \in 1..Len(msg.parts) /\ PartsFit(k) /\ Layers(k)
      /\ None \notin Attachment /\ msg.mime \subseteq Attachment
  BY InputsAssumption, MessageFields DEF UnpackPart, Inv, Pipeline, Typed, Known, Content
<1>2. k \in Nat /\ k + 1 = part /\ k < Len(msg.parts)
  BY <1>1
<1>3. Decrypted \subseteq msg.mime
  BY <1>1, DecryptedInMime
<1> HIDE DEF k, href, gzip, content, limit
<1>4. ASSUME NextPart, UNCHANGED fields, href \in msg.mime \cup {None},
             ~(href \in Decrypted /\ gzip)
      PROVE  Pipeline'
  <2>1. PartsFit(part) /\ Layers(part)
    BY <1>1, <1>2, <1>4, SkippedPart DEF href, gzip
  <2> QED
    BY <1>1, <1>4, <2>1, NextPartStep DEF Layers
<1>5. ASSUME ~PartsFit(Len(msg.parts)), NEW error \in ParseError, Refuse(error)
      PROVE  Pipeline'
  BY <1>5, RefusedStep DEF Passed, Refuse
<1>6. CASE href = None /\ NextPart /\ UNCHANGED fields
  BY <1>1, <1>3, <1>4, <1>6
<1>7. CASE href # None /\ href \notin msg.mime /\ Refuse("PartInfoWithoutMimePart")
  <2>1. ~PartsFit(Len(msg.parts))
    BY <1>1, <1>7 DEF PartsFit, href
  <2> QED
    BY <1>5, <1>7, <2>1 DEF ParseError
<1>8. CASE href \in msg.mime /\ (content = None \/ ~gzip) /\ NextPart /\ UNCHANGED fields
  <2>1. content = None => href \notin Decrypted
    BY <1>1, <1>2, RoundContents DEF content
  <2> QED
    BY <1>4, <1>8, <2>1
<1>9. CASE href \in msg.mime /\ content = 0 /\ gzip /\ Refuse("DecompressionFailed")
  <2>1. href \in Decrypted
    BY <1>1, <1>2, <1>9, RoundContents, InputsAssumption DEF content
  <2>2. ~PartsFit(Len(msg.parts))
    BY <1>1, <1>2, <1>9, <2>1, RefusedPart DEF href, gzip, content
  <2> QED
    BY <1>5, <1>9, <2>2 DEF ParseError
<1>10. ASSUME href \in msg.mime, content \notin {None, 0}, gzip
       PROVE  /\ href \in Decrypted /\ msg.size[href] \in Nat /\ limit \in Nat
              /\ Inflated(msg, href, limit) > limit <=> msg.size[href] > limit
  <2>1. href \in Decrypted /\ msg.size[href] \in Nat
    BY <1>1, <1>2, <1>10, RoundContents DEF content
  <2>2. limit \in Nat
    BY <1>1, MessageFields DEF limit
  <2> QED
    BY <2>1, <2>2 DEF Inflated
<1>11. CASE /\ href \in msg.mime /\ content \notin {None, 0} /\ gzip
            /\ Inflated(msg, href, limit) > limit /\ Refuse("DecompressedPayloadTooLarge")
  <2>1. href \in Decrypted /\ msg.size[href] > limit
    BY <1>10, <1>11
  <2>2. ~PartsFit(Len(msg.parts))
    BY <1>1, <1>2, <1>11, <2>1, RefusedPart DEF href, gzip, limit
  <2> QED
    BY <1>5, <1>11, <2>2 DEF ParseError
<1>12. CASE /\ href \in msg.mime /\ content \notin {None, 0} /\ gzip
            /\ ~(Inflated(msg, href, limit) > limit) /\ NextPart
            /\ fields' = [fields EXCEPT !.decrypted_data[href] = @ - 1]
  <2>1. href \in Decrypted /\ msg.size[href] <= limit /\ content # 0
    BY <1>10, <1>12
  <2> DEFINE d == [fields.decrypted_data EXCEPT ![href] = @ - 1]
  <2>2. fields \in Fields /\ fields.decrypted_data \in [Attachment -> Nat \cup {None}]
    BY <1>1 DEF InputsOK, Fields
  <2>3. content \in Nat \ {0} /\ href \in Attachment
    BY <1>1, <1>12, <2>2 DEF content
  <2>4. d \in [Attachment -> Nat \cup {None}]
    BY <2>2, <2>3 DEF content
  <2>5. \A a \in Attachment : d[a] = IF a = href THEN fields.decrypted_data[a] - 1
                                                 ELSE fields.decrypted_data[a]
    BY <2>2
  <2>6. fields' = [fields EXCEPT !.decrypted_data = d]
    BY <1>12
  <2> HIDE DEF d
  <2>7. fields'.decrypted_data = d
    BY <2>2, <2>4, <2>6, RecordDecrypted
  <2>8. ASSUME NEW a \in Attachment
        PROVE  /\ PartsFit(part)
               /\ fields'.decrypted_data[a] =
                    IF a \in Decrypted THEN msg.layers[a] - Cardinality(Gzips(a, part)) ELSE None
    <3>1. /\ PartsFit(k + 1)
          /\ (IF a = href THEN fields.decrypted_data[a] - 1 ELSE fields.decrypted_data[a])
               = IF a \in Decrypted THEN msg.layers[a] - Cardinality(Gzips(a, k + 1)) ELSE None
      BY <1>1, <1>2, <1>12, <2>1, InflatedPart DEF href, gzip, content, limit
    <3> QED
      BY <1>2, <2>5, <2>7, <3>1
  <2>9. PartsFit(part)
    BY <2>3, <2>8
  <2> QED
    BY <1>1, <1>12, <2>8, <2>9, NextPartStep
<1> QED
  BY <1>6, <1>7, <1>8, <1>9, <1>11, <1>12 DEF UnpackPart, href, content, gzip, limit

\* AS4Message.process returns with the loop at its end.
LEMMA AllPartsStep ==
    ASSUME Inv, Pipeline, AllPartsUnpacked
    PROVE  Pipeline'
<1>1. /\ UNCHANGED <<msg, policy, part, parse_error, fields>>
      /\ pc = "parts" /\ pc' = "processed" /\ part > Len(msg.parts)
  BY DEF AllPartsUnpacked, Continue
<1>2. part \in 1..(Len(msg.parts) + 1) /\ PartsFit(part - 1) /\ Layers(part - 1)
  BY <1>1 DEF Pipeline, Content
<1>3. part - 1 = Len(msg.parts)
  <2>1. Len(msg.parts) \in Nat
    BY MessageFields DEF Inv
  <2> QED
    BY <1>1, <1>2, <2>1
<1>4. PartsFit(Len(msg.parts)) /\ Layers(Len(msg.parts))
  BY <1>2, <1>3
<1>5. Layers(Len(msg.parts))'
  BY <1>1, <1>4, SameChecks DEF Layers
<1>6. Known'
  BY <1>1, <1>4, SameChecks DEF Pipeline, Known
<1>7. Typed' /\ Verdict' /\ Content'
  BY <1>1, <1>5 DEF Pipeline, Typed, Verdict, Content, Stage
<1> QED
  BY <1>6, <1>7 DEF Pipeline

\* The payload is read from the first attachment, when it has come out of
\* decryption and decompression with no layer left.
LEMMA ReadPayloadStep ==
    ASSUME Inv, Pipeline, ReadPayload
    PROVE  Pipeline'
<1> DEFINE n == Len(msg.parts)
           checks == <<"payloadXml", "sbdhElement", "sbdhSchema">>
<1>1. /\ pc = "processed" /\ InputsOK /\ Decryption /\ n \in Nat /\ PartsFit(n) /\ Layers(n)
      /\ Decrypted \subseteq Attachment
  BY MessageFields, DecryptedInMime DEF ReadPayload, Inv, Pipeline, Known, Content
<1>2. /\ Payload = None => msg.first \notin Decrypted
      /\ Payload # None =>
           /\ msg.first \in Decrypted /\ msg.layers[msg.first] \in Nat
           /\ Cardinality(Gzips(msg.first, n)) \in Nat
           /\ Cardinality(Gzips(msg.first, n)) <= msg.layers[msg.first]
           /\ Payload = msg.layers[msg.first] - Cardinality(Gzips(msg.first, n))
  <2>1. msg.first = None \/ msg.first \in Attachment
    BY <1>1, MessageFields
  <2> HIDE DEF n
  <2>2. CASE msg.first = None
    BY <1>1, <2>2, InputsAssumption DEF Payload
  <2>3. CASE msg.first \in Attachment
    <3>1. Payload = fields.decrypted_data[msg.first]
      BY <2>3, InputsAssumption DEF Payload
    <3> QED
      BY <1>1, <2>3, <3>1, RoundContents
  <2> QED
    BY <2>1, <2>2, <2>3
<1>3. ASSUME ~PayloadReadable, NEW error \in ParseError, Refuse(error)
      PROVE  Pipeline'
  BY <1>3, RefusedStep DEF Passed, Refuse
<1>4. CASE "partyType" \in msg.faults /\ Refuse("partyType")
  <2>1. ~PayloadReadable
    BY <1>4 DEF PayloadReadable, Free
  <2> QED
    BY <1>3, <1>4, <2>1 DEF ParseError, Fault
<1>5. CASE Payload = None /\ Refuse("NoDecryptedPayload")
  <2>1. ~PayloadReadable
    BY <1>2, <1>5 DEF PayloadReadable
  <2> QED
    BY <1>3, <1>5, <2>1 DEF ParseError
<1>6. CASE Payload # None /\ Payload > 0 /\ Refuse("payloadXml")
  <2>1. msg.layers[msg.first] # Cardinality(Gzips(msg.first, n))
    <3> HIDE DEF n
    <3> QED
      BY <1>2, <1>6
  <2>2. ~PayloadReadable
    BY <2>1 DEF PayloadReadable
  <2> QED
    BY <1>3, <1>6, <2>2 DEF ParseError, Fault
<1>7. CASE Fails(checks) /\ Refuse(FirstFailed(checks))
  <2>1. ~PayloadReadable
    BY <1>7, FailsIsNotFree DEF PayloadReadable, Free
  <2>2. ~Passed /\ checks \in Seq(Fault)
    BY <2>1 DEF Passed, Fault
  <2> HIDE DEF checks
  <2> QED
    BY <1>7, <2>2, FailedStep
<1>8. CASE /\ "partyType" \notin msg.faults /\ Payload # None /\ ~(Payload > 0)
           /\ ~Fails(checks) /\ Continue("sbdh") /\ UNCHANGED fields
  <2>1. msg.first \in Decrypted /\ msg.layers[msg.first] = Cardinality(Gzips(msg.first, n))
    <3> HIDE DEF n
    <3> QED
      BY <1>2, <1>8
  <2>2. Free({"partyType", "payloadXml", "sbdhElement", "sbdhSchema"})
    BY <1>8, FailsIsNotFree DEF Free
  <2>3. PayloadReadable
    BY <2>1, <2>2 DEF PayloadReadable
  <2>4. Known'
    BY <1>1, <1>8, <2>3, SameChecks DEF Pipeline, Known, Continue
  <2> QED
    BY <1>1, <1>8, <2>4, AdvanceStep DEF Stage, Continue
<1> QED
  BY <1>4, <1>5, <1>6, <1>7, <1>8 DEF ReadPayload, Run

\* The model of the SBDH, whose participants are recorded.
LEMMA ReadParticipantsStep ==
    ASSUME Inv, Pipeline, ReadParticipants
    PROVE  Pipeline'
<1>0. pc = "sbdh"
  BY DEF ReadParticipants
<1>1. CASE "sbdhModel" \in msg.faults
  <2>1. ~Passed
    BY <1>1 DEF Passed, Free
  <2>2. UNCHANGED <<msg, policy, part>> /\ pc' = "returned" /\ parse_error' \in ParseError
    BY <1>1 DEF ReadParticipants, Refuse, ParseError, Fault
  <2> QED
    BY <2>1, <2>2, RefusedStep
<1>2. CASE "sbdhModel" \notin msg.faults
  <2>1. /\ UNCHANGED <<msg, policy, part, parse_error>> /\ pc' = "participants"
        /\ fields' = [fields EXCEPT !.participants = TRUE] /\ Free({"sbdhModel"})
    BY <1>2 DEF ReadParticipants, Continue, Free
  <2>2. Known'
    BY <1>0, <2>1, SameChecks DEF Pipeline, Known
  <2>3. fields'.decrypted_data = fields.decrypted_data
    BY <2>1, RecordField DEF Inv, InputsOK
  <2> QED
    BY <1>0, <2>1, <2>2, <2>3, AdvanceStep DEF Stage
<1> QED
  BY <1>1, <1>2

\* verify_participants_agree
LEMMA ParticipantsAgreeStep ==
    ASSUME Pipeline, VerifyParticipantsAgree
    PROVE  Pipeline'
<1>0. pc = "participants"
  BY DEF VerifyParticipantsAgree
<1>1. CASE ~ParticipantsAgree
  <2>1. ~Passed
    BY <1>1 DEF Passed
  <2>2. UNCHANGED <<msg, policy, part>> /\ pc' = "returned" /\ parse_error' \in ParseError
    BY <1>1 DEF VerifyParticipantsAgree, ParticipantsAgree, Free, Refuse, ParseError, Fault
  <2> QED
    BY <2>1, <2>2, RefusedStep
<1>2. CASE ParticipantsAgree
  <2>1. UNCHANGED <<msg, policy, part, parse_error, fields>> /\ pc' = "accept"
    BY <1>2 DEF VerifyParticipantsAgree, ParticipantsAgree, Free, Continue
  <2>2. Known'
    BY <1>0, <1>2, <2>1, SameChecks DEF Pipeline, Known
  <2> QED
    BY <1>0, <2>1, <2>2, AdvanceStep DEF Stage
<1> QED
  BY <1>1, <1>2

\* accept_participant
LEMMA AcceptParticipantStep ==
    ASSUME Inv, Pipeline, AcceptParticipant
    PROVE  Pipeline'
<1>0. pc = "accept" /\ UNCHANGED <<msg, policy, part>>
  BY DEF AcceptParticipant, Continue
<1>1. CASE ~Serviced /\ pc' = "returned" /\ parse_error' = "serviced"
  BY <1>0, <1>1, RefusedStep DEF Passed, ParseError, Fault
<1>2. CASE /\ Serviced /\ pc' = "scopes" /\ UNCHANGED parse_error
           /\ fields'.decrypted_data = fields.decrypted_data
  <2>1. Known'
    BY <1>0, <1>2, SameChecks DEF Pipeline, Known
  <2> QED
    BY <1>0, <1>2, <2>1, AdvanceStep DEF Stage
<1>3. fields' = [fields EXCEPT !.asked = TRUE] => fields'.decrypted_data = fields.decrypted_data
  BY RecordField DEF Inv, InputsOK
<1> QED
  BY <1>1, <1>2, <1>3 DEF AcceptParticipant, Serviced, Free, Continue

\* The mandatory scopes, behind which every check lies.
LEMMA ReadScopesStep ==
    ASSUME Inv, Pipeline, ReadScopes
    PROVE  Pipeline'
<1>0. pc = "scopes"
  BY DEF ReadScopes
<1>1. CASE Fails(<<"scopes">>)
  <2>1. ~Passed /\ <<"scopes">> \in Seq(Fault)
    BY <1>1, FailsIsNotFree DEF Passed, Fault
  <2> QED
    BY <1>1, <2>1, FailedStep DEF ReadScopes, Run
<1>2. CASE ~Fails(<<"scopes">>)
  <2>1. UNCHANGED <<msg, policy, part, parse_error, fields>> /\ pc' = "returned"
    BY <1>2 DEF ReadScopes, Run, Continue
  <2>2. Passed
    BY <1>0, <1>2, FailsIsNotFree DEF Pipeline, Known, Passed
  <2>3. parse_error = None /\ Layers(Len(msg.parts))
    BY <1>0 DEF Pipeline, Verdict, Content
  <2>4. Layers(Len(msg.parts))' /\ Passed'
    BY <2>1, <2>2, <2>3, SameChecks DEF Layers
  <2>5. Typed' /\ Known' /\ Content' /\ Verdict'
    BY <2>1, <2>3, <2>4 DEF Pipeline, Typed, Known, Content, Verdict, Stage
  <2> QED
    BY <2>5 DEF Pipeline
<1> QED
  BY <1>1, <1>2

-----------------------------------------------------------------------------
(* The theorems *)

\* parse starts with nothing checked and nothing decrypted.
LEMMA EntryPipeline == Entry => Pipeline
<1> SUFFICES ASSUME Entry
             PROVE  Pipeline
  OBVIOUS
<1>1. Untouched
  BY DEF Entry, Untouched
<1> QED
  BY <1>1 DEF Entry, Pipeline, Typed, Known, Content, Verdict, Stage

\* Every step of parse keeps what is known of the message, what its
\* attachments hold and the verdict.
LEMMA NextPipeline == Inv /\ Pipeline /\ [Next]_vars => Pipeline'
<1> SUFFICES ASSUME Inv, Pipeline, [Next]_vars
             PROVE  Pipeline'
  OBVIOUS
<1>1. CASE UNCHANGED vars
  <2>1. UNCHANGED <<msg, policy, pc, part, parse_error, fields>>
    BY <1>1 DEF vars
  <2>2. Typed' /\ Known' /\ Verdict' /\ Content'
    BY <2>1, SameChecks DEF Pipeline, Typed, Known, Verdict, Content, Layers, Untouched
  <2> QED
    BY <2>2 DEF Pipeline
<1>2. CASE Process
  BY <1>2, UnpackStep, PreValidateStep, EnvelopeStep, IndexStep, LocateTokenStep,
     VerifySignatureStep, CoverageStep, ElementDigestsStep, DecryptStep,
     AttachmentDigestsStep, PayloadInfoStep, UnpackPartStep, AllPartsStep
  DEF Process
<1>3. CASE ProcessSBDH
  BY <1>3, ReadPayloadStep, ReadParticipantsStep, ParticipantsAgreeStep, AcceptParticipantStep,
     ReadScopesStep
  DEF ProcessSBDH
<1> QED
  BY <1>1, <1>2, <1>3 DEF Next, Finished

\* Both invariants hold at every step of parse.
LEMMA SpecPipeline == Spec => [](Inv /\ Pipeline)
<1> QED
  BY InitEntry, EntryInv, EntryPipeline, NextInv, NextPipeline, PTL DEF Spec

\* parse goes on with the message and the policy it was given.
LEMMA NextInputs ==
    ASSUME [Next]_vars
    PROVE  UNCHANGED <<msg, policy>>
<1>1. CASE UnpackMessage \/ PreValidate \/ ValidateEnvelope \/ IndexElements \/ LocateToken
  BY <1>1 DEF UnpackMessage, PreValidate, ValidateEnvelope, IndexElements, LocateToken, Run,
     Refuse, Raise, Continue
<1>2. CASE VerifySignature \/ VerifySignatureCoverage \/ VerifyReferenceDigests \/ GetDecryptedData
  BY <1>2 DEF VerifySignature, VerifySignatureCoverage, VerifyReferenceDigests,
     GetDecryptedData, Refuse, Raise, Continue
<1>3. CASE VerifyAttachmentDigests \/ RequirePayloadInfo \/ UnpackPart \/ AllPartsUnpacked
  BY <1>3 DEF VerifyAttachmentDigests, RequirePayloadInfo, UnpackPart, AllPartsUnpacked, Run,
     NextPart, Refuse, Continue
<1>4. CASE ProcessSBDH
  BY <1>4 DEF ProcessSBDH, ReadPayload, ReadParticipants, VerifyParticipantsAgree,
     AcceptParticipant, ReadScopes, Run, Refuse, Continue
<1> QED
  BY <1>1, <1>2, <1>3, <1>4 DEF Next, Process, Finished, vars

\* Whatever message it is given and under whatever policy, parse keeps its
\* stage, its loop counter, its error and the fields it records in their types.
THEOREM TypeOKHolds == Spec => []TypeOK
<1>1. Inv /\ Pipeline /\ msg \in Messages /\ policy \in Policies => TypeOK
  BY DEF Inv, InputsOK, Fields, Pipeline, Typed, TypeOK
<1>2. Init => msg \in Messages /\ policy \in Policies
  BY DEF Init
<1>3. msg \in Messages /\ policy \in Policies /\ [Next]_vars
        => (msg \in Messages /\ policy \in Policies)'
  BY NextInputs
<1> QED
  BY <1>1, <1>2, <1>3, SpecPipeline, PTL DEF Spec

\* A message that parse returns is refused exactly when one of the checks of
\* AS4Message.process and PeppolAS4Message.process fails it, although many of
\* them are skipped by the time the pipeline has refused it, and although the
\* contents they look at are changed by the loop over eb:PartInfo.
THEOREM VerdictIsOrderFreeHolds == Spec => []VerdictIsOrderFree
<1>1. Inv /\ Pipeline => VerdictIsOrderFree
  BY PassedIsAcceptable DEF Inv, Pipeline, Verdict, VerdictIsOrderFree, Accepted
<1> QED
  BY <1>1, SpecPipeline, PTL

\* Under verify_digests an accepted message, whose receipt repeats the
\* references of its signature, has none that leads nowhere or does not match:
\* verify_reference_digests and verify_attachment_digests leave no gap.
THEOREM AcknowledgedReferencesVerifiedHolds == Spec => []AcknowledgedReferencesVerified
<1>1. Inv /\ Pipeline => AcknowledgedReferencesVerified
  <2> SUFFICES ASSUME Inv, Pipeline, Accepted, policy.verify_digests, NEW ref \in msg.refs
               PROVE  ref.target # "nothing" /\ ref.digest = "match"
    BY DEF AcknowledgedReferencesVerified
  <2>1. Passed
    BY DEF Accepted, Pipeline, Verdict
  <2>2. msg.signed
    BY MessageFields DEF Inv
  <2>3. CASE ref.target \in Attachment
    <3>1. "nothing" \notin Attachment
      BY InputsAssumption DEF Element
    <3> QED
      BY <2>1, <2>2, <2>3, <3>1 DEF Passed, SignedAttachments
  <2>4. CASE ref.target \notin Attachment
    <3>1. UnresolvedElements(msg) = {}
      BY <2>1, <2>2 DEF Passed, SignatureSettled, SignatureGood
    <3> QED
      BY <2>4, <3>1 DEF UnresolvedElements
  <2> QED
    BY <2>3, <2>4
<1> QED
  BY <1>1, SpecPipeline, PTL

\* Under the default policy an accepted message has every payload it declares
\* signed, with a digest that matches, and decrypted, although
\* AS4Message.process skips an attachment that was not decrypted and no check
\* of it compares eb:PartInfo with the EncryptedData references.
THEOREM DeclaredPayloadsAreDeliveredHolds == Spec => []DeclaredPayloadsAreDelivered
<1>1. Inv /\ Pipeline => DeclaredPayloadsAreDelivered
  <2> SUFFICES ASSUME Inv, Pipeline, Accepted, Strict(policy), NEW a \in Declared(msg)
               PROVE  /\ fields.decrypted_data[a] # None
                      /\ \E ref \in msg.refs : ref.target = a
                      /\ \A ref \in msg.refs : ref.target = a => ref.digest = "match"
    BY DEF DeclaredPayloadsAreDelivered
  <2> DEFINE n == Len(msg.parts)
  <2>1. Passed /\ Layers(n)
    BY DEF Accepted, Pipeline, Verdict
  <2>2. SignatureSettled /\ Decryption /\ SignedAttachments /\ PartsFit(n) /\ InputsOK
    BY <2>1 DEF Passed, Inv
  <2>3. msg.signed /\ policy.verify_digests /\ Coverage \subseteq SignatureCoverage(msg)
    BY <2>2 DEF Strict, SignatureSettled, SignatureGood
  <2>4. "payloads" \in SignatureCoverage(msg)
    BY <2>3 DEF Coverage
  <2>5. a \in Targets(msg)
    BY <2>4 DEF SignatureCoverage, CoverageByTag
  <2>6. a \in Attachment /\ n \in Nat
    <3>1. PICK i \in DOMAIN msg.parts : a = msg.parts[i].href /\ a # None
      BY DEF Declared
    <3>2. msg.parts \in Seq([href : Attachment \cup {None}, gzip : BOOLEAN])
      BY <2>2, MessageFields
    <3> DEFINE PartInfo == [href : Attachment \cup {None}, gzip : BOOLEAN]
    <3>3. msg.parts[i] \in PartInfo
      <4>1. msg.parts \in Seq(PartInfo) /\ i \in 1..Len(msg.parts)
        BY <3>1, <3>2
      <4> HIDE DEF PartInfo, n
      <4> QED
        BY <4>1
    <3> QED
      BY <3>1, <3>2, <3>3
  <2>7. PICK ref \in msg.refs : ref.target = a
    BY <2>5 DEF Targets
  <2>8. a \in Decrypted /\ \A r \in msg.refs : r.target = a => r.digest = "match"
    BY <2>2, <2>3, <2>6, <2>7 DEF SignedAttachments
  <2> HIDE DEF n
  <2>9. fields.decrypted_data[a] # None
    BY <2>1, <2>2, <2>6, <2>8, RoundContents
  <2> QED
    BY <2>7, <2>8, <2>9
<1> QED
  BY <1>1, SpecPipeline, PTL
=============================================================================
