---------------------------- MODULE SignalParse ----------------------------
(***************************************************************************)
(* Signals on the wire (as4/core/receipt.py): what for_message builds and  *)
(* signs, what correlate_signal peeks at, the checks of AS4Receipt.parse   *)
(* in their order, and whether the sending exchange the signal is handed   *)
(* to takes it.  AS4Exchange takes the verdict as the one predicate        *)
(* SignalVerifies over ids that are never padded; this module is where it  *)
(* comes from and what it leaves out.                                      *)
(***************************************************************************)
EXTENDS Naturals, Sequences

CONSTANTS
    Party,          \* access points, each with one certificate
    Text,           \* what an eb:MessageId or eb:RefToMessageId can hold
    Id,             \* the texts without surrounding white space
    Strip,          \* str.strip on Text, None for what is all white space
    ForeignSignals, \* signals not built by this library, or damaged since
    None

Fault == {"xml", "model", "unsigned", "tokenReference", "tokenType", "tokenBytes",
          "canonicalization", "signatureAlgorithm", "keyType",
          "signatureValue", "signature", "duplicateId"}

\* What a ds:Reference can point at: the eb:Messaging the model reads, a child
\* of the Header, another element of that tag anywhere else in the document,
\* the Body, any other element with an id, or nothing.
Element == {"messaging", "messagingElsewhere", "body", "other", "nothing"}

\* "neither" is a signal message with no eb:Error and no eb:Receipt;
\* certificate is the one in the token the signature names.
Signal == [faults : SUBSET Fault,
           kind : {"receipt", "error", "neither"},
           ref_to_message_id : Text \cup {None},
           certificate : Party,
           refs : SUBSET [target : Element, digest : {"match", "mismatch", "unsupported"}]]

ASSUME SignalAssumption ==
    /\ Id \subseteq Text
    /\ Strip \in [Text -> Id \cup {None}]
    /\ \A id \in Id : Strip[id] = id
    /\ ForeignSignals \subseteq Signal
    /\ None \notin Text \cup Party

VARIABLES
    signal,              \* the signal on the wire
    built,               \* how this library built it, or None
    exchange,            \* the sending exchange the signal is handed to
    pc,                  \* the check to run next, or the outcome
    original_message_id  \* what the parsed receipt says it is about

vars == <<signal, built, exchange, pc, original_message_id>>

\* Its message_id is the text build wrote as eb:MessageId.
SendingExchange == [message_id : {t \in Text : Strip[t] # None}, remote_party : Party]

expected_signer == exchange.remote_party

-----------------------------------------------------------------------------
(* Building *)

\* Mutant: the Body alone is signed.
SignedBody == {[target |-> "body", digest |-> "match"]}

\* get_signed_info: eb:Messaging and the Body.
SignedReferences == {[target |-> t, digest |-> "match"] : t \in {"messaging", "body"}}

\* get_success_soap_envelope and get_error_soap_envelope, which differ in the
\* eb:SignalMessage alone.  The reference is absent from an error when the
\* message id was not readable.
SoapEnvelope(kind, message_id, local_party) ==
    [faults |-> {}, kind |-> kind,
     ref_to_message_id |-> message_id,
     certificate |-> local_party, refs |-> SignedReferences]

Init ==
    /\ signal = None /\ built = None
    /\ exchange \in SendingExchange
    /\ pc = "start"
    /\ original_message_id = None

Emit(kind, message_id, local_party) ==
    /\ pc = "start"
    /\ signal' = SoapEnvelope(kind, message_id, local_party)
    /\ built' = [message_id |-> message_id, signer |-> local_party]
    /\ pc' = "read"
    /\ UNCHANGED <<exchange, original_message_id>>

\* for_message on a message parsed without error, or on a refused one.  The
\* id is the text pre_validate found; parse refuses one that is blank, but
\* only after pre_validate has recorded it.
CreateReceipt(message_id, local_party) ==
    /\ Strip[message_id] # None
    /\ Emit("receipt", message_id, local_party)

CreateErrorSignal(message_id, local_party) == Emit("error", message_id, local_party)

Arrive(s) ==
    /\ pc = "start"
    /\ signal' = s
    /\ pc' = "read"
    /\ UNCHANGED <<built, exchange, original_message_id>>

-----------------------------------------------------------------------------
(* Parsing *)

\* The signal fails one of the checks, and the first it fails, in the order
\* of the code.
Fails(checks) == \E i \in DOMAIN checks : checks[i] \in signal.faults

FirstFailed(checks) ==
    checks[CHOOSE i \in DOMAIN checks :
             checks[i] \in signal.faults /\ \A j \in 1..(i - 1) : checks[j] \notin signal.faults]

Goto(next) ==
    /\ pc' = next
    /\ UNCHANGED <<signal, built, exchange, original_message_id>>

\* peek_original_message_id, the text as it stands in any well-formed signal.
Peeked(s) == IF "xml" \in s.faults THEN None ELSE s.ref_to_message_id

\* The model refuses a reference that is there and holds white space alone.
BlankReference(s) == s.ref_to_message_id # None /\ Strip[s.ref_to_message_id] = None

\* The head of parse; the model strips the text of the id.
Read ==
    /\ pc = "read"
    /\ IF Fails(<<"xml", "model">>) \/ BlankReference(signal) THEN Goto("refused")
       ELSE /\ original_message_id' = IF signal.ref_to_message_id = None THEN None
                                      ELSE Strip[signal.ref_to_message_id]
            /\ pc' = IF signal.kind # "error" /\ original_message_id' = None
                     THEN "refused" ELSE "token"
            /\ UNCHANGED <<signal, built, exchange>>

\* verify_signature up to the comparison of certificates.  Of the token it
\* is x509_certificate that raises, and nobody catches that.
LocateToken ==
    /\ pc = "token"
    /\ LET checks == <<"unsigned", "tokenReference", "tokenType", "tokenBytes">>
       IN  \/ /\ Fails(checks) /\ FirstFailed(checks) \in {"unsigned", "tokenReference"}
              /\ Goto("refused")
           \/ /\ Fails(checks) /\ FirstFailed(checks) \in {"tokenType", "tokenBytes"}
              /\ Goto("escaped")
           \/ /\ ~Fails(checks)
              /\ Goto(IF signal.certificate = expected_signer THEN "verify" ELSE "refused")

\* Signature.verify; the ValueError for an empty signature value and
\* index_elements_by_id's DuplicateElementIdException are not caught.
Verify ==
    /\ pc = "verify"
    /\ LET checks == <<"canonicalization", "signatureAlgorithm", "keyType",
                       "signatureValue", "signature", "duplicateId">>
       IN  \/ ~Fails(checks) /\ Goto("coverage")
           \/ /\ Fails(checks) /\ FirstFailed(checks) \in {"signatureValue", "duplicateId"}
              /\ Goto("escaped")
           \/ /\ Fails(checks) /\ FirstFailed(checks) \notin {"signatureValue", "duplicateId"}
              /\ Goto("refused")

\* Mutant: any signed element will do.
CoversSomething(s) == s.refs # {}

\* AS4Message.signature_coverage: an element found by its id counts as
\* eb:Messaging by its tag, wherever it is.
CoversMessaging(s) == \E ref \in s.refs : ref.target \in {"messaging", "messagingElsewhere"}

VerifyCoverage ==
    /\ pc = "coverage"
    /\ Goto(IF CoversMessaging(signal) THEN "digests" ELSE "refused")

\* The loop over signed_info.references: each resolves and matches.
VerifyDigests ==
    /\ pc = "digests"
    /\ Goto(IF \A ref \in signal.refs : ref.target # "nothing" /\ ref.digest = "match"
            THEN "verified" ELSE "refused")

\* Mutant: whatever verifies is taken.
ReceiveAnySignal ==
    /\ pc = "verified"
    /\ Goto("taken")

\* The head of receive_signal after parse: a signal about another message
\* raises before anything is recorded.
ReceiveSignal ==
    /\ pc = "verified"
    /\ Goto(IF original_message_id = exchange.message_id THEN "taken" ELSE "mismatched")

Done == pc \in {"taken", "mismatched", "refused", "escaped"}

Finished == Done /\ UNCHANGED vars

Next ==
    \/ \E id \in Text, p \in Party : CreateReceipt(id, p)
    \/ \E id \in Text \cup {None}, p \in Party : CreateErrorSignal(id, p)
    \/ \E s \in ForeignSignals : Arrive(s)
    \/ Read \/ LocateToken \/ Verify \/ VerifyCoverage \/ VerifyDigests \/ ReceiveSignal
    \/ Finished

Spec == Init /\ [][Next]_vars

-----------------------------------------------------------------------------
(* Properties *)

\* In no order: the signal can be read, the expected party signed it, and
\* nothing the signature names is missing or was altered.
SoundlySigned(s, signer) ==
    /\ s.faults = {}
    /\ \/ s.ref_to_message_id = None /\ s.kind = "error"
       \/ s.ref_to_message_id \in Text /\ Strip[s.ref_to_message_id] # None
    /\ s.certificate = signer
    /\ \A ref \in s.refs : ref.target # "nothing" /\ ref.digest = "match"

Names(s, element) == \E ref \in s.refs : ref.target = element

\* What a sender may rely on: the signature names the very header the receipt
\* is read from.
Trustworthy(s, signer) == SoundlySigned(s, signer) /\ Names(s, "messaging")

\* It does not, but names an element of the same tag in another place.
SignedElsewhere(s, signer) ==
    /\ SoundlySigned(s, signer)
    /\ ~Names(s, "messaging") /\ Names(s, "messagingElsewhere")

\* parse returns a receipt exactly for a trustworthy signal, with one exception,
\* the signature over an eb:Messaging that is not the one read: no fault slips
\* past by being met in the wrong order, and no sound signal is refused.  For
\* an envelope with one eb:Messaging, such as this library sends, there is no
\* exception.
VerifiedIsTrustworthy ==
    Done => (pc \in {"taken", "mismatched"} <=> \/ Trustworthy(signal, expected_signer)
                                               \/ SignedElsewhere(signal, expected_signer))

\* Round trip: the receiver echoes the id as it stands and parse strips it,
\* so the answer for_message builds settles the exchange it answers exactly
\* when the access point is the intended one and the id is not padded.
\* An answer to a blank id is not even readable.
AnswerSettlesItsExchange ==
    Done /\ built # None =>
        /\ built.message_id = exchange.message_id =>
               (pc = "taken" <=> /\ built.signer = exchange.remote_party
                                 /\ Strip[exchange.message_id] = exchange.message_id)
        /\ BlankReference(signal) => pc = "refused"

\* The exchange correlate_signal finds for a trustworthy signal is the one
\* receive_signal settles, wherever the reference is not padded; a padded
\* one correlates with an exchange that then refuses it.
CorrelatedIsTaken ==
    Done /\ Trustworthy(signal, expected_signer) =>
        /\ Peeked(signal) \in Id => (pc = "taken" <=> Peeked(signal) = exchange.message_id)
        /\ Peeked(signal) \notin Id /\ Peeked(signal) = exchange.message_id => pc = "mismatched"
=============================================================================
