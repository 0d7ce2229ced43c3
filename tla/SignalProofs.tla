---------------------------- MODULE SignalProofs ----------------------------
(***************************************************************************)
(* What AS4Receipt.parse and receive_signal promise of a signal, proved    *)
(* for every signal, exchange and set of identifiers.  The invariant       *)
(* follows the position in the code: past a check the signal has what the  *)
(* check asks for, and an early return is taken only by a signal that is   *)
(* not verifiable.                                                         *)
(***************************************************************************)
EXTENDS SignalParse, TLAPS

-----------------------------------------------------------------------------
(* The inductive invariant *)

\* The stages past each check.  Past ReceiveSignal, "taken" and "mismatched"
\* are the two ways parse can have returned a receipt.
Verified == {"verified", "taken", "mismatched"}
PastCoverage == {"digests"} \cup Verified
PastVerify == {"coverage"} \cup PastCoverage
PastToken == {"verify"} \cup PastVerify
PastRead == {"token"} \cup PastToken

Readable ==
    /\ {"xml", "model"} \cap signal.faults = {}
    /\ \/ signal.ref_to_message_id = None /\ signal.kind = "error"
       \/ signal.ref_to_message_id \in Text /\ Strip[signal.ref_to_message_id] # None

TokenOfSigner ==
    /\ {"unsigned", "tokenReference", "tokenType", "tokenBytes"} \cap signal.faults = {}
    /\ signal.certificate = expected_signer

SignatureHolds ==
    {"canonicalization", "signatureAlgorithm", "keyType",
     "signatureValue", "signature", "duplicateId"} \cap signal.faults = {}

DigestsMatch == \A ref \in signal.refs : ref.target # "nothing" /\ ref.digest = "match"

\* What the parsed receipt is about: the reference as the model strips it.
StrippedReference ==
    IF signal.ref_to_message_id = None THEN None ELSE Strip[signal.ref_to_message_id]

\* A signal of this library is one for_message built, whoever signed it.
Provenance ==
    built # None =>
        \E kind \in {"receipt", "error"}, id \in Text \cup {None}, p \in Party :
            /\ signal = SoapEnvelope(kind, id, p)
            /\ built = [message_id |-> id, signer |-> p]

OnTheWire == pc # "start" => signal \in Signal /\ Provenance

Behind ==
    /\ pc \in PastRead => Readable /\ original_message_id = StrippedReference
    /\ pc \in PastToken => TokenOfSigner
    /\ pc \in PastVerify => SignatureHolds
    /\ pc \in PastCoverage => CoversMessaging(signal)
    /\ pc \in Verified => DigestsMatch

\* What VerifiedIsTrustworthy says parse lets pass.
Verifiable ==
    \/ Trustworthy(signal, expected_signer)
    \/ SignedElsewhere(signal, expected_signer)

\* Only a fault in the document raises what nobody catches.
TurnedDown ==
    /\ pc \in {"refused", "escaped"} => ~Verifiable
    /\ pc = "escaped" => signal.faults # {}

Settled ==
    /\ pc = "taken" => original_message_id = exchange.message_id
    /\ pc = "mismatched" => original_message_id # exchange.message_id

Inv ==
    /\ exchange \in SendingExchange
    /\ pc \in {"start", "read", "refused", "escaped"} \cup PastRead
    /\ OnTheWire /\ Behind /\ TurnedDown /\ Settled

-----------------------------------------------------------------------------
(* Lemmas *)

\* The checks of parse, taken together, are what lets a signal pass.
LEMMA ChecksAreTrust ==
    ASSUME signal \in Signal
    PROVE  Verifiable <=> /\ Readable /\ TokenOfSigner /\ SignatureHolds
                          /\ CoversMessaging(signal) /\ DigestsMatch
<1>1. signal.faults \subseteq Fault
  BY DEF Signal
<1>2. signal.faults = {} <=>
        /\ {"xml", "model"} \cap signal.faults = {}
        /\ {"unsigned", "tokenReference", "tokenType", "tokenBytes"} \cap signal.faults = {}
        /\ SignatureHolds
  BY <1>1 DEF Fault, SignatureHolds
<1>3. SoundlySigned(signal, expected_signer) <=>
        Readable /\ TokenOfSigner /\ SignatureHolds /\ DigestsMatch
  BY <1>2 DEF SoundlySigned, Readable, TokenOfSigner, DigestsMatch
<1>4. CoversMessaging(signal) <=> Names(signal, "messaging") \/ Names(signal, "messagingElsewhere")
  BY DEF CoversMessaging, Names
<1> QED
  BY <1>3, <1>4 DEF Verifiable, Trustworthy, SignedElsewhere

\* A signal for_message builds is one the wire can carry.
LEMMA EnvelopeIsSignal ==
    ASSUME NEW kind \in {"receipt", "error"}, NEW id \in Text \cup {None}, NEW p \in Party
    PROVE  SoapEnvelope(kind, id, p) \in Signal
BY DEF SoapEnvelope, Signal, SignedReferences, Element

\* A step that moves on and leaves everything else alone keeps what is known
\* of the signal.
LEMMA SameSignal ==
    ASSUME UNCHANGED <<signal, built, exchange, original_message_id>>
    PROVE  /\ (signal \in Signal)' <=> signal \in Signal
           /\ Provenance' <=> Provenance
           /\ Readable' <=> Readable
           /\ StrippedReference' = StrippedReference
           /\ TokenOfSigner' <=> TokenOfSigner
           /\ SignatureHolds' <=> SignatureHolds
           /\ CoversMessaging(signal)' <=> CoversMessaging(signal)
           /\ DigestsMatch' <=> DigestsMatch
           /\ Verifiable' <=> Verifiable
BY DEF Provenance, Readable, StrippedReference, TokenOfSigner, SignatureHolds,
   CoversMessaging, DigestsMatch, Verifiable, Trustworthy, SignedElsewhere, SoundlySigned,
   Names, expected_signer

\* An early return keeps the invariant when the signal is not verifiable.
LEMMA RefuseInv ==
    ASSUME Inv, pc # "start", UNCHANGED <<signal, built, exchange>>,
           pc' \in {"refused", "escaped"}, ~Verifiable,
           pc' = "escaped" => signal.faults # {}
    PROVE  Inv'
<1>1. OnTheWire'
  BY DEF Inv, OnTheWire, Provenance
<1>2. TurnedDown'
  BY DEF TurnedDown, Verifiable, Trustworthy, SignedElsewhere, SoundlySigned, Names, expected_signer
<1>3. Behind' /\ Settled'
  BY DEF Behind, Settled, PastRead, PastToken, PastVerify, PastCoverage, Verified
<1> QED
  BY <1>1, <1>2, <1>3 DEF Inv

\* Before a signal is on the wire nothing is claimed of it.
LEMMA InitInv == Init => Inv
BY DEF Init, Inv, OnTheWire, Behind, TurnedDown, Settled, PastRead, PastToken, PastVerify,
   PastCoverage, Verified

\* for_message signs what it builds and names its own certificate.
LEMMA EmitInv ==
    ASSUME Inv, NEW kind \in {"receipt", "error"}, NEW id \in Text \cup {None},
           NEW p \in Party, Emit(kind, id, p)
    PROVE  Inv'
<1>1. /\ signal' = SoapEnvelope(kind, id, p) /\ built' = [message_id |-> id, signer |-> p]
      /\ pc' = "read" /\ exchange' = exchange
  BY DEF Emit
<1>2. (signal \in Signal)' /\ Provenance'
  BY <1>1, EnvelopeIsSignal DEF Provenance
<1> QED
  BY <1>1, <1>2 DEF Inv, OnTheWire, Behind, TurnedDown, Settled, PastRead, PastToken,
     PastVerify, PastCoverage, Verified

\* A signal from elsewhere is any signal at all.
LEMMA ArriveInv ==
    ASSUME Inv, built = None, NEW s \in ForeignSignals, Arrive(s)
    PROVE  Inv'
<1>1. signal' = s /\ built' = None /\ pc' = "read" /\ exchange' = exchange
  BY DEF Arrive
<1>2. (signal \in Signal)' /\ Provenance'
  BY <1>1, SignalAssumption DEF Provenance
<1> QED
  BY <1>1, <1>2 DEF Inv, OnTheWire, Behind, TurnedDown, Settled, PastRead, PastToken,
     PastVerify, PastCoverage, Verified

\* A signal parse reads has an id that is not blank, unless it is an error.
LEMMA ReadInv ==
    ASSUME Inv, Read
    PROVE  Inv'
<1>1. /\ pc = "read" /\ signal \in Signal /\ UNCHANGED <<signal, built, exchange>>
      /\ signal.ref_to_message_id \in Text \cup {None}
  BY DEF Read, Goto, Inv, OnTheWire, Signal
<1>2. Fails(<<"xml", "model">>) <=> {"xml", "model"} \cap signal.faults # {}
  BY DEF Fails
<1>3. CASE Fails(<<"xml", "model">>) \/ BlankReference(signal)
  <2>1. ~Readable
    BY <1>1, <1>2, <1>3, SignalAssumption DEF Readable, BlankReference
  <2>2. pc' = "refused"
    BY <1>3 DEF Read, Goto
  <2> QED
    BY <1>1, <2>1, <2>2, ChecksAreTrust, RefuseInv
<1>4. CASE ~(Fails(<<"xml", "model">>) \/ BlankReference(signal))
  <2>1. /\ original_message_id' = StrippedReference
        /\ pc' = IF signal.kind # "error" /\ StrippedReference = None THEN "refused" ELSE "token"
    BY <1>4 DEF Read, StrippedReference
  <2>2. CASE signal.kind # "error" /\ StrippedReference = None
    <3>1. ~Readable
      BY <1>1, <2>2, SignalAssumption DEF Readable, StrippedReference
    <3> QED
      BY <1>1, <2>1, <2>2, <3>1, ChecksAreTrust, RefuseInv
  <2>3. CASE ~(signal.kind # "error" /\ StrippedReference = None)
    <3>1. Readable
      BY <1>1, <1>2, <1>4, <2>3, SignalAssumption DEF Readable, StrippedReference, BlankReference
    <3>2. pc' = "token" /\ Readable' /\ (original_message_id = StrippedReference)'
      BY <1>1, <2>1, <2>3, <3>1 DEF Readable, StrippedReference
    <3>3. OnTheWire'
      BY <1>1 DEF Inv, OnTheWire, Provenance
    <3> QED
      BY <1>1, <3>2, <3>3 DEF Inv, Behind, TurnedDown, Settled, PastRead, PastToken, PastVerify,
         PastCoverage, Verified
  <2> QED
    BY <2>2, <2>3
<1> QED
  BY <1>3, <1>4

\* Past LocateToken the token is readable and is the expected party's;
\* whether the first failure is refused or escapes, there was a failure.
LEMMA LocateTokenInv ==
    ASSUME Inv, LocateToken
    PROVE  Inv'
<1> DEFINE checks == <<"unsigned", "tokenReference", "tokenType", "tokenBytes">>
<1>1. /\ pc = "token" /\ signal \in Signal
      /\ UNCHANGED <<signal, built, exchange, original_message_id>>
  BY DEF LocateToken, Goto, Inv, OnTheWire
<1>2. Fails(checks) <=>
        {"unsigned", "tokenReference", "tokenType", "tokenBytes"} \cap signal.faults # {}
  BY DEF Fails
<1>3. \/ pc' = "verify" /\ TokenOfSigner
      \/ pc' \in {"refused", "escaped"} /\ ~TokenOfSigner
  BY <1>2 DEF LocateToken, Goto, TokenOfSigner
<1>4. CASE pc' \in {"refused", "escaped"} /\ ~TokenOfSigner
  <2>1. pc' = "escaped" => signal.faults # {}
    BY <1>2 DEF LocateToken, Goto
  <2> QED
    BY <1>1, <1>4, <2>1, ChecksAreTrust, RefuseInv
<1>5. CASE pc' = "verify" /\ TokenOfSigner
  BY <1>1, <1>5, SameSignal DEF Inv, OnTheWire, Behind, TurnedDown, Settled, PastRead,
     PastToken, PastVerify, PastCoverage, Verified
<1> QED
  BY <1>3, <1>4, <1>5

\* Past Signature.verify the signature holds and no element id is doubled.
LEMMA VerifyInv ==
    ASSUME Inv, Verify
    PROVE  Inv'
<1> DEFINE checks == <<"canonicalization", "signatureAlgorithm", "keyType",
                       "signatureValue", "signature", "duplicateId">>
<1>1. /\ pc = "verify" /\ signal \in Signal
      /\ UNCHANGED <<signal, built, exchange, original_message_id>>
  BY DEF Verify, Goto, Inv, OnTheWire
<1>2. Fails(checks) <=> ~SignatureHolds
  BY DEF Fails, SignatureHolds
<1>3. \/ pc' = "coverage" /\ SignatureHolds
      \/ pc' \in {"refused", "escaped"} /\ ~SignatureHolds
  BY <1>2 DEF Verify, Goto
<1>4. CASE pc' \in {"refused", "escaped"} /\ ~SignatureHolds
  BY <1>1, <1>4, ChecksAreTrust, RefuseInv DEF SignatureHolds
<1>5. CASE pc' = "coverage" /\ SignatureHolds
  BY <1>1, <1>5, SameSignal DEF Inv, OnTheWire, Behind, TurnedDown, Settled, PastRead,
     PastToken, PastVerify, PastCoverage, Verified
<1> QED
  BY <1>3, <1>4, <1>5

\* Past the coverage check the signature names eb:Messaging.
LEMMA CoverageInv ==
    ASSUME Inv, VerifyCoverage
    PROVE  Inv'
<1>1. /\ pc = "coverage" /\ signal \in Signal
      /\ UNCHANGED <<signal, built, exchange, original_message_id>>
  BY DEF VerifyCoverage, Goto, Inv, OnTheWire
<1>2. CASE ~CoversMessaging(signal)
  <2>1. pc' = "refused"
    BY <1>2 DEF VerifyCoverage, Goto
  <2> QED
    BY <1>1, <1>2, <2>1, ChecksAreTrust, RefuseInv
<1>3. CASE CoversMessaging(signal)
  <2>1. pc' = "digests"
    BY <1>3 DEF VerifyCoverage, Goto
  <2> QED
    BY <1>1, <1>3, <2>1, SameSignal DEF Inv, OnTheWire, Behind, TurnedDown, Settled, PastRead,
       PastToken, PastVerify, PastCoverage, Verified
<1> QED
  BY <1>2, <1>3

\* Past the loop over the references every one resolves and matches.
LEMMA DigestsInv ==
    ASSUME Inv, VerifyDigests
    PROVE  Inv'
<1>1. /\ pc = "digests" /\ signal \in Signal
      /\ UNCHANGED <<signal, built, exchange, original_message_id>>
  BY DEF VerifyDigests, Goto, Inv, OnTheWire
<1>2. CASE ~DigestsMatch
  <2>1. pc' = "refused"
    BY <1>2 DEF VerifyDigests, Goto, DigestsMatch
  <2> QED
    BY <1>1, <1>2, <2>1, ChecksAreTrust, RefuseInv
<1>3. CASE DigestsMatch
  <2>1. pc' = "verified"
    BY <1>3 DEF VerifyDigests, Goto, DigestsMatch
  <2> QED
    BY <1>1, <1>3, <2>1, SameSignal DEF Inv, OnTheWire, Behind, TurnedDown, Settled, PastRead,
       PastToken, PastVerify, PastCoverage, Verified
<1> QED
  BY <1>2, <1>3

\* receive_signal takes the receipt that is about its own message.
LEMMA ReceiveInv ==
    ASSUME Inv, ReceiveSignal
    PROVE  Inv'
<1>1. /\ pc = "verified" /\ UNCHANGED <<signal, built, exchange, original_message_id>>
      /\ \/ pc' = "taken" /\ original_message_id = exchange.message_id
         \/ pc' = "mismatched" /\ original_message_id # exchange.message_id
  BY DEF ReceiveSignal, Goto
<1> QED
  BY <1>1, SameSignal DEF Inv, OnTheWire, Behind, TurnedDown, Settled, PastRead, PastToken,
     PastVerify, PastCoverage, Verified

\* Until a signal is on the wire there is none this library built.
NothingBuilt == pc = "start" => built = None

\* Every behaviour keeps the invariant.
LEMMA SpecInv == Spec => [](Inv /\ NothingBuilt)
<1>1. Init => NothingBuilt
  BY DEF Init, NothingBuilt
<1>2. Inv /\ NothingBuilt /\ [Next]_vars => Inv'
  <2> SUFFICES ASSUME Inv, NothingBuilt, [Next]_vars
               PROVE  Inv'
    OBVIOUS
  <2>1. ASSUME NEW id \in Text, NEW p \in Party, CreateReceipt(id, p)
        PROVE  Inv'
    BY <2>1, EmitInv DEF CreateReceipt
  <2>2. ASSUME NEW id \in Text \cup {None}, NEW p \in Party, CreateErrorSignal(id, p)
        PROVE  Inv'
    BY <2>2, EmitInv DEF CreateErrorSignal
  <2>3. ASSUME NEW s \in ForeignSignals, Arrive(s)
        PROVE  Inv'
    BY <2>3, ArriveInv DEF NothingBuilt, Arrive
  <2>4. CASE UNCHANGED vars
    BY <2>4, SameSignal DEF vars, Inv, OnTheWire, Behind, TurnedDown, Settled
  <2> QED
    BY <2>1, <2>2, <2>3, <2>4, ReadInv, LocateTokenInv, VerifyInv, CoverageInv, DigestsInv,
       ReceiveInv DEF Next, Finished
<1>3. Inv /\ NothingBuilt /\ [Next]_vars => NothingBuilt'
  <2> SUFFICES ASSUME NothingBuilt, [Next]_vars
               PROVE  NothingBuilt'
    OBVIOUS
  <2>1. CASE UNCHANGED vars
    BY <2>1 DEF NothingBuilt, vars
  <2>2. CASE Next /\ ~UNCHANGED vars
    <3>1. pc' # "start"
      BY <2>2 DEF Next, CreateReceipt, CreateErrorSignal, Emit, Arrive, Read, LocateToken,
         Verify, VerifyCoverage, VerifyDigests, ReceiveSignal, Goto, Finished
    <3> QED
      BY <3>1 DEF NothingBuilt
  <2> QED
    BY <2>1, <2>2
<1> QED
  BY <1>1, <1>2, <1>3, InitInv, PTL DEF Spec

\* Whether parse returns a receipt is told by its signature alone.
LEMMA DoneIsTrust ==
    ASSUME Inv, Done
    PROVE  pc \in {"taken", "mismatched"} <=> Verifiable
<1>1. signal \in Signal
  BY DEF Inv, OnTheWire, Done
<1>2. CASE pc \in {"taken", "mismatched"}
  BY <1>1, <1>2, ChecksAreTrust DEF Inv, Behind, PastRead, PastToken, PastVerify,
     PastCoverage, Verified
<1>3. CASE pc \in {"refused", "escaped"}
  BY <1>3 DEF Inv, TurnedDown
<1> QED
  BY <1>2, <1>3 DEF Done

-----------------------------------------------------------------------------
(* Theorems *)

\* parse returns a receipt exactly for a signal whose signature, the expected
\* party's and sound, names an eb:Messaging, in whatever combination the faults
\* of a signal come; that is the one read, unless the signature names only
\* another one, elsewhere in the document.
THEOREM VerifiedIsTrustworthyHolds == Spec => []VerifiedIsTrustworthy
<1>1. Inv => VerifiedIsTrustworthy
  BY DoneIsTrust DEF VerifiedIsTrustworthy, Verifiable
<1> QED
  BY <1>1, SpecInv, PTL

\* An answer for_message builds is trustworthy to the exchange whose remote
\* party signed it, when it can be read at all.
LEMMA BuiltIsTrustworthy ==
    ASSUME NEW kind \in {"receipt", "error"}, NEW id \in Text, NEW p \in Party,
           signal = SoapEnvelope(kind, id, p)
    PROVE  Verifiable <=> Strip[id] # None /\ p = expected_signer
<1>1. /\ signal.faults = {} /\ signal.kind = kind /\ signal.ref_to_message_id = id
      /\ signal.certificate = p /\ signal.refs = SignedReferences
  BY DEF SoapEnvelope
<1>2. /\ \E ref \in SignedReferences : ref.target = "messaging"
      /\ \A ref \in SignedReferences : ref.target # "nothing" /\ ref.digest = "match"
  <2>1. [target |-> "messaging", digest |-> "match"] \in SignedReferences
    BY DEF SignedReferences
  <2>2. \E ref \in SignedReferences : ref.target = "messaging"
    BY <2>1
  <2>3. \A ref \in SignedReferences : ref.target # "nothing" /\ ref.digest = "match"
    BY DEF SignedReferences
  <2> QED
    BY <2>2, <2>3
<1> QED
  BY <1>1, <1>2, SignalAssumption DEF Verifiable, Trustworthy, SignedElsewhere, SoundlySigned, Names

\* for_message's answer to an exchange settles it exactly when the intended
\* access point signed it and the message id is not padded.
THEOREM AnswerSettlesItsExchangeHolds == Spec => []AnswerSettlesItsExchange
<1>1. Inv => AnswerSettlesItsExchange
  <2> SUFFICES ASSUME Inv, Done, built # None
               PROVE  /\ built.message_id = exchange.message_id =>
                            (pc = "taken" <=> /\ built.signer = exchange.remote_party
                                              /\ Strip[exchange.message_id] = exchange.message_id)
                      /\ BlankReference(signal) => pc = "refused"
    BY DEF AnswerSettlesItsExchange
  <2>1. PICK kind \in {"receipt", "error"}, id \in Text \cup {None}, p \in Party :
            /\ signal = SoapEnvelope(kind, id, p)
            /\ built = [message_id |-> id, signer |-> p]
    BY DEF Inv, OnTheWire, Provenance, Done
  <2>2. signal \in Signal /\ (pc \in {"taken", "mismatched"} <=> Verifiable)
    BY DoneIsTrust DEF Inv, OnTheWire, Done
  <2>3. signal.faults = {} /\ signal.ref_to_message_id = id
    BY <2>1 DEF SoapEnvelope
  <2>4. ASSUME id = exchange.message_id
        PROVE  pc = "taken" <=> p = exchange.remote_party /\ Strip[id] = id
    <3>1. id \in Text /\ Strip[id] # None /\ id # None
      BY <2>4, SignalAssumption DEF Inv, SendingExchange
    <3>2. Verifiable <=> p = exchange.remote_party
      BY <2>1, <3>1, BuiltIsTrustworthy DEF expected_signer
    <3>3. pc \in {"taken", "mismatched"} => original_message_id = Strip[id]
      BY <2>3, <3>1 DEF Inv, Behind, StrippedReference, PastRead, PastToken, PastVerify,
         PastCoverage, Verified
    <3>4. pc = "taken" => Strip[id] = id
      BY <2>4, <3>3 DEF Inv, Settled
    <3>5. pc = "mismatched" => Strip[id] # id
      BY <2>4, <3>3 DEF Inv, Settled
    <3> QED
      BY <2>2, <3>2, <3>4, <3>5
  <2>5. ASSUME BlankReference(signal)
        PROVE  pc = "refused"
    <3>1. ~Verifiable
      BY <2>5 DEF BlankReference, Verifiable, Trustworthy, SignedElsewhere, SoundlySigned
    <3>2. pc # "escaped"
      BY <2>3 DEF Inv, TurnedDown
    <3> QED
      BY <2>2, <3>1, <3>2 DEF Done
  <2> QED
    BY <2>1, <2>4, <2>5
<1> QED
  BY <1>1, SpecInv, PTL

\* correlate_signal's peek and receive_signal agree on the exchange wherever
\* the reference of a trustworthy signal is not padded, and a padded one is
\* refused by the very exchange it correlates with.
THEOREM CorrelatedIsTakenHolds == Spec => []CorrelatedIsTaken
<1>1. Inv => CorrelatedIsTaken
  <2> SUFFICES ASSUME Inv, Done, Trustworthy(signal, expected_signer)
               PROVE  /\ Peeked(signal) \in Id =>
                            (pc = "taken" <=> Peeked(signal) = exchange.message_id)
                      /\ Peeked(signal) \notin Id /\ Peeked(signal) = exchange.message_id
                            => pc = "mismatched"
    BY DEF CorrelatedIsTaken
  <2>1. Peeked(signal) = signal.ref_to_message_id
    BY DEF Peeked, Trustworthy, SoundlySigned
  <2>2. pc \in {"taken", "mismatched"}
    BY DoneIsTrust DEF Verifiable
  <2>3. original_message_id = StrippedReference
    BY <2>2 DEF Inv, Behind, PastRead, PastToken, PastVerify, PastCoverage, Verified
  <2>4. ASSUME Peeked(signal) \in Id
        PROVE  pc = "taken" <=> Peeked(signal) = exchange.message_id
    <3>1. original_message_id = Peeked(signal)
      BY <2>1, <2>3, <2>4, SignalAssumption DEF StrippedReference
    <3> QED
      BY <2>2, <3>1 DEF Inv, Settled
  <2>5. ASSUME Peeked(signal) \notin Id, Peeked(signal) = exchange.message_id
        PROVE  pc = "mismatched"
    <3>1. exchange.message_id \in Text /\ Strip[exchange.message_id] # None
      BY DEF Inv, SendingExchange
    <3>2. original_message_id \in Id
      BY <2>1, <2>3, <2>5, <3>1, SignalAssumption DEF StrippedReference
    <3> QED
      BY <2>2, <2>5, <3>2 DEF Inv, Settled
  <2> QED
    BY <2>4, <2>5
<1> QED
  BY <1>1, SpecInv, PTL
=============================================================================
