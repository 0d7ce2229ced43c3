---------------------------- MODULE AS4Exchange ----------------------------
(***************************************************************************)
(* The exchange lifecycle of as4/core/exchange.py over an unreliable       *)
(* transport, with the signals of as4/core/receipt.py and the JSON         *)
(* snapshots from which either side may be restarted.                      *)
(*                                                                         *)
(* A sending exchange owns one fresh AS4References, so its message id is   *)
(* the same for every build: the model uses the exchange itself as the id. *)
(* Each build signs a new eb:Messaging (its timestamp) and a new payload   *)
(* (the SBDH creation time), and the same empty SOAP Body.                 *)
(*                                                                         *)
(* Transport.  Whatever was built can reach any receiving exchange, any    *)
(* number of times, in any order, damaged, or never; whatever signal was   *)
(* emitted can reach any sending exchange likewise.  Envelopes in which    *)
(* the signed eb:Messaging was moved aside for another one, which coverage *)
(* by tag lets pass, are not among them: see MessageParse and SignalParse. *)
(*                                                                         *)
(* The verbs of an exchange have no state guard, so the caller may call    *)
(* them in any order.  A verb that raises without an assignment is a       *)
(* stuttering step.                                                        *)
(***************************************************************************)
EXTENDS Naturals

CONSTANTS
    Sending,      \* AS4SendingExchange objects, each its own message id
    Receiving,    \* AS4ReceivingExchange objects
    Party,        \* access points, each with one certificate
    Local,        \* local_party of every exchange
    Remote,       \* remote_party of every sending exchange
    ForeignBuilt, \* exchanges whose messages another product built, with
                  \* InclusiveNamespaces inside their ds:Transforms
    SignOptional, \* receiving exchanges whose caller may pass receive a
                  \* policy without sign_required
    Durable,      \* exchanges whose caller keeps snapshots of them
    Requirable,   \* the sets of parts a caller may list as required
    MaxBuilds,    \* bound: builds per sending exchange
    None          \* Python's None and the empty message id

ASSUME ConstantsAssumption ==
    /\ Local \in [Sending \cup Receiving -> Party]
    /\ Remote \in [Sending -> Party]
    /\ ForeignBuilt \subseteq Sending
    /\ SignOptional \subseteq Receiving
    /\ Durable \subseteq Sending \cup Receiving
    /\ MaxBuilds \in Nat
    /\ None \notin Sending \cup Party
    /\ Sending \cap Receiving = {}

VARIABLES
    sending,   \* [Sending -> SendingExchange]
    receiving, \* [Receiving -> ReceivingExchange]
    stored,    \* the JSON snapshot the caller keeps of each exchange
    signals,   \* every signal build_signal has put on the wire
    builds,    \* how many bodies build has returned, per sending exchange
    accepted,  \* history: <<party, exchange, signed references>> parsed
               \* without error; no references when it was unsigned
    refused    \* history: <<party, exchange>> answered with an error that
               \* names it

vars == <<sending, receiving, stored, signals, builds, accepted, refused>>

-----------------------------------------------------------------------------
(* Data *)

Part == {"messaging", "body", "payload"}

Reference == [part : Part, of : Sending, build : 0..MaxBuilds]

ASSUME ReferencesAssumption ==
    /\ Requirable \subseteq SUBSET Part
    /\ \A references \in SUBSET Reference : references # None

\* The ds:References of build b: the Body is empty and keeps its id, so its
\* reference is the same in every build of one exchange.
References(x, b) ==
    {[part |-> "messaging", of |-> x, build |-> b],
     [part |-> "body", of |-> x, build |-> 0],
     [part |-> "payload", of |-> x, build |-> b]}

\* A signal on the wire.  "intact" is false once the bytes no longer match
\* the digest its signature covers.
Signal == [kind : {"receipt", "error"},
           original_message_id : Sending \cup {None},
           acknowledged : SUBSET Reference,
           signer : Party,
           intact : BOOLEAN]

ExchangeState == {"created", "built", "sent", "received",
                  "acknowledged", "rejected", "failed"}

SendingExchange == [state : ExchangeState,
                    signed_references : SUBSET Reference,
                    required_references : (SUBSET Reference) \cup {None},
                    receipt : Signal \cup {None}]

ReceivingExchange == [state : ExchangeState,
                      message_id : Sending \cup {None},
                      signed_references : SUBSET Reference,
                      remote_party : Party \cup {None},
                      receipt : Signal \cup {None}]

-----------------------------------------------------------------------------
(* Receipts *)

\* Mutant: the embedded certificate is not compared with the expected one.
SignalVerifiesForAnyone(s, expected_signer) ==
    /\ s.kind = "receipt" => s.original_message_id # None
    /\ s.intact

\* AS4Receipt.parse with verify_signature: the signal is readable, names a
\* message unless it is an error, and the expected signer's signature covers
\* its eb:Messaging.
SignalVerifies(s, expected_signer) ==
    /\ s.kind = "receipt" => s.original_message_id # None
    /\ s.signer = expected_signer
    /\ s.intact

\* Mutant: a receipt may acknowledge what was never sent.
ProvesDeliveryOfMore(s, sent_references, required_references) ==
    LET required == IF required_references = None THEN sent_references
                                                  ELSE required_references
    IN  required_references # {} /\ required \subseteq s.acknowledged

\* AS4Receipt.verify_non_repudiation
ProvesDelivery(s, sent_references, required_references) ==
    LET required == IF required_references = None THEN sent_references
                                                  ELSE required_references
    IN  /\ required_references # {}
        /\ s.acknowledged \subseteq sent_references
        /\ required \subseteq s.acknowledged

\* Mutant: the signal names its own message in place of the one it answers.
ForMessageNamingItself(message, local_party) ==
    [kind |-> IF message.verdict = "refused" THEN "error" ELSE "receipt",
     original_message_id |-> local_party,
     acknowledged |-> message.signed_references,
     signer |-> local_party,
     intact |-> TRUE]

\* Mutant: an error signal never says which message it is about.
ForMessageNamingNothing(message, local_party) ==
    [kind |-> IF message.verdict = "refused" THEN "error" ELSE "receipt",
     original_message_id |-> IF message.verdict = "refused" THEN None ELSE message.message_id,
     acknowledged |-> IF message.verdict = "refused" THEN {}
                                                     ELSE message.signed_references,
     signer |-> local_party,
     intact |-> TRUE]

\* AS4Receipt.for_message: a signed error signal for a refused message, a
\* non-repudiation receipt repeating the message's references otherwise.
ForMessage(message, local_party) ==
    [kind |-> IF message.verdict = "refused" THEN "error" ELSE "receipt",
     original_message_id |-> message.message_id,
     acknowledged |-> IF message.verdict = "refused" THEN {}
                                                     ELSE message.signed_references,
     signer |-> local_party,
     intact |-> TRUE]

-----------------------------------------------------------------------------
(* What AS4Profile.parse_message may make of a copy of build b of x that  *)
(* reaches exchange r; MessageParse models how it comes to its verdict.   *)
(* A field is recorded only once the step that yields it has succeeded.   *)
(* A signed copy can be accepted only by the party the session key was    *)
(* encrypted for.  One stripped of its signature may have been rewritten  *)
(* for anyone; it is accepted where the policy does not require a         *)
(* signature, with no references and no signer on record.                 *)

\* The verdict is "refused" when parse_error is set.
ParsedAs(message_id, references, signer, verdict) ==
    [message_id |-> message_id, signed_references |-> references,
     signer_certificate |-> signer, verdict |-> verdict]

Parsed(r, x, b) ==
    {ParsedAs(None, {}, None, "refused"),              \* no readable id
     ParsedAs(x, {}, None, "refused"),                 \* no readable envelope, or unsigned
     ParsedAs(x, References(x, b), None, "refused"),   \* signature not verified
     ParsedAs(x, References(x, b), Local[x], "refused")} \* refused later
    \cup (IF Local[r] = Remote[x]
          THEN {ParsedAs(x, References(x, b), Local[x], "accepted")} ELSE {})
    \cup (IF r \in SignOptional
          THEN {ParsedAs(x, {}, None, "accepted")} ELSE {})

\* Mutant: a remote party once known is kept.
RemotePartyOnce(message, current) ==
    IF current # None THEN current ELSE message.signer_certificate

\* AS4Message.get_remote_party as receive_message uses it: a message whose
\* signature was not verified, or that has none, leaves the party the exchange
\* already had.
RemoteParty(message, current) ==
    IF message.signer_certificate = None THEN current
                                         ELSE message.signer_certificate

-----------------------------------------------------------------------------
(* Serialisation *)

CarriesWildcards(s) == \E ref \in s.acknowledged : ref.of \in ForeignBuilt

\* Mutant: no receipt survives serialisation byte for byte.
ReserialisedAnew(receipt) ==
    IF receipt = None THEN None ELSE [receipt EXCEPT !.intact = FALSE]

\* model_dump_json excludes etree_element, and with it the wildcard content
\* that dump_to_xml had copied into the references of a receipt: a restored
\* receipt is written out without it, under the signature made over it.
Reserialised(receipt) ==
    IF receipt = None THEN None
    ELSE [receipt EXCEPT !.intact = @ /\ ~CarriesWildcards(receipt)]

RestoredFrom(snapshot) ==
    [snapshot EXCEPT !.receipt = Reserialised(snapshot.receipt)]

-----------------------------------------------------------------------------

Init ==
    /\ sending = [x \in Sending |->
                    [state |-> "created", signed_references |-> {},
                     required_references |-> None, receipt |-> None]]
    /\ receiving = [r \in Receiving |->
                      [state |-> "created", message_id |-> None,
                       signed_references |-> {}, remote_party |-> None,
                       receipt |-> None]]
    /\ stored = [e \in Sending \cup Receiving |-> None]
    /\ signals = {}
    /\ builds = [x \in Sending |-> 0]
    /\ accepted = {}
    /\ refused = {}

\* AS4SendingExchange.build.  The receipt and the required references of an
\* earlier build stay.
Build(x) ==
    /\ builds[x] < MaxBuilds
    /\ builds' = [builds EXCEPT ![x] = @ + 1]
    /\ sending' = [sending EXCEPT
                     ![x].state = "built",
                     ![x].signed_references = References(x, builds[x] + 1)]
    /\ UNCHANGED <<receiving, stored, signals, accepted, refused>>

\* The caller assigns required_references, picked from what was signed.
RequireReferences(x, parts) ==
    /\ sending' = [sending EXCEPT ![x].required_references =
                     {ref \in sending[x].signed_references : ref.part \in parts}]
    /\ UNCHANGED <<receiving, stored, signals, builds, accepted, refused>>

\* AS4SendingExchange.mark_sent, in whatever state the exchange is.
MarkSent(x) ==
    /\ sending' = [sending EXCEPT ![x].state = "sent"]
    /\ UNCHANGED <<receiving, stored, signals, builds, accepted, refused>>

\* Mutant: an error signal is taken for a receipt that proves nothing.
SettledStateWithoutErrors(x, s) ==
    IF s.kind = "receipt" /\ ProvesDelivery(s, sending[x].signed_references,
                                            sending[x].required_references)
    THEN "acknowledged" ELSE "failed"

SettledState(x, s) ==
    IF s.kind = "error" THEN "rejected"
    ELSE IF ProvesDelivery(s, sending[x].signed_references, sending[x].required_references)
         THEN "acknowledged" ELSE "failed"

\* AS4SendingExchange.receive_signal.  A signal that does not verify or is
\* about another message raises before anything is assigned; one that proves
\* nothing raises after.
ReceiveSignal(x, s) ==
    /\ SignalVerifies(s, Remote[x])
    /\ s.original_message_id = x
    /\ sending' = [sending EXCEPT ![x].receipt = s,
                                  ![x].state = SettledState(x, s)]
    /\ UNCHANGED <<receiving, stored, signals, builds, accepted, refused>>

\* AS4ReceivingExchange.receive_message.  Nothing stops one exchange from
\* being handed a second message.
ReceiveMessage(r, message) ==
    receiving' = [receiving EXCEPT ![r] =
        [state |-> IF message.verdict = "refused" THEN "rejected" ELSE "received",
         message_id |-> message.message_id,
         signed_references |-> message.signed_references,
         remote_party |-> RemoteParty(message, receiving[r].remote_party),
         receipt |-> ForMessage(message, Local[r])]]

\* AS4ReceivingExchange.receive of a copy of build b of x.
Receive(r, x, b) ==
    /\ b \in 1..builds[x]
    /\ \E message \in Parsed(r, x, b) :
         /\ ReceiveMessage(r, message)
         /\ IF message.verdict = "refused"
            THEN /\ refused' = refused \cup
                              {<<Local[r], id>> : id \in {message.message_id} \ {None}}
                 /\ UNCHANGED accepted
            ELSE /\ accepted' = accepted \cup
                              {<<Local[r], x, message.signed_references>>}
                 /\ UNCHANGED refused
    /\ UNCHANGED <<sending, stored, signals, builds>>

\* AS4ReceivingExchange.build_signal
BuildSignal(r) ==
    /\ receiving[r].receipt # None
    /\ signals' = signals \cup {receiving[r].receipt}
    /\ UNCHANGED <<sending, receiving, stored, builds, accepted, refused>>

\* The caller keeps model_dump_json() of an exchange.
Store(e) ==
    /\ stored' = [stored EXCEPT ![e] = IF e \in Sending THEN sending[e]
                                                        ELSE receiving[e]]
    /\ UNCHANGED <<sending, receiving, signals, builds, accepted, refused>>

\* A restart: AS4Exchange.restore of the snapshot, however old, under the
\* party it was stored under (another party is refused).
RestoreSending(x) ==
    /\ stored[x] # None
    /\ sending' = [sending EXCEPT ![x] = RestoredFrom(stored[x])]
    /\ UNCHANGED <<receiving, stored, signals, builds, accepted, refused>>

RestoreReceiving(r) ==
    /\ stored[r] # None
    /\ receiving' = [receiving EXCEPT ![r] = RestoredFrom(stored[r])]
    /\ UNCHANGED <<sending, stored, signals, builds, accepted, refused>>

Next ==
    \/ \E x \in Sending :
         \/ Build(x)
         \/ \E parts \in Requirable : RequireReferences(x, parts)
         \/ MarkSent(x)
         \/ \E s \in signals : ReceiveSignal(x, s)
         \/ RestoreSending(x)
         \/ \E r \in Receiving, b \in 1..MaxBuilds : Receive(r, x, b)
    \/ \E r \in Receiving : BuildSignal(r) \/ RestoreReceiving(r)
    \/ \E e \in Durable : Store(e)

Spec == Init /\ [][Next]_vars

-----------------------------------------------------------------------------
(* Properties *)

Snapshot(e) == IF e \in Sending THEN SendingExchange ELSE ReceivingExchange

\* Every variable has the shape the pydantic models declare.
TypeOK ==
    /\ sending \in [Sending -> SendingExchange]
    /\ receiving \in [Receiving -> ReceivingExchange]
    /\ stored \in [Sending \cup Receiving ->
                     SendingExchange \cup ReceivingExchange \cup {None}]
    /\ \A e \in Sending \cup Receiving : stored[e] \in Snapshot(e) \cup {None}
    /\ signals \subseteq Signal
    /\ builds \in [Sending -> 0..MaxBuilds]
    /\ accepted \subseteq Party \X Sending \X (SUBSET Reference)
    /\ refused \subseteq Party \X Sending

\* A party at which some caller lets unsigned messages through.
AcceptsUnsigned(p) == \E r \in SignOptional : Local[r] = p

\* The intended access point of x accepted a message under its id with these
\* references: those of one build, or none where it takes unsigned messages.
Delivered(x, references) ==
    /\ <<Remote[x], x, references>> \in accepted
    /\ \/ \E b \in 1..builds[x] : references = References(x, b)
       \/ references = {} /\ AcceptsUnsigned(Remote[x])

\* Non-repudiation of receipt: an acknowledged exchange (receive_signal has
\* verified a receipt) means that the intended access point accepted exactly
\* what this exchange has on record, whatever was rebuilt, duplicated,
\* reordered, only partly required, or restored from an old snapshot.  What is
\* on record is one build, except that an exchange back from a snapshot taken
\* before its first build has nothing on record: it is acknowledged by the
\* empty receipt for an unsigned copy, and only by that one.
AcknowledgedMeansDelivered ==
    \A x \in Sending : sending[x].state = "acknowledged" =>
        Delivered(x, sending[x].signed_references)

\* A rejected exchange (receive_signal took an error signal) means that the
\* intended access point refused a message under this exchange's id: an error
\* of another access point, or about no message, never rejects it.
RejectedMeansRefused ==
    \A x \in Sending : sending[x].state = "rejected" => <<Remote[x], x>> \in refused

\* A failed exchange (verify_non_repudiation raised) was delivered all the
\* same: its receipt is genuine, and what it acknowledges is out of step with
\* the build on record (an older or newer build, or an unsigned copy) or with
\* the references the caller requires.
FailedMeansOutOfStep ==
    \A x \in Sending : sending[x].state = "failed" =>
        LET receipt == sending[x].receipt
        IN  /\ receipt.kind = "receipt"
            /\ receipt.original_message_id = x
            /\ receipt.signer = Remote[x]
            /\ Delivered(x, receipt.acknowledged)
            /\ \/ sending[x].signed_references # receipt.acknowledged
               \/ sending[x].required_references # None

\* A receiving exchange in state received that holds signed references names
\* the access point that signed the message it holds as its remote party, also
\* when the exchange was used for another sender's message before or resumed
\* from a snapshot.  One that holds none took an unsigned message, under a
\* policy that lets it: its remote party, if any, is that of an earlier
\* message and says nothing of this one.
AcceptedNamesItsSender ==
    \A r \in Receiving : receiving[r].state = "received" =>
        /\ receiving[r].message_id \in Sending
        /\ IF receiving[r].signed_references = {}
           THEN r \in SignOptional
           ELSE receiving[r].remote_party = Local[receiving[r].message_id]

\* Every signal build_signal emits verifies, also when the exchange was
\* restored in between: "a resumed receiving exchange still signs the signal
\* it owes" (tests/test_exchange/test_exchange.py:434).
SignalsStayVerifiable == \A s \in signals : s.intact

=============================================================================
