# A TLA+ verification of `as4`

`as4` is a Python library for AS4 (ebMS 3.0) One-Way/Push messaging with a
Peppol profile. One access point builds, signs, encrypts and posts a user
message; the other verifies, decrypts and checks it and answers with a signed
receipt or error signal, which the first verifies as proof of delivery. The
library has no network code, no persistence and, but for one lock, no
concurrency of its own: the calling application moves the bytes, keeps JSON
snapshots and decides when to call what. What makes it hard is what that
application and the far side may do between two calls.

Paths below are relative to the repository (`as4/...`) and to this directory.

## 1. Inventory

| Component | State it keeps | Operations | Correct when |
|---|---|---|---|
| Exchange lifecycle (`as4/core/exchange.py`) | message id, references signed and required, last signal, remote party, state | `build`, `mark_sent`, `receive_signal`; `receive`, `receive_message`, `build_signal`; `restore` | a state says something true about the far side, whatever is duplicated, reordered, lost, rebuilt or restored |
| Signals (`as4/core/receipt.py`) | envelope, the message id answered | `for_message`, `get_request_data`, `peek_original_message_id`, `parse`, `verify_non_repudiation` | exactly the expected party's untampered signals are trusted; an answer settles the exchange it is for |
| Message parsing (`as4/core/message.py`, `profiles.py`, `context.py`) | the `fields` recorded so far, `parse_error` | `parse_message`, `pre_validate`, `process` and its steps | the verdict does not depend on the order of checks; nothing unverified is attributed or acknowledged, and no declared payload is delivered unverified |
| Peppol parsing (`as4/profiles/peppol/message.py`) | participants | `verify_party_identifiers`, `process_sbdh`, `verify_participants_agree` | the acceptor is asked only about verified facts |
| Peppol building (same file, `as4/core/references.py`) | the attachment map of `AS4References` | `build_message` and its helpers | what is built is accepted by the addressee, also after a failed build |
| Trust (`as4/core/trust.py`, `profiles/peppol/profile.py`, `pki.py`) | none | `certificate_chain`, `path_to_anchor`, `certificate_names_the_sender`, `pinned_certificates`; the two shipped policies | sound; complete where issuers are unique, loops included; production, test and publishers kept apart |
| SBDH schema (`as4/resources/schemas/vendor/sbdh`) | a lock, lxml's error log | `validation_error` | a thread gets the error of its own header, and the lock is free again however a call ends |
| XML models, serialisation (`as4/models`, `as4/core/serialisation.py`) | model trees with the element they were read from | `model_validate_etree`, `dump_to_xml`, JSON | a restored exchange is as good as the one stored; what is sent is what was signed; the far side can read it |
| Error catalogue (`as4/errors.py`, `profiles/peppol/exceptions.py`) | detail | constructors, `from_stored`, `dump_parse_error`, `load_parse_error` | the sender learns the code and detail of the refusal |
| MIME handler (`as4/utils/mime_handler.py`) | none | `build_request_data`, `parse`, `get_content_id` | the parts the sender put in are the ones found |
| Document types (`profiles/peppol/document_identifier.py`) | none | `from_identifier_value`, `root_element_name`, `identifier_value` | the type declared is the one asked for |
| Cipher, XML parser, examples | none | conversions | outside this project, see section 7 |

Interaction: an exchange calls its profile; the profile calls the message or
receipt class; `parse` calls back into the caller's signer resolver and
`accept_participant`. Messages and signals between two exchanges are the only
link between processes. Request threads share one schema object.

The hard behaviours, each at its line, are the `hazards` of `PROJECT.json`.

## 2. Modules

| Module | Models |
|---|---|
| `AS4Exchange` | any number of sending and receiving exchanges, the transport, snapshots and restarts |
| `Delivery` | the abstract promise: a sender's status is a belief justified by what the receiver did |
| `ExchangeRefinement` | the refinement mapping from `AS4Exchange` to `Delivery` |
| `ExchangeLiveness` | progress when callers use the exchanges as the examples and tests do |
| `SignalParse` | building, peeking at and verifying a signal, check by check, and whether the exchange it is handed to takes it |
| `EbmsSchema` | the element classes of a signal as a table |
| `XmlModels` | `BaseElement`: reading, dumping and storing an element of that table |
| `ErrorCatalogue` | error classes, codes and details, and how they are stored |
| `SignalBinding` | composes the three: from the references and the error of a message to what the sender of it reads |
| `MessageParse` | `parse_message` and `AS4Message.process`, check by check |
| `PeppolParse` | extends `MessageParse` by the SBDH checks; the pipeline's properties |
| `MimePackage` | trees of MIME parts of any depth, the one built and the parts found in one |
| `DocumentIdentifier` | document type identifiers taken apart and put together |
| `PeppolBuild` | composes `PeppolParse`, `MimePackage` and `DocumentIdentifier`: what is built, packed, repacked, unpacked and parsed |
| `CertificateChain` | both resolvers: the look-up of pins, the climb and the checks on the path |
| `PeppolTrust` | the Peppol PKI and the two shipped policies on top of it |
| `SBDHSchema` | threads in `validation_error` |
| `ExchangeProofs` | theorems about the exchanges, and the refinement |
| `ParseProofs` | theorems about `PeppolParse`: the signer, the verdict and the contents |
| `SequenceFacts` | lemmas about recursion on a rank and about `FlattenSeq` |
| `BuildProofs` | theorems about `MimePackage` and about `PeppolBuild` |
| `BindingProofs` | theorems about `SignalBinding` |
| `SignalProofs`, `ChainProofs`, `SchemaProofs` | theorems about `SignalParse`, `PeppolTrust` (with `CertificateChain`) and `SBDHSchema` |
| `MC*` | the finite instances |

Definitions named as mutants (`Mutant:` in their comment) are variants of
the code with a plausible bug, used to confirm that each property can fail;
no specification uses them.

### How state and actions correspond to the code

`AS4Exchange`. A sending exchange owns one `AS4References`, so all its builds
carry one message id: the exchange stands for the id. What the digests of
build `b` of exchange `x` tell apart is a set of three references, of which
the one to the empty SOAP Body is the same in every build. `parse_message` is
the set `Parsed`: refused before the id was read, before the envelope, before
the signer was recorded, or after; or accepted, by the party the session key
is for. An exchange in `SignOptional` is one whose caller passes a policy without
`sign_required`: there a copy stripped of its signature is accepted as well, with
no references and no signer on record, and its receipt acknowledges nothing.
`MessageParse` shows how parse gets there. A verb is one action; a verb
that raises before it assigns anything is no step; one that raises after
(`receive_signal` for an unproven receipt) is the whole assignment. `Store`
and `Restore...` are the caller's `model_dump_json` and `restore`, at any time
and of any age. The transport has no state beyond `builds` and `signals`:
whatever was ever sent may arrive anywhere, again, late or never. `accepted`
and `refused` are history variables. Signals come from exchanges of this
library; what a foreign or damaged signal does is `SignalParse`'s subject, and
so is an envelope with a second `eb:Messaging`, see below.

`ExchangeLiveness` adds what a request is to HTTP: each receiving exchange serves
one request, `requester` is the exchange that made it, and `response` follows the
one answer from `owed` to `sent` to `handed over` or `lost`.

`MessageParse`, `PeppolParse`. `pc` names the next check, `fields` what
`process` has recorded. A message is a record of what the checks tell apart.
Checks without structure are names in `msg.faults`; references, parts,
EncryptedData, attachments, gzip layers and sizes are data, because later
checks depend on what earlier ones made of them. An exception that `parse`
catches ends in `returned` with a `parse_error`; one it does not catch ends in
`raised`. A reference names the `eb:Messaging` or the Body that the models read,
or another element of the same tag (`messagingElsewhere`, `bodyElsewhere`), which
`COVERAGE_BY_TAG` does not tell apart. A message may declare no part at all: an
empty `eb:PayloadInfo` is valid, `min_length` notwithstanding, since pydantic does
not check a default.

`SignalParse` has the same shape. Ids are texts that may be padded with white
space or be nothing else: the receiver echoes the text as it stands, the models
strip it, and `receive_signal` compares the results. `AS4Exchange` leaves this
out: its ids are never padded.

`SignalBinding` is about representation. An element is a record of tag,
attributes, text and children, a model what `element_to_dict` and pydantic make
of it; a text is a sequence of words with or without white space around them.
`Dump` drops empty attributes and adds wildcard content, `Stored` forgets the
element a model was read from. The classes nest seven deep, so each of the four
operations is written level by level: `DumpBy` says what is done to one model,
given the operation on the models in its fields, and `Dump` is `DumpBy` of
`Dump5`, down to the classes without fields. The timestamp is the instant `now`. Namespaces
and the enclosing envelope are left out: the same code dumps them.

`CertificateChain` takes "who signed whom, who may issue, who is expired or
revoked" as a fact of the world and models the climb; so is which pairs
`verify_directly_issued_by` cannot check (`unsupported`): it raises what `issuer_of`
does not catch, and the climb ends in `raised`. `SBDHSchema` splits
`validation_error` at the points where another thread can come in; lxml's
`validate` clears and fills the log in one step, or raises with the log in any
state. Threads call without end.

`PeppolBuild` composes the builder with the parser. Between the two the message
is in a package: the one `build_request_data` makes, or any other arrangement of
the parts, with foreign parts among them. `Package` is the set of MIME parts
considered, with all the parts inside them, and `Nesting` says how deep each
is: recursion over parts is a function on `Package`. `Unbracket` is what `strip("<>")`
makes of an id. Document types are sequences of words and the separators `##`
and `::`, so that separators do not overlap (`###`). A build that cannot
identify its document type raises before anything is recorded; one that cannot
sign leaves its entry in the attachment map. `sbdh` keeps what the header inside
the payload declares. Build checks none of its values: `order.empty` names those
the caller left empty, and `Textless` what the receiver's models make of the
elements without text, the Standard and Type of `::##c::1` among them. Words have no
white space at their ends.

## 3. Runs

All bounds are named in the `.cfg` files. Every passing run ends within a
minute or two with two workers.

| Run | Instance | Shows |
|---|---|---|
| `exchange_parties` | two senders, four parties, one reused and restartable receiving exchange that may take unsigned messages | rejections come from the intended party, an accepted signed message names its sender, signals survive a restart |
| `exchange_refinement` | one message, two builds, unsigned copies, sender restartable, caller may require the Body alone | `AS4Exchange` implements `Delivery`; an acknowledgement is of exactly the references on record; a failure is a genuine receipt out of step |
| `exchange_liveness` | one message, two builds, two requests to the addressee, the second taking unsigned copies, and one to another access point | a request processed by the addressee settles the exchange with its answer, unless that is lost |
| `parse_faults` | every message with up to two faults, signed/encrypted or not, and odd packagings; ten policies | attribution, acceptor, order-free verdict |
| `parse_references` | two attachments, every small set of references, to an `eb:Messaging` elsewhere too, of parts, none included, of ciphers and layers; three policies | delivered and acknowledged contents are verified |
| `certificate_chain` | every signing graph over leaf, two intermediates, anchor at depth 2..4, some pairs of them beyond checking; pinned certificates; a leaf and a further CA under every CA of the Peppol PKI, under both shipped policies | soundness, completeness for unique issuers, environments kept apart |
| `sbdh_schema` | three threads that call without end, `validate` may raise | own error; while somebody waits somebody gets through |
| `peppol_build` | fresh, filled, bracketed and overfull attachment maps, payload at and over the limit, every set of five facts about the receiver; the default policy and two that ask for nothing; packages of up to three parts nested once; every document type of up to five tokens; every value the caller may leave empty | round trip; the first part of either kind in document order is taken; the type declared is the one asked for |
| `signal_parse` | signals of this library, every pair of faults, every pair of references; plain, padded and blank ids | exactly the signals soundly signed over an `eb:Messaging` verify; exactly the unpadded answers settle |
| `signal_binding` | one reference of every small shape or two of a few, every error class with and without argument, restarts between any two steps | what is sent is what was signed, except for restored wildcard content; references and errors survive; two signals are unreadable |
| `exchange_foreign`, `parse_raises` | see section 4 | counterexamples |

Why the bounds are enough. A stale receipt needs two builds and no more: the
third build is to the second as the second to the first. A wrong party needs a
second sender and a second receiver. Two faults are enough to tell any two
checks' order; two attachments to tell a declared one from another; a loop
among intermediates needs two; a search that stops at the wrong part needs two
of a kind and one level of nesting; a greedy split differs from a short one
with two separators of a kind; a reference confused with another needs two; a
log read by another thread needs two threads,
and the third waits for the lock. The theorems of section 5 remove the bounds
for every safety property.

Deadlock is checked where it means something: finished procedures stutter by an
explicit `Finished` step, and exchanges can always be marked sent. Two runs say
`CHECK_DEADLOCK FALSE`: `exchange_liveness` stops when every request was answered
and nobody builds again; in `sbdh_schema` nobody has to call, and a lock that is
never released is what `WaitingIsServed` is about: it fails when all threads
wait, and already when one of them waits for good while the others do not call.

### Fairness

`SBDHSchema` assumes that a thread which can go on does, and nothing of the lock:
`threading.Lock` is not fair, so one waiting thread may be overtaken for ever,
but not all of them by nobody. `ExchangeLiveness` assumes that a received request
is answered (`build_signal`) and that the client, unless the connection is lost,
hands the response it got to `receive_signal`, once. Nothing forces anyone to
build, send or receive, and nothing is handed over twice. It leaves out restarts and
a second `mark_sent`, both of which can take a settled exchange back for good.
`parse` and the resolvers are straight-line calls with bounded loops; that they
end is not worth a run.

## 4. Disagreements found

Two runs end in a counterexample, each against a sentence of the repository.

* `exchange_foreign`: a receiving exchange that accepted a message whose
  `ds:Transform`s carry `ec:InclusiveNamespaces` (common in other products)
  emits a receipt that no longer verifies once it was stored and restored.
* `parse_raises`: undecodable certificate bytes, or an empty
  `ds:SignatureValue`, raise `ValueError` out of `parse_message`.

`PROJECT.json` quotes the lines. More things a reader of the code may not
expect are in the models but contradict nothing the repository says:

* with `encrypt_required=False` and digests verified, a sound signed,
  unencrypted message with a payload is refused with `ReferenceTargetNotFound`,
  for digests are looked up among decrypted attachments only (`Acceptable`
  spells the dependency out);
* undecodable certificate bytes, an empty `ds:SignatureValue`, an unsupported
  token type and a duplicate id leave `AS4Receipt.parse` as other exceptions
  than `ReceiptVerificationError` (`pc = "escaped"` in `SignalParse`);
* the answer to a message whose `eb:MessageId` is padded with white space is
  correlated with its exchange, verifies, and is refused there as being about
  another message (`AnswerSettlesItsExchange`, `CorrelatedIsTaken`);
* the answer to a message whose id is white space alone, and a receipt for a
  reference with an empty digest algorithm (accepted only where digests are not
  verified), cannot be read by this library (`SignalIsReadable`);
* a message accepted without a signature (`sign_required=False`) leaves the
  receiving exchange with no remote party, or with that of an earlier message
  (`AcceptedNamesItsSender`), and its receipt acknowledges nothing: it fails an
  exchange that has a build on record, and acknowledges one restored from before
  its first build (`AcknowledgedMeansDelivered`, `FailedMeansOutOfStep`);
* coverage goes by tag: where an envelope has a second `eb:Messaging`, under some
  other header, a signature over that one alone passes for one over the header
  that is read. `VerifiedIsTrustworthy` states this exception for signals;
  `test_verify_receipt.py:180` has in mind envelopes with one `eb:Messaging`;
* an empty `eb:PayloadInfo` declares no part, so "every payload" is covered
  by a signature over none; the first attachment is then read without having
  been signed. `DeclaredPayloadsAreDelivered` is about declared payloads only;
* a certificate that `cryptography` cannot check (`UnsupportedAlgorithm`) raises
  out of the resolver and of `parse_message` (`Raise` in `CertificateChain`);
* `build` writes a document type like `::##c::1`, with an empty namespace and root
  element, and empty participants, process, country or ids, and the receiver
  refuses the elements without text (`BuiltIsAcceptedByAddressee`);
* an attachment id with angle brackets of its own does not survive the
  Content-ID (`BuiltIsAcceptedByAddressee`);
* a document type whose syntax id has no `::` raises `IndexError` rather than
  `ValueError` out of `build_peppol_message` (`FailToIdentify`).

## 5. Theorems

Each is proved for every value of the constants under the `ASSUME`s of the
modules it extends, all evaluated by TLC on the runs' instances:

* parties and exchanges are typed; `None` is no exchange, party, number,
  attachment or error;
* `InputsAssumption`: messages and policies are any sets of records of their
  types in which an unsigned message has no references, an unencrypted one no
  EncryptedData, one without `eb:PayloadInfo` no parts, and the first attachment is
  there when any is (`WellFormed`);
* `PackageAssumption`: `Package` is any set of MIME parts none of which is inside
  itself; `ContentIdAssumption`: stripping brackets twice is stripping them once;
* `BuildAssumption`: an attachment map has no key twice, as a Python `dict` has
  none; a document type is any sequence of tokens, a package any of `Package`,
  and of the world's faults and of the values left empty any subset;
* `SignalAssumption`: texts, their stripped forms and the signals considered
  have their types;
* `BindingAssumption`: `Elements` is any set of XML elements that contains the
  children of its elements, a message to accept has any sequence of
  `ds:Reference`s of them, and a refusal any error class and argument, except
  that a class which has no detail of its own is given one that is not blank;
  `WordsAssumption`: the words a signal is made of are strings, which the provers
  cannot tell of literals;
* `PeppolAssumption`: under a shipped policy the certificates of `pki.py` are
  issued as they are; whatever else was issued is arbitrary.

**Exchanges** (`ExchangeProofs`). None of the invariants is inductive alone: a
sending exchange believes a signal, the signal was made by a receiving
exchange, and either may come back from a snapshot. `Inv` adds to `TypeOK`

* `SignalsGenuine`: every signal on the wire, held or stored says what its
  signer did (a receipt: accepted the build whose references it repeats or,
  repeating none, an unsigned copy; an error: refused the message it names);
* `SendersJustified`: every sender record, live or stored, has `{}` or the
  references of one of its builds on record, and a state backed by `accepted`
  or `refused`.

The key lemma is `ReferencesDistinct`: one build's references are contained in
another's only if the builds are the same, because of `eb:Messaging`. With
`acknowledged <= sent` from `verify_non_repudiation` it turns "the receipt
acknowledges something I sent" into "this build was accepted", even when the
caller requires the Body alone. `HistoryGrows` makes stored facts stay true.
From `Inv` follow `Acknowledgement`, `Rejection` and `Failure`.

**Receiving side** (also `ExchangeProofs`). `SenderNamed` needs the same statement
about stored records. `SignalsVerifiable` holds under the hypothesis
`ForeignBuilt = {}`, which `exchange_foreign` shows to be necessary.

**Refinement** (also `ExchangeProofs`). `Refinement`: every initial state maps to
one of `Delivery`, every step to a `Deliver`, `Decline`, `Believe` or a
stutter; `Inv` provides the justification that `Believe` demands.

**Parser** (`ParseProofs`). The invariant is indexed by position: `Behind`
says for each stage which checks lie behind it (`TokenLocated`,
`SignatureVerified`, `Covered`), and that nothing is decrypted before the
signature is dealt with. `Attribution` and `Acceptance` follow.

**Pipeline** (also `ParseProofs`). `Inv` says nothing about contents or errors.
`Pipeline` adds

* `Known`: for each stage, every check behind it, as a predicate on message and
  policy alone (`Decryption`, `SignedAttachments`, `PartsFit`, ...). `Passed` is
  their conjunction, and `PassedIsAcceptable` shows it to be `Acceptable`;
* `Content`: in round `k` of the loop over `eb:PartInfo` an attachment that was
  decrypted has lost as many layers as the first `k` elements call it
  compressed, and no other has any content (`Layers`). This ties a check that
  reads the current `decrypted_data` to the message as it arrived: the round
  that finds no layer left is one in which more elements ask for inflation than
  there are layers (`RefusedPart`);
* `Verdict`: parse has returned without error exactly if `Passed`.

One lemma per step of the code. A step either refuses and some conjunct of
`Passed` is false, or goes on and one more is known. `VerdictIsOrderFreeHolds`,
`AcknowledgedReferencesVerifiedHolds`, `DeclaredPayloadsAreDeliveredHolds` and
`TypeOKHolds` follow. For the delivery theorem the three checks that make it
true together are coverage ("payloads" are signed), the attachment digests (a
signed attachment was decrypted) and the loop (which removes no content).

**Packages** (`SequenceFacts`, `BuildProofs`). `GetPart` and `PartsInOrder` are functions defined
by recursion over a tree, so the first thing to show is that such functions
exist: `Recursion` builds one from approximations on the parts nested less than
`n` deep, which agree where they overlap (`SolvesUnique`), using least elements
of sets of naturals in place of induction. `FlattenIsChain` says what
`FlattenSeq` does, and `GetPartIsFirst` compares the two: a package of least
nesting on which they differ would have to be a `multipart/related` whose parts
they agree on.

**Builder** (`BuildProofs`). `BuildInv` says where a message is on its way and
what it then is: nothing before the build, `Built(map, order)` with the *current*
map until it is received (which a map rewritten by a later or a failed build
would break), and from there on what the package shows of it,
`Unpacked(Built(map, order), package)`, with `Inv` and `Pipeline` of
`ParseProofs` for the rest. The parser's part of every proof is therefore
`PassedIsAcceptable`; what remains is a statement about data,
`UnpackedAcceptable`: the checks together accept an unpacked message exactly when
the conditions of `BuiltIsAcceptedByAddressee` hold, for any number of
entries in the map, where `SeenAttachments` counts that each attachment is
called compressed by exactly one part, and `TextlessIs` that nothing is without
text exactly when nothing was left empty and the document type names both its
namespace and its root element. `SplitAt` characterises where the greedy
expression of the document type identifier divides its value;
`IdentifierRoundTrip` and the lemmas on the usual form rest on it.

**Signals** (`SignalProofs`). The same by position, with the converse: a
refusal is of a signal that is not `Verifiable` (`TurnedDown`), so that `parse`
returns a receipt exactly for one that is: trustworthy, or soundly signed over an
`eb:Messaging` other than the one read. `Provenance` keeps what
`for_message` built as the thing on the wire; with it the answer to an exchange
can be judged by message id and signer alone.

**Binding** (`BindingProofs`). The invariant `BindingInv` says what every
variable is. The message holds the models of the references that arrived, with
their elements or, once it was restored, without (`AcceptedAs(kept)`); `signed`
is the element of a receipt of just those models; `receipt` and `wire` are of
them too, or, after a restart of the exchange, of models without elements; and
all of these are about the message that arrived. For a refusal they are the one
error signal that `RefusedInv` writes out.

That each step keeps this rests on facts about data: what the dump of a receipt
is (`SuccessXml`, `DumpSuccess`), that storing a model only takes its elements
away (`StoredSuccess`, `StoredFailure`), and the same for an error. They are
proved from the leaves up, one class at a time, in the order the classes nest.
Then each property compares two values known in full:

* `SameSuccess`: the dumps with and without elements are equal exactly when no
  transform has content, hence `SignedIsSentHolds`, both directions of it;
* `ValidSuccess`, `ValidFailure`: such an element is valid unless the id is blank
  or a digest algorithm is empty, hence `SignalIsReadableHolds`; where digests
  are verified the second cannot be (`VerifiableNames`);
* `ReadSuccess`: what is read of it and compared is `DeclaredFields` of the
  references, with `FlattenSingles` for the two nested lists of
  `non_repudiated_references`, hence `ReceiptNamesWhatWasSignedHolds`;
* `ReadFailure`, and `DetailIs`: no detail an error can have is blank, so
  `eb:ErrorDetail` is always there to be read, hence `ErrorSurvivesHolds`.

**Trust** (`ChainProofs`). Soundness needs the path climbed to be a path
(`Climbed`, `AtAnchor`, `AtPin`). Completeness needs more: where issuers are
unique *every* chain that would make the certificate trusted begins with the
path climbed so far and does not end before it (`ChainsFollow`). When the climb
comes back to a certificate it has met, such a chain would go round in the
loop; the first place where it leaves it contradicts uniqueness. That step, and
`FirstFailed` in the parser, take a least element of a set of naturals (`WFMin`
with `NatLessThanWellFounded`) where one would use induction.
`PoliciesKeepApartHolds` combines both directions for the six CAs of `pki.py`.

**Schema** (`SchemaProofs`). Between `validate` and the read the log belongs
to the lock's holder (`LogBelongsToHolder`); `OwnError` follows.

The invariants were checked by TLC on the runs' instances before they were
proved.

## 6. Only model-checked

Liveness (`ProcessedIsSettled`, `WaitingIsServed`): properties under
fairness are outside the prover's reach. `AnswersRatherThanRaises` does not hold
(`parse_raises`, section 4), and `SignalsStayVerifiable` only under the hypothesis
of its theorem. Every other property of a run is a theorem.

## 7. Not modelled

The AES-GCM call (`cipher_handler.py`) and the options of lxml's parser
(`xml_parser.py`): one library call each, with no state; their failures are the
faults `ciphers[..].ok` and `xml`. Cryptography is taken as sound: a digest
identifies content, a signature its signer. Of MIME: boundaries, transfer
encodings, parts whose content does not decode, and the headers other than
content type and Content-ID. Of the XML models: namespaces, and the classes of
the envelope, WS-Security, XML encryption and the SBDH, which `BaseElement`
treats as it treats those of a signal. Texts of errors. The identifiers of the
signal itself (a receiving exchange that is reused repeats them) are not told
apart. The examples only call the library.

## 8. Plan

Done: exchange, refinement, parser, signals, trust, schema, builder; then XML
and JSON representation of signals, error catalogue, MIME packages, document
types, Peppol PKI, pinned certificates and padded ids.

Then proofs: every safety property of the runs that holds.

What could come next:

1. Show `SignalVerifies` of `AS4Exchange` to be what `SignalParse` computes, and
   `Parsed` what `PeppolParse` does, as refinements.
2. Receiving exchanges reused across messages: the ids of their signals.
