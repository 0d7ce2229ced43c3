--------------------------- MODULE ExchangeProofs ---------------------------
(***************************************************************************)
(* Proofs about AS4Exchange for any exchanges, parties, bounds and callers.*)
(*                                                                         *)
(* None of the safety invariants is inductive alone: what a sending        *)
(* exchange concludes rests on the signal it is handed, that one on the    *)
(* exchange that built it, and both ends may come back from a snapshot.    *)
(* Inv therefore says of every signal, wherever it is kept, that its       *)
(* signer did what it says, and of every sender record, live or stored,    *)
(* that its state is justified.                                            *)
(*                                                                         *)
(* AS4Exchange also implements Delivery: the initial states map to initial *)
(* states, and each step, from a state in which Inv holds before and       *)
(* after, maps to a delivery, a refusal, a justified change of belief or   *)
(* a stutter.                                                              *)
(***************************************************************************)
EXTENDS ExchangeRefinement, TLAPS

-----------------------------------------------------------------------------
(* The inductive invariant *)

\* Party p accepted a message of x with these references: those of a build,
\* or none where it takes unsigned messages.  The history it is measured
\* against is a parameter, here and below, so that it can be said of two
\* states.
Took(p, x, references, built, acc) ==
    /\ <<p, x, references>> \in acc
    /\ \/ \E b \in 1..built[x] : references = References(x, b)
       \/ references = {} /\ AcceptsUnsigned(p)

\* A signal says what its signer did: accepted the references a receipt
\* repeats, or refused the message an error names, if it names one.
Genuine(s, built, acc, ref) ==
    /\ s.kind = "receipt" =>
         \E x \in Sending : /\ s.original_message_id = x
                            /\ Took(s.signer, x, s.acknowledged, built, acc)
    /\ s.kind = "error" /\ s.original_message_id # None =>
         <<s.signer, s.original_message_id>> \in ref

SignalsGenuine ==
    /\ \A s \in signals : Genuine(s, builds, accepted, refused)
    /\ \A r \in Receiving : receiving[r].receipt # None =>
         Genuine(receiving[r].receipt, builds, accepted, refused)
    /\ \A r \in Receiving : stored[r] # None /\ stored[r].receipt # None =>
         Genuine(stored[r].receipt, builds, accepted, refused)

\* The state of a sender record e of exchange x is backed by what the
\* intended access point did.
OnRecord(x, e, built) ==
    e.signed_references = {} \/ \E b \in 1..built[x] : e.signed_references = References(x, b)

Justified(x, e, built, acc, ref) ==
    /\ OnRecord(x, e, built)
    /\ e.state = "acknowledged" => Took(Remote[x], x, e.signed_references, built, acc)
    /\ e.state = "rejected" => <<Remote[x], x>> \in ref
    /\ e.state = "failed" =>
         /\ e.receipt.kind = "receipt"
         /\ e.receipt.original_message_id = x
         /\ e.receipt.signer = Remote[x]
         /\ Took(Remote[x], x, e.receipt.acknowledged, built, acc)
         /\ e.signed_references # e.receipt.acknowledged \/ e.required_references # None

SendersJustified ==
    /\ \A x \in Sending : Justified(x, sending[x], builds, accepted, refused)
    /\ \A x \in Sending : stored[x] # None =>
         Justified(x, stored[x], builds, accepted, refused)

Inv == TypeOK /\ SignalsGenuine /\ SendersJustified

-----------------------------------------------------------------------------
(* Lemmas about the operators *)

\* Two builds never have all their references in common: those of eb:Messaging
\* differ.
LEMMA ReferencesDistinct ==
    ASSUME NEW x, NEW b \in Nat, NEW y, NEW c \in Nat,
           References(x, b) \subseteq References(y, c)
    PROVE  x = y /\ b = c
BY DEF References

\* References are sets of references.
LEMMA ReferencesType ==
    ASSUME NEW x \in Sending, NEW b \in 0..MaxBuilds
    PROVE  References(x, b) \in SUBSET Reference
BY ConstantsAssumption DEF References, Reference, Part

\* Whatever parse_message yields has the fields receive_message reads.
LEMMA ParsedType ==
    ASSUME NEW r \in Receiving, NEW x \in Sending, NEW b \in 0..MaxBuilds,
           NEW m \in Parsed(r, x, b)
    PROVE  /\ m.message_id \in {x, None}
           /\ m.signed_references \in SUBSET Reference
           /\ m.signer_certificate \in {Local[x], None}
           /\ m.verdict # "refused" =>
                /\ m.message_id = x
                /\ \/ /\ m.signed_references = References(x, b)
                      /\ m.signer_certificate = Local[x]
                      /\ Local[r] = Remote[x]
                   \/ m.signed_references = {} /\ r \in SignOptional
BY ReferencesType DEF Parsed, ParsedAs

\* for_message makes a signal.
LEMMA ForMessageType ==
    ASSUME NEW p \in Party, NEW x \in Sending, NEW b \in 0..MaxBuilds,
           NEW r \in Receiving, NEW m \in Parsed(r, x, b)
    PROVE  ForMessage(m, p) \in Signal
BY ParsedType DEF ForMessage, Signal

\* What build, a caller's assignment and receive_signal make of a record.
LEMMA BuiltRecord ==
    ASSUME NEW e \in SendingExchange, NEW state \in ExchangeState,
           NEW refs \in SUBSET Reference
    PROVE  [e EXCEPT !.state = state, !.signed_references = refs] \in SendingExchange
BY DEF SendingExchange

\* Assigning required_references leaves the rest of the exchange alone.
LEMMA RequiringRecord ==
    ASSUME NEW e \in SendingExchange, NEW refs \in SUBSET Reference
    PROVE  [e EXCEPT !.required_references = refs] \in SendingExchange
BY DEF SendingExchange

\* Settling an exchange changes its state and its receipt only.
LEMMA SettledRecord ==
    ASSUME NEW e \in SendingExchange, NEW state \in ExchangeState, NEW s \in Signal
    PROVE  [e EXCEPT !.receipt = s, !.state = state] \in SendingExchange
BY DEF SendingExchange

\* Replacing one record of a typed sending leaves it typed.
LEMMA SendingUpdate ==
    ASSUME TypeOK, NEW x \in Sending, NEW e \in SendingExchange,
           sending' = [sending EXCEPT ![x] = e]
    PROVE  sending' \in [Sending -> SendingExchange]
BY DEF TypeOK

\* A restored receipt is a signal again, and says what it said.
LEMMA ReserialisedSays ==
    ASSUME NEW s \in Signal \cup {None}
    PROVE  /\ Reserialised(s) \in Signal \cup {None}
           /\ s = None => Reserialised(s) = None
           /\ s # None => /\ Reserialised(s) \in Signal
                          /\ Reserialised(s).kind = s.kind
                          /\ Reserialised(s).original_message_id = s.original_message_id
                          /\ Reserialised(s).acknowledged = s.acknowledged
                          /\ Reserialised(s).signer = s.signer
<1>1. CASE s = None
  BY <1>1 DEF Reserialised
<1>2. CASE s # None
  <2> DEFINE wild == s.intact /\ ~CarriesWildcards(s)
  <2>1. s \in Signal
    BY <1>2
  <2>2. wild \in BOOLEAN
    BY <2>1 DEF Signal
  <2>3. Reserialised(s) = [s EXCEPT !.intact = wild]
    BY <1>2 DEF Reserialised
  <2> HIDE DEF wild
  <2> QED
    BY <1>2, <2>1, <2>2, <2>3 DEF Signal
<1> QED
  BY <1>1, <1>2

-----------------------------------------------------------------------------
(* Type correctness *)

\* The initial state is well typed.
LEMMA InitType == Init => TypeOK
BY ConstantsAssumption DEF Init, TypeOK, SendingExchange, ReceivingExchange,
   ExchangeState, Snapshot

\* Every verb, store and restore keeps the types.
LEMMA NextType == TypeOK /\ [Next]_vars => TypeOK'
<1> SUFFICES ASSUME TypeOK, [Next]_vars
             PROVE  TypeOK'
  OBVIOUS
<1> USE ConstantsAssumption
<1>1. ASSUME NEW x \in Sending, Build(x)
      PROVE  TypeOK'
  <2>0. sending \in [Sending -> SendingExchange] /\ sending[x] \in SendingExchange
    BY DEF TypeOK
  <2>1. References(x, builds[x] + 1) \in SUBSET Reference
    BY <1>1, ReferencesType DEF Build, TypeOK
  <2> DEFINE e == [sending[x] EXCEPT !.state = "built",
                                     !.signed_references = References(x, builds[x] + 1)]
  <2>2. sending' = [sending EXCEPT ![x] = e]
    BY <1>1, <2>0 DEF Build
  <2>3. e \in SendingExchange
    <3>1. "built" \in ExchangeState
      BY DEF ExchangeState
    <3> QED
      BY <2>0, <2>1, <3>1, BuiltRecord
  <2>4. builds' \in [Sending -> 0..MaxBuilds]
    BY <1>1 DEF Build, TypeOK
  <2> HIDE DEF e
  <2> QED
    BY <1>1, <2>2, <2>3, <2>4, SendingUpdate DEF Build, TypeOK, Snapshot
<1>2. ASSUME NEW x \in Sending, NEW parts \in Requirable, RequireReferences(x, parts)
      PROVE  TypeOK'
  <2> DEFINE required == {ref \in sending[x].signed_references : ref.part \in parts}
  <2>0. sending \in [Sending -> SendingExchange] /\ sending[x] \in SendingExchange
    BY DEF TypeOK
  <2>1. required \in SUBSET Reference
    BY DEF TypeOK, SendingExchange
  <2> HIDE DEF required
  <2> DEFINE e == [sending[x] EXCEPT !.required_references = required]
  <2>2. sending' = [sending EXCEPT ![x] = e]
    BY <1>2, <2>0 DEF RequireReferences, required
  <2>3. e \in SendingExchange
    BY <2>0, <2>1, RequiringRecord
  <2> HIDE DEF e
  <2> QED
    BY <1>2, <2>2, <2>3, SendingUpdate DEF RequireReferences, TypeOK, Snapshot
<1>3. ASSUME NEW x \in Sending, MarkSent(x)
      PROVE  TypeOK'
  <2>1. sending[x] \in SendingExchange /\ "sent" \in ExchangeState
    BY DEF TypeOK, ExchangeState
  <2>2. [sending[x] EXCEPT !.state = "sent"] \in SendingExchange
    BY <2>1 DEF SendingExchange
  <2>3. sending' = [sending EXCEPT ![x] = [sending[x] EXCEPT !.state = "sent"]]
    BY <1>3 DEF MarkSent, TypeOK
  <2> QED
    BY <1>3, <2>2, <2>3, SendingUpdate DEF MarkSent, TypeOK, Snapshot
<1>4. ASSUME NEW x \in Sending, NEW s \in signals, ReceiveSignal(x, s)
      PROVE  TypeOK'
  <2>0. sending \in [Sending -> SendingExchange] /\ sending[x] \in SendingExchange
    BY DEF TypeOK
  <2>1. SettledState(x, s) \in ExchangeState
    BY DEF SettledState, ExchangeState
  <2>2. s \in Signal
    BY DEF TypeOK
  <2> DEFINE e == [sending[x] EXCEPT !.receipt = s, !.state = SettledState(x, s)]
  <2>3. sending' = [sending EXCEPT ![x] = e]
    BY <1>4, <2>0 DEF ReceiveSignal
  <2>4. e \in SendingExchange
    BY <2>0, <2>1, <2>2, SettledRecord
  <2> HIDE DEF e
  <2> QED
    BY <1>4, <2>3, <2>4, SendingUpdate DEF ReceiveSignal, TypeOK, Snapshot
<1>5. ASSUME NEW x \in Sending, RestoreSending(x)
      PROVE  TypeOK'
  <2>1. stored[x] \in SendingExchange
    BY <1>5 DEF RestoreSending, TypeOK, Snapshot
  <2>2. RestoredFrom(stored[x]) \in SendingExchange
    BY <2>1, ReserialisedSays DEF RestoredFrom, SendingExchange
  <2> QED
    BY <1>5, <2>2 DEF RestoreSending, TypeOK, Snapshot
<1>6. ASSUME NEW x \in Sending, NEW r \in Receiving, NEW b \in 1..MaxBuilds,
             Receive(r, x, b)
      PROVE  TypeOK'
  <2>1. PICK m \in Parsed(r, x, b) :
          /\ ReceiveMessage(r, m)
          /\ IF m.verdict = "refused"
             THEN /\ refused' = refused \cup {<<Local[r], id>> : id \in {m.message_id} \ {None}}
                  /\ UNCHANGED accepted
             ELSE /\ accepted' = accepted \cup {<<Local[r], x, m.signed_references>>}
                  /\ UNCHANGED refused
    BY <1>6 DEF Receive
  <2>2. Local[r] \in Party /\ Local[x] \in Party /\ b \in 0..MaxBuilds
    OBVIOUS
  <2>3. ForMessage(m, Local[r]) \in Signal
    BY <2>2, ForMessageType
  <2>4. RemoteParty(m, receiving[r].remote_party) \in Party \cup {None}
    BY <2>2, ParsedType DEF RemoteParty, TypeOK, ReceivingExchange
  <2>5. receiving' \in [Receiving -> ReceivingExchange]
    BY <2>1, <2>2, <2>3, <2>4, ParsedType
       DEF ReceiveMessage, TypeOK, ReceivingExchange, ExchangeState
  <2>6. accepted' \subseteq Party \X Sending \X (SUBSET Reference)
    BY <2>1, <2>2, ParsedType DEF TypeOK
  <2>7. refused' \subseteq Party \X Sending
    <3>1. m.message_id \in {x, None}
      BY <2>2, ParsedType
    <3>2. refused \subseteq Party \X Sending
      BY DEF TypeOK
    <3> QED
      BY <2>1, <2>2, <3>1, <3>2
  <2> QED
    BY <1>6, <2>5, <2>6, <2>7 DEF Receive, TypeOK, Snapshot
<1>7. ASSUME NEW r \in Receiving, BuildSignal(r)
      PROVE  TypeOK'
  BY <1>7 DEF BuildSignal, TypeOK, ReceivingExchange, Snapshot
<1>8. ASSUME NEW r \in Receiving, RestoreReceiving(r)
      PROVE  TypeOK'
  <2>1. stored[r] \in ReceivingExchange
    BY <1>8 DEF RestoreReceiving, TypeOK, Snapshot
  <2>2. RestoredFrom(stored[r]) \in ReceivingExchange
    BY <2>1, ReserialisedSays DEF RestoredFrom, ReceivingExchange
  <2> QED
    BY <1>8, <2>2 DEF RestoreReceiving, TypeOK, Snapshot
<1>9. ASSUME NEW e \in Durable, Store(e)
      PROVE  TypeOK'
  BY <1>9 DEF Store, TypeOK, Snapshot
<1>10. CASE UNCHANGED vars
  BY <1>10 DEF vars, TypeOK, Snapshot
<1> QED
  BY <1>1, <1>2, <1>3, <1>4, <1>5, <1>6, <1>7, <1>8, <1>9, <1>10 DEF Next

\* Every variable keeps the shape the pydantic models declare, in every
\* behaviour of any number of exchanges.
THEOREM TypeCorrect == Spec => []TypeOK
BY InitType, NextType, PTL DEF Spec

-----------------------------------------------------------------------------
(* The histories only grow, and with them what is genuine and justified *)

\* Builds, acceptances, refusals and emitted signals are never forgotten.
LEMMA HistoryGrows ==
    ASSUME TypeOK, [Next]_vars
    PROVE  /\ accepted \subseteq accepted'
           /\ refused \subseteq refused'
           /\ \A x \in Sending : /\ builds[x] \in Nat /\ builds'[x] \in Nat
                                 /\ builds[x] <= builds'[x]
<1>1. builds \in [Sending -> Nat]
  BY ConstantsAssumption DEF TypeOK
<1>2. ASSUME NEW x \in Sending, Build(x)
      PROVE  \A y \in Sending : builds'[y] \in Nat /\ builds[y] <= builds'[y]
  BY <1>1, <1>2 DEF Build
<1>3. ASSUME NEW x \in Sending, NEW r \in Receiving, NEW b \in 1..MaxBuilds, Receive(r, x, b)
      PROVE  accepted \subseteq accepted' /\ refused \subseteq refused' /\ builds' = builds
  BY <1>3 DEF Receive
<1>4. CASE /\ ~\E x \in Sending : Build(x)
           /\ ~\E x \in Sending, r \in Receiving, b \in 1..MaxBuilds : Receive(r, x, b)
  <2>1. accepted' = accepted /\ refused' = refused /\ builds' = builds
    BY <1>4 DEF Next, vars, RequireReferences, MarkSent, ReceiveSignal, RestoreSending,
                BuildSignal, RestoreReceiving, Store
  <2> QED
    BY <1>1, <2>1
<1>5. CASE \E x \in Sending : Build(x)
  <2>1. accepted' = accepted /\ refused' = refused
    BY <1>5 DEF Build
  <2> QED
    BY <1>1, <1>2, <1>5, <2>1
<1>6. CASE \E x \in Sending, r \in Receiving, b \in 1..MaxBuilds : Receive(r, x, b)
  BY <1>1, <1>3, <1>6
<1> QED
  BY <1>4, <1>5, <1>6

\* A genuine signal stays genuine while the history grows.
LEMMA GenuineStays ==
    ASSUME NEW s, NEW built, NEW acc, NEW ref, NEW built2, NEW acc2, NEW ref2,
           acc \subseteq acc2, ref \subseteq ref2,
           \A x \in Sending : /\ built[x] \in Nat /\ built2[x] \in Nat
                             /\ built[x] <= built2[x],
           Genuine(s, built, acc, ref)
    PROVE  Genuine(s, built2, acc2, ref2)
<1>1. ASSUME NEW x \in Sending, Took(s.signer, x, s.acknowledged, built, acc)
      PROVE  Took(s.signer, x, s.acknowledged, built2, acc2)
  <2>1. 1..built[x] \subseteq 1..built2[x]
    OBVIOUS
  <2> QED
    BY <1>1, <2>1 DEF Took
<1> QED
  BY <1>1 DEF Genuine

\* What justifies the state of a sending exchange stays true.
LEMMA JustifiedStays ==
    ASSUME NEW x \in Sending, NEW e,
           NEW built, NEW acc, NEW ref, NEW built2, NEW acc2, NEW ref2,
           acc \subseteq acc2, ref \subseteq ref2,
           built[x] \in Nat /\ built2[x] \in Nat /\ built[x] <= built2[x],
           Justified(x, e, built, acc, ref)
    PROVE  Justified(x, e, built2, acc2, ref2)
<1>1. 1..built[x] \subseteq 1..built2[x]
  OBVIOUS
<1> QED
  BY <1>1 DEF Justified, OnRecord, Took

\* A state that says nothing of the far side needs no justification.
LEMMA OpenIsJustified ==
    ASSUME NEW x, NEW e, NEW f, NEW built, NEW acc, NEW ref,
           f.state \in {"created", "built", "sent", "received"},
           f.signed_references = e.signed_references,
           Justified(x, e, built, acc, ref)
    PROVE  Justified(x, f, built, acc, ref)
BY DEF Justified, OnRecord

\* Restoring a record changes nothing of what justifies its state.
LEMMA RestoredIsJustified ==
    ASSUME NEW x, NEW e, NEW f, NEW built, NEW acc, NEW ref,
           f.state = e.state,
           f.signed_references = e.signed_references,
           f.required_references = e.required_references,
           \/ f.receipt = e.receipt
           \/ /\ f.receipt.kind = e.receipt.kind
              /\ f.receipt.original_message_id = e.receipt.original_message_id
              /\ f.receipt.acknowledged = e.receipt.acknowledged
              /\ f.receipt.signer = e.receipt.signer,
           Justified(x, e, built, acc, ref)
    PROVE  Justified(x, f, built, acc, ref)
BY DEF Justified, OnRecord

\* receive_signal settles an exchange in a justified state.
LEMMA SettlingIsJustified ==
    ASSUME NEW x \in Sending, NEW e \in SendingExchange, NEW s \in Signal,
           NEW built, NEW acc, NEW ref,
           built[x] \in Nat,
           Justified(x, e, built, acc, ref),
           Genuine(s, built, acc, ref),
           SignalVerifies(s, Remote[x]), s.original_message_id = x,
           NEW f \in SendingExchange,
           f.receipt = s,
           f.signed_references = e.signed_references,
           f.required_references = e.required_references,
           f.state = IF s.kind = "error" THEN "rejected"
                     ELSE IF ProvesDelivery(s, e.signed_references, e.required_references)
                          THEN "acknowledged" ELSE "failed"
    PROVE  Justified(x, f, built, acc, ref)
<1>1. OnRecord(x, f, built)
  BY DEF Justified, OnRecord
<1>2. s.signer = Remote[x]
  BY DEF SignalVerifies
<1>3. CASE s.kind = "error"
  BY <1>1, <1>2, <1>3, ConstantsAssumption DEF Genuine, Justified
<1>4. CASE s.kind = "receipt"
  <2>1. Took(Remote[x], x, s.acknowledged, built, acc)
    BY <1>2, <1>4 DEF Genuine
  <2>2. ASSUME ProvesDelivery(s, e.signed_references, e.required_references)
        PROVE  e.signed_references = s.acknowledged
    <3>1. s.acknowledged \subseteq e.signed_references
      BY <2>2 DEF ProvesDelivery
    <3>2. ASSUME NEW b \in 1..built[x], s.acknowledged = References(x, b)
          PROVE  e.signed_references = s.acknowledged
      <4>1. References(x, b) # {}
        BY DEF References
      <4>2. PICK c \in 1..built[x] : e.signed_references = References(x, c)
        BY <3>1, <3>2, <4>1 DEF Justified, OnRecord
      <4> QED
        BY <3>1, <3>2, <4>2, ReferencesDistinct
    <3>3. ASSUME s.acknowledged = {}
          PROVE  e.signed_references = s.acknowledged
      BY <2>2, <3>3 DEF ProvesDelivery, SendingExchange
    <3> QED
      BY <2>1, <3>2, <3>3 DEF Took
  <2>3. ASSUME ~ProvesDelivery(s, e.signed_references, e.required_references)
        PROVE  e.signed_references # s.acknowledged \/ e.required_references # None
    BY <2>3, ReferencesAssumption DEF ProvesDelivery
  <2>4. CASE ProvesDelivery(s, e.signed_references, e.required_references)
    BY <1>1, <1>4, <2>1, <2>2, <2>4 DEF Justified
  <2>5. CASE ~ProvesDelivery(s, e.signed_references, e.required_references)
    BY <1>1, <1>2, <1>4, <2>1, <2>3, <2>5 DEF Justified
  <2> QED
    BY <2>4, <2>5
<1> QED
  BY <1>3, <1>4 DEF Signal

-----------------------------------------------------------------------------
(* The steps *)

\* Nothing has been signed or settled at first.
LEMMA InitInv == Init => Inv
<1> SUFFICES ASSUME Init
             PROVE  Inv
  OBVIOUS
<1>1. TypeOK
  BY InitType
<1>2. SignalsGenuine
  BY DEF Init, SignalsGenuine
<1>3. SendersJustified
  BY DEF Init, SendersJustified, Justified, OnRecord
<1> QED
  BY <1>1, <1>2, <1>3 DEF Inv

\* What for_message answers is genuine once the verdict is on record.
LEMMA AnswerIsGenuine ==
    ASSUME NEW r \in Receiving, NEW x \in Sending, NEW b, NEW built, NEW acc, NEW ref,
           built[x] \in 0..MaxBuilds, b \in 1..built[x],
           NEW m \in Parsed(r, x, b),
           m.verdict = "refused" /\ m.message_id # None => <<Local[r], m.message_id>> \in ref,
           m.verdict # "refused" => <<Local[r], x, m.signed_references>> \in acc
    PROVE  Genuine(ForMessage(m, Local[r]), built, acc, ref)
<1>1. b \in 0..MaxBuilds
  BY ConstantsAssumption
<1>2. CASE m.verdict = "refused"
  BY <1>2 DEF Genuine, ForMessage
<1>3. CASE m.verdict # "refused"
  <2>1. Took(Local[r], x, m.signed_references, built, acc)
    BY <1>1, <1>3, ParsedType DEF Took, AcceptsUnsigned
  <2>2. m.message_id = x
    BY <1>1, <1>3, ParsedType
  <2>3. /\ ForMessage(m, Local[r]).kind = "receipt"
        /\ ForMessage(m, Local[r]).original_message_id = x
        /\ ForMessage(m, Local[r]).acknowledged = m.signed_references
        /\ ForMessage(m, Local[r]).signer = Local[r]
    BY <1>3, <2>2 DEF ForMessage
  <2> QED
    BY <2>1, <2>3 DEF Genuine
<1> QED
  BY <1>2, <1>3

\* Every step keeps every signal, held, stored or emitted, genuine.
LEMMA NextGenuine == Inv /\ [Next]_vars => SignalsGenuine'
<1> SUFFICES ASSUME Inv, [Next]_vars
             PROVE  SignalsGenuine'
  OBVIOUS
<1> USE ConstantsAssumption
<1> DEFINE Now(s) == Genuine(s, builds, accepted, refused)
           Then(s) == Genuine(s, builds', accepted', refused')
<1>1. TypeOK /\ SignalsGenuine
  BY DEF Inv
<1>2. ASSUME NEW s, Now(s)
      PROVE  Then(s)
  BY <1>1, <1>2, HistoryGrows, GenuineStays
<1>3. /\ \A s \in signals : Then(s)
      /\ \A r \in Receiving : receiving[r].receipt # None => Then(receiving[r].receipt)
      /\ \A r \in Receiving : stored[r] # None /\ stored[r].receipt # None
                                  => Then(stored[r].receipt)
  BY <1>1, <1>2 DEF SignalsGenuine
<1> HIDE DEF Now, Then
<1>4. SUFFICES /\ \A s \in signals' : Then(s)
               /\ \A r \in Receiving : receiving'[r].receipt # None => Then(receiving'[r].receipt)
               /\ \A r \in Receiving : stored'[r] # None /\ stored'[r].receipt # None
                                           => Then(stored'[r].receipt)
  BY DEF SignalsGenuine, Then
<1>5. CASE UNCHANGED <<receiving, stored, signals>>
  BY <1>3, <1>5
<1>6. ASSUME NEW x \in Sending, NEW r \in Receiving, NEW b \in 1..MaxBuilds, Receive(r, x, b)
      PROVE  \A q \in Receiving : receiving'[q].receipt # None => Then(receiving'[q].receipt)
  <2>1. PICK m \in Parsed(r, x, b) :
          /\ ReceiveMessage(r, m)
          /\ IF m.verdict = "refused"
             THEN /\ refused' = refused \cup {<<Local[r], id>> : id \in {m.message_id} \ {None}}
                  /\ UNCHANGED accepted
             ELSE /\ accepted' = accepted \cup {<<Local[r], x, m.signed_references>>}
                  /\ UNCHANGED refused
    BY <1>6 DEF Receive
  <2>2. Local[r] \in Party /\ builds'[x] \in 0..MaxBuilds /\ b \in 1..builds'[x]
    BY <1>1, <1>6 DEF Receive, TypeOK
  <2>3. Then(ForMessage(m, Local[r]))
    BY <2>1, <2>2, AnswerIsGenuine DEF Then
  <2>4. receiving'[r].receipt = ForMessage(m, Local[r])
    BY <1>1, <2>1 DEF ReceiveMessage, TypeOK
  <2>5. \A q \in Receiving : q # r => receiving'[q] = receiving[q]
    BY <1>1, <2>1 DEF ReceiveMessage, TypeOK
  <2> QED
    BY <1>3, <2>3, <2>4, <2>5
<1>7. ASSUME NEW r \in Receiving, BuildSignal(r)
      PROVE  \A s \in signals' : Then(s)
  BY <1>3, <1>7 DEF BuildSignal
<1>8. ASSUME NEW r \in Receiving, RestoreReceiving(r)
      PROVE  \A q \in Receiving : receiving'[q].receipt # None => Then(receiving'[q].receipt)
  <2>1. stored[r] \in ReceivingExchange /\ stored[r] # None
    BY <1>1, <1>8 DEF RestoreReceiving, TypeOK, Snapshot
  <2>2. stored[r].receipt \in Signal \cup {None}
    BY <2>1 DEF ReceivingExchange
  <2>3. receiving'[r].receipt = Reserialised(stored[r].receipt)
    BY <1>1, <1>8, <2>1 DEF RestoreReceiving, RestoredFrom, TypeOK, ReceivingExchange
  <2>4. \A q \in Receiving : q # r => receiving'[q] = receiving[q]
    BY <1>1, <1>8 DEF RestoreReceiving, TypeOK
  <2>5. receiving'[r].receipt # None => Then(receiving'[r].receipt)
    BY <1>3, <2>1, <2>2, <2>3, ReserialisedSays DEF Then, Genuine
  <2> QED
    BY <1>3, <2>4, <2>5
<1>9. ASSUME NEW e \in Durable, Store(e)
      PROVE  \A r \in Receiving : stored'[r] # None /\ stored'[r].receipt # None
                                      => Then(stored'[r].receipt)
  <2>1. \A r \in Receiving : r # e => stored'[r] = stored[r]
    BY <1>1, <1>9 DEF Store, TypeOK
  <2>2. e \in Receiving => stored'[e] = receiving[e]
    BY <1>1, <1>9 DEF Store, TypeOK
  <2> QED
    BY <1>3, <2>1, <2>2
<1>10. CASE \E x \in Sending, r \in Receiving, b \in 1..MaxBuilds : Receive(r, x, b)
  BY <1>3, <1>6, <1>10 DEF Receive
<1>11. CASE \E r \in Receiving : BuildSignal(r)
  BY <1>3, <1>7, <1>11 DEF BuildSignal
<1>12. CASE \E r \in Receiving : RestoreReceiving(r)
  BY <1>3, <1>8, <1>12 DEF RestoreReceiving
<1>13. CASE \E e \in Durable : Store(e)
  BY <1>3, <1>9, <1>13 DEF Store
<1> QED
  BY <1>5, <1>10, <1>11, <1>12, <1>13
     DEF Next, vars, Build, RequireReferences, MarkSent, ReceiveSignal, RestoreSending

\* Every step keeps every settled sending exchange justified.
LEMMA NextJustified == Inv /\ [Next]_vars => SendersJustified'
<1> SUFFICES ASSUME Inv, [Next]_vars
             PROVE  SendersJustified'
  OBVIOUS
<1> USE ConstantsAssumption
<1> DEFINE Then(x, e) == Justified(x, e, builds', accepted', refused')
<1>1. TypeOK /\ SignalsGenuine /\ SendersJustified
  BY DEF Inv
<1>2. \A x \in Sending : /\ builds'[x] \in Nat
                         /\ Then(x, sending[x])
                         /\ stored[x] # None => Then(x, stored[x])
  BY <1>1, HistoryGrows, JustifiedStays DEF SendersJustified
<1> HIDE DEF Then
<1>3. SUFFICES /\ \A x \in Sending : Then(x, sending'[x])
               /\ \A x \in Sending : stored'[x] # None => Then(x, stored'[x])
  BY DEF SendersJustified, Then
<1>4. /\ sending \in [Sending -> SendingExchange]
      /\ \A x \in Sending : sending[x] \in SendingExchange
  BY <1>1 DEF TypeOK
<1>5. CASE UNCHANGED <<sending, stored>>
  BY <1>2, <1>5
<1>6. ASSUME NEW x \in Sending, Build(x)
      PROVE  \A y \in Sending : Then(y, sending'[y])
  <2>1. \A y \in Sending : y # x => sending'[y] = sending[y]
    BY <1>4, <1>6 DEF Build
  <2>2. /\ sending'[x].state = "built"
        /\ sending'[x].signed_references = References(x, builds[x] + 1)
    BY <1>4, <1>6 DEF Build, SendingExchange
  <2>3. builds[x] + 1 \in 1..builds'[x]
    BY <1>1, <1>6 DEF Build, TypeOK
  <2>4. Then(x, sending'[x])
    BY <2>2, <2>3 DEF Then, Justified, OnRecord
  <2> QED
    BY <1>2, <2>1, <2>4
<1>7. ASSUME NEW x \in Sending, NEW parts \in Requirable, RequireReferences(x, parts)
      PROVE  \A y \in Sending : Then(y, sending'[y])
  <2> DEFINE required == {ref \in sending[x].signed_references : ref.part \in parts}
  <2>1. \A y \in Sending : y # x => sending'[y] = sending[y]
    BY <1>4, <1>7 DEF RequireReferences
  <2>2. /\ sending'[x].state = sending[x].state
        /\ sending'[x].signed_references = sending[x].signed_references
        /\ sending'[x].receipt = sending[x].receipt
        /\ sending'[x].required_references = required
    BY <1>4, <1>7 DEF RequireReferences, SendingExchange
  <2>3. required \in SUBSET Reference
    BY <1>4 DEF SendingExchange
  <2> HIDE DEF required
  <2>4. Then(x, sending'[x])
    BY <1>2, <2>2, <2>3, ReferencesAssumption DEF Then, Justified, OnRecord
  <2> QED
    BY <1>2, <2>1, <2>4
<1>8. ASSUME NEW x \in Sending, MarkSent(x)
      PROVE  \A y \in Sending : Then(y, sending'[y])
  <2>1. \A y \in Sending : y # x => sending'[y] = sending[y]
    BY <1>4, <1>8 DEF MarkSent
  <2>2. /\ sending'[x].state = "sent"
        /\ sending'[x].signed_references = sending[x].signed_references
    BY <1>4, <1>8 DEF MarkSent, SendingExchange
  <2>3. Then(x, sending'[x])
    BY <1>2, <2>2, OpenIsJustified DEF Then
  <2> QED
    BY <1>2, <2>1, <2>3
<1>9. ASSUME NEW x \in Sending, NEW s \in signals, ReceiveSignal(x, s)
      PROVE  \A y \in Sending : Then(y, sending'[y])
  <2> DEFINE f == [sending[x] EXCEPT !.receipt = s, !.state = SettledState(x, s)]
  <2>1. sending' = [sending EXCEPT ![x] = f]
    BY <1>4, <1>9 DEF ReceiveSignal
  <2>2. s \in Signal /\ SettledState(x, s) \in ExchangeState
    BY <1>1 DEF TypeOK, SettledState, ExchangeState
  <2>3. f \in SendingExchange
    BY <1>4, <2>2, SettledRecord
  <2>4. /\ f.receipt = s
        /\ f.signed_references = sending[x].signed_references
        /\ f.required_references = sending[x].required_references
        /\ f.state = SettledState(x, s)
    BY <1>4, <2>2 DEF SendingExchange
  <2> HIDE DEF f
  <2>5. /\ builds' = builds /\ accepted' = accepted /\ refused' = refused
        /\ SignalVerifies(s, Remote[x]) /\ s.original_message_id = x
    BY <1>9 DEF ReceiveSignal
  <2>6. Genuine(s, builds', accepted', refused')
    BY <1>1, <2>5 DEF SignalsGenuine
  <2>7. Justified(x, sending[x], builds', accepted', refused')
    BY <1>2 DEF Then
  <2>8. Justified(x, f, builds', accepted', refused')
    BY <1>2, <1>4, <2>2, <2>3, <2>4, <2>5, <2>6, <2>7, SettlingIsJustified DEF SettledState
  <2> QED
    BY <1>2, <1>4, <2>1, <2>8 DEF Then
<1>10. ASSUME NEW x \in Sending, RestoreSending(x)
       PROVE  \A y \in Sending : Then(y, sending'[y])
  <2>1. \A y \in Sending : y # x => sending'[y] = sending[y]
    BY <1>4, <1>10 DEF RestoreSending
  <2>2. stored[x] \in SendingExchange /\ stored[x] # None
    BY <1>1, <1>10 DEF RestoreSending, TypeOK, Snapshot
  <2>3. stored[x].receipt \in Signal \cup {None}
    BY <2>2 DEF SendingExchange
  <2>4. sending'[x] = RestoredFrom(stored[x])
    BY <1>4, <1>10 DEF RestoreSending
  <2>5. /\ sending'[x].state = stored[x].state
        /\ sending'[x].signed_references = stored[x].signed_references
        /\ sending'[x].required_references = stored[x].required_references
        /\ sending'[x].receipt = Reserialised(stored[x].receipt)
    BY <2>2, <2>4 DEF RestoredFrom, SendingExchange
  <2>6. Then(x, stored[x])
    BY <1>2, <2>2
  <2>7. ASSUME stored[x].receipt = None
        PROVE  Then(x, sending'[x])
    <3>1. sending'[x].receipt = stored[x].receipt
      BY <2>5, <2>7 DEF Reserialised
    <3> QED
      BY <2>5, <2>6, <3>1, RestoredIsJustified DEF Then
  <2>8. ASSUME stored[x].receipt # None
        PROVE  Then(x, sending'[x])
    <3>1. /\ sending'[x].receipt.kind = stored[x].receipt.kind
          /\ sending'[x].receipt.original_message_id = stored[x].receipt.original_message_id
          /\ sending'[x].receipt.acknowledged = stored[x].receipt.acknowledged
          /\ sending'[x].receipt.signer = stored[x].receipt.signer
      BY <2>3, <2>5, <2>8, ReserialisedSays
    <3> QED
      BY <2>5, <2>6, <3>1, RestoredIsJustified DEF Then
  <2> QED
    BY <1>2, <2>1, <2>7, <2>8
<1>11. ASSUME NEW e \in Durable, Store(e)
       PROVE  \A x \in Sending : stored'[x] # None => Then(x, stored'[x])
  <2>1. \A x \in Sending : x # e => stored'[x] = stored[x]
    BY <1>1, <1>11 DEF Store, TypeOK
  <2>2. e \in Sending => stored'[e] = sending[e]
    BY <1>1, <1>11 DEF Store, TypeOK
  <2> QED
    BY <1>2, <2>1, <2>2
<1>12. ASSUME NEW x \in Sending, Build(x) \/ MarkSent(x) \/ RestoreSending(x)
       PROVE  /\ \A y \in Sending : Then(y, sending'[y])
              /\ \A y \in Sending : stored'[y] # None => Then(y, stored'[y])
  BY <1>2, <1>6, <1>8, <1>10, <1>12 DEF Build, MarkSent, RestoreSending
<1>13. ASSUME NEW x \in Sending, \/ \E parts \in Requirable : RequireReferences(x, parts)
                                 \/ \E s \in signals : ReceiveSignal(x, s)
       PROVE  /\ \A y \in Sending : Then(y, sending'[y])
              /\ \A y \in Sending : stored'[y] # None => Then(y, stored'[y])
  BY <1>2, <1>7, <1>9, <1>13 DEF RequireReferences, ReceiveSignal
<1>14. CASE \E e \in Durable : Store(e)
  BY <1>2, <1>11, <1>14 DEF Store
<1>15. CASE \E r \in Receiving : BuildSignal(r) \/ RestoreReceiving(r)
  BY <1>5, <1>15 DEF BuildSignal, RestoreReceiving
<1>16. ASSUME NEW x \in Sending, NEW r \in Receiving, NEW b \in 1..MaxBuilds, Receive(r, x, b)
       PROVE  UNCHANGED <<sending, stored>>
  BY <1>16 DEF Receive
<1>17. CASE UNCHANGED vars
  BY <1>5, <1>17 DEF vars
<1> QED
  <2>1. CASE Next
    BY <2>1, <1>5, <1>12, <1>13, <1>14, <1>15, <1>16 DEF Next
  <2> QED
    BY <2>1, <1>17

-----------------------------------------------------------------------------
(* The theorems *)

\* Inv is an invariant: what every signal says is true, and every state a
\* sending exchange is in, or was stored in, is backed by what the intended
\* access point did.
THEOREM Invariance == Spec => []Inv
<1>1. Inv /\ [Next]_vars => Inv'
  BY NextType, NextGenuine, NextJustified DEF Inv
<1> QED
  BY InitInv, <1>1, PTL DEF Spec

\* Non-repudiation of receipt, for any number of exchanges and builds: when
\* receive_signal leaves an exchange acknowledged, the intended access point
\* has accepted the very build the exchange has on record, or an unsigned copy
\* when it takes those and the exchange has nothing on record.
THEOREM Acknowledgement == Spec => []AcknowledgedMeansDelivered
<1>1. Inv => AcknowledgedMeansDelivered
  BY DEF Inv, SendersJustified, Justified, Took, AcknowledgedMeansDelivered, Delivered
<1> QED
  BY <1>1, Invariance, PTL

\* An exchange is rejected only when the intended access point refused a
\* message under its id.
THEOREM Rejection == Spec => []RejectedMeansRefused
<1>1. Inv => RejectedMeansRefused
  BY DEF Inv, SendersJustified, Justified, RejectedMeansRefused
<1> QED
  BY <1>1, Invariance, PTL

\* A failed exchange holds a genuine receipt of a build, or an unsigned copy,
\* that was delivered, out of step with the build on record or with what the
\* caller required.
THEOREM Failure == Spec => []FailedMeansOutOfStep
<1>1. Inv => FailedMeansOutOfStep
  BY DEF Inv, SendersJustified, Justified, Took, FailedMeansOutOfStep, Delivered
<1> QED
  BY <1>1, Invariance, PTL

-----------------------------------------------------------------------------
(* The receiving side: whom a receiving exchange names as its sender, and    *)
(* that restarting it does not spoil the signal it owes where nothing        *)
(* foreign is quoted in it.                                                  *)

\* A record of receiving exchange r names the signer of the message it holds,
\* unless that was unsigned.
NamesSender(r, e) ==
    e.state = "received" => /\ e.message_id \in Sending
                            /\ IF e.signed_references = {}
                               THEN r \in SignOptional
                               ELSE e.remote_party = Local[e.message_id]

\* Its receipt, if it has one, still matches its signature.
OwesIntact(e) == e.receipt # None => e.receipt.intact = TRUE

\* Both records kept of each receiving exchange, the live one and the stored.
ReceiversName ==
    /\ \A r \in Receiving : NamesSender(r, receiving[r])
    /\ \A r \in Receiving : stored[r] # None => NamesSender(r, stored[r])

ReceiversOweIntact ==
    /\ \A r \in Receiving : OwesIntact(receiving[r])
    /\ \A r \in Receiving : stored[r] # None => OwesIntact(stored[r])
    /\ \A s \in signals : s.intact = TRUE

\* What a receive leaves behind names its sender and owes an intact signal.
LEMMA ReceivedRecord ==
    ASSUME TypeOK, NEW x \in Sending, NEW r \in Receiving, NEW b \in 1..MaxBuilds,
           Receive(r, x, b)
    PROVE  /\ NamesSender(r, receiving'[r]) /\ OwesIntact(receiving'[r])
           /\ \A q \in Receiving : q # r => receiving'[q] = receiving[q]
           /\ UNCHANGED <<stored, signals>>
<1> USE ConstantsAssumption
<1>1. PICK m \in Parsed(r, x, b) : ReceiveMessage(r, m)
  BY DEF Receive
<1>2. /\ Local[r] \in Party /\ Local[x] \in Party /\ b \in 0..MaxBuilds
      /\ receiving \in [Receiving -> ReceivingExchange]
  BY DEF TypeOK
<1>3. /\ receiving'[r].state = IF m.verdict = "refused" THEN "rejected" ELSE "received"
      /\ receiving'[r].message_id = m.message_id
      /\ receiving'[r].signed_references = m.signed_references
      /\ receiving'[r].remote_party = RemoteParty(m, receiving[r].remote_party)
      /\ receiving'[r].receipt = ForMessage(m, Local[r])
      /\ \A q \in Receiving : q # r => receiving'[q] = receiving[q]
  BY <1>1, <1>2 DEF ReceiveMessage
<1>4. OwesIntact(receiving'[r])
  BY <1>3 DEF OwesIntact, ForMessage
<1>5. CASE m.verdict = "refused"
  BY <1>3, <1>4, <1>5 DEF NamesSender, Receive
<1>6. CASE m.verdict # "refused"
  <2>1. /\ m.message_id = x /\ Local[x] # None
        /\ \/ m.signer_certificate = Local[x]
           \/ m.signed_references = {} /\ r \in SignOptional
        /\ m.signed_references = {} => r \in SignOptional
    <3>1. References(x, b) # {}
      BY DEF References
    <3> QED
      BY <1>2, <1>6, <3>1, ParsedType
  <2>2. m.signed_references # {} => RemoteParty(m, receiving[r].remote_party) = Local[x]
    BY <2>1 DEF RemoteParty
  <2> QED
    BY <1>3, <1>4, <2>1, <2>2 DEF NamesSender, Receive
<1> QED
  BY <1>5, <1>6

\* What a restore leaves behind says what the snapshot said.
LEMMA RestoredRecord ==
    ASSUME TypeOK, NEW r \in Receiving, RestoreReceiving(r)
    PROVE  /\ stored[r] \in ReceivingExchange /\ stored[r] # None
           /\ receiving'[r].state = stored[r].state
           /\ receiving'[r].message_id = stored[r].message_id
           /\ receiving'[r].signed_references = stored[r].signed_references
           /\ receiving'[r].remote_party = stored[r].remote_party
           /\ receiving'[r].receipt = Reserialised(stored[r].receipt)
           /\ \A q \in Receiving : q # r => receiving'[q] = receiving[q]
<1>1. stored[r] \in ReceivingExchange /\ stored[r] # None
  BY ConstantsAssumption DEF RestoreReceiving, TypeOK, Snapshot
<1>2. receiving'[r] = RestoredFrom(stored[r])
  BY DEF RestoreReceiving, TypeOK
<1>3. \A q \in Receiving : q # r => receiving'[q] = receiving[q]
  BY DEF RestoreReceiving, TypeOK
<1> QED
  BY <1>1, <1>2, <1>3 DEF RestoredFrom, ReceivingExchange

\* A snapshot of a receiving exchange is the exchange.
LEMMA StoredRecord ==
    ASSUME TypeOK, NEW e \in Durable, Store(e), NEW r \in Receiving
    PROVE  stored'[r] \in {stored[r], receiving[r]}
BY ConstantsAssumption DEF Store, TypeOK

\* Every step keeps the senders named.
LEMMA NextNames == TypeOK /\ ReceiversName /\ [Next]_vars => ReceiversName'
<1> SUFFICES ASSUME TypeOK, ReceiversName, [Next]_vars
             PROVE  ReceiversName'
  OBVIOUS
<1>1. CASE UNCHANGED <<receiving, stored>>
  BY <1>1 DEF ReceiversName, NamesSender
<1>2. ASSUME NEW x \in Sending, NEW r \in Receiving, NEW b \in 1..MaxBuilds, Receive(r, x, b)
      PROVE  ReceiversName'
  BY <1>2, ReceivedRecord DEF ReceiversName, NamesSender
<1>3. ASSUME NEW r \in Receiving, RestoreReceiving(r)
      PROVE  ReceiversName'
  <2>1. UNCHANGED stored
    BY <1>3 DEF RestoreReceiving
  <2>2. NamesSender(r, receiving'[r])
    BY <1>3, RestoredRecord DEF ReceiversName, NamesSender
  <2> QED
    BY <1>3, <2>1, <2>2, RestoredRecord DEF ReceiversName, NamesSender
<1>4. ASSUME NEW e \in Durable, Store(e)
      PROVE  ReceiversName'
  <2>1. UNCHANGED receiving
    BY <1>4 DEF Store
  <2> QED
    BY <1>4, <2>1, StoredRecord DEF ReceiversName, NamesSender
<1>5. CASE Next
  BY <1>1, <1>2, <1>3, <1>4, <1>5
     DEF Next, Build, RequireReferences, MarkSent, ReceiveSignal, RestoreSending, BuildSignal
<1> QED
  BY <1>1, <1>5 DEF vars

\* A receiving exchange in state received names the access point that signed
\* the message it holds, however often it was reused or restored, unless that
\* was unsigned and its policy let it.
THEOREM SenderNamed == Spec => []AcceptedNamesItsSender
<1>1. Init => ReceiversName
  BY ConstantsAssumption DEF Init, ReceiversName, NamesSender
<1>2. ReceiversName => AcceptedNamesItsSender
  BY DEF ReceiversName, NamesSender, AcceptedNamesItsSender
<1> QED
  BY <1>1, <1>2, NextNames, TypeCorrect, PTL DEF Spec

\* A receipt that quotes no wildcard content comes back as it was stored.
LEMMA ReserialisedIntact ==
    ASSUME ForeignBuilt = {}, NEW s \in Signal, s.intact = TRUE
    PROVE  Reserialised(s).intact = TRUE
<1>1. CASE s = None
  BY <1>1 DEF Reserialised
<1>2. CASE s # None
  <2>1. ~CarriesWildcards(s)
    BY DEF CarriesWildcards
  <2>2. Reserialised(s) = [s EXCEPT !.intact = s.intact /\ ~CarriesWildcards(s)]
    BY <1>2 DEF Reserialised
  <2>3. (s.intact /\ ~CarriesWildcards(s)) = TRUE
    BY <2>1
  <2> QED
    BY <2>2, <2>3 DEF Signal
<1> QED
  BY <1>1, <1>2

\* Every step keeps the signals intact.
LEMMA NextIntact ==
    ASSUME ForeignBuilt = {}, TypeOK, ReceiversOweIntact, [Next]_vars
    PROVE  ReceiversOweIntact'
<1>1. CASE UNCHANGED <<receiving, stored, signals>>
  BY <1>1 DEF ReceiversOweIntact, OwesIntact
<1>2. ASSUME NEW x \in Sending, NEW r \in Receiving, NEW b \in 1..MaxBuilds, Receive(r, x, b)
      PROVE  ReceiversOweIntact'
  BY <1>2, ReceivedRecord DEF ReceiversOweIntact, OwesIntact
<1>3. ASSUME NEW r \in Receiving, RestoreReceiving(r)
      PROVE  ReceiversOweIntact'
  <2>1. UNCHANGED <<stored, signals>>
    BY <1>3 DEF RestoreReceiving
  <2>2. stored[r].receipt \in Signal \cup {None} /\ OwesIntact(stored[r])
    BY <1>3, RestoredRecord DEF ReceivingExchange, ReceiversOweIntact
  <2>3. CASE stored[r].receipt = None
    BY <1>3, <2>1, <2>3, RestoredRecord DEF ReceiversOweIntact, OwesIntact, Reserialised
  <2>4. CASE stored[r].receipt # None
    <3>1. receiving'[r].receipt.intact = TRUE
      BY <1>3, <2>2, <2>4, RestoredRecord, ReserialisedIntact DEF OwesIntact
    <3> QED
      BY <1>3, <2>1, <3>1, RestoredRecord DEF ReceiversOweIntact, OwesIntact
  <2> QED
    BY <2>3, <2>4
<1>4. ASSUME NEW e \in Durable, Store(e)
      PROVE  ReceiversOweIntact'
  <2>1. UNCHANGED <<receiving, signals>>
    BY <1>4 DEF Store
  <2> QED
    BY <1>4, <2>1, StoredRecord DEF ReceiversOweIntact, OwesIntact
<1>5. ASSUME NEW r \in Receiving, BuildSignal(r)
      PROVE  ReceiversOweIntact'
  BY <1>5 DEF BuildSignal, ReceiversOweIntact, OwesIntact
<1>6. CASE Next
  BY <1>1, <1>2, <1>3, <1>4, <1>5, <1>6
     DEF Next, Build, RequireReferences, MarkSent, ReceiveSignal, RestoreSending
<1> QED
  BY <1>1, <1>6 DEF vars

\* Where no message carries wildcard content, every signal build_signal ever
\* emits matches its signature, however often the exchange was restored.
THEOREM SignalsVerifiable ==
    ASSUME ForeignBuilt = {}
    PROVE  Spec => []SignalsStayVerifiable
<1>1. Init => ReceiversOweIntact
  BY ConstantsAssumption DEF Init, ReceiversOweIntact, OwesIntact
<1>2. TypeOK /\ ReceiversOweIntact /\ [Next]_vars => ReceiversOweIntact'
  BY NextIntact
<1>3. ReceiversOweIntact => SignalsStayVerifiable
  BY DEF ReceiversOweIntact, SignalsStayVerifiable
<1> QED
  BY <1>1, <1>2, <1>3, TypeCorrect, PTL DEF Spec

-----------------------------------------------------------------------------
(* Refinement *)

\* The mapping of ExchangeRefinement, spelled out.
Status == [x \in Sending |-> AbstractStatus(sending[x].state)]
Claim == [x \in Sending |-> sending[x].signed_references]
DeliveredTo == {<<a[2], a[3]>> : a \in {a \in accepted : a[1] = Remote[a[2]]}}
Declined == {x \in Sending : <<Remote[x], x>> \in refused}

\* Initial states map to initial states.
LEMMA InitRefines == Init => DeliveryOf!Init
BY DEF Init, DeliveryOf!Init, AbstractStatus, Claims

\* What a sending exchange has on record, and what it may be told, are claims.
LEMMA ReferencesAreClaims ==
    ASSUME NEW x \in Sending, NEW n \in 0..MaxBuilds, NEW b \in 1..n
    PROVE  References(x, b) \in Claims
<1>1. b \in 1..MaxBuilds
  BY ConstantsAssumption
<1> QED
  BY <1>1 DEF Claims

\* An acceptance by the intended access point is a delivery.
LEMMA AcceptedIsDelivered ==
    ASSUME NEW x \in Sending, NEW references, <<Remote[x], x, references>> \in accepted
    PROVE  <<x, references>> \in DeliveredTo
<1> DEFINE a == <<Remote[x], x, references>>
<1>1. a \in {c \in accepted : c[1] = Remote[c[2]]}
  OBVIOUS
<1>2. <<x, references>> = <<a[2], a[3]>>
  OBVIOUS
<1> HIDE DEF a
<1> QED
  BY <1>1, <1>2 DEF DeliveredTo

\* One more acceptance is one more delivery if it is by the intended access
\* point, and none otherwise.
LEMMA DeliveredGrows ==
    ASSUME NEW acc, NEW p, NEW x \in Sending, NEW references
    PROVE  {<<a[2], a[3]>> :
               a \in {a \in acc \cup {<<p, x, references>>} : a[1] = Remote[a[2]]}}
           = {<<a[2], a[3]>> : a \in {a \in acc : a[1] = Remote[a[2]]}}
             \cup (IF p = Remote[x] THEN {<<x, references>>} ELSE {})
<1> DEFINE new == <<p, x, references>>
           Intended(S) == {a \in S : a[1] = Remote[a[2]]}
           Pair(a) == <<a[2], a[3]>>
<1>1. Intended(acc \cup {new}) = Intended(acc) \cup (IF p = Remote[x] THEN {new} ELSE {})
  OBVIOUS
<1>2. Pair(new) = <<x, references>>
  OBVIOUS
<1>3. /\ {Pair(a) : a \in Intended(acc) \cup {new}}
           = {Pair(a) : a \in Intended(acc)} \cup {Pair(new)}
      /\ {Pair(a) : a \in Intended(acc) \cup {}} = {Pair(a) : a \in Intended(acc)} \cup {}
  <2> HIDE DEF Pair, Intended, new
  <2> QED
    OBVIOUS
<1>4. CASE p = Remote[x]
  BY <1>1, <1>2, <1>3, <1>4
<1>5. CASE p # Remote[x]
  BY <1>1, <1>3, <1>5
<1> QED
  BY <1>4, <1>5

Belief ==
    \A x \in Sending : /\ DeliveryOf!Justified(x, Status[x], Claim[x])
                       /\ Status[x] \in DeliveryOf!Status
                       /\ Claim[x] \in Claims

\* A justified sender record is a justified belief.
LEMMA JustifiedRefines ==
    ASSUME Inv, NEW x \in Sending
    PROVE  /\ DeliveryOf!Justified(x, Status[x], Claim[x])
           /\ Status[x] \in DeliveryOf!Status
           /\ Claim[x] \in Claims
<1>1. Justified(x, sending[x], builds, accepted, refused) /\ builds[x] \in 0..MaxBuilds
  BY DEF Inv, SendersJustified, TypeOK
<1>2. Status[x] = AbstractStatus(sending[x].state) /\ Claim[x] = sending[x].signed_references
  BY DEF Status, Claim
<1>3. Status[x] \in DeliveryOf!Status
  BY <1>2 DEF AbstractStatus, DeliveryOf!Status
<1>4. Claim[x] \in Claims
  <2>1. CASE Claim[x] = {}
    BY <2>1 DEF Claims
  <2>2. CASE \E b \in 1..builds[x] : Claim[x] = References(x, b)
    BY <1>1, <2>2, ReferencesAreClaims
  <2> QED
    BY <1>1, <1>2, <2>1, <2>2 DEF Justified, OnRecord
<1>5. ASSUME Status[x] = "acknowledged"
      PROVE  <<x, Claim[x]>> \in DeliveredTo
  <2>1. sending[x].state = "acknowledged"
    BY <1>2, <1>5 DEF AbstractStatus
  <2>2. <<Remote[x], x, Claim[x]>> \in accepted
    BY <1>1, <1>2, <2>1 DEF Justified, Took
  <2> QED
    BY <2>2, AcceptedIsDelivered
<1>6. ASSUME Status[x] = "rejected"
      PROVE  x \in Declined
  <2>1. sending[x].state = "rejected"
    BY <1>2, <1>6 DEF AbstractStatus
  <2> QED
    BY <1>1, <2>1 DEF Justified, Declined
<1>7. ASSUME Status[x] = "failed"
      PROVE  \E d \in Claims : <<x, d>> \in DeliveredTo
  <2>1. sending[x].state = "failed"
    BY <1>2, <1>7 DEF AbstractStatus
  <2> DEFINE d == sending[x].receipt.acknowledged
  <2>2. Took(Remote[x], x, d, builds, accepted)
    BY <1>1, <2>1 DEF Justified
  <2> HIDE DEF d
  <2>3. d \in Claims
    BY <1>1, <2>2, ReferencesAreClaims DEF Took, Claims
  <2>4. <<x, d>> \in DeliveredTo
    BY <2>2, AcceptedIsDelivered DEF Took
  <2> QED
    BY <2>3, <2>4
<1> QED
  BY <1>3, <1>4, <1>5, <1>6, <1>7 DEF DeliveryOf!Justified, DeliveredTo, Declined

\* Every step maps to a step of Delivery or a stutter.
LEMMA NextRefines ==
    ASSUME Inv, Belief', [Next]_vars
    PROVE  [DeliveryOf!Next]_(DeliveryOf!vars)
<1> USE ConstantsAssumption
<1>0. TypeOK /\ sending \in [Sending -> SendingExchange]
  BY DEF Inv, TypeOK
<1>1. CASE UNCHANGED <<sending, accepted, refused>>
  BY <1>1 DEF DeliveryOf!vars
<1>2. ASSUME NEW x \in Sending, UNCHANGED <<accepted, refused>>,
             \A y \in Sending : y # x => sending'[y] = sending[y]
      PROVE  DeliveryOf!Next
  <2>1. PICK s \in DeliveryOf!Status, c \in Claims : s = Status'[x] /\ c = Claim'[x]
    BY DEF Belief, DeliveryOf!Status
  <2>2. DeliveryOf!Justified(x, s, c)
    BY <1>2, <2>1 DEF Belief, DeliveryOf!Justified
  <2>3. Status' = [Status EXCEPT ![x] = s] /\ Claim' = [Claim EXCEPT ![x] = c]
    BY <1>2, <2>1 DEF Status, Claim
  <2>4. DeliveredTo' = DeliveredTo /\ Declined' = Declined
    BY <1>2 DEF DeliveredTo, Declined
  <2>5. DeliveryOf!Believe(x, s, c)
    BY <2>2, <2>3, <2>4 DEF DeliveryOf!Believe, Status, Claim, DeliveredTo, Declined
  <2> QED
    BY <2>5 DEF DeliveryOf!Next
<1>3. ASSUME NEW x \in Sending, NEW r \in Receiving, NEW b \in 1..MaxBuilds, Receive(r, x, b)
      PROVE  [DeliveryOf!Next]_(DeliveryOf!vars)
  <2>1. PICK m \in Parsed(r, x, b) :
          IF m.verdict = "refused"
          THEN /\ refused' = refused \cup {<<Local[r], id>> : id \in {m.message_id} \ {None}}
               /\ UNCHANGED accepted
          ELSE /\ accepted' = accepted \cup {<<Local[r], x, m.signed_references>>}
               /\ UNCHANGED refused
    BY <1>3 DEF Receive
  <2>2. UNCHANGED sending /\ b \in 0..MaxBuilds /\ Local[r] \in Party
    BY <1>3 DEF Receive
  <2>3. CASE m.verdict = "refused"
    <3>1. DeliveredTo' = DeliveredTo
      BY <2>1, <2>3 DEF DeliveredTo
    <3>2. m.message_id \in {x, None}
      BY <2>2, ParsedType
    <3>3. Declined' = Declined \/ Declined' = Declined \cup {x}
      BY <2>1, <2>3, <3>2 DEF Declined
    <3>4. Status' = Status /\ Claim' = Claim
      BY <2>2 DEF Status, Claim
    <3>5. CASE Declined' = Declined
      BY <3>1, <3>4, <3>5 DEF DeliveryOf!vars, Status, Claim, DeliveredTo, Declined
    <3>6. CASE Declined' = Declined \cup {x}
      <4>1. DeliveryOf!Decline(x)
        BY <3>1, <3>4, <3>6 DEF DeliveryOf!Decline, Status, Claim, DeliveredTo, Declined
      <4> QED
        BY <4>1 DEF DeliveryOf!Next
    <3> QED
      BY <3>3, <3>5, <3>6
  <2>4. CASE m.verdict # "refused"
    <3> DEFINE refs == m.signed_references
    <3>1. refs \in Claims
      BY <2>2, <2>4, ParsedType DEF Claims
    <3>2. Declined' = Declined
      BY <2>1, <2>4 DEF Declined
    <3>3. accepted' = accepted \cup {<<Local[r], x, refs>>}
      BY <2>1, <2>4
    <3> HIDE DEF refs
    <3>4. DeliveredTo' = DeliveredTo \cup (IF Local[r] = Remote[x] THEN {<<x, refs>>} ELSE {})
      BY <3>3, DeliveredGrows DEF DeliveredTo
    <3>5. Status' = Status /\ Claim' = Claim
      BY <2>2 DEF Status, Claim
    <3>6. CASE Local[r] = Remote[x]
      <4>1. DeliveredTo' = DeliveredTo \cup {<<x, refs>>}
        BY <3>4, <3>6
      <4>2. DeliveryOf!Deliver(x, refs)
        BY <3>2, <4>1, <3>5 DEF DeliveryOf!Deliver, Status, Claim, DeliveredTo, Declined
      <4> QED
        BY <3>1, <4>2 DEF DeliveryOf!Next
    <3>7. CASE Local[r] # Remote[x]
      <4>1. DeliveredTo' = DeliveredTo
        BY <3>4, <3>7
      <4> QED
        BY <3>2, <3>5, <4>1 DEF DeliveryOf!vars, Status, Claim, DeliveredTo, Declined
    <3> QED
      BY <3>6, <3>7
  <2> QED
    BY <2>3, <2>4
<1>4. ASSUME NEW x \in Sending,
             \/ Build(x) \/ MarkSent(x) \/ RestoreSending(x)
             \/ \E parts \in Requirable : RequireReferences(x, parts)
             \/ \E s \in signals : ReceiveSignal(x, s)
      PROVE  DeliveryOf!Next
  <2>1. UNCHANGED <<accepted, refused>> /\ \A y \in Sending : y # x => sending'[y] = sending[y]
    BY <1>0, <1>4 DEF Build, MarkSent, RestoreSending, RequireReferences, ReceiveSignal
  <2> QED
    BY <1>2, <2>1
<1>5. CASE \/ \E r \in Receiving : BuildSignal(r) \/ RestoreReceiving(r)
           \/ \E e \in Durable : Store(e)
           \/ UNCHANGED vars
  BY <1>1, <1>5 DEF BuildSignal, RestoreReceiving, Store, vars
<1> QED
  BY <1>3, <1>4, <1>5 DEF Next

\* Each verb of a sending exchange moves it to a state the far side's conduct
\* justifies at that very step: AS4Exchange implements Delivery.
THEOREM Refinement == Spec => ImplementsDelivery
<1>1. Inv => Belief
  BY JustifiedRefines DEF Belief
<1>2. Inv /\ Belief' /\ [Next]_vars => [DeliveryOf!Next]_(DeliveryOf!vars)
  BY NextRefines
<1> QED
  BY InitRefines, <1>1, <1>2, Invariance, PTL
     DEF Spec, ImplementsDelivery, DeliveryOf!Spec

=============================================================================
