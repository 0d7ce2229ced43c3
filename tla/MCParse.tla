------------------------------- MODULE MCParse -------------------------------
(* Small sets of messages and policies for the parser. *)
EXTENDS PeppolParse

CONSTANTS a1, a2

\* What the library's own builder produces: one attachment, signed,
\* encrypted and compressed.
Sound ==
    [faults |-> {}, signed |-> TRUE,
     refs |-> {[target |-> t, digest |-> "match"] : t \in {"messaging", "body", a1}},
     parts |-> <<[href |-> a1, gzip |-> TRUE]>>,
     encrypted |-> TRUE, ciphers |-> {[target |-> a1, ok |-> TRUE]},
     mime |-> {a1}, first |-> a1,
     layers |-> [a \in Attachment |-> 1], size |-> [a \in Attachment |-> 2]]

Unsigned(m) == [m EXCEPT !.signed = FALSE, !.refs = {}]
Unencrypted(m) == [m EXCEPT !.encrypted = FALSE, !.ciphers = {}]

\* The sound message with up to two checks failing, signed and encrypted or not.
Faulty ==
    LET with(m, f) == [m EXCEPT !.faults = f,
                         !.parts = IF {"userMessage", "payloadInfo"} \cap f = {} THEN @ ELSE <<>>]
    IN  {with(m, f \cup g) : m \in {Sound, Unsigned(Sound), Unencrypted(Sound),
                                    Unsigned(Unencrypted(Sound))},
                             f \in {{x} : x \in Fault}, g \in {{}} \cup {{x} : x \in Fault}}

\* Messages without a failing check, whose references, attachments and parts
\* need not fit together.
RefSets == {{[target |-> t, digest |-> IF t = w THEN d ELSE "match"] : t \in T} :
              T \in SUBSET {"messaging", "body", "nothing", a1, a2}
                   \cup SUBSET {"messagingElsewhere", "body", a1},
              w \in {"body", a1}, d \in {"match", "mismatch", "unsupported"}}

PartSeqs == {<<>>} \cup {<<p>> : p \in [href : {a1, a2, None}, gzip : BOOLEAN]}
            \cup {<<[href |-> a1, gzip |-> TRUE], [href |-> h, gzip |-> g]>> :
                    h \in {a1, a2}, g \in BOOLEAN}

Loose ==
    {[Sound EXCEPT !.refs = r, !.parts = p, !.ciphers = c, !.mime = {a1, a2},
                   !.layers = [a \in Attachment |-> z[1]], !.size = [a \in Attachment |-> z[2]]] :
       r \in RefSets, p \in PartSeqs,
       c \in {{}, {[target |-> a1, ok |-> TRUE]}, {[target |-> a2, ok |-> TRUE]},
              {[target |-> a1, ok |-> TRUE], [target |-> a2, ok |-> TRUE]},
              {[target |-> a1, ok |-> FALSE]}},
       z \in {<<0, 2>>, <<1, 2>>, <<1, 3>>, <<2, 2>>}}

Packaged ==
    {[Sound EXCEPT !.mime = m, !.first = IF a1 \in m THEN a1 ELSE IF a2 \in m THEN a2 ELSE None,
                   !.ciphers = c, !.parts = p] :
       m \in SUBSET {a1, a2}, p \in PartSeqs,
       c \in {{}, {[target |-> a1, ok |-> TRUE]}, {[target |-> None, ok |-> TRUE]}}}

Default ==
    [sign_required |-> TRUE, encrypt_required |-> TRUE, resolver_set |-> TRUE,
     required_coverage |-> Coverage, verify_digests |-> TRUE,
     verify_participants |-> TRUE, acceptor_set |-> TRUE,
     maximum_decompressed_size |-> 2]

\* The default policy with each switch thrown.
Relaxed ==
    {Default,
     [Default EXCEPT !.sign_required = FALSE],
     [Default EXCEPT !.encrypt_required = FALSE],
     [Default EXCEPT !.sign_required = FALSE, !.encrypt_required = FALSE],
     [Default EXCEPT !.resolver_set = FALSE],
     [Default EXCEPT !.required_coverage = {"messaging"}],
     [Default EXCEPT !.verify_digests = FALSE],
     [Default EXCEPT !.verify_digests = FALSE, !.encrypt_required = FALSE],
     [Default EXCEPT !.verify_participants = FALSE],
     [Default EXCEPT !.acceptor_set = FALSE]}

Strictest == {Default}
DigestPolicies == {Default, [Default EXCEPT !.verify_digests = FALSE],
                   [Default EXCEPT !.required_coverage = {"messaging"}]}
FaultyOrPackaged == Faulty \cup Packaged \cup {Sound}
=============================================================================
