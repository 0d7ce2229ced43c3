------------------------------ MODULE MCSignal ------------------------------
(* Signals with up to two faults and every set of one or two references. *)
EXTENDS SignalParse, TLC

CONSTANTS id1, id2, padded, blank

StripPadding == (id1 :> id1) @@ (id2 :> id2) @@ (padded :> id1) @@ (blank :> None)

Damaged ==
    {[faults |-> f \cup g, kind |-> k, ref_to_message_id |-> id, certificate |-> p, refs |-> r] :
       f \in {{}} \cup {{x} : x \in Fault}, g \in {{x} : x \in Fault},
       k \in {"receipt", "error"}, id \in {id1, None},
       p \in Party, r \in {SignedReferences}}

Loose ==
    {[faults |-> {}, kind |-> k, ref_to_message_id |-> id, certificate |-> p,
      refs |-> {q, r}] :
       k \in {"receipt", "error", "neither"}, id \in Text \cup {None}, p \in Party,
       q, r \in [target : Element, digest : {"match", "mismatch", "unsupported"}]}

AllSignals == Damaged \cup Loose
=============================================================================
