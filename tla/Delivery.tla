------------------------------ MODULE Delivery ------------------------------
(***************************************************************************)
(* What a sending exchange promises its caller: its state is a belief      *)
(* about the far side, and every belief is backed by what happened there.  *)
(* AS4Exchange implements this specification.                              *)
(***************************************************************************)
CONSTANTS
    Message, \* message ids
    Claim    \* what a sender may have on record as signed and sent

VARIABLES
    status,    \* the sender's belief about each message
    claim,     \* what the sender has on record for each message
    delivered, \* <<message, claim>> the intended receiver accepted
    declined   \* messages the intended receiver refused

vars == <<status, claim, delivered, declined>>

Status == {"open", "acknowledged", "rejected", "failed"}

\* The facts that entitle a sender to status s with c on record.
Justified(m, s, c) ==
    /\ s = "acknowledged" => <<m, c>> \in delivered
    /\ s = "rejected" => m \in declined
    /\ s = "failed" => \E d \in Claim : <<m, d>> \in delivered

Init ==
    /\ status = [m \in Message |-> "open"]
    /\ claim \in [Message -> Claim]
    /\ delivered = {}
    /\ declined = {}

\* The intended receiver accepts what was claimed under a message id.
Deliver(m, c) ==
    /\ delivered' = delivered \cup {<<m, c>>}
    /\ UNCHANGED <<status, claim, declined>>

\* The intended receiver refuses a message.
Decline(m) ==
    /\ declined' = declined \cup {m}
    /\ UNCHANGED <<status, claim, delivered>>

\* The sender builds anew, learns from a signal, or comes back from a
\* snapshot: it may hold any belief the facts justify.
Believe(m, s, c) ==
    /\ Justified(m, s, c)
    /\ status' = [status EXCEPT ![m] = s]
    /\ claim' = [claim EXCEPT ![m] = c]
    /\ UNCHANGED <<delivered, declined>>

Next ==
    \E m \in Message :
        \/ \E c \in Claim : Deliver(m, c)
        \/ Decline(m)
        \/ \E s \in Status, c \in Claim : Believe(m, s, c)

Spec == Init /\ [][Next]_vars
=============================================================================
