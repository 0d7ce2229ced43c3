---------------------------- MODULE MCExchange ----------------------------
(* Small instances of AS4Exchange for TLC. *)
EXTENDS AS4Exchange, TLC

CONSTANTS x1, x2, r1, a1, a2, b1, b2

\* One message from a1 to b1, built up to twice.
OneSender == {x1}
OneReceiver == {r1}
OneSenderLocal == (x1 :> a1) @@ (r1 :> b1)
OneSenderRemote == x1 :> b1
BodyOnly == {{"body"}}

\* Two messages, from a1 to b1 and from a2 to b2, both of which reach b1.
TwoSenders == {x1, x2}
TwoPartiesLocal == (x1 :> a1) @@ (x2 :> a2) @@ (r1 :> b1)
TwoPartiesRemote == (x1 :> b1) @@ (x2 :> b2)
NothingRequired == {}
=============================================================================
