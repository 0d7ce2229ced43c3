------------------------- MODULE ExchangeRefinement -------------------------
(***************************************************************************)
(* AS4Exchange implements Delivery: the state of a sending exchange, as    *)
(* far as it says anything about the far side, is a justified belief.      *)
(***************************************************************************)
EXTENDS AS4Exchange

\* Everything signed_references can hold.
Claims == {{}} \cup {References(x, b) : x \in Sending, b \in 1..MaxBuilds}

AbstractStatus(state) ==
    IF state \in {"acknowledged", "rejected", "failed"} THEN state ELSE "open"

DeliveryOf == INSTANCE Delivery WITH
    Message <- Sending,
    Claim <- Claims,
    status <- [x \in Sending |-> AbstractStatus(sending[x].state)],
    claim <- [x \in Sending |-> sending[x].signed_references],
    delivered <- {<<a[2], a[3]>> : a \in {a \in accepted : a[1] = Remote[a[2]]}},
    declined <- {x \in Sending : <<Remote[x], x>> \in refused}

\* Each verb of a sending exchange moves it to a state the far side's conduct
\* justifies at that very step, and only the intended access point's parse
\* verdicts count as delivery or refusal.
ImplementsDelivery == DeliveryOf!Spec
=============================================================================
