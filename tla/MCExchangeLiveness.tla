------------------------- MODULE MCExchangeLiveness -------------------------
(* One message built up to twice, and three requests that carry it: two to *)
(* its intended access point, one of which takes unsigned messages, and    *)
(* one misdirected.                                                        *)
EXTENDS MCExchange, ExchangeLiveness

CONSTANTS r2, r3

ThreeRequests == {r1, r2, r3}
ThreeRequestsLocal == (x1 :> a1) @@ (r1 :> b1) @@ (r2 :> b1) @@ (r3 :> b2)
=============================================================================
