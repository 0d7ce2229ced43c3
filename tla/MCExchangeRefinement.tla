------------------------ MODULE MCExchangeRefinement ------------------------
(* The instances of MCExchange, for the refinement of Delivery. *)
EXTENDS MCExchange, ExchangeRefinement
=============================================================================
