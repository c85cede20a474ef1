----------------------------- MODULE MCCampaign ------------------------------
(* Requests for one slot, for all and for one that does not exist.          *)
EXTENDS Campaign

Bare == [seed |-> "calc", variant |-> "stripped"]
MCRequests == {<<Bare>>, <<>>, <<Unknown>>}
=============================================================================
