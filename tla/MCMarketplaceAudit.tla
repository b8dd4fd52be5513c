------------------------- MODULE MCMarketplaceAudit -------------------------
(* Instances of MarketplaceAudit for TLC. *)
EXTENDS MarketplaceAudit

SecondRun == {2}
=============================================================================
