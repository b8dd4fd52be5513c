--------------------------- MODULE MCMarketplaceReview ---------------------------
(* Instances of MarketplaceReview for TLC. *)
EXTENDS MarketplaceReview, TLC

\* all reviews are one user's, and all other requests another's
OnePerRole == [r \in Requests |-> r \in Reviews]

Symmetry == Permutations(Reviews) \cup Permutations(Owners)
=============================================================================
