------------------------- MODULE MCListingPipeline -------------------------
(* ListingPipeline for TLC: runs, offers and prices are interchangeable. *)
EXTENDS ListingPipeline, TLC

Symmetry == Permutations(Runs) \cup Permutations(Offers) \cup Permutations(Prices)
=============================================================================
