---------------------------- MODULE MCMarketFeed ----------------------------
(* Instances of MarketFeed: instruments and requests are interchangeable.     *)
EXTENDS MarketFeed, TLC

Symmetry == Permutations(Codes) \union Permutations(Requests)
=============================================================================
