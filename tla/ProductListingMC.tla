-------------------------- MODULE ProductListingMC --------------------------
(* A small instance of ProductListing for TLC.                             *)
EXTENDS ProductListing

CONSTANTS b1, b2, n1

(* A batch of three products, none of which matches, and one of one.       *)
SomeProducts ==
    [b \in Batches \cup {All} |->
        [n \in Names |-> IF n = n1 THEN IF b = b1 THEN 0 ELSE 1
                         ELSE IF b = b2 THEN 1 ELSE 3]]
=============================================================================
