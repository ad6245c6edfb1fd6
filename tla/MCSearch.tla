------------------------------ MODULE MCSearch ------------------------------
(* One query with a second page, and one without. *)
EXTENDS Search

MCHits == [light |-> <<"gen1_3", "jhn1_5", "jhn8_12">>, ark |-> <<"gen6_14">>]
=============================================================================
