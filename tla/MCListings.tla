----------------------------- MODULE MCListings -----------------------------
(* Small listings for TLC.  Who adopted what is nothing to the explore       *)
(* screen, where all rows are one wallet's.                                  *)
EXTENDS Listings

OneAdopterIfExplored ==
    filter \in Filters =>
        \E w \in Wallets : \A v \in Verses : row[v].adopter \in {NoAnswer, w}

MCInit == Init /\ OneAdopterIfExplored

\* A bound of the model.
LessHappensOnAProfile == filter \in Wallets => changes + clicks <= 2

MCNext == Next /\ OneAdopterIfExplored' /\ LessHappensOnAProfile'

MCSpec == MCInit /\ [][MCNext]_vars

WalletsAreAlike == Permutations(Wallets)
=============================================================================
