--------------------------- MODULE MCBidsGateway ---------------------------
(* BidsGateway with one browser, in which one account may follow another.  *)
EXTENDS BidsGateway, TLC

CONSTANT w1

MCBrowserOf == [p \in Pages |-> w1]

Symmetry == Permutations(Users) \cup Permutations(BidIds)
            \cup Permutations(Pages)

=============================================================================
