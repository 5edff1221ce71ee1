----------------------------- MODULE MCAuction -----------------------------
(* Auction on small instances: the auctions of all items but the last are  *)
(* over at the first midnight, the last one's at the second.               *)
EXTENDS Auction, TLC

MCStartDay == [i \in Items |-> 0]
MCEndDay == [i \in Items |-> IF i < NumItems \/ NumItems = 1 THEN 0 ELSE 1]
MCInitialBid == [i \in Items |-> 1]

\* Every item has a room, or every item but the last, whose room create()
\* should add.
MCSeedRooms == Items
MCSeedButLast == 1 .. NumItems - 1

Symmetry == Permutations(BidIds) \cup Permutations(OrderNumbers)
            \cup Permutations(Instances) \cup Permutations(Users)

=============================================================================
