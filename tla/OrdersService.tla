--------------------------- MODULE OrdersService ---------------------------
(***************************************************************************)
(* OrdersService.create(): a user orders every item of a closed auction on *)
(* which a bid of the user is left.  It reads the user's bids, populates   *)
(* their items, stores the order and deletes the bids it is made from, one *)
(* call after the other.                                                   *)
(*                                                                         *)
(* fetched, priced and clearing are the requests that await the second,    *)
(* the third and the last of these calls, each as the order it is making.  *)
(* exposed is history: the users who sent a request while another of       *)
(* theirs was under way, or whose request ended before it had deleted the  *)
(* bids of the order it had stored.                                        *)
(***************************************************************************)
EXTENDS AuctionDB

VARIABLES fetched, priced, clearing, exposed

ordersVars == <<fetched, priced, clearing, exposed>>

UnderWay == fetched \cup priced \cup clearing

OrdersTypeOK ==
    /\ fetched \subseteq Order
    /\ priced \subseteq Order
    /\ clearing \subseteq orders
    /\ exposed \subseteq Users

OrdersInit ==
    /\ fetched = {}
    /\ priced = {}
    /\ clearing = {}
    /\ exposed = {}

\* bidsService.findAll(user); with no bid at all the request ends with 404.
FetchBids(n, u) ==
    /\ \A o \in fetched \cup priced \cup orders : o.number # n
    /\ \E b \in bids : b.user = u
    /\ fetched' = fetched \cup
          {[number |-> n, user |-> u, lines |-> {b \in bids : b.user = u}]}
    /\ exposed' = IF \E o \in UnderWay : o.user = u
                  THEN exposed \cup {u} ELSE exposed
    /\ UNCHANGED <<dbVars, priced, clearing>>

\* Mutant of ClosedLines: the filter on auctionStatus is forgotten.
AllLines(o) == o.lines

\* populate('item'): only the bids whose item is closed are ordered, which
\* may be none of them.
ClosedLines(o) == {b \in o.lines : ~ auctionStatus[b.item]}

PopulateItems(o) ==
    /\ o \in fetched
    /\ fetched' = fetched \ {o}
    /\ priced' = priced \cup {[o EXCEPT !.lines = ClosedLines(o)]}
    /\ UNCHANGED <<dbVars, clearing, exposed>>

\* Mutant of InsertOrder: ordersModel.create() is forgotten.
InsertOrderNever(o) ==
    /\ o \in priced
    /\ priced' = priced \ {o}
    /\ clearing' = clearing \cup {o}
    /\ UNCHANGED <<dbVars, fetched, exposed>>

InsertOrder(o) ==
    /\ o \in priced
    /\ priced' = priced \ {o}
    /\ orders' = orders \cup {o}
    /\ clearing' = clearing \cup {o}
    /\ UNCHANGED <<day, auctionStatus, rooms, bids, fetched, exposed>>

\* Mutant of DeleteOrderedBids: every bid of the user is deleted.
DeleteBidsOfUser(o) ==
    /\ o \in clearing
    /\ clearing' = clearing \ {o}
    /\ bids' = {b \in bids : b.user # o.user}
    /\ UNCHANGED <<day, auctionStatus, rooms, orders, fetched, priced, exposed>>

\* Mutant of DeleteOrderedBids: deleteAll() is forgotten.
KeepOrderedBids(o) ==
    /\ o \in clearing
    /\ clearing' = clearing \ {o}
    /\ UNCHANGED <<dbVars, fetched, priced, exposed>>

\* bidsService.deleteAll()
DeleteOrderedBids(o) ==
    /\ o \in clearing
    /\ clearing' = clearing \ {o}
    /\ bids' = bids \ o.lines
    /\ UNCHANGED <<day, auctionStatus, rooms, orders, fetched, priced, exposed>>

\* The instance stops or a call rejects: what was written stays.
OrderLost(o) ==
    /\ o \in UnderWay
    /\ fetched' = fetched \ {o}
    /\ priced' = priced \ {o}
    /\ clearing' = clearing \ {o}
    /\ exposed' = IF o \in clearing THEN exposed \cup {o.user} ELSE exposed
    /\ UNCHANGED dbVars

OrdersNext ==
    \/ \E n \in OrderNumbers, u \in Users : FetchBids(n, u)
    \/ \E o \in fetched : PopulateItems(o)
    \/ \E o \in priced : InsertOrder(o)
    \/ \E o \in clearing : DeleteOrderedBids(o)

=============================================================================
