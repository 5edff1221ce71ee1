------------------------------ MODULE Auction ------------------------------
(***************************************************************************)
(* Bidders, the two midnight jobs and orders, interleaved over one         *)
(* database.                                                               *)
(***************************************************************************)
EXTENDS BidsService, OrdersService

vars == <<dbVars, roomsVars, bidsVars, ordersVars>>

TypeOK == DBTypeOK /\ RoomsTypeOK /\ BidsTypeOK /\ OrdersTypeOK

Init == DBInit /\ RoomsInit /\ BidsInit /\ OrdersInit

Work ==
    \/ RoomsNext /\ UNCHANGED <<bidsVars, ordersVars>>
    \/ BidsNext /\ UNCHANGED ordersVars
    \/ OrdersNext /\ UNCHANGED <<roomsVars, bidsVars>>

\* Whatever is under way may be cut short: there is no transaction to undo
\* what it wrote, and nothing retries it.
Fault ==
    \/ (\E s \in Instances : RunLost(s)) /\ UNCHANGED <<bidsVars, ordersVars>>
    \/ (\E b \in sent \cup accepted : BidLost(b)) /\ UNCHANGED ordersVars
    \/ (\E o \in UnderWay : OrderLost(o))
       /\ UNCHANGED <<roomsVars, bidsVars>>

Next == Work \/ Fault

Spec == Init /\ [][Next]_vars

\* Nothing is cut short.
WorkSpec == Init /\ [][Work]_vars

\* Midnight comes every day and a job that has started goes on: the event loop
\* resolves every await.
Fairness ==
    /\ WF_vars(Midnight /\ UNCHANGED <<bidsVars, ordersVars>>)
    /\ \A s \in Instances :
          /\ WF_vars(Delete(s) /\ UNCHANGED <<bidsVars, ordersVars>>)
          /\ WF_vars(Create(s) /\ UNCHANGED <<bidsVars, ordersVars>>)

FairSpec == WorkSpec /\ Fairness

-----------------------------------------------------------------------------
(* What the auction promises. *)

OnTime(i) == \A b \in late : b.item # i

\* No bid ever placed on the item of b costs as much as b.
Wins(b) ==
    /\ b \in placed
    /\ \A c \in placed : c.item = b.item /\ c # b => c.price < b.price

Ordered(b) == \E o \in orders : o.user = b.user /\ b \in o.lines

\* The winning bid of an auction no bid arrived late at is never lost: it is
\* stored until its bidder orders it, whatever the two instances' runs of
\* delete(), the orders of other bidders and interrupted runs do
\* (rooms.service.ts delete(), orders.service.ts create()).
WinnerKept ==
    \A b \in placed : Wins(b) /\ OnTime(b.item) => b \in bids \/ Ordered(b)

\* Once the room is gone no loser's bid is left to order: of an auction no bid
\* arrived late at, at most one bid remains (rooms.service.ts delete(): the
\* losers are deleted before the room).
OnlyWinnerLeft ==
    \A i \in Items \ rooms : OnTime(i) =>
        \A b, c \in BidsOn(i) : b = c

\* An order holds items of closed auctions only, although their status was
\* read two calls before the order is stored (orders.service.ts create()).
OrderedItemsAreClosed ==
    \A o \in orders : \A b \in o.lines : ~ auctionStatus[b.item]

\* A user whose requests come one after the other and are not cut short after
\* the order is stored never orders a bid twice, whatever other users and the
\* midnight jobs do in between (orders.service.ts create(), deleteAll()).
OrderedOnceInTurn ==
    \A o, p \in orders :
        o.lines \cap p.lines # {} /\ o.user \notin exposed => o = p

\* A room is dropped after its item was marked as closed, so an item without
\* a room is never shown as open (rooms.service.ts delete()).
ClosedBeforeRoomGone == \A i \in Items : auctionStatus[i] => i \in rooms

\* No step takes a bid away while its auction is open: neither the job that
\* prunes losers nor an order deletes a bid of an open item
\* (bids.service.ts deleteAllButHighest(), deleteAll()).
NoBidLostWhileOpen ==
    [][\A b \in bids : b \notin bids' => ~ auctionStatus[b.item]]_vars

\* A midnight at which every earlier item that is out of its window still has
\* its room drops the room of i as well, whichever instances' runs get in each
\* other's way (rooms.service.ts delete()).
Unblocked(s, i) ==
    /\ closer[s].pc = "scan" /\ closer[s].at = 1
    /\ OutOfWindow(i)
    /\ \A j \in 1 .. i : OutOfWindow(j) => j \in rooms

MidnightDropsRooms ==
    \A s \in Instances, i \in Items : Unblocked(s, i) ~> i \notin rooms

\* The run of delete() on s will find every room it still needs up to that of
\* i, the one it is at unless it has already looked it up.
Reaches(s, i) ==
    /\ closer[s].pc # "idle"
    /\ OutOfWindow(i)
    /\ closer[s].at <= i
    /\ \A j \in closer[s].at .. i : OutOfWindow(j) =>
          \/ j \in rooms
          \/ j = closer[s].at /\ closer[s].pc \in {"top", "save", "prune", "drop"}

OnTheWay(i) == \E s \in Instances : Reaches(s, i)

\* While some run is on its way to the room of i, one is until the room is
\* gone: when another instance drops a room first, the run that finds it
\* missing throws, but the other one goes on (rooms.service.ts delete(),
\* findOne()).  Runs that are cut short are left out.
NoRoomForgotten ==
    [][\A i \in Items : OnTheWay(i) => OnTheWay(i)' \/ i \notin rooms']_vars

-----------------------------------------------------------------------------
(* The promise as a specification of its own. *)

Stage ==
    [i \in Items |-> IF i \notin rooms THEN "closed"
                     ELSE IF auctionStatus[i] THEN "open" ELSE "closing"]

Ledger == INSTANCE AuctionLedger WITH
    Seeded <- SeedRooms, stage <- Stage, held <- bids, sold <- orders

\* The services and jobs together implement the ledger.
ImplementsLedger == Ledger!LedgerSpec

-----------------------------------------------------------------------------
(* The invariants the proofs rest on.                                      *)

\* A run has marked its item as closed before it deletes bids of it.
MarkedBeforePruned ==
    \A s \in Instances :
        closer[s].pc \in {"prune", "drop"} => ~ auctionStatus[closer[s].at]

\* The items of an order are closed from the moment their status was read.
LinesAreClosed ==
    \A o \in priced \cup orders : \A b \in o.lines : ~ auctionStatus[b.item]

ClosingInv ==
    /\ TypeOK
    /\ ClosedBeforeRoomGone
    /\ MarkedBeforePruned
    /\ LinesAreClosed

LinesAreOwn ==
    \A o \in fetched \cup priced \cup orders : \A b \in o.lines : b.user = o.user

\* Between the read of the highest bid and the pruning, that bid is the winner,
\* unless its bidder has ordered it.
TopIsWinner ==
    \A s \in Instances : \A b \in placed :
        /\ closer[s].pc \in {"save", "prune"}
        /\ b.item = closer[s].at
        /\ Wins(b)
        /\ OnTime(b.item)
        => b \in closer[s].top \/ Ordered(b)

OneTop == \A s \in Instances : \A b, c \in closer[s].top : b = c

\* Once pruned, an auction no bid arrived late at has one bid at most.
PrunedToOne ==
    \A s \in Instances :
        closer[s].pc = "drop" /\ OnTime(closer[s].at) =>
            \A b, c \in BidsOn(closer[s].at) : b = c

WinnerInv ==
    /\ TypeOK
    /\ bids \subseteq placed
    /\ LinesAreOwn
    /\ TopIsWinner
    /\ WinnerKept

OneLeftInv ==
    /\ TypeOK
    /\ OneTop
    /\ PrunedToOne
    /\ OnlyWinnerLeft

-----------------------------------------------------------------------------
(* What the repository says of the auction and the code does not keep.     *)

\* "should delete rooms for items." (rooms.service.spec.ts delete): an
\* auction that is over loses its room.
RoomsAreDeleted == \A i \in Items : OutOfWindow(i) ~> i \notin rooms

\* The bids on i that none was higher than.
TopBids(i) ==
    {b \in placed : b.item = i /\ \A c \in placed : c.item = i => c.price <= b.price}

\* "Deleting a room deletes its bids except the highest" (bids.service.ts
\* :123): when the room is gone a highest bid ever placed is still there, or
\* ordered.
HighestIsKept ==
    \A i \in SeedRooms \ rooms :
        (\E b \in placed : b.item = i) =>
            \E b \in TopBids(i) : b \in bids \/ Ordered(b)

\* "An order deletes the bids it is made from" (bids.service.ts deleteAll()):
\* so no bid is in two orders.
OrderedOnce ==
    \A o, p \in orders : o.lines \cap p.lines # {} => o = p

=============================================================================
