----------------------------- MODULE AuctionDB -----------------------------
(***************************************************************************)
(* The collections of Wevre's MongoDB database that the auction touches    *)
(* (items, rooms, bids, orders), the calendar its two midnight jobs read,  *)
(* and the parameters of the model.  The services that read and write them *)
(* are RoomsService, BidsService and OrdersService; Auction composes the   *)
(* three.                                                                  *)
(*                                                                         *)
(* Every database call is a step of its own: a service awaits each of them *)
(* and anything else may run in between.  No service passes its            *)
(* ClientSession to a call, so no two calls are ever one transaction.      *)
(***************************************************************************)
EXTENDS Integers, FiniteSets

CONSTANTS
    Users,       \* the accounts that bid and order
    NumItems,    \* items are numbered in the order find() returns them
    StartDay,    \* item.startDate, as a day
    EndDay,      \* item.endDate, as a day
    InitialBid,  \* item.initialBid
    Prices,      \* the prices a bidder may type
    SeedRooms,   \* the items that have a room when the system starts
    MaxDay,      \* bound: the calendar stops here, every later day is alike
    BidIds,      \* bound: the ids of bid documents
    OrderNumbers,\* bound: the numbers randomUUID() gives to orders
    Instances    \* the application processes (app1, app2 in docker-compose)

Items == 1 .. NumItems

ASSUME ItemsAssumption ==
    /\ NumItems \in Nat
    /\ StartDay \in [Items -> Int]
    /\ EndDay \in [Items -> Int]
    /\ InitialBid \in [Items -> Nat]
    /\ SeedRooms \subseteq Items

ASSUME BoundsAssumption ==
    /\ MaxDay \in Nat
    /\ Prices \subseteq Nat

VARIABLES
    day,            \* midnights passed: what Date.now() says, in days
    auctionStatus,  \* item.auctionStatus, for every item
    rooms,          \* the items whose room document exists
    bids,           \* the bid documents
    orders          \* the order documents

dbVars == <<day, auctionStatus, rooms, bids, orders>>

Bid == [id: BidIds, user: Users, item: Items, price: Prices]

\* An order keeps the items, and the sum of the prices, of the bids it is
\* made from; lines are those bids.
Order == [number: OrderNumbers, user: Users, lines: SUBSET Bid]

DBTypeOK ==
    /\ day \in 0 .. MaxDay
    /\ auctionStatus \in [Items -> BOOLEAN]
    /\ rooms \subseteq Items
    /\ bids \subseteq Bid
    /\ orders \subseteq Order

\* A room is only ever stored together with auctionStatus = true, and the
\* seed agrees; it has no bid and no order.
DBInit ==
    /\ day = 0
    /\ auctionStatus = [i \in Items |-> i \in SeedRooms]
    /\ rooms = SeedRooms
    /\ bids = {}
    /\ orders = {}

OutOfWindow(i) == StartDay[i] > day \/ day > EndDay[i]

BidsOn(i) == {b \in bids : b.item = i}

\* Mutant of HighestBids: sort({ price: 1 }).
LowestBids(i) == {b \in BidsOn(i) : \A c \in BidsOn(i) : c.price >= b.price}

\* The documents sort({ price: -1 }) may put first.
HighestBids(i) == {b \in BidsOn(i) : \A c \in BidsOn(i) : c.price <= b.price}

=============================================================================
