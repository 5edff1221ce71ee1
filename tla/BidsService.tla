---------------------------- MODULE BidsService ----------------------------
(***************************************************************************)
(* A bid, from the auction room page to the bids collection.  The page     *)
(* (public/room.html) asks for the highest bid, compares the price typed   *)
(* with it and emits the message; the gateway calls BidsService.create(),  *)
(* which looks the room up and then inserts the document.  The server      *)
(* compares no price and no date.                                          *)
(*                                                                         *)
(* sent are the messages on their way, accepted the ones whose room        *)
(* create() has found.  placed and late are history: every bid ever        *)
(* inserted, and those inserted while delete() had already read the        *)
(* highest bid of their item, or after it had dropped the room.            *)
(***************************************************************************)
EXTENDS RoomsService

VARIABLES sent, accepted, placed, late

bidsVars == <<sent, accepted, placed, late>>

BidsTypeOK ==
    /\ sent \subseteq Bid
    /\ accepted \subseteq Bid
    /\ placed \subseteq Bid
    /\ late \subseteq placed

BidsInit ==
    /\ sent = {}
    /\ accepted = {}
    /\ placed = {}
    /\ late = {}

\* sendButton.onclick: the page refuses a price below the initial bid, or not
\* above the highest one GET /bids/:id answers with.  When the room is gone
\* the answer is a 404 without a price, which refuses nothing.
Passes(i, price) ==
    /\ price >= InitialBid[i]
    /\ i \in rooms => \A b \in BidsOn(i) : b.price < price

\* A page is connected to the room it was opened for, which may be gone.
SendBid(id, u, i, price) ==
    /\ \A b \in sent \cup accepted \cup placed : b.id # id
    /\ i \in SeedRooms
    /\ Passes(i, price)
    /\ sent' = sent \cup {[id |-> id, user |-> u, item |-> i, price |-> price]}
    /\ UNCHANGED <<dbVars, roomsVars, accepted, placed, late>>

\* create(), up to roomsService.findOne(): a room that is gone ends it.
AcceptBid(b) ==
    /\ b \in sent
    /\ sent' = sent \ {b}
    /\ accepted' = IF b.item \in rooms THEN accepted \cup {b} ELSE accepted
    /\ UNCHANGED <<dbVars, roomsVars, placed, late>>

\* create(), from bidsModel.create() on.
InsertBid(b) ==
    /\ b \in accepted
    /\ accepted' = accepted \ {b}
    /\ bids' = bids \cup {b}
    /\ placed' = placed \cup {b}
    /\ late' = IF Closing(b.item) \/ b.item \notin rooms
               THEN late \cup {b} ELSE late
    /\ UNCHANGED <<day, auctionStatus, rooms, orders, roomsVars, sent>>

\* The socket closes, the instance stops or a call rejects before the insert.
BidLost(b) ==
    /\ b \in sent \cup accepted
    /\ sent' = sent \ {b}
    /\ accepted' = accepted \ {b}
    /\ UNCHANGED <<dbVars, roomsVars, placed, late>>

BidsNext ==
    \/ \E id \in BidIds, u \in Users, i \in Items, price \in Prices :
          SendBid(id, u, i, price)
    \/ \E b \in sent : AcceptBid(b)
    \/ \E b \in accepted : InsertBid(b)

=============================================================================
