---------------------------- MODULE WinnerProofs ----------------------------
(***************************************************************************)
(* Who wins: the winning bid of an auction no bid arrived late at is never *)
(* lost, and no other bid outlives the room.                               *)
(***************************************************************************)
EXTENDS AuctionProofs

-----------------------------------------------------------------------------
(* What one step does to bids and runs *)

\* A step is one of one service, or a fault, or nothing.
LEMMA StepCases ==
  ASSUME [Next]_vars
  PROVE  \/ UNCHANGED vars
         \/ Fault
         \/ RoomsNext /\ UNCHANGED bidsVars /\ UNCHANGED ordersVars
         \/ BidsNext /\ UNCHANGED ordersVars
         \/ OrdersNext /\ UNCHANGED roomsVars /\ UNCHANGED bidsVars
<1>1. UNCHANGED <<bidsVars, ordersVars>> => UNCHANGED bidsVars /\ UNCHANGED ordersVars
  OBVIOUS
<1>2. UNCHANGED <<roomsVars, bidsVars>> => UNCHANGED roomsVars /\ UNCHANGED bidsVars
  OBVIOUS
<1> QED
  BY <1>1, <1>2 DEF Next, Work

\* A bid that appears was inserted by create(), which changes no room and no
\* run, and counts as late when a run is closing its auction.
LEMMA BidsArrive ==
  ASSUME [Next]_vars, NEW b, b \in (bids' \ bids) \cup (placed' \ placed)
  PROVE  /\ UNCHANGED <<rooms, closer, orders>>
         /\ b \in bids' /\ b \in placed'
         /\ bids \subseteq bids'
         /\ placed' = placed \cup {b}
         /\ Closing(b.item) \/ b.item \notin rooms => b \in late'
<1>1. (\/ UNCHANGED vars \/ Fault
       \/ RoomsNext /\ UNCHANGED bidsVars
       \/ OrdersNext /\ UNCHANGED bidsVars)
         => bids' \subseteq bids /\ UNCHANGED placed
  <2>1. UNCHANGED vars \/ Fault => bids' \subseteq bids /\ UNCHANGED placed
    BY DEF vars, dbVars, bidsVars, Fault, RunLost, BidLost, OrderLost
  <2>2. RoomsNext => bids' \subseteq bids
    BY DEF RoomsNext, Midnight, Create, OpenerNext, OpenerThrow, OpenerReturn,
       Delete, CloserSkip, CloserFindRoom, CloserFindRoomAgain,
       CloserFindHighest, CloserSaveItem, CloserDeleteBids, CloserDeleteRoom,
       CloserReturn, dbVars
  <2>3. OrdersNext => bids' \subseteq bids
    BY DEF OrdersNext, FetchBids, PopulateItems, InsertOrder,
       DeleteOrderedBids, dbVars
  <2> QED
    BY <2>1, <2>2, <2>3 DEF bidsVars
<1>2. PICK c \in accepted : InsertBid(c)
  <2>0. ~ (bids' \subseteq bids /\ UNCHANGED placed)
    OBVIOUS
  <2>1. BidsNext
    BY <1>1, <2>0, StepCases
  <2>2. \A id \in BidIds, u \in Users, i \in Items, price \in Prices :
           SendBid(id, u, i, price) => UNCHANGED <<bids, placed>>
    BY DEF SendBid, dbVars
  <2>3. \A c \in sent : AcceptBid(c) => UNCHANGED <<bids, placed>>
    BY DEF AcceptBid, dbVars
  <2>4. ~ UNCHANGED <<bids, placed>>
    OBVIOUS
  <2> QED
    BY <2>1, <2>2, <2>3, <2>4 DEF BidsNext
<1>3. b = c
  BY <1>2 DEF InsertBid
<1> QED
  BY <1>2, <1>3 DEF InsertBid, roomsVars

\* History only grows, and so do the orders.
LEMMA HistoryGrows ==
  ASSUME [Next]_vars
  PROVE  placed \subseteq placed' /\ late \subseteq late' /\ orders \subseteq orders'
<1>1. UNCHANGED vars \/ Fault => UNCHANGED <<placed, late, orders>>
  BY DEF vars, dbVars, bidsVars, Fault, RunLost, BidLost, OrderLost
<1>2. RoomsNext => UNCHANGED orders
  BY DEF RoomsNext, Midnight, Create, OpenerNext, OpenerThrow, OpenerReturn,
     Delete, CloserSkip, CloserFindRoom, CloserFindRoomAgain,
     CloserFindHighest, CloserSaveItem, CloserDeleteBids, CloserDeleteRoom,
     CloserReturn, dbVars
<1>3. BidsNext => placed \subseteq placed' /\ late \subseteq late' /\ UNCHANGED orders
  BY DEF BidsNext, SendBid, AcceptBid, InsertBid, dbVars
<1>4. OrdersNext => orders \subseteq orders'
  BY DEF OrdersNext, FetchBids, PopulateItems, InsertOrder, DeleteOrderedBids,
     dbVars
<1> QED
  BY <1>1, <1>2, <1>3, <1>4 DEF Next, Work, bidsVars

\* So a bid that wins after a step won before it, an auction that is on time
\* was on time, and a bid that was ordered stays ordered.
LEMMA WinsBefore ==
  ASSUME [Next]_vars, NEW b \in placed
  PROVE  /\ Wins(b)' => Wins(b)
         /\ \A i : OnTime(i)' => OnTime(i)
         /\ Ordered(b) => Ordered(b)'
  BY HistoryGrows DEF Wins, OnTime, Ordered

\* A run stays, leaves its item, or does one of the steps between the read of
\* the highest bid and the removal of the room.
LEMMA RunMoves ==
  ASSUME TypeOK, [Next]_vars, NEW s \in Instances
  PROVE  \/ closer'[s] = closer[s]
         \/ closer'[s].pc \in {"idle", "scan"} /\ closer'[s].top = {}
         \/ /\ closer'[s].pc \in {"lookup", "top"}
            /\ closer'[s].top = closer[s].top
         \/ CloserFindHighest(s)
         \/ CloserSaveItem(s)
         \/ CloserDeleteBids(s)
<1>0. closer \in [Instances -> Run]
  BY DEF TypeOK, RoomsTypeOK
<1>1. CASE UNCHANGED closer
  BY <1>1
<1>2. CASE Midnight
  BY <1>2 DEF Midnight
<1>3. ASSUME NEW t \in Instances, Delete(t), t # s
      PROVE  closer'[s] = closer[s]
  BY <1>0, <1>3 DEF Delete, CloserSkip, CloserFindRoom, CloserFindRoomAgain,
     CloserFindHighest, CloserSaveItem, CloserDeleteBids, CloserDeleteRoom,
     CloserReturn, Await, NextItem, Throw
<1>4. CASE \/ CloserSkip(s) \/ CloserDeleteRoom(s) \/ CloserReturn(s)
  BY <1>0, <1>4 DEF CloserSkip, CloserDeleteRoom, CloserReturn, NextItem,
     Throw, IdleRun
<1>5. CASE CloserFindRoom(s) \/ CloserFindRoomAgain(s)
  BY <1>0, <1>5 DEF CloserFindRoom, CloserFindRoomAgain, Await, Throw,
     IdleRun, Run
<1>6. CASE RoomsNext
  <2>1. (\E t \in Instances : Create(t)) => UNCHANGED closer
    BY DEF Create, OpenerNext, OpenerThrow, OpenerReturn
  <2>2. CASE Delete(s)
    BY <2>2, <1>4, <1>5 DEF Delete
  <2> QED
    BY <1>1, <1>2, <1>3, <1>6, <2>1, <2>2 DEF RoomsNext
<1>7. CASE Fault
  <2>1. ASSUME NEW t \in Instances, RunLost(t)
        PROVE  closer'[s] = closer[s] \/ closer'[s] = IdleRun
    BY <1>0, <2>1 DEF RunLost, Throw
  <2>2. (\E b \in sent \cup accepted : BidLost(b)) => UNCHANGED closer
    BY DEF BidLost, roomsVars
  <2> QED
    BY <1>1, <1>7, <2>1, <2>2 DEF Fault, roomsVars, IdleRun
<1>8. UNCHANGED vars \/ BidsNext \/ UNCHANGED roomsVars => UNCHANGED closer
  BY DEF vars, roomsVars, BidsNext, SendBid, AcceptBid, InsertBid
<1> QED
  BY <1>1, <1>6, <1>7, <1>8, StepCases

-----------------------------------------------------------------------------
(* The winner is kept *)

\* Every line of an order is a bid of its user, from the read of the bids on.
LEMMA OwnLines ==
  ASSUME TypeOK, LinesAreOwn, [Next]_vars
  PROVE  LinesAreOwn'
<1>1. UNCHANGED vars \/ Fault =>
         fetched' \cup priced' \cup orders' \subseteq fetched \cup priced \cup orders
  BY DEF vars, dbVars, ordersVars, Fault, RunLost, BidLost, OrderLost
<1>2. RoomsNext => UNCHANGED orders
  BY DEF RoomsNext, Midnight, Create, OpenerNext, OpenerThrow, OpenerReturn,
     Delete, CloserSkip, CloserFindRoom, CloserFindRoomAgain,
     CloserFindHighest, CloserSaveItem, CloserDeleteBids, CloserDeleteRoom,
     CloserReturn, dbVars
<1>3. BidsNext => UNCHANGED orders
  BY DEF BidsNext, SendBid, AcceptBid, InsertBid, dbVars
<1>4. CASE OrdersNext
  <2>1. ASSUME NEW n \in OrderNumbers, NEW u \in Users, FetchBids(n, u)
        PROVE  LinesAreOwn'
    BY <2>1 DEF FetchBids, LinesAreOwn, dbVars
  <2>2. ASSUME NEW o \in fetched, PopulateItems(o)
        PROVE  LinesAreOwn'
    <3>1. /\ [o EXCEPT !.lines = ClosedLines(o)].user = o.user
          /\ [o EXCEPT !.lines = ClosedLines(o)].lines \subseteq o.lines
      BY DEF ClosedLines, TypeOK, OrdersTypeOK, Order
    <3> QED
      BY <2>2, <3>1 DEF PopulateItems, LinesAreOwn, dbVars
  <2>3. ASSUME NEW o \in priced, InsertOrder(o)
        PROVE  LinesAreOwn'
    BY <2>3 DEF InsertOrder, LinesAreOwn
  <2>4. ASSUME NEW o \in clearing, DeleteOrderedBids(o)
        PROVE  LinesAreOwn'
    BY <2>4 DEF DeleteOrderedBids, LinesAreOwn
  <2> QED
    BY <1>4, <2>1, <2>2, <2>3, <2>4 DEF OrdersNext
<1>5. fetched' \cup priced' \cup orders' \subseteq fetched \cup priced \cup orders
         => LinesAreOwn'
  BY DEF LinesAreOwn
<1> QED
  BY <1>1, <1>2, <1>3, <1>4, <1>5 DEF Next, Work, ordersVars

\* A bid goes when its bidder has ordered it, or when a run prunes its item
\* and spares another one.
LEMMA BidGoes ==
  ASSUME TypeOK, LinesAreOwn, [Next]_vars, NEW b \in bids, b \notin bids'
  PROVE  \/ Ordered(b)
         \/ \E s \in Instances :
               /\ CloserDeleteBids(s)
               /\ closer[s].pc = "prune"
               /\ b.item = closer[s].at
               /\ b \notin closer[s].top
<1>1. UNCHANGED vars \/ Fault \/ BidsNext => bids \subseteq bids'
  BY DEF vars, dbVars, Fault, RunLost, BidLost, OrderLost, BidsNext, SendBid,
     AcceptBid, InsertBid
<1>2. CASE RoomsNext
  <2>1. PICK s \in Instances : CloserDeleteBids(s)
    BY <1>2 DEF RoomsNext, Midnight, Create, OpenerNext, OpenerThrow,
       OpenerReturn, Delete, CloserSkip, CloserFindRoom, CloserFindRoomAgain,
       CloserFindHighest, CloserSaveItem, CloserDeleteRoom, CloserReturn, dbVars
  <2> QED
    BY <2>1 DEF CloserDeleteBids
<1>3. CASE OrdersNext
  <2>1. PICK o \in clearing : DeleteOrderedBids(o)
    BY <1>3 DEF OrdersNext, FetchBids, PopulateItems, InsertOrder, dbVars
  <2>2. b \in o.lines /\ o \in orders
    BY <2>1 DEF DeleteOrderedBids, TypeOK, OrdersTypeOK
  <2>3. b.user = o.user
    BY <2>2 DEF LinesAreOwn
  <2> QED
    BY <2>2, <2>3 DEF Ordered
<1> QED
  BY <1>1, <1>2, <1>3 DEF Next, Work

\* A winning bid that was kept is kept by every step.
LEMMA WinnerStays ==
  ASSUME WinnerInv, [Next]_vars, NEW b \in bids,
         Wins(b), OnTime(b.item)
  PROVE  b \in bids' \/ Ordered(b)
<1>1. TypeOK /\ LinesAreOwn /\ TopIsWinner /\ b \in placed
  BY DEF WinnerInv
<1> QED
  BY <1>1, BidGoes DEF TopIsWinner

\* findHighestOne() returns the winner, if it is there to be returned.
LEMMA WinnerIsFound ==
  ASSUME WinnerInv, NEW s \in Instances, CloserFindHighest(s),
         NEW b \in bids, b.item = closer[s].at, Wins(b)
  PROVE  closer'[s].top = {b}
<1>0. closer \in [Instances -> Run] /\ bids \subseteq Bid /\ bids \subseteq placed
  BY DEF WinnerInv, TypeOK, RoomsTypeOK, DBTypeOK
<1>1. PICK t \in HighestBids(closer[s].at) :
         closer' = [closer EXCEPT ![s].pc = "save", ![s].top = {t}]
  BY DEF CloserFindHighest, BidsOn
<1>2. t \in bids /\ t.item = b.item /\ b.price <= t.price
  BY <1>1 DEF HighestBids, BidsOn
<1>3. b.price \in Nat /\ t.price \in Nat
  BY <1>0, <1>2, BoundsAssumption DEF Bid
<1>4. t = b
  BY <1>0, <1>2, <1>3 DEF Wins
<1> QED
  BY <1>0, <1>1, <1>4 DEF Run

\* Every step keeps WinnerInv.
LEMMA WinnerStep ==
  ASSUME WinnerInv, [Next]_vars
  PROVE  WinnerInv'
<1> USE DEF WinnerInv
<1>1. TypeOK'
  BY NextType
<1>2. (bids \subseteq placed)'
  BY BidsArrive, HistoryGrows
<1>3. LinesAreOwn'
  BY OwnLines
<1>4. WinnerKept'
  <2> SUFFICES ASSUME NEW b \in placed', Wins(b)', OnTime(b.item)'
               PROVE  b \in bids' \/ Ordered(b)'
    BY DEF WinnerKept
  <2>1. CASE b \notin placed
    BY <2>1, BidsArrive
  <2>2. CASE b \in placed
    <3>1. Wins(b) /\ OnTime(b.item)
      BY <2>2, WinsBefore
    <3>2. b \in bids \/ Ordered(b)
      BY <2>2, <3>1 DEF WinnerKept
    <3>3. b \in bids' \/ Ordered(b)
      BY <3>1, <3>2, WinnerStays
    <3> QED
      BY <2>2, <3>3, WinsBefore
  <2> QED
    BY <2>1, <2>2
<1>5. TopIsWinner'
  <2> SUFFICES ASSUME NEW s \in Instances, NEW b \in placed',
                      closer'[s].pc \in {"save", "prune"},
                      b.item = closer'[s].at,
                      Wins(b)', OnTime(b.item)'
               PROVE  b \in closer'[s].top \/ Ordered(b)'
    BY DEF TopIsWinner
  <2>0. closer \in [Instances -> Run]
    BY DEF TypeOK, RoomsTypeOK
  <2>1. CASE b \notin placed
    <3>1. closer' = closer
      BY <2>1, BidsArrive
    <3>2. Closing(b.item)
      BY <3>1 DEF Closing, CloserAt
    <3>3. b \in late'
      BY <2>1, <3>2, BidsArrive
    <3> QED
      BY <3>3 DEF OnTime
  <2>2. CASE b \in placed
    <3>0. Wins(b) /\ OnTime(b.item)
      BY <2>2, WinsBefore
    <3>1. CASE closer'[s] = closer[s]
      BY <2>2, <3>0, <3>1, WinsBefore DEF TopIsWinner
    <3>2. CASE CloserSaveItem(s)
      <4>1. /\ closer[s].pc = "save" /\ closer'[s].at = closer[s].at
            /\ closer'[s].top = closer[s].top
        BY <2>0, <3>2 DEF CloserSaveItem, Await, Run
      <4> QED
        BY <2>2, <3>0, <4>1, WinsBefore DEF TopIsWinner
    <3>3. CASE CloserFindHighest(s)
      <4>1. closer'[s].at = closer[s].at
        BY <2>0, <3>3 DEF CloserFindHighest, Await, Run
      <4>2. b \in bids \/ Ordered(b)
        BY <2>2, <3>0 DEF WinnerKept
      <4> QED
        BY <2>2, <3>0, <3>3, <4>1, <4>2, WinnerIsFound, WinsBefore
    <3>4. CASE CloserDeleteBids(s)
      BY <2>0, <3>4 DEF CloserDeleteBids, Await, Run
    <3> QED
      BY <3>1, <3>2, <3>3, <3>4, RunMoves
  <2> QED
    BY <2>1, <2>2
<1> QED
  BY <1>1, <1>2, <1>3, <1>4, <1>5

\* Initially no bid wins and no run has read one.
LEMMA WinnerInit == Init => WinnerInv
<1> SUFFICES ASSUME Init PROVE WinnerInv
  OBVIOUS
<1>1. bids = {} /\ placed = {} /\ fetched = {} /\ priced = {} /\ orders = {}
  BY DEF Init, DBInit, BidsInit, OrdersInit
<1> QED
  BY <1>1, InitType DEF WinnerInv, LinesAreOwn, TopIsWinner, WinnerKept

\* The highest bid of an auction no bid arrived late at is stored until its
\* bidder orders it, with any number of instances closing the auction at once
\* and with runs and orders cut short anywhere (rooms.service.ts delete(),
\* orders.service.ts create()).
THEOREM WinnerNeverLost == Spec => []WinnerKept
<1>1. WinnerInv /\ [Next]_vars => WinnerInv'
  BY WinnerStep
<1>2. WinnerInv => WinnerKept
  BY DEF WinnerInv
<1> QED
  BY WinnerInit, <1>1, <1>2, PTL DEF Spec

-----------------------------------------------------------------------------
(* No loser is left *)

\* Every step keeps OneLeftInv.
LEMMA OneLeftStep ==
  ASSUME OneLeftInv, [Next]_vars
  PROVE  OneLeftInv'
<1> USE DEF OneLeftInv
<1>0. closer \in [Instances -> Run]
  BY DEF TypeOK, RoomsTypeOK
<1>1. TypeOK'
  BY NextType
<1>2. OneTop'
  <2> SUFFICES ASSUME NEW s \in Instances
               PROVE  \A b, c \in closer'[s].top : b = c
    BY DEF OneTop
  <2>1. \/ closer'[s].top = {} \/ closer'[s].top = closer[s].top
        \/ CloserFindHighest(s)
    BY <1>0, RunMoves DEF CloserSaveItem, CloserDeleteBids, Await, Run
  <2>2. CloserFindHighest(s) =>
           closer'[s].top = closer[s].top \/ \E b : closer'[s].top = {b}
    BY <1>0 DEF CloserFindHighest, Await, Run
  <2> QED
    BY <2>1, <2>2 DEF OneTop
<1>3. ASSUME NEW i, OnTime(i)', (Closing(i) \/ i \notin rooms)
      PROVE  BidsOn(i)' \subseteq BidsOn(i)
  BY <1>3, BidsArrive DEF BidsOn, OnTime
<1>4. PrunedToOne'
  <2> SUFFICES ASSUME NEW s \in Instances, NEW i, closer'[s].pc = "drop",
                      closer'[s].at = i, OnTime(i)'
               PROVE  \A b, c \in BidsOn(i)' : b = c
    BY DEF PrunedToOne, OnTime, BidsOn
  <2>1. CASE closer'[s] = closer[s]
    <3>1. Closing(i)
      BY <2>1 DEF Closing, CloserAt
    <3>2. OnTime(i)
      BY HistoryGrows DEF OnTime
    <3>3. BidsOn(i)' \subseteq BidsOn(i)
      BY <3>1, <1>3
    <3> QED
      BY <2>1, <3>2, <3>3 DEF PrunedToOne
  <2>2. CASE CloserDeleteBids(s)
    <3>1. closer[s].at = i
      BY <1>0, <2>2 DEF CloserDeleteBids, Await, Run
    <3>2. BidsOn(i)' \subseteq closer[s].top
      BY <2>2, <3>1 DEF CloserDeleteBids, BidsOn
    <3> QED
      BY <3>2 DEF OneTop
  <2>3. CloserFindHighest(s) \/ CloserSaveItem(s) => closer'[s].pc # "drop"
    BY <1>0 DEF CloserFindHighest, CloserSaveItem, Await, Run
  <2> QED
    BY <2>1, <2>2, <2>3, RunMoves
<1>5. OnlyWinnerLeft'
  <2> SUFFICES ASSUME NEW i \in Items, i \notin rooms', OnTime(i)'
               PROVE  \A b, c \in BidsOn(i)' : b = c
    BY DEF OnlyWinnerLeft
  <2>1. OnTime(i)
    BY HistoryGrows DEF OnTime
  <2>2. CASE i \notin rooms
    BY <2>1, <2>2, <1>3 DEF OnlyWinnerLeft
  <2>3. CASE i \in rooms
    <3>1. PICK s \in Instances : CloserDeleteRoom(s)
      BY <2>3 DEF Next, Work, Fault, RunLost, BidLost, OrderLost, vars, dbVars,
         RoomsNext, Midnight, Create, OpenerNext, OpenerThrow, OpenerReturn,
         Delete, CloserSkip, CloserFindRoom, CloserFindRoomAgain,
         CloserFindHighest, CloserSaveItem, CloserDeleteBids, CloserReturn,
         BidsNext, SendBid, AcceptBid, InsertBid,
         OrdersNext, FetchBids, PopulateItems, InsertOrder, DeleteOrderedBids
    <3>2. closer[s].pc = "drop" /\ closer[s].at = i /\ UNCHANGED bids
      BY <2>3, <3>1 DEF CloserDeleteRoom
    <3> QED
      BY <2>1, <3>2 DEF PrunedToOne, BidsOn
  <2> QED
    BY <2>2, <2>3
<1> QED
  BY <1>1, <1>2, <1>4, <1>5

\* Initially every auction has its room.
LEMMA OneLeftInit == Init => OneLeftInv
<1> SUFFICES ASSUME Init PROVE OneLeftInv
  OBVIOUS
<1>1. bids = {} /\ closer = [s \in Instances |-> IdleRun]
  BY DEF Init, DBInit, RoomsInit
<1> QED
  BY <1>1, InitType
     DEF OneLeftInv, OneTop, PrunedToOne, OnlyWinnerLeft, BidsOn, IdleRun

\* When the room of an auction no bid arrived late at is gone, one bid at most
\* is left to order (rooms.service.ts delete(): deleteAllButHighest() comes
\* before room.deleteOne()).
THEOREM LosersGone == Spec => []OnlyWinnerLeft
<1>1. OneLeftInv /\ [Next]_vars => OneLeftInv'
  BY OneLeftStep
<1>2. OneLeftInv => OnlyWinnerLeft
  BY DEF OneLeftInv
<1> QED
  BY OneLeftInit, <1>1, <1>2, PTL DEF Spec

=============================================================================
