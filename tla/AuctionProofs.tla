--------------------------- MODULE AuctionProofs ---------------------------
(***************************************************************************)
(* What Auction guarantees for every number of items, users, bids, orders  *)
(* and instances, with runs, bids and requests cut short anywhere.         *)
(***************************************************************************)
EXTENDS Auction, TLAPS

-----------------------------------------------------------------------------
(* Types *)

\* Every record a service builds is a bid or an order, whatever ids, users,
\* items and prices it is built from (BidsService and OrdersService create()).
LEMMA RecordTypes ==
    /\ \A id \in BidIds, u \in Users, i \in Items, p \in Prices :
          [id |-> id, user |-> u, item |-> i, price |-> p] \in Bid
    /\ \A n \in OrderNumbers, u \in Users, l \in SUBSET Bid :
          [number |-> n, user |-> u, lines |-> l] \in Order
    /\ \A o \in Order : [o EXCEPT !.lines = ClosedLines(o)] \in Order
  BY DEF Bid, Order, ClosedLines

\* Where a run of delete() may go next keeps the type of the runs.
LEMMA RunType ==
  ASSUME RoomsTypeOK, NEW s \in Instances
  PROVE  /\ Throw(s) => closer' \in [Instances -> Run]
                        /\ \A t \in Instances : HasItem(closer'[t])
         /\ closer[s].at \in Items /\ NextItem(s) =>
               closer' \in [Instances -> Run]
               /\ \A t \in Instances : HasItem(closer'[t])
         /\ \A pc \in CloserPc : closer[s].at \in Items /\ Await(s, pc) =>
               closer' \in [Instances -> Run]
               /\ \A t \in Instances : HasItem(closer'[t])
<1> USE DEF RoomsTypeOK, Run, HasItem
<1>0. NumItems \in Nat
  BY ItemsAssumption
<1>1. ASSUME Throw(s)
      PROVE  closer' \in [Instances -> Run]
             /\ \A t \in Instances : HasItem(closer'[t])
  <2>1. IdleRun \in Run
    BY <1>0 DEF IdleRun, CloserPc
  <2> QED
    BY <1>1, <2>1 DEF Throw, IdleRun
<1>2. ASSUME closer[s].at \in Items, NextItem(s)
      PROVE  closer' \in [Instances -> Run]
             /\ \A t \in Instances : HasItem(closer'[t])
  <2>1. closer[s].at + 1 \in 1 .. NumItems + 1
    BY <1>0, <1>2 DEF Items
  <2>2. [pc |-> "scan", at |-> closer[s].at + 1, top |-> {}] \in Run
    BY <2>1 DEF CloserPc
  <2> QED
    BY <1>2, <2>2 DEF NextItem
<1>3. ASSUME NEW pc \in CloserPc, closer[s].at \in Items, Await(s, pc)
      PROVE  closer' \in [Instances -> Run]
             /\ \A t \in Instances : HasItem(closer'[t])
  <2>1. [closer[s] EXCEPT !.pc = pc] \in Run
    OBVIOUS
  <2> QED
    BY <1>3, <2>1 DEF Await
<1> QED
  BY <1>1, <1>2, <1>3

\* The jobs keep the types: their index never leaves the items.
LEMMA RoomsType ==
  ASSUME TypeOK,
         RoomsNext /\ UNCHANGED <<bidsVars, ordersVars>>
  PROVE  TypeOK'
<1> USE DEF TypeOK, DBTypeOK, BidsTypeOK, OrdersTypeOK, bidsVars, ordersVars,
            dbVars
<1>0. NumItems \in Nat
  BY ItemsAssumption
<1>1. CASE Midnight
  <2>1. [pc |-> "scan", at |-> 1, top |-> {}] \in Run /\ 1 \in 0 .. NumItems + 1
    BY <1>0 DEF Run, CloserPc
  <2>2. day' \in 0 .. MaxDay
    BY <1>1, BoundsAssumption DEF Midnight
  <2>3. RoomsTypeOK'
    BY <1>1, <2>1 DEF Midnight, RoomsTypeOK, HasItem
  <2> QED
    BY <1>1, <2>2, <2>3 DEF Midnight
<1>2. CASE \E s \in Instances : Delete(s)
  <2> PICK s \in Instances : Delete(s)
    BY <1>2
  <2> DEFINE Runs == closer' \in [Instances -> Run]
                     /\ \A t \in Instances : HasItem(closer'[t])
  <2>0. closer[s] \in Run /\ HasItem(closer[s])
    BY DEF RoomsTypeOK
  <2>1. CASE CloserSkip(s)
    <3>1. Runs
      BY <2>1, RunType DEF CloserSkip
    <3> QED
      BY <2>1, <3>1 DEF CloserSkip, RoomsTypeOK
  <2>2. CASE CloserFindRoom(s)
    <3>1. Runs
      BY <2>2, RunType DEF CloserFindRoom, CloserPc
    <3> QED
      BY <2>2, <3>1 DEF CloserFindRoom, RoomsTypeOK
  <2>3. CASE CloserFindRoomAgain(s)
    <3>1. Runs
      BY <2>0, <2>3, RunType DEF CloserFindRoomAgain, CloserPc, HasItem
    <3> QED
      BY <2>3, <3>1 DEF CloserFindRoomAgain, RoomsTypeOK
  <2>4. CASE CloserFindHighest(s)
    <3>1. closer[s].at \in Items
      BY <2>0, <2>4 DEF CloserFindHighest, HasItem
    <3>2. CASE Await(s, "save")
      BY <2>4, <3>1, <3>2, RunType DEF CloserFindHighest, CloserPc, RoomsTypeOK
    <3>3. ASSUME NEW b \in HighestBids(closer[s].at),
                 closer' = [closer EXCEPT ![s].pc = "save", ![s].top = {b}]
          PROVE  TypeOK'
      <4>1. b \in Bid
        BY <3>3 DEF HighestBids, BidsOn
      <4>2. [closer[s] EXCEPT !.pc = "save", !.top = {b}] \in Run
        BY <2>0, <4>1 DEF Run, CloserPc
      <4>3. closer' = [closer EXCEPT ![s] =
                          [closer[s] EXCEPT !.pc = "save", !.top = {b}]]
        BY <3>3, <2>0 DEF RoomsTypeOK, Run
      <4>4. Runs
        BY <3>1, <4>2, <4>3 DEF RoomsTypeOK, HasItem, Run
      <4> QED
        BY <2>4, <4>4 DEF CloserFindHighest, RoomsTypeOK
    <3> QED
      BY <2>4, <3>2, <3>3 DEF CloserFindHighest
  <2>5. CASE CloserSaveItem(s)
    <3>1. Runs
      BY <2>0, <2>5, RunType DEF CloserSaveItem, CloserPc, HasItem
    <3> QED
      BY <2>5, <3>1 DEF CloserSaveItem, RoomsTypeOK
  <2>6. CASE CloserDeleteBids(s)
    <3>1. Runs
      BY <2>0, <2>6, RunType DEF CloserDeleteBids, CloserPc, HasItem
    <3> QED
      BY <2>6, <3>1 DEF CloserDeleteBids, RoomsTypeOK
  <2>7. CASE CloserDeleteRoom(s)
    <3>1. Runs
      BY <2>0, <2>7, RunType DEF CloserDeleteRoom, HasItem
    <3> QED
      BY <2>7, <3>1 DEF CloserDeleteRoom, RoomsTypeOK
  <2>8. CASE CloserReturn(s)
    <3>1. Runs
      BY <2>8, RunType DEF CloserReturn
    <3> QED
      BY <2>8, <3>1 DEF CloserReturn, RoomsTypeOK
  <2> QED
    BY <2>1, <2>2, <2>3, <2>4, <2>5, <2>6, <2>7, <2>8 DEF Delete
<1>3. CASE \E s \in Instances : Create(s)
  <2> PICK s \in Instances : Create(s)
    BY <1>3
  <2>1. opener' \in [Instances -> 0 .. NumItems + 1] /\ UNCHANGED <<dbVars, closer>>
    BY <1>0 DEF Create, OpenerNext, OpenerThrow, OpenerReturn, Items, RoomsTypeOK
  <2> QED
    BY <2>1 DEF RoomsTypeOK
<1> QED
  BY <1>1, <1>2, <1>3 DEF RoomsNext

\* So do bids.
LEMMA BidsType ==
  ASSUME TypeOK, BidsNext, UNCHANGED ordersVars
  PROVE  TypeOK'
<1> USE DEF TypeOK, DBTypeOK, RoomsTypeOK, BidsTypeOK, OrdersTypeOK,
            roomsVars, ordersVars, dbVars
<1>1. ASSUME NEW id \in BidIds, NEW u \in Users, NEW i \in Items,
             NEW p \in Prices, SendBid(id, u, i, p)
      PROVE  TypeOK'
  BY <1>1, RecordTypes DEF SendBid
<1>2. ASSUME NEW b \in sent, AcceptBid(b)
      PROVE  TypeOK'
  BY <1>2 DEF AcceptBid
<1>3. ASSUME NEW b \in accepted, InsertBid(b)
      PROVE  TypeOK'
  BY <1>3 DEF InsertBid
<1> QED
  BY <1>1, <1>2, <1>3 DEF BidsNext

\* So do orders.
LEMMA OrdersType ==
  ASSUME TypeOK, OrdersNext, UNCHANGED <<roomsVars, bidsVars>>
  PROVE  TypeOK'
<1> USE DEF TypeOK, DBTypeOK, RoomsTypeOK, BidsTypeOK, OrdersTypeOK,
            roomsVars, bidsVars, dbVars
<1>1. ASSUME NEW n \in OrderNumbers, NEW u \in Users, FetchBids(n, u)
      PROVE  TypeOK'
  <2>1. {b \in bids : b.user = u} \in SUBSET Bid
    OBVIOUS
  <2> QED
    BY <1>1, <2>1, RecordTypes DEF FetchBids
<1>2. ASSUME NEW o \in fetched, PopulateItems(o)
      PROVE  TypeOK'
  BY <1>2, RecordTypes DEF PopulateItems
<1>3. ASSUME NEW o \in priced, InsertOrder(o)
      PROVE  TypeOK'
  BY <1>3 DEF InsertOrder
<1>4. ASSUME NEW o \in clearing, DeleteOrderedBids(o)
      PROVE  TypeOK'
  BY <1>4 DEF DeleteOrderedBids
<1> QED
  BY <1>1, <1>2, <1>3, <1>4 DEF OrdersNext

\* So does whatever is cut short.
LEMMA FaultType ==
  ASSUME TypeOK, Fault
  PROVE  TypeOK'
<1> USE DEF TypeOK, DBTypeOK, RoomsTypeOK, BidsTypeOK, OrdersTypeOK,
            roomsVars, bidsVars, ordersVars, dbVars
<1>1. ASSUME NEW s \in Instances, RunLost(s), UNCHANGED <<bidsVars, ordersVars>>
      PROVE  TypeOK'
  <2>1. 0 \in 0 .. NumItems + 1
    BY ItemsAssumption
  <2>2. RoomsTypeOK'
    BY <1>1, <2>1, RunType DEF RunLost
  <2> QED
    BY <1>1, <2>2 DEF RunLost
<1>2. ASSUME NEW b \in sent \cup accepted, BidLost(b), UNCHANGED ordersVars
      PROVE  TypeOK'
  BY <1>2 DEF BidLost
<1>3. ASSUME NEW o \in UnderWay, OrderLost(o),
             UNCHANGED <<roomsVars, bidsVars>>
      PROVE  TypeOK'
  <2>1. o.user \in Users
    BY DEF UnderWay, Order
  <2> QED
    BY <1>3, <2>1 DEF OrderLost
<1> QED
  BY <1>1, <1>2, <1>3 DEF Fault

\* A step that changes nothing keeps the types.
LEMMA StutterType ==
  ASSUME TypeOK, UNCHANGED vars
  PROVE  TypeOK'
  BY DEF TypeOK, DBTypeOK, RoomsTypeOK, BidsTypeOK, OrdersTypeOK, vars,
         dbVars, roomsVars, bidsVars, ordersVars

\* Every step keeps the types.
LEMMA NextType ==
  ASSUME TypeOK, [Next]_vars
  PROVE  TypeOK'
  BY RoomsType, BidsType, OrdersType, FaultType, StutterType DEF Next, Work

\* The initial states have the types.
LEMMA InitType == Init => TypeOK
<1> SUFFICES ASSUME Init PROVE TypeOK
  OBVIOUS
<1> USE DEF Init, TypeOK
<1>1. DBTypeOK
  BY ItemsAssumption, BoundsAssumption DEF DBInit, DBTypeOK
<1>2. RoomsTypeOK
  BY ItemsAssumption DEF RoomsInit, RoomsTypeOK, Run, HasItem, IdleRun, CloserPc
<1>3. BidsTypeOK /\ OrdersTypeOK
  BY DEF BidsInit, BidsTypeOK, OrdersInit, OrdersTypeOK
<1> QED
  BY <1>1, <1>2, <1>3

\* Every variable keeps its type: in particular a run past its scan is always
\* at one of the items (rooms.service.ts delete()).
THEOREM TypeCorrect == Spec => []TypeOK
<1>1. TypeOK /\ [Next]_vars => TypeOK'
  BY NextType
<1> QED
  BY InitType, <1>1, PTL DEF Spec

-----------------------------------------------------------------------------
(* Closing: what an order holds and a job prunes is closed *)

\* While auctionStatus stays as it is or items are closed, a run that is where
\* it was, or at a call before the pruning, keeps its item marked.
LEMMA MarkedStays ==
  ASSUME MarkedBeforePruned,
         \A i \in Items : auctionStatus'[i] => auctionStatus[i],
         TypeOK, TypeOK',
         \A s \in Instances :
            \/ closer'[s] = closer[s]
            \/ closer'[s].pc \notin {"prune", "drop"}
            \/ closer[s].pc = "prune" /\ closer'[s].at = closer[s].at
            \/ ~ auctionStatus'[closer'[s].at]
  PROVE  MarkedBeforePruned'
  BY DEF MarkedBeforePruned, TypeOK, RoomsTypeOK, HasItem

\* Lines that were closed stay closed.
LEMMA LinesStay ==
  ASSUME LinesAreClosed, TypeOK,
         \A i \in Items : auctionStatus'[i] => auctionStatus[i],
         priced' \cup orders' \subseteq priced \cup orders
  PROVE  LinesAreClosed'
<1>1. \A o \in priced \cup orders : \A b \in o.lines : b.item \in Items
  BY DEF TypeOK, DBTypeOK, OrdersTypeOK, Order, Bid
<1> QED
  BY <1>1 DEF LinesAreClosed

\* Every step keeps ClosingInv.
LEMMA ClosingStep ==
  ASSUME ClosingInv, [Next]_vars
  PROVE  ClosingInv'
<1> USE DEF ClosingInv
<1>0. TypeOK'
  BY NextType
<1> DEFINE Rest == ClosedBeforeRoomGone' /\ MarkedBeforePruned' /\ LinesAreClosed'
<1>a. SUFFICES Rest
  BY <1>0
<1>1. CASE UNCHANGED vars
  BY <1>1 DEF vars, dbVars, roomsVars, bidsVars, ordersVars,
     ClosedBeforeRoomGone, MarkedBeforePruned, LinesAreClosed
<1>2. CASE RoomsNext /\ UNCHANGED <<bidsVars, ordersVars>>
  <2>1. CASE Midnight
    BY <2>1, <1>2 DEF Midnight, ordersVars, ClosedBeforeRoomGone,
       MarkedBeforePruned, LinesAreClosed
  <2>2. ASSUME NEW s \in Instances, Delete(s)
        PROVE  Rest
    <3>0. closer \in [Instances -> Run] /\ HasItem(closer[s])
      BY DEF TypeOK, RoomsTypeOK
    <3>1. CASE CloserSaveItem(s)
      <4>1. closer[s].at \in Items
        BY <3>0, <3>1 DEF CloserSaveItem, HasItem
      <4>2. /\ auctionStatus' = [auctionStatus EXCEPT ![closer[s].at] = FALSE]
            /\ closer' = [closer EXCEPT ![s].pc = "prune"]
            /\ UNCHANGED <<rooms, orders, priced>>
        BY <3>1, <1>2 DEF CloserSaveItem, Await, ordersVars
      <4>3. /\ \A i \in Items : auctionStatus'[i] => auctionStatus[i]
            /\ ~ auctionStatus'[closer[s].at]
        BY <4>1, <4>2 DEF TypeOK, DBTypeOK
      <4>4. closer'[s].at = closer[s].at
        BY <3>0, <4>2 DEF Run
      <4>5. MarkedBeforePruned'
        BY <1>0, <4>2, <4>3, <4>4, MarkedStays
      <4> QED
        BY <4>2, <4>3, <4>5, LinesStay DEF ClosedBeforeRoomGone
    <3>2. CASE CloserDeleteRoom(s)
      <4>1. ~ auctionStatus[closer[s].at]
        BY <3>2 DEF CloserDeleteRoom, MarkedBeforePruned
      <4>2. /\ rooms' = rooms \ {closer[s].at}
            /\ closer' = [closer EXCEPT ![s] =
                   [pc |-> "scan", at |-> closer[s].at + 1, top |-> {}]]
            /\ UNCHANGED <<auctionStatus, orders, priced>>
        BY <3>2, <1>2, <3>0 DEF CloserDeleteRoom, NextItem, ordersVars
      <4>3. MarkedBeforePruned'
        BY <1>0, <3>0, <4>2, MarkedStays
      <4> QED
        BY <4>1, <4>2, <4>3, LinesStay DEF ClosedBeforeRoomGone
    <3>3. CASE CloserDeleteBids(s)
      <4>1. /\ closer' = [closer EXCEPT ![s].pc = "drop"]
            /\ closer[s].pc = "prune"
            /\ UNCHANGED <<auctionStatus, rooms, orders, priced>>
        BY <3>3, <1>2 DEF CloserDeleteBids, Await, ordersVars
      <4>2. closer'[s].at = closer[s].at
        BY <3>0, <4>1 DEF Run
      <4>3. MarkedBeforePruned'
        BY <1>0, <4>1, <4>2, MarkedStays
      <4> QED
        BY <4>1, <4>3, LinesStay DEF ClosedBeforeRoomGone
    <3>4. CASE \/ CloserSkip(s) \/ CloserFindRoom(s) \/ CloserFindRoomAgain(s)
               \/ CloserFindHighest(s) \/ CloserReturn(s)
      <4>1. UNCHANGED <<auctionStatus, rooms, orders, priced>>
        BY <3>4, <1>2 DEF dbVars, ordersVars, CloserSkip, CloserFindRoom,
           CloserFindRoomAgain, CloserFindHighest, CloserReturn
      <4>2. /\ closer'[s].pc \notin {"prune", "drop"}
            /\ \A t \in Instances \ {s} : closer'[t] = closer[t]
        BY <3>4, <3>0 DEF CloserSkip, CloserFindRoom, CloserFindRoomAgain,
           CloserFindHighest, CloserReturn, Await, NextItem, Throw, IdleRun, Run
      <4>3. MarkedBeforePruned'
        BY <1>0, <4>1, <4>2, MarkedStays
      <4> QED
        BY <4>1, <4>3, LinesStay DEF ClosedBeforeRoomGone
    <3> QED
      BY <2>2, <3>1, <3>2, <3>3, <3>4 DEF Delete
  <2>3. ASSUME NEW s \in Instances, Create(s)
        PROVE  Rest
    BY <2>3, <1>2 DEF Create, OpenerNext, OpenerThrow, OpenerReturn, dbVars,
       ordersVars, ClosedBeforeRoomGone, MarkedBeforePruned, LinesAreClosed
  <2> QED
    BY <1>2, <2>1, <2>2, <2>3 DEF RoomsNext
<1>3. CASE BidsNext /\ UNCHANGED ordersVars
  <2>1. UNCHANGED <<auctionStatus, rooms, closer, orders, priced>>
    BY <1>3 DEF BidsNext, SendBid, AcceptBid, InsertBid, dbVars, roomsVars,
       ordersVars
  <2> QED
    BY <2>1 DEF ClosedBeforeRoomGone, MarkedBeforePruned, LinesAreClosed
<1>4. CASE OrdersNext /\ UNCHANGED <<roomsVars, bidsVars>>
  <2>1. UNCHANGED <<auctionStatus, rooms, closer>>
    BY <1>4 DEF OrdersNext, FetchBids, PopulateItems, InsertOrder,
       DeleteOrderedBids, dbVars, roomsVars
  <2>2. ASSUME NEW o \in fetched, PopulateItems(o)
        PROVE  LinesAreClosed'
    <3>1. \A b \in [o EXCEPT !.lines = ClosedLines(o)].lines :
             ~ auctionStatus[b.item]
      BY DEF ClosedLines, TypeOK, OrdersTypeOK, Order
    <3> QED
      BY <2>1, <2>2, <3>1 DEF PopulateItems, LinesAreClosed, dbVars
  <2>3. ASSUME NEW o \in priced, InsertOrder(o)
        PROVE  LinesAreClosed'
    BY <2>1, <2>3 DEF InsertOrder, LinesAreClosed
  <2>4. ASSUME NEW n \in OrderNumbers, NEW u \in Users, FetchBids(n, u)
        PROVE  LinesAreClosed'
    <3>1. UNCHANGED <<priced, orders>>
      BY <2>4 DEF FetchBids, dbVars
    <3> QED
      BY <2>1, <3>1 DEF LinesAreClosed
  <2>5. ASSUME NEW o \in clearing, DeleteOrderedBids(o)
        PROVE  LinesAreClosed'
    <3>1. UNCHANGED <<priced, orders>>
      BY <2>5 DEF DeleteOrderedBids
    <3> QED
      BY <2>1, <3>1 DEF LinesAreClosed
  <2> QED
    BY <1>4, <2>1, <2>2, <2>3, <2>4, <2>5
       DEF OrdersNext, ClosedBeforeRoomGone, MarkedBeforePruned
<1>5. CASE Fault
  <2>1. UNCHANGED <<auctionStatus, rooms>> /\ priced' \cup orders' \subseteq priced \cup orders
    BY <1>5 DEF Fault, RunLost, BidLost, OrderLost, dbVars, ordersVars
  <2>2. \A s \in Instances : closer'[s] = closer[s] \/ closer'[s].pc = "idle"
    BY <1>5 DEF Fault, RunLost, BidLost, OrderLost, roomsVars, Throw, IdleRun,
       TypeOK, RoomsTypeOK
  <2>3. MarkedBeforePruned'
    BY <1>0, <2>1, <2>2, MarkedStays
  <2> QED
    BY <2>1, <2>3, LinesStay DEF ClosedBeforeRoomGone
<1> QED
  <2>1. Work \/ Fault \/ UNCHANGED vars
    BY DEF Next
  <2>2. CASE Work
    BY <2>2, <1>2, <1>3, <1>4 DEF Work
  <2> QED
    BY <2>1, <2>2, <1>1, <1>5

\* Initially no run has got that far and there is no order.
LEMMA ClosingInit == Init => ClosingInv
<1> SUFFICES ASSUME Init PROVE ClosingInv
  OBVIOUS
<1>1. ClosedBeforeRoomGone
  BY DEF Init, DBInit, ClosedBeforeRoomGone
<1>2. MarkedBeforePruned
  BY DEF Init, RoomsInit, IdleRun, MarkedBeforePruned
<1>3. LinesAreClosed
  BY DEF Init, DBInit, OrdersInit, LinesAreClosed
<1> QED
  BY <1>1, <1>2, <1>3, InitType DEF ClosingInv

\* ClosingInv holds in every reachable state.
LEMMA ClosingAlways == Spec => []ClosingInv
<1>1. ClosingInv /\ [Next]_vars => ClosingInv'
  BY ClosingStep
<1> QED
  BY ClosingInit, <1>1, PTL DEF Spec

\* An order never holds an item whose auction is open, although the status
\* was read two calls before the order is stored (orders.service.ts create()).
THEOREM OrdersAreOfClosedItems == Spec => []OrderedItemsAreClosed
<1>1. ClosingInv => OrderedItemsAreClosed
  BY DEF ClosingInv, LinesAreClosed, OrderedItemsAreClosed
<1> QED
  BY ClosingAlways, <1>1, PTL

\* An item without a room is never shown as open (rooms.service.ts delete()).
THEOREM ClosedFirst == Spec => []ClosedBeforeRoomGone
<1>1. ClosingInv => ClosedBeforeRoomGone
  BY DEF ClosingInv
<1> QED
  BY ClosingAlways, <1>1, PTL

\* Only the pruning of a run and the last call of an order delete bids.
LEMMA BidsLeave ==
  ASSUME ClosingInv, [Next]_vars, NEW b \in bids, b \notin bids'
  PROVE  ~ auctionStatus[b.item]
<1>1. UNCHANGED vars => UNCHANGED bids
  BY DEF vars, dbVars
<1>2. Fault => UNCHANGED bids
  BY DEF Fault, RunLost, BidLost, OrderLost, dbVars
<1>3. BidsNext => bids \subseteq bids'
  BY DEF BidsNext, SendBid, AcceptBid, InsertBid, dbVars
<1>4. ASSUME RoomsNext
      PROVE  ~ auctionStatus[b.item]
  <2>1. Midnight => UNCHANGED bids
    BY DEF Midnight
  <2>2. \A s \in Instances : Create(s) => UNCHANGED bids
    BY DEF Create, OpenerNext, OpenerThrow, OpenerReturn, dbVars
  <2>3. \A s \in Instances : Delete(s) =>
           UNCHANGED bids \/ CloserDeleteBids(s)
    BY DEF Delete, CloserSkip, CloserFindRoom, CloserFindRoomAgain,
       CloserFindHighest, CloserSaveItem, CloserDeleteRoom, CloserReturn, dbVars
  <2>4. PICK s \in Instances : CloserDeleteBids(s)
    BY <1>4, <2>1, <2>2, <2>3 DEF RoomsNext
  <2>5. b.item = closer[s].at /\ closer[s].pc = "prune"
    BY <2>4 DEF CloserDeleteBids
  <2> QED
    BY <2>5 DEF ClosingInv, MarkedBeforePruned
<1>5. ASSUME OrdersNext
      PROVE  ~ auctionStatus[b.item]
  <2>1. PICK o \in clearing : DeleteOrderedBids(o)
    BY <1>5 DEF OrdersNext, FetchBids, PopulateItems, InsertOrder, dbVars
  <2>2. b \in o.lines /\ o \in orders
    BY <2>1 DEF DeleteOrderedBids, ClosingInv, TypeOK, OrdersTypeOK
  <2> QED
    BY <2>2 DEF ClosingInv, LinesAreClosed
<1> QED
  BY <1>1, <1>2, <1>3, <1>4, <1>5 DEF Next, Work

\* No bid is ever taken away while its auction is open
\* (bids.service.ts deleteAllButHighest(), deleteAll()).
THEOREM OpenBidsStay == Spec => NoBidLostWhileOpen
<1>1. ClosingInv /\ [Next]_vars =>
         [\A b \in bids : b \notin bids' => ~ auctionStatus[b.item]]_vars
  BY BidsLeave
<1> QED
  BY ClosingAlways, <1>1, PTL DEF Spec, NoBidLostWhileOpen

-----------------------------------------------------------------------------
(* Auction implements AuctionLedger *)

\* An item whose bid or order may go is one the ledger does not call open.
LEMMA MarkedNotOpen ==
  ASSUME NEW i \in Items, ~ auctionStatus[i]
  PROVE  Stage[i] # "open"
  BY DEF Stage

\* A stage depends on the status and the room only.
LEMMA StageStays ==
  ASSUME UNCHANGED <<auctionStatus, rooms>>
  PROVE  UNCHANGED Stage
  BY DEF Stage

\* A run moves its item on by at most one stage, and gives up bids of marked
\* items only.
LEMMA DeleteLedger ==
  ASSUME ClosingInv, ClosingInv', [Next]_vars, NEW s \in Instances, Delete(s)
  PROVE  [Ledger!LedgerNext]_(Ledger!ledgerVars)
<1> USE DEF Ledger!ledgerVars
<1>0. /\ auctionStatus \in [Items -> BOOLEAN] /\ rooms \subseteq Items
      /\ bids \subseteq Bid
      /\ HasItem(closer[s])
      /\ \A i \in Items : auctionStatus[i] => i \in rooms
  BY DEF ClosingInv, TypeOK, DBTypeOK, RoomsTypeOK, ClosedBeforeRoomGone
<1>1. CASE CloserSaveItem(s)
  <2> DEFINE i == closer[s].at
  <2>1. /\ i \in Items
        /\ auctionStatus' = [auctionStatus EXCEPT ![i] = FALSE]
        /\ UNCHANGED <<rooms, bids, orders>>
    BY <1>0, <1>1 DEF CloserSaveItem, HasItem
  <2>2. CASE auctionStatus[i]
    <3>1. Stage[i] = "open"
      BY <1>0, <2>1, <2>2 DEF Stage
    <3>2. Stage' = [Stage EXCEPT ![i] = "closing"]
      BY <1>0, <2>1, <2>2 DEF Stage
    <3> QED
      BY <2>1, <3>1, <3>2 DEF Ledger!LedgerNext, Ledger!Advance
  <2>3. CASE ~ auctionStatus[i]
    <3>1. auctionStatus' = auctionStatus
      BY <1>0, <2>1, <2>3
    <3> QED
      BY <2>1, <3>1, StageStays
  <2> QED
    BY <2>2, <2>3
<1>2. CASE CloserDeleteBids(s)
  <2>1. UNCHANGED <<auctionStatus, rooms, orders>> /\ bids' \subseteq bids
    BY <1>2 DEF CloserDeleteBids
  <2>2. \A b \in bids \ bids' : Stage[b.item] # "open"
    BY <1>0, BidsLeave, MarkedNotOpen DEF Bid
  <2> QED
    BY <2>1, <2>2, StageStays DEF Ledger!LedgerNext, Ledger!GiveUp
<1>3. CASE CloserDeleteRoom(s)
  <2> DEFINE i == closer[s].at
  <2>1. /\ i \in Items
        /\ rooms' = rooms \ {i}
        /\ UNCHANGED <<auctionStatus, bids, orders>>
    BY <1>0, <1>3 DEF CloserDeleteRoom, HasItem
  <2>2. CASE i \in rooms
    <3>1. ~ auctionStatus[i]
      BY <1>3 DEF CloserDeleteRoom, ClosingInv, MarkedBeforePruned
    <3>2. Stage[i] = "closing"
      BY <2>1, <2>2, <3>1 DEF Stage
    <3>3. Stage' = [Stage EXCEPT ![i] = "closed"]
      BY <2>1, <2>2 DEF Stage
    <3> QED
      BY <2>1, <3>2, <3>3 DEF Ledger!LedgerNext, Ledger!Advance
  <2>3. CASE i \notin rooms
    <3>1. rooms' = rooms
      BY <2>1, <2>3
    <3> QED
      BY <2>1, <3>1, StageStays
  <2> QED
    BY <2>2, <2>3
<1>4. CASE \/ CloserSkip(s) \/ CloserFindRoom(s) \/ CloserFindRoomAgain(s)
           \/ CloserFindHighest(s) \/ CloserReturn(s)
  <2>1. UNCHANGED <<auctionStatus, rooms, bids, orders>>
    BY <1>4 DEF dbVars, CloserSkip, CloserFindRoom, CloserFindRoomAgain,
       CloserFindHighest, CloserReturn
  <2> QED
    BY <2>1, StageStays
<1> QED
  BY <1>1, <1>2, <1>3, <1>4 DEF Delete

\* An order sells, or gives up bids it has sold, only of marked items.
LEMMA OrderLedger ==
  ASSUME ClosingInv, ClosingInv', [Next]_vars, OrdersNext,
         UNCHANGED <<roomsVars, bidsVars>>
  PROVE  [Ledger!LedgerNext]_(Ledger!ledgerVars)
<1> USE DEF Ledger!ledgerVars
<1>0. UNCHANGED Stage
  <2>1. UNCHANGED <<auctionStatus, rooms>>
    BY DEF OrdersNext, FetchBids, PopulateItems, InsertOrder,
       DeleteOrderedBids, dbVars
  <2> QED
    BY <2>1, StageStays
<1>1. ASSUME NEW o \in priced, InsertOrder(o)
      PROVE  Ledger!Sell
  <2>1. o \in Order /\ \A b \in o.lines : ~ auctionStatus[b.item] /\ b.item \in Items
    BY DEF ClosingInv, LinesAreClosed, TypeOK, OrdersTypeOK, Order, Bid
  <2>2. \A b \in o.lines : Stage[b.item] # "open"
    BY <2>1, MarkedNotOpen
  <2> QED
    BY <1>0, <1>1, <2>1, <2>2 DEF InsertOrder, Ledger!Sell
<1>2. ASSUME NEW o \in clearing, DeleteOrderedBids(o)
      PROVE  Ledger!GiveUp
  <2>1. UNCHANGED orders /\ bids' \subseteq bids
    BY <1>2 DEF DeleteOrderedBids
  <2>2. \A b \in bids : b.item \in Items
    BY DEF ClosingInv, TypeOK, DBTypeOK, Bid
  <2>3. \A b \in bids \ bids' : Stage[b.item] # "open"
    BY <2>2, BidsLeave, MarkedNotOpen
  <2> QED
    BY <1>0, <2>1, <2>3 DEF Ledger!GiveUp
<1>3. CASE \/ \E n \in OrderNumbers, u \in Users : FetchBids(n, u)
           \/ \E o \in fetched : PopulateItems(o)
  <2>1. UNCHANGED <<bids, orders>>
    BY <1>3 DEF FetchBids, PopulateItems, dbVars
  <2> QED
    BY <1>0, <2>1
<1> QED
  BY <1>1, <1>2, <1>3 DEF OrdersNext, Ledger!LedgerNext

\* Every step of the services and jobs is a step of the ledger, or none.
LEMMA StepLedger ==
  ASSUME ClosingInv, ClosingInv', [Next]_vars
  PROVE  [Ledger!LedgerNext]_(Ledger!ledgerVars)
<1> USE DEF Ledger!ledgerVars
<1>1. CASE UNCHANGED <<auctionStatus, rooms, bids, orders>>
  BY <1>1, StageStays
<1>2. CASE UNCHANGED vars \/ Fault
  BY <1>1, <1>2 DEF vars, dbVars, Fault, RunLost, BidLost, OrderLost
<1>3. CASE RoomsNext
  <2>1. CASE Midnight \/ \E s \in Instances : Create(s)
    BY <1>1, <2>1 DEF Midnight, Create, OpenerNext, OpenerThrow, OpenerReturn,
       dbVars
  <2> QED
    BY <1>3, <2>1, DeleteLedger DEF RoomsNext
<1>4. CASE BidsNext
  <2>1. UNCHANGED <<auctionStatus, rooms, orders>> /\ bids \subseteq bids'
    BY <1>4 DEF BidsNext, SendBid, AcceptBid, InsertBid, dbVars
  <2>2. bids' \subseteq Bid
    BY DEF ClosingInv, TypeOK, DBTypeOK
  <2> QED
    BY <2>1, <2>2, StageStays DEF Ledger!LedgerNext, Ledger!Hold
<1>5. CASE OrdersNext /\ UNCHANGED <<roomsVars, bidsVars>>
  BY <1>5, OrderLedger
<1> QED
  BY <1>2, <1>3, <1>4, <1>5 DEF Next, Work

\* Initially every auction of the ledger is open.
LEMMA InitLedger == Init => Ledger!LedgerInit
  BY ItemsAssumption DEF Init, DBInit, Ledger!LedgerInit, Stage

\* The services and jobs, with any number of instances and whatever is cut
\* short, implement the promise: an auction only ever goes from open to
\* closing to closed, and bids are given up and items sold in the last two
\* stages only (rooms.service.ts, bids.service.ts, orders.service.ts).
THEOREM LedgerImplemented == Spec => ImplementsLedger
<1>1. ClosingInv /\ ClosingInv' /\ [Next]_vars =>
         [Ledger!LedgerNext]_(Ledger!ledgerVars)
  BY StepLedger
<1> QED
  BY InitLedger, ClosingAlways, <1>1, PTL
     DEF Spec, ImplementsLedger, Ledger!LedgerSpec

=============================================================================
