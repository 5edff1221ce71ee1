---------------------------- MODULE OrdersProofs ----------------------------
(***************************************************************************)
(* Orders, for every number of users, bids and orders: whoever sends one   *)
(* request after the other never orders a bid twice.                       *)
(***************************************************************************)
EXTENDS WinnerProofs

\* A bid is inserted once: what is on its way is not stored yet.
InsertedOnce ==
    /\ sent \cap accepted = {}
    /\ (sent \cup accepted) \cap placed = {}

\* What an order is, or is to be, made from was stored before.
LinesWerePlaced ==
    /\ bids \subseteq placed
    /\ \A o \in fetched \cup priced \cup orders : o.lines \subseteq placed

\* A request is in one place at a time; its number is its own.
OnePlace ==
    /\ fetched \cap priced = {} /\ fetched \cap orders = {} /\ priced \cap orders = {}
    /\ \A o, p \in fetched \cup priced \cup orders : o.number = p.number => o = p

\* A user who is not exposed has one request under way at most ...
OneUnderWay ==
    \A o, p \in UnderWay : o.user = p.user /\ o.user \notin exposed => o = p

\* ... no bid left of an order whose request is over ...
Cleared ==
    \A o \in orders \ clearing : o.user \notin exposed => o.lines \cap bids = {}

\* ... and none in the making that is in an order already.
NotOrderedYet ==
    \A o \in fetched \cup priced, p \in orders :
        o.user \notin exposed => o.lines \cap p.lines = {}

OnceInv ==
    /\ TypeOK
    /\ InsertedOnce
    /\ LinesWerePlaced
    /\ LinesAreOwn
    /\ OnePlace
    /\ OneUnderWay
    /\ Cleared
    /\ NotOrderedYet
    /\ OrderedOnceInTurn

-----------------------------------------------------------------------------
(* Bids come and go *)

\* What bidders and faults do to a bid on its way inserts it once.
LEMMA InsertedOnceStep ==
  ASSUME InsertedOnce, [Next]_vars
  PROVE  InsertedOnce'
<1> USE DEF InsertedOnce
<1>1. ASSUME NEW id \in BidIds, NEW u \in Users, NEW i \in Items,
             NEW price \in Prices, SendBid(id, u, i, price)
      PROVE  InsertedOnce'
  <2> DEFINE b == [id |-> id, user |-> u, item |-> i, price |-> price]
  <2>1. b.id = id
    OBVIOUS
  <2>2. b \notin sent \cup accepted \cup placed
    BY <1>1, <2>1 DEF SendBid
  <2>3. sent' = sent \cup {b} /\ accepted' = accepted /\ placed' = placed
    BY <1>1 DEF SendBid
  <2> QED
    BY <2>2, <2>3
<1>2. ASSUME NEW b \in sent, AcceptBid(b) PROVE InsertedOnce'
  BY <1>2 DEF AcceptBid
<1>3. ASSUME NEW b \in accepted, InsertBid(b) PROVE InsertedOnce'
  BY <1>3 DEF InsertBid
<1>4. ASSUME NEW b \in sent \cup accepted, BidLost(b) PROVE InsertedOnce'
  BY <1>4 DEF BidLost
<1>5. CASE UNCHANGED bidsVars
  BY <1>5 DEF bidsVars
<1>6. \/ UNCHANGED bidsVars \/ BidsNext
      \/ \E b \in sent \cup accepted : BidLost(b)
  BY StepCases DEF Fault, vars
<1> QED
  BY <1>1, <1>2, <1>3, <1>4, <1>5, <1>6 DEF BidsNext

\* A bid that appears in the database was never there before.
LEMMA BidsAreNew ==
  ASSUME InsertedOnce, bids \subseteq placed, [Next]_vars
  PROVE  /\ placed \subseteq placed' /\ bids' \subseteq placed'
         /\ (bids' \ bids) \cap placed = {}
<1>1. placed \subseteq placed'
  BY HistoryGrows
<1>2. ASSUME NEW b \in bids' \ bids PROVE b \in placed' /\ b \notin placed
  <2>1. b \in placed'
    BY <1>2, BidsArrive
  <2>2. bids' \subseteq bids \/ \E c \in accepted : bids' = bids \cup {c}
    <3>1. UNCHANGED vars \/ Fault \/ RoomsNext \/ OrdersNext => bids' \subseteq bids
      BY DEF vars, dbVars, Fault, RunLost, BidLost, OrderLost, OrdersNext,
         FetchBids, PopulateItems, InsertOrder, DeleteOrderedBids,
         RoomsNext, Midnight, Create, OpenerNext, OpenerThrow, OpenerReturn,
         Delete, CloserSkip, CloserFindRoom, CloserFindRoomAgain,
         CloserFindHighest, CloserSaveItem, CloserDeleteBids, CloserDeleteRoom,
         CloserReturn
    <3>2. BidsNext => bids' \subseteq bids \/ \E c \in accepted : bids' = bids \cup {c}
      BY DEF BidsNext, SendBid, AcceptBid, InsertBid, dbVars
    <3> QED
      BY <3>1, <3>2 DEF Next, Work
  <2> QED
    BY <1>2, <2>1, <2>2 DEF InsertedOnce
<1> QED
  BY <1>1, <1>2

-----------------------------------------------------------------------------
(* Requests *)

\* A step that is not one of OrdersService changes no request and no order.
LEMMA OthersKeepOrders ==
  ASSUME [Next]_vars
  PROVE  \/ UNCHANGED <<ordersVars, orders>>
         \/ OrdersNext /\ UNCHANGED bidsVars
         \/ (\E o \in UnderWay : OrderLost(o)) /\ UNCHANGED bidsVars
<1>1. RoomsNext => UNCHANGED orders
  BY DEF RoomsNext, Midnight, Create, OpenerNext, OpenerThrow, OpenerReturn,
     Delete, CloserSkip, CloserFindRoom, CloserFindRoomAgain,
     CloserFindHighest, CloserSaveItem, CloserDeleteBids, CloserDeleteRoom,
     CloserReturn, dbVars
<1>2. BidsNext => UNCHANGED orders
  BY DEF BidsNext, SendBid, AcceptBid, InsertBid, dbVars
<1>3. UNCHANGED vars => UNCHANGED <<ordersVars, orders>>
  BY DEF vars, dbVars
<1>4. Fault => \/ UNCHANGED <<ordersVars, orders>>
               \/ (\E o \in UnderWay : OrderLost(o)) /\ UNCHANGED bidsVars
  BY DEF Fault, RunLost, BidLost, dbVars
<1> QED
  BY <1>1, <1>2, <1>3, <1>4, StepCases

\* Runs and bidders disturb no request: the bids they store are new, so that
\* no order has them.
LEMMA OthersOnce ==
  ASSUME OnceInv, [Next]_vars, UNCHANGED <<ordersVars, orders>>
  PROVE  OnceInv'
<1>1. TypeOK' /\ InsertedOnce' /\ LinesAreOwn'
  BY NextType, InsertedOnceStep, OwnLines DEF OnceInv
<1>2. /\ placed \subseteq placed' /\ bids' \subseteq placed'
      /\ (bids' \ bids) \cap placed = {}
  BY BidsAreNew DEF OnceInv, LinesWerePlaced
<1>3. /\ fetched' = fetched /\ priced' = priced /\ clearing' = clearing
      /\ exposed' = exposed /\ orders' = orders /\ UnderWay' = UnderWay
  BY DEF ordersVars, UnderWay
<1>4. LinesWerePlaced'
  BY <1>2, <1>3 DEF OnceInv, LinesWerePlaced
<1>5. Cleared'
  BY <1>2, <1>3 DEF OnceInv, LinesWerePlaced, Cleared
<1>6. OnePlace' /\ OneUnderWay' /\ NotOrderedYet' /\ OrderedOnceInTurn'
  BY <1>3 DEF OnceInv, OnePlace, OneUnderWay, NotOrderedYet, OrderedOnceInTurn
<1> QED
  BY <1>1, <1>4, <1>5, <1>6 DEF OnceInv

\* The read of the bids finds none that the user has ordered.
LEMMA FetchOnce ==
  ASSUME OnceInv, NEW n \in OrderNumbers, NEW u \in Users, FetchBids(n, u),
         UNCHANGED bidsVars
  PROVE  /\ LinesWerePlaced' /\ OnePlace' /\ OneUnderWay'
         /\ Cleared' /\ NotOrderedYet' /\ OrderedOnceInTurn'
<1> DEFINE q == [number |-> n, user |-> u, lines |-> {b \in bids : b.user = u}]
<1>1. /\ q.number = n /\ q.user = u /\ q.lines \subseteq bids
      /\ \A b \in q.lines : b.user = u
  OBVIOUS
<1>2. /\ fetched' = fetched \cup {q} /\ priced' = priced /\ clearing' = clearing
      /\ orders' = orders /\ bids' = bids /\ placed' = placed
      /\ \A o \in fetched \cup priced \cup orders : o.number # n
      /\ UnderWay' = UnderWay \cup {q}
  BY DEF FetchBids, dbVars, bidsVars, UnderWay
<1>3. /\ exposed \subseteq exposed'
      /\ u \notin exposed' => \A o \in UnderWay : o.user # u
  BY DEF FetchBids
<1> HIDE DEF q
<1>4. LinesWerePlaced'
  BY <1>1, <1>2 DEF OnceInv, LinesWerePlaced
<1>5. OnePlace'
  BY <1>1, <1>2 DEF OnceInv, OnePlace
<1>6. OneUnderWay'
  BY <1>1, <1>2, <1>3 DEF OnceInv, OneUnderWay
<1>7. Cleared' /\ OrderedOnceInTurn'
  BY <1>2, <1>3 DEF OnceInv, Cleared, OrderedOnceInTurn
<1>8. ASSUME NEW p \in orders, u \notin exposed' PROVE q.lines \cap p.lines = {}
  <2>1. CASE p.user = u
    <3>1. p \notin clearing
      BY <1>3, <1>8, <2>1 DEF UnderWay
    <3> QED
      BY <1>1, <1>3, <1>8, <2>1, <3>1 DEF OnceInv, Cleared
  <2>2. CASE p.user # u
    BY <1>1, <2>2 DEF OnceInv, LinesAreOwn
  <2> QED
    BY <2>1, <2>2
<1>9. NotOrderedYet'
  BY <1>1, <1>2, <1>3, <1>8 DEF OnceInv, NotOrderedYet
<1> QED
  BY <1>4, <1>5, <1>6, <1>7, <1>9

\* Populating the items only takes lines away.
LEMMA PopulateOnce ==
  ASSUME OnceInv, NEW o \in fetched, PopulateItems(o), UNCHANGED bidsVars
  PROVE  /\ LinesWerePlaced' /\ OnePlace' /\ OneUnderWay'
         /\ Cleared' /\ NotOrderedYet' /\ OrderedOnceInTurn'
<1> DEFINE q == [o EXCEPT !.lines = ClosedLines(o)]
<1>1. q.number = o.number /\ q.user = o.user /\ q.lines \subseteq o.lines
  BY DEF OnceInv, TypeOK, OrdersTypeOK, Order, ClosedLines
<1>2. /\ fetched' = fetched \ {o} /\ priced' = priced \cup {q}
      /\ clearing' = clearing /\ exposed' = exposed
      /\ orders' = orders /\ bids' = bids /\ placed' = placed
  BY DEF PopulateItems, dbVars, bidsVars
<1> HIDE DEF q
<1>3. o \notin priced /\ o \notin clearing /\ clearing \subseteq orders
  BY DEF OnceInv, OnePlace, TypeOK, OrdersTypeOK
<1>4. LinesWerePlaced'
  BY <1>1, <1>2 DEF OnceInv, LinesWerePlaced
<1>5. OnePlace'
  BY <1>1, <1>2 DEF OnceInv, OnePlace
<1>6. OneUnderWay'
  <2>1. ASSUME NEW p \in UnderWay', p # q, p.user = o.user, o.user \notin exposed
        PROVE  FALSE
    BY <1>2, <1>3, <2>1 DEF OnceInv, OneUnderWay, UnderWay
  <2>2. UnderWay' \subseteq UnderWay \cup {q}
    BY <1>2 DEF UnderWay
  <2> QED
    BY <1>1, <1>2, <2>1, <2>2 DEF OnceInv, OneUnderWay
<1>7. Cleared' /\ OrderedOnceInTurn'
  BY <1>2 DEF OnceInv, Cleared, OrderedOnceInTurn
<1>8. NotOrderedYet'
  BY <1>1, <1>2 DEF OnceInv, NotOrderedYet
<1> QED
  BY <1>4, <1>5, <1>6, <1>7, <1>8

\* The order that is stored has no line that another one of its user has.
LEMMA InsertOnce ==
  ASSUME OnceInv, NEW o \in priced, InsertOrder(o), UNCHANGED bidsVars
  PROVE  /\ LinesWerePlaced' /\ OnePlace' /\ OneUnderWay'
         /\ Cleared' /\ NotOrderedYet' /\ OrderedOnceInTurn'
<1>1. /\ fetched' = fetched /\ priced' = priced \ {o}
      /\ clearing' = clearing \cup {o} /\ exposed' = exposed
      /\ orders' = orders \cup {o} /\ bids' = bids /\ placed' = placed
      /\ UnderWay' = UnderWay
  BY DEF InsertOrder, bidsVars, UnderWay
<1>2. o \notin fetched /\ o \notin orders
  BY DEF OnceInv, OnePlace
<1>3. LinesWerePlaced' /\ OnePlace' /\ OneUnderWay' /\ Cleared'
  BY <1>1, <1>2 DEF OnceInv, LinesWerePlaced, OnePlace, OneUnderWay, Cleared
<1>4. ASSUME NEW p \in fetched \cup priced \cup orders, p.user # o.user
      PROVE  p.lines \cap o.lines = {}
  BY <1>4 DEF OnceInv, LinesAreOwn
<1>5. NotOrderedYet'
  <2>1. ASSUME NEW p \in fetched' \cup priced', p.user = o.user,
               p.user \notin exposed
        PROVE  FALSE
    BY <1>1, <1>2, <2>1 DEF OnceInv, OneUnderWay, UnderWay
  <2> QED
    BY <1>1, <1>4, <2>1 DEF OnceInv, NotOrderedYet
<1>6. OrderedOnceInTurn'
  <2>1. \A p \in orders : o.user \notin exposed => o.lines \cap p.lines = {}
    BY DEF OnceInv, NotOrderedYet
  <2> QED
    BY <1>1, <1>4, <2>1 DEF OnceInv, OrderedOnceInTurn
<1> QED
  BY <1>3, <1>5, <1>6

\* A request that is over, or cut short, has deleted its bids, or its user is
\* exposed.
LEMMA EndOnce ==
  ASSUME OnceInv, NEW o \in UnderWay, DeleteOrderedBids(o) \/ OrderLost(o),
         UNCHANGED bidsVars
  PROVE  /\ LinesWerePlaced' /\ OnePlace' /\ OneUnderWay'
         /\ Cleared' /\ NotOrderedYet' /\ OrderedOnceInTurn'
<1>1. /\ fetched' \subseteq fetched /\ priced' \subseteq priced
      /\ clearing' = clearing \ {o} /\ exposed \subseteq exposed'
      /\ orders' = orders /\ bids' \subseteq bids /\ placed' = placed
      /\ o \in clearing => o.user \in exposed' \/ o.lines \cap bids' = {}
  BY DEF DeleteOrderedBids, OrderLost, dbVars, bidsVars
<1>2. UnderWay' \subseteq UnderWay
  BY <1>1 DEF UnderWay
<1>3. LinesWerePlaced' /\ OnePlace'
  BY <1>1 DEF OnceInv, LinesWerePlaced, OnePlace
<1>4. OneUnderWay' /\ Cleared' /\ NotOrderedYet' /\ OrderedOnceInTurn'
  BY <1>1, <1>2 DEF OnceInv, OneUnderWay, Cleared, NotOrderedYet, OrderedOnceInTurn
<1> QED
  BY <1>3, <1>4

LEMMA OnceStep == OnceInv /\ [Next]_vars => OnceInv'
<1> SUFFICES ASSUME OnceInv, [Next]_vars PROVE OnceInv'
  OBVIOUS
<1>1. TypeOK' /\ InsertedOnce' /\ LinesAreOwn'
  BY NextType, InsertedOnceStep, OwnLines DEF OnceInv
<1>2. CASE UNCHANGED <<ordersVars, orders>>
  BY <1>2, OthersOnce
<1>3. CASE OrdersNext /\ UNCHANGED bidsVars
  <2>1. clearing \subseteq UnderWay
    BY DEF UnderWay
  <2> QED
    BY <1>1, <1>3, <2>1, FetchOnce, PopulateOnce, InsertOnce, EndOnce
       DEF OnceInv, OrdersNext
<1>4. CASE (\E o \in UnderWay : OrderLost(o)) /\ UNCHANGED bidsVars
  BY <1>1, <1>4, EndOnce DEF OnceInv
<1> QED
  BY <1>2, <1>3, <1>4, OthersKeepOrders

LEMMA OnceInit == Init => OnceInv
<1> SUFFICES ASSUME Init PROVE OnceInv
  OBVIOUS
<1>1. /\ bids = {} /\ orders = {} /\ sent = {} /\ accepted = {} /\ placed = {}
      /\ fetched = {} /\ priced = {} /\ clearing = {}
  BY DEF Init, DBInit, BidsInit, OrdersInit
<1> QED
  BY <1>1, InitType DEF OnceInv, InsertedOnce, LinesWerePlaced, LinesAreOwn,
     OnePlace, OneUnderWay, UnderWay, Cleared, NotOrderedYet, OrderedOnceInTurn

\* The request of a user who waits for the last one to end orders no bid that
\* an earlier one has, although nothing but deleteAll() keeps it from doing so
\* (orders.service.ts create()).
THEOREM NoneOrderedTwice == Spec => []OrderedOnceInTurn
<1>1. OnceInv => OrderedOnceInTurn
  BY DEF OnceInv
<1> QED
  BY <1>1, OnceInit, OnceStep, PTL DEF Spec

=============================================================================
