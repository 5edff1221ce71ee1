--------------------------- MODULE MidnightProofs ---------------------------
(***************************************************************************)
(* The safety half of MidnightDropsRooms, for every number of items and    *)
(* instances: however the runs of delete() overtake each other, one of     *)
(* them is on its way to the room until the room is gone.                  *)
(***************************************************************************)
EXTENDS AuctionProofs

\* Midnight is the only step that moves the calendar, and starts no run before
\* the last one is over: an item a run has looked up stays out of its window.
OverdueOnly ==
    \A s \in Instances :
        closer[s].pc \notin {"idle", "scan"} => OutOfWindow(closer[s].at)

\* What a step of the run on s does to the runs.
LEMMA OneRunMoves ==
  ASSUME TypeOK, NEW s \in Instances, Delete(s)
  PROVE  /\ day' = day /\ \A i : OutOfWindow(i)' = OutOfWindow(i)
         /\ \A t \in Instances \ {s} : closer'[t] = closer[t]
         /\ closer'[s].pc \notin {"idle", "scan"} => closer'[s].at = closer[s].at
<1> USE DEF TypeOK, RoomsTypeOK, Run
<1>1. day' = day
  BY DEF Delete, CloserSkip, CloserFindRoom, CloserFindRoomAgain,
         CloserFindHighest, CloserSaveItem, CloserDeleteBids, CloserDeleteRoom,
         CloserReturn, dbVars
<1>2. \/ NextItem(s) \/ Throw(s)
      \/ \E pc \in CloserPc : Await(s, pc)
      \/ \E b : closer' = [closer EXCEPT ![s].pc = "save", ![s].top = {b}]
  BY DEF Delete, CloserSkip, CloserFindRoom, CloserFindRoomAgain,
         CloserFindHighest, CloserSaveItem, CloserDeleteBids, CloserDeleteRoom,
         CloserReturn, CloserPc
<1>3. /\ \A t \in Instances \ {s} : closer'[t] = closer[t]
      /\ closer'[s].pc \notin {"idle", "scan"} => closer'[s].at = closer[s].at
  BY <1>2 DEF NextItem, Throw, IdleRun, Await
<1> QED
  BY <1>1, <1>3 DEF OutOfWindow

LEMMA OverdueStep == TypeOK /\ OverdueOnly /\ [Next]_vars => OverdueOnly'
<1> SUFFICES ASSUME TypeOK, OverdueOnly, [Next]_vars PROVE OverdueOnly'
  OBVIOUS
<1>1. CASE Midnight
  BY <1>1 DEF Midnight, OverdueOnly
<1>2. ASSUME NEW s \in Instances, Delete(s) PROVE OverdueOnly'
  <2>1. closer'[s].pc \notin {"idle", "scan"} => OutOfWindow(closer[s].at)
    <3>1. CASE CloserFindRoom(s)
      BY <3>1 DEF CloserFindRoom
    <3>2. CASE CloserSkip(s) \/ CloserReturn(s) \/ CloserDeleteRoom(s)
      BY <3>2 DEF CloserSkip, CloserReturn, CloserDeleteRoom, NextItem, Throw,
                  IdleRun, TypeOK, RoomsTypeOK, Run
    <3>3. CASE \/ CloserFindRoomAgain(s) \/ CloserFindHighest(s)
               \/ CloserSaveItem(s) \/ CloserDeleteBids(s)
      BY <3>3 DEF CloserFindRoomAgain, CloserFindHighest, CloserSaveItem,
                  CloserDeleteBids, OverdueOnly
    <3> QED
      BY <1>2, <3>1, <3>2, <3>3 DEF Delete
  <2> QED
    BY <1>2, <2>1, OneRunMoves DEF OverdueOnly
<1>3. ASSUME NEW s \in Instances, RunLost(s) PROVE OverdueOnly'
  <2>1. day' = day /\ \A t \in Instances : closer'[t] = closer[t] \/ closer'[t].pc = "idle"
    BY <1>3 DEF RunLost, Throw, IdleRun, TypeOK, RoomsTypeOK, dbVars
  <2> QED
    BY <2>1 DEF OverdueOnly, OutOfWindow
<1>4. CASE day' = day /\ closer' = closer
  BY <1>4 DEF OverdueOnly, OutOfWindow
<1>5. \/ Midnight \/ (\E s \in Instances : Delete(s) \/ RunLost(s))
      \/ day' = day /\ closer' = closer
  BY DEF Next, Work, Fault, RoomsNext, Create, OpenerNext, OpenerThrow,
         OpenerReturn, BidsNext, SendBid, AcceptBid, InsertBid, BidLost,
         OrdersNext, FetchBids, PopulateItems, InsertOrder, DeleteOrderedBids,
         OrderLost, vars, dbVars, roomsVars, bidsVars, ordersVars
<1> QED
  BY <1>1, <1>2, <1>3, <1>4, <1>5

\* The run on s goes on by itself, and its next step brings it nearer.
LEMMA ReachingRunGoesOn ==
  ASSUME TypeOK, OverdueOnly, NEW i \in Items, NEW s \in Instances,
         Reaches(s, i), Delete(s)
  PROVE  Reaches(s, i)' \/ i \notin rooms'
<1> USE DEF TypeOK, RoomsTypeOK, Run
<1>0. /\ NumItems \in Nat /\ i \in 1 .. NumItems
      /\ closer[s].at \in 1 .. NumItems + 1 /\ closer[s].at <= i
  BY ItemsAssumption DEF Items, Reaches
<1>1. \A j : OutOfWindow(j)' = OutOfWindow(j)
  BY OneRunMoves
<1>2. OutOfWindow(i) /\ closer[s].at \in closer[s].at .. i
  BY <1>0 DEF Reaches
<1>3. CASE CloserSkip(s)
  <2>1. closer'[s].pc = "scan" /\ closer'[s].at = closer[s].at + 1 /\ rooms' = rooms
    BY <1>3 DEF CloserSkip, NextItem, dbVars
  <2>2. closer[s].at # i
    BY <1>2, <1>3 DEF CloserSkip
  <2> QED
    BY <1>0, <1>1, <1>2, <2>1, <2>2 DEF Reaches
<1>4. CASE CloserFindRoom(s)
  <2>1. closer[s].at \in rooms
    BY <1>2, <1>4 DEF CloserFindRoom, Reaches
  <2>2. closer'[s].pc = "lookup" /\ closer'[s].at = closer[s].at /\ rooms' = rooms
    BY <1>4, <2>1 DEF CloserFindRoom, Await, dbVars
  <2>3. closer[s].pc = "scan"
    BY <1>4 DEF CloserFindRoom
  <2> QED
    BY <1>1, <2>2, <2>3 DEF Reaches
<1>5. CASE CloserFindRoomAgain(s)
  <2>1. closer[s].pc = "lookup" /\ OutOfWindow(closer[s].at)
    BY <1>5 DEF CloserFindRoomAgain, OverdueOnly
  <2>2. closer[s].at \in rooms
    BY <1>2, <2>1 DEF Reaches
  <2>3. closer'[s].pc = "top" /\ closer'[s].at = closer[s].at /\ rooms' = rooms
    BY <1>5, <2>2 DEF CloserFindRoomAgain, Await, dbVars
  <2> QED
    BY <1>1, <2>1, <2>3 DEF Reaches
<1>6. CASE CloserFindHighest(s) \/ CloserSaveItem(s) \/ CloserDeleteBids(s)
  <2>1. /\ closer'[s].pc \in {"save", "prune", "drop"}
        /\ closer'[s].at = closer[s].at /\ rooms' = rooms
    BY <1>6 DEF CloserFindHighest, CloserSaveItem, CloserDeleteBids, Await, dbVars
  <2>2. \A j \in closer[s].at .. i : OutOfWindow(j) => j \in rooms \/ j = closer[s].at
    BY DEF Reaches
  <2> QED
    BY <1>0, <1>1, <1>2, <2>1, <2>2 DEF Reaches
<1>7. CASE CloserDeleteRoom(s)
  <2>1. /\ closer'[s].pc = "scan" /\ closer'[s].at = closer[s].at + 1
        /\ rooms' = rooms \ {closer[s].at}
    BY <1>7 DEF CloserDeleteRoom, NextItem
  <2>2. CASE closer[s].at = i
    BY <2>1, <2>2
  <2>3. CASE closer[s].at # i
    <3>1. closer'[s].at <= i /\ closer'[s].at \in Int /\ closer'[s].at > closer[s].at
      BY <1>0, <2>1, <2>3
    <3>2. \A j \in closer'[s].at .. i : OutOfWindow(j) => j \in rooms'
      BY <1>0, <2>1, <3>1 DEF Reaches
    <3> QED
      BY <1>1, <1>2, <2>1, <3>1, <3>2 DEF Reaches
  <2> QED
    BY <2>2, <2>3
<1>8. CASE CloserReturn(s)
  BY <1>0, <1>8 DEF CloserReturn
<1> QED
  BY <1>3, <1>4, <1>5, <1>6, <1>7, <1>8 DEF Delete

\* A run that another one overtakes hands over to it: the other one has just
\* dropped a room and is at the next item.
LEMMA OvertakingRunTakesOver ==
  ASSUME TypeOK, NEW i \in Items, NEW s \in Instances, NEW t \in Instances,
         s # t, Reaches(s, i), Delete(t)
  PROVE  Reaches(s, i)' \/ Reaches(t, i)' \/ i \notin rooms'
<1> USE DEF TypeOK, RoomsTypeOK, Run
<1>0. /\ NumItems \in Nat /\ i \in 1 .. NumItems
      /\ closer[s].at \in 1 .. NumItems + 1 /\ closer[s].at <= i
      /\ closer[t].at \in 1 .. NumItems + 1
  BY ItemsAssumption DEF Items, Reaches
<1>1. closer'[s] = closer[s] /\ \A j : OutOfWindow(j)' = OutOfWindow(j)
  BY OneRunMoves
<1>2. CASE CloserDeleteRoom(t)
  <2>1. /\ closer'[t].pc = "scan" /\ closer'[t].at = closer[t].at + 1
        /\ rooms' = rooms \ {closer[t].at}
    BY <1>2 DEF CloserDeleteRoom, NextItem
  <2>2. CASE closer[t].at = i
    BY <2>1, <2>2
  <2>3. CASE closer[t].at < closer[s].at \/ closer[t].at > i
    BY <1>0, <1>1, <2>1, <2>3 DEF Reaches
  <2>4. CASE closer[s].at <= closer[t].at /\ closer[t].at < i
    <3>1. \A j \in closer[t].at + 1 .. i : OutOfWindow(j) => j \in rooms'
      BY <1>0, <2>1, <2>4 DEF Reaches
    <3> QED
      BY <1>0, <1>1, <2>1, <2>4, <3>1 DEF Reaches
  <2> QED
    BY <1>0, <2>2, <2>3, <2>4
<1>3. CASE ~ CloserDeleteRoom(t)
  <2>1. rooms' = rooms
    BY <1>3 DEF Delete, CloserSkip, CloserFindRoom, CloserFindRoomAgain,
                CloserFindHighest, CloserSaveItem, CloserDeleteBids,
                CloserReturn, dbVars
  <2> QED
    BY <1>1, <2>1 DEF Reaches
<1> QED
  BY <1>2, <1>3

\* A midnight sets out for every room that nothing stands in the way of.
LEMMA MidnightSetsOut ==
  ASSUME NEW s \in Instances, NEW i \in Items, Unblocked(s, i)
  PROVE  OnTheWay(i)
<1>1. i \in Int /\ 1 <= i
  BY ItemsAssumption DEF Items
<1>2. Reaches(s, i)
  BY <1>1 DEF Unblocked, Reaches
<1> QED
  BY <1>2 DEF OnTheWay

LEMMA OnTheWayStep ==
  TypeOK /\ OverdueOnly /\ [Work]_vars =>
      \A i \in Items : OnTheWay(i) => OnTheWay(i)' \/ i \notin rooms'
<1> SUFFICES ASSUME TypeOK, OverdueOnly, [Work]_vars, NEW i \in Items, OnTheWay(i)
             PROVE  OnTheWay(i)' \/ i \notin rooms'
  OBVIOUS
<1> PICK s \in Instances : Reaches(s, i)
  BY DEF OnTheWay
<1>1. CASE Midnight
  BY <1>1 DEF Midnight, Reaches
<1>2. ASSUME NEW t \in Instances, Delete(t)
      PROVE  OnTheWay(i)' \/ i \notin rooms'
  BY <1>2, ReachingRunGoesOn, OvertakingRunTakesOver DEF OnTheWay
<1>3. CASE day' = day /\ closer' = closer /\ rooms' = rooms
  BY <1>3 DEF OnTheWay, Reaches, OutOfWindow
<1>4. \/ Midnight \/ (\E t \in Instances : Delete(t))
      \/ day' = day /\ closer' = closer /\ rooms' = rooms
  BY DEF Work, RoomsNext, Create, OpenerNext, OpenerThrow,
         OpenerReturn, BidsNext, SendBid, AcceptBid, InsertBid,
         OrdersNext, FetchBids, PopulateItems, InsertOrder, DeleteOrderedBids,
         vars, dbVars, roomsVars, bidsVars, ordersVars
<1> QED
  BY <1>1, <1>2, <1>3, <1>4

\* Without faults, a room a midnight has set out for is not forgotten, however
\* the runs of the instances overtake each other (rooms.service.ts delete()).
THEOREM RoomsAreNotForgotten == FairSpec => NoRoomForgotten
<1>1. Init => OverdueOnly
  BY DEF Init, RoomsInit, IdleRun, OverdueOnly
<1>2. [Work]_vars => [Next]_vars
  BY DEF Next
<1>3. FairSpec => Init /\ [][Work]_vars
  BY DEF FairSpec, WorkSpec
<1>4. FairSpec => Spec
  BY <1>2, <1>3, PTL DEF Spec
<1> QED
  BY <1>1, <1>2, <1>3, <1>4, OverdueStep, OnTheWayStep, TypeCorrect, PTL
     DEF NoRoomForgotten

=============================================================================
