---------------------------- MODULE RoomsService ----------------------------
(***************************************************************************)
(* The two jobs RoomsService schedules at midnight on every instance:      *)
(* create(), which looks for items whose auction should open, and          *)
(* delete(), which closes the auctions that are over.                      *)
(*                                                                         *)
(* closer[s] is the run of delete() on instance s: the await it is at, the *)
(* item of its loop, and the highest bid findHighestOne() returned (none,  *)
(* or one).  opener[s] is the item create() is at, 0 when it does not run. *)
(*                                                                         *)
(* findOne() throws when there is no room, so the branch of create() that  *)
(* stores one is never taken, and both jobs stop at the first item that    *)
(* should have had a room.                                                 *)
(***************************************************************************)
EXTENDS AuctionDB

VARIABLES closer, opener

roomsVars == <<closer, opener>>

CloserPc == {"idle", "scan", "lookup", "top", "save", "prune", "drop"}

IdleRun == [pc |-> "idle", at |-> 1, top |-> {}]

Run == [pc: CloserPc, at: 1 .. NumItems + 1, top: SUBSET Bid]

\* A run that is not between items has an item.
HasItem(run) == run.pc \in {"idle", "scan"} \/ run.at \in Items

RoomsTypeOK ==
    /\ closer \in [Instances -> Run]
    /\ opener \in [Instances -> 0 .. NumItems + 1]
    /\ \A s \in Instances : HasItem(closer[s])

RoomsInit ==
    /\ closer = [s \in Instances |-> IdleRun]
    /\ opener = [s \in Instances |-> 0]

\* The run of delete() on s awaits the call named pc, for item i.
CloserAt(s, pc, i) == closer[s].pc = pc /\ closer[s].at = i

\* Some run has read the highest bid on i and has not dropped the room yet.
Closing(i) == \E s \in Instances, pc \in {"save", "prune", "drop"} :
                 CloserAt(s, pc, i)

Await(s, pc) == closer' = [closer EXCEPT ![s].pc = pc]

NextItem(s) ==
    closer' = [closer EXCEPT ![s] = [pc |-> "scan", at |-> @.at + 1, top |-> {}]]

Throw(s) == closer' = [closer EXCEPT ![s] = IdleRun]

\* @Cron(EVERY_DAY_AT_MIDNIGHT): both jobs start on every instance.  A run
\* takes seconds, so the ones of the day before are over.
Midnight ==
    /\ \A s \in Instances : closer[s].pc = "idle" /\ opener[s] = 0
    /\ day' = IF day < MaxDay THEN day + 1 ELSE day
    /\ closer' = [s \in Instances |-> [pc |-> "scan", at |-> 1, top |-> {}]]
    /\ opener' = [s \in Instances |-> 1]
    /\ UNCHANGED <<auctionStatus, rooms, bids, orders>>

-----------------------------------------------------------------------------
(* delete() *)

CloserSkip(s) ==
    /\ closer[s].pc = "scan"
    /\ closer[s].at \in Items
    /\ ~ OutOfWindow(closer[s].at)
    /\ NextItem(s)
    /\ UNCHANGED <<dbVars, opener>>

CloserFindRoom(s) ==
    /\ closer[s].pc = "scan"
    /\ closer[s].at \in Items
    /\ OutOfWindow(closer[s].at)
    /\ IF closer[s].at \in rooms THEN Await(s, "lookup") ELSE Throw(s)
    /\ UNCHANGED <<dbVars, opener>>

\* findHighestOne() looks the room up once more.
CloserFindRoomAgain(s) ==
    /\ closer[s].pc = "lookup"
    /\ IF closer[s].at \in rooms THEN Await(s, "top") ELSE Throw(s)
    /\ UNCHANGED <<dbVars, opener>>

\* Mutant of CloserFindHighest: the losers are deleted before item.save().
CloserFindHighestUnsaved(s) ==
    /\ closer[s].pc = "top"
    /\ \/ /\ BidsOn(closer[s].at) = {}
          /\ Await(s, "prune")
       \/ \E b \in HighestBids(closer[s].at) :
             closer' = [closer EXCEPT ![s].pc = "prune", ![s].top = {b}]
    /\ UNCHANGED <<dbVars, opener>>

\* ... and then its bids, highest price first; with no bid the result is
\* { price: 0 }, which has no id.
CloserFindHighest(s) ==
    /\ closer[s].pc = "top"
    /\ \/ /\ BidsOn(closer[s].at) = {}
          /\ Await(s, "save")
       \/ \E b \in HighestBids(closer[s].at) :
             closer' = [closer EXCEPT ![s].pc = "save", ![s].top = {b}]
    /\ UNCHANGED <<dbVars, opener>>

\* Mutant of CloserSaveItem: item.save() is forgotten.
CloserKeepItem(s) ==
    /\ closer[s].pc = "save"
    /\ Await(s, "prune")
    /\ UNCHANGED <<dbVars, opener>>

CloserSaveItem(s) ==
    /\ closer[s].pc = "save"
    /\ auctionStatus' = [auctionStatus EXCEPT ![closer[s].at] = FALSE]
    /\ Await(s, "prune")
    /\ UNCHANGED <<day, rooms, bids, orders, opener>>

\* Mutant of CloserDeleteBids: deleteAllButHighest() is forgotten.
CloserKeepBids(s) ==
    /\ closer[s].pc = "prune"
    /\ Await(s, "drop")
    /\ UNCHANGED <<dbVars, opener>>

\* deleteAllButHighest(): an id that is undefined spares no bid.
CloserDeleteBids(s) ==
    /\ closer[s].pc = "prune"
    /\ bids' = {b \in bids : b.item = closer[s].at => b \in closer[s].top}
    /\ Await(s, "drop")
    /\ UNCHANGED <<day, auctionStatus, rooms, orders, opener>>

\* Mutant of CloserDeleteRoom: the loop returns after its first room.
CloserDeleteRoomAndReturn(s) ==
    /\ closer[s].pc = "drop"
    /\ rooms' = rooms \ {closer[s].at}
    /\ Throw(s)
    /\ UNCHANGED <<day, auctionStatus, bids, orders, opener>>

CloserDeleteRoom(s) ==
    /\ closer[s].pc = "drop"
    /\ rooms' = rooms \ {closer[s].at}
    /\ NextItem(s)
    /\ UNCHANGED <<day, auctionStatus, bids, orders, opener>>

CloserReturn(s) ==
    /\ closer[s].pc = "scan"
    /\ closer[s].at = NumItems + 1
    /\ Throw(s)
    /\ UNCHANGED <<dbVars, opener>>

Delete(s) ==
    \/ CloserSkip(s) \/ CloserFindRoom(s) \/ CloserFindRoomAgain(s)
    \/ CloserFindHighest(s) \/ CloserSaveItem(s) \/ CloserDeleteBids(s)
    \/ CloserDeleteRoom(s) \/ CloserReturn(s)

-----------------------------------------------------------------------------
(* create(): an item in its window must have a room, or findOne() throws. *)

OpenerNext(s) ==
    /\ opener[s] \in Items
    /\ OutOfWindow(opener[s]) \/ opener[s] \in rooms
    /\ opener' = [opener EXCEPT ![s] = @ + 1]
    /\ UNCHANGED <<dbVars, closer>>

OpenerThrow(s) ==
    /\ opener[s] \in Items
    /\ ~ OutOfWindow(opener[s])
    /\ opener[s] \notin rooms
    /\ opener' = [opener EXCEPT ![s] = 0]
    /\ UNCHANGED <<dbVars, closer>>

OpenerReturn(s) ==
    /\ opener[s] = NumItems + 1
    /\ opener' = [opener EXCEPT ![s] = 0]
    /\ UNCHANGED <<dbVars, closer>>

Create(s) == OpenerNext(s) \/ OpenerThrow(s) \/ OpenerReturn(s)

-----------------------------------------------------------------------------

\* The instance stops, or a call rejects: the run is over, what it wrote
\* stays.
RunLost(s) ==
    /\ \/ closer[s].pc # "idle" /\ Throw(s) /\ UNCHANGED opener
       \/ opener[s] # 0 /\ opener' = [opener EXCEPT ![s] = 0] /\ UNCHANGED closer
    /\ UNCHANGED dbVars

RoomsNext == Midnight \/ \E s \in Instances : Delete(s) \/ Create(s)

=============================================================================
