------------------------------ MODULE BidBoard ------------------------------
(***************************************************************************)
(* What an auction room promises its bidders, without sockets, sessions,   *)
(* tokens or awaits.  A bid is taken under one account, announced once and *)
(* to whoever is there at the same time, and then stored under this        *)
(* account, reported as failed, or lost with the server that had it; one   *)
(* that was announced ends in no other way.  A stored bid is deleted only  *)
(* when the auction is closed.  A page has one account, which tells it     *)
(* whether a bid it hears of is its own.  BidsGateway implements it.       *)
(***************************************************************************)
CONSTANTS Pages, Users, NoUser, BidIds

VARIABLES
    who,        \* the account of every page, NoUser until it has one
    open,       \* is the auction open
    taken,      \* the bids taken, each with the account it is to be stored under
    announced,  \* those that were announced
    stored,     \* those that are stored
    failed,     \* the ids of the bids that were reported as failed,
    lost,       \* ... of those that were lost,
    deleted,    \* ... and of those that were stored and deleted
    heard       \* the bids a page was told of, and whether as its own

boardVars == <<who, open, taken, announced, stored, failed, lost, deleted, heard>>

BoardInit ==
    /\ who = [p \in Pages |-> NoUser]
    /\ open = TRUE
    /\ taken = {}
    /\ announced = {}
    /\ stored = {}
    /\ failed = {}
    /\ lost = {}
    /\ deleted = {}
    /\ heard = [p \in Pages |-> {}]

IdsOf(S) == {b.id : b \in S}

Fresh(id) ==
    id \notin failed \cup lost \cup deleted \cup IdsOf(taken \cup announced \cup stored)

Enter ==
    /\ \E p \in Pages, u \in Users :
          who[p] = NoUser /\ who' = [who EXCEPT ![p] = u]
    /\ UNCHANGED <<open, taken, announced, stored, failed, lost, deleted, heard>>

Take ==
    /\ \E id \in BidIds, u \in Users :
          Fresh(id) /\ taken' = taken \cup {[id |-> id, user |-> u]}
    /\ UNCHANGED <<who, open, announced, stored, failed, lost, deleted, heard>>

\* A bid without a bidder.
Reject ==
    /\ \E id \in BidIds : Fresh(id) /\ failed' = failed \cup {id}
    /\ UNCHANGED <<who, open, taken, announced, stored, lost, deleted, heard>>

Hear(b, audience) ==
    heard' = [p \in Pages |->
                 IF p \in audience
                 THEN heard[p] \cup {[id |-> b.id, mine |-> who[p] = b.user]}
                 ELSE heard[p]]

Announce ==
    /\ \E b \in taken :
          /\ taken' = taken \ {b}
          /\ announced' = announced \cup {b}
          /\ \E audience \in SUBSET {p \in Pages : who[p] # NoUser} :
                Hear(b, audience)
    /\ UNCHANGED <<who, open, stored, failed, lost, deleted>>

Store ==
    /\ \E b \in announced :
          announced' = announced \ {b} /\ stored' = stored \cup {b}
    /\ UNCHANGED <<who, open, taken, failed, lost, deleted, heard>>

Fail ==
    /\ \E b \in taken \cup announced :
          /\ taken' = taken \ {b}
          /\ announced' = announced \ {b}
          /\ failed' = failed \cup {b.id}
    /\ UNCHANGED <<who, open, stored, lost, deleted, heard>>

\* What was stored may be reported as failed all the same.
Mistake ==
    /\ \E id \in IdsOf(stored) \cup deleted : failed' = failed \cup {id}
    /\ UNCHANGED <<who, open, taken, announced, stored, lost, deleted, heard>>

Lose ==
    /\ \E gone \in SUBSET (taken \cup announced) :
          /\ taken' = taken \ gone
          /\ announced' = announced \ gone
          /\ lost' = lost \cup IdsOf(gone)
    /\ UNCHANGED <<who, open, stored, failed, deleted, heard>>

Close ==
    /\ open' = FALSE
    /\ UNCHANGED <<who, taken, announced, stored, failed, lost, deleted, heard>>

\* The losing bids, or the bids of an order.
Delete ==
    /\ ~ open
    /\ \E gone \in SUBSET stored :
          stored' = stored \ gone /\ deleted' = deleted \cup IdsOf(gone)
    /\ UNCHANGED <<who, open, taken, announced, failed, lost, heard>>

BoardNext ==
    \/ Enter \/ Take \/ Reject \/ Announce \/ Store \/ Fail \/ Mistake \/ Lose
    \/ Close \/ Delete

BoardSpec == BoardInit /\ [][BoardNext]_boardVars

=============================================================================
