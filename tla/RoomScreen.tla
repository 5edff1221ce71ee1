----------------------------- MODULE RoomScreen -----------------------------
(***************************************************************************)
(* What the pages of BidsGateway show.  A page asks GET /bids/:id for the  *)
(* highest bid when it is opened, and again whenever it hears of a bid.    *)
(***************************************************************************)
EXTENDS BidsGateway

VARIABLES
    asks,     \* the page's GET /bids/:id that the server has not read yet
    answers,  \* the prices on their way back to the page
    shown     \* the highest bid the page shows, 0 for none

screenVars == <<vars, asks, answers, shown>>

ScreenInit ==
    /\ Init
    /\ asks = [p \in Pages |-> 0]
    /\ answers = [p \in Pages |-> {}]
    /\ shown = [p \in Pages |-> 0]

\* manageBid() and socket.on('bid'): an opened page waits for its first
\* answer, and the others come when they come.
Listen ==
    /\ asks' = [p \in Pages |-> IF heard'[p] # heard[p] THEN asks[p] + 1 ELSE asks[p]]
    /\ \E price \in Highest :
          shown' = [p \in Pages |->
             IF page[p].pc = "closed" /\ page'[p].pc = "loaded" THEN price ELSE shown[p]]
    /\ UNCHANGED answers

\* GET /bids/:id; without a room the page goes to dne.html.
Answer(p) ==
    /\ asks[p] > 0
    /\ Live(p)
    /\ asks' = [asks EXCEPT ![p] = @ - 1]
    /\ IF room
       THEN /\ answers' = [answers EXCEPT ![p] = @ \cup Highest]
            /\ UNCHANGED page
       ELSE /\ Close(p)
            /\ UNCHANGED answers
    /\ UNCHANGED <<account, store, connected, bidVars, roomVars, shown>>

\* showBidStatus(); answers may overtake each other.
Show(p, price) ==
    /\ price \in answers[p]
    /\ Live(p)
    /\ answers' = [answers EXCEPT ![p] = @ \ {price}]
    /\ shown' = [shown EXCEPT ![p] = price]
    /\ UNCHANGED <<vars, asks>>

ScreenNext ==
    \/ Work /\ Listen
    \/ \E p \in Pages : Answer(p)
    \/ \E p \in Pages : \E price \in answers[p] : Show(p, price)

\* An open auction in which nothing fails: the event loop resolves every await
\* and the network delivers every answer.
ScreenSpec ==
    /\ ScreenInit /\ [][ScreenNext]_screenVars
    /\ \A p \in Pages :
          /\ WF_screenVars((HandleConnection(p) \/ RefuseConnection(p)) /\ Listen)
          /\ WF_screenVars(Answer(p))
          /\ WF_screenVars(\E price \in answers[p] : Show(p, price))
    /\ \A id \in BidIds :
          WF_screenVars((\E r \in requests : r.id = id /\ MakeBid(r)) /\ Listen)

\* While the room exists, a page in it shows the highest bid again and again:
\* it asks for it whenever it hears of a bid (public/room.html '최고 입찰가').
ShownCatchesUp ==
    \A p \in Pages :
        []<>(room /\ page[p].pc = "joined" => shown[p] \in Highest)

=============================================================================
