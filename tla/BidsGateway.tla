---------------------------- MODULE BidsGateway ----------------------------
(***************************************************************************)
(* One auction room in real time: the room pages of several browsers, the  *)
(* sockets they open, the store that maps a browser's socket session to an *)
(* account, and makeBid(), which looks the bidder up, announces the bid to *)
(* every socket of the room and then has it stored.  The auction may close *)
(* at any time: RoomsService.delete() then keeps one bid and drops the     *)
(* room, and the winner's bid goes when it is ordered.  What the pages     *)
(* show of it is in RoomScreen.                                            *)
(*                                                                         *)
(* A page is loaded once and has one socket; a reload is another page.     *)
(* Every browser has its socket_session_id cookie, which the item list     *)
(* fetched before and sign-out leaves alone.  Instances may stop, and      *)
(* every call that is awaited may reject.                                  *)
(***************************************************************************)
EXTENDS Integers, FiniteSets

CONSTANTS
    Users,
    NoUser,
    Browsers,
    Pages,      \* bound: the room pages ever loaded
    BrowserOf,  \* the browser a page is loaded in
    Prices,
    BidIds,     \* bound: the bids ever typed, but for those the guard refuses
    Instances   \* the servers, each with its run of delete()

ASSUME UsersAssumption == NoUser \notin Users

ASSUME PagesAssumption ==
    /\ BrowserOf \in [Pages -> Browsers]
    /\ Prices \subseteq Nat

VARIABLES
    account,   \* whose access token a browser's cookie is
    store,     \* socket:session#id in Redis: the account of a browser
    page,      \* every page: where its socket is, and the account of the token
               \* in its handshake
    requests,  \* the calls of makeBid() under way
    bids,      \* the bids collection, for this room
    room,      \* does the room document exist
    open,      \* item.auctionStatus
    closer,    \* the run of delete() on an instance, once it is at the item of
               \* this room: its await, and the id of the highest bid it read
    heard,     \* the bids a page was told of, and whether as its own
    told,      \* the bids whose page was sent the 'error' event
    connected, \* history: the accounts that connected from a browser
    lost,      \* history: the bids whose instance stopped before they were stored
    deleted    \* history: the stored bids that were deleted

socketVars == <<account, store, page, connected>>
bidVars == <<requests, bids, told, heard, lost, deleted>>
roomVars == <<room, open, closer>>
vars == <<socketVars, bidVars, roomVars>>

\* A socket that is gone was closed while handleConnection() was under way.
PagePc == {"closed", "loaded", "connected", "gone", "joined", "left"}

Socket == [pc: PagePc, user: Users \cup {NoUser}]

IdleRun == [pc |-> "idle", top |-> {}]

Run == [pc: {"idle", "top", "prune", "drop"}, top: SUBSET BidIds]

\* by is the account of the socket, as the one the store answered with,
\* sockets those fetched to be told.
Request == [id: BidIds, page: Pages, price: Prices, by: Users,
            as: Users \cup {NoUser}, sockets: SUBSET Pages,
            pc: {"guard", "fetch", "announce", "create", "insert", "save"}]

Bid == [id: BidIds, page: Pages, price: Prices, by: Users, user: Users]

TypeOK ==
    /\ account \in [Browsers -> Users \cup {NoUser}]
    /\ store \in [Browsers -> Users \cup {NoUser}]
    /\ page \in [Pages -> Socket]
    /\ \A p \in Pages :
          page[p].pc \in {"connected", "gone", "joined"} => page[p].user \in Users
    /\ requests \subseteq Request
    /\ \A r \in requests : r.pc # "guard" => r.as \in Users
    /\ bids \subseteq Bid
    /\ room \in BOOLEAN
    /\ open \in BOOLEAN
    /\ closer \in [Instances -> Run]
    /\ heard \in [Pages -> SUBSET [id: BidIds, mine: BOOLEAN]]
    /\ told \cup lost \cup deleted \subseteq BidIds
    /\ connected \in [Browsers -> SUBSET Users]

Init ==
    /\ account = [b \in Browsers |-> NoUser]
    /\ store = [b \in Browsers |-> NoUser]
    /\ page = [p \in Pages |-> [pc |-> "closed", user |-> NoUser]]
    /\ requests = {}
    /\ bids = {}
    /\ room = TRUE
    /\ open = TRUE
    /\ closer = [s \in Instances |-> IdleRun]
    /\ heard = [p \in Pages |-> {}]
    /\ told = {}
    /\ connected = [b \in Browsers |-> {}]
    /\ lost = {}
    /\ deleted = {}

HighestBids == {b \in bids : \A c \in bids : c.price <= b.price}

\* findHighestOne(): the price of the highest bid, 0 without bids.
Highest == IF bids = {} THEN {0} ELSE {b.price : b \in HighestBids}

Live(p) == page[p].pc \in {"connected", "joined"}

\* handleConnection() goes on when the socket is closed meanwhile.
Close(p) == page' = [page EXCEPT ![p].pc =
                        IF @ \in {"connected", "gone"} THEN "gone" ELSE "left"]

-----------------------------------------------------------------------------
(* Browsers and sockets *)

SignIn(b, u) ==
    /\ account' = [account EXCEPT ![b] = u]
    /\ UNCHANGED <<store, page, connected, bidVars, roomVars>>

\* signout() clears the token cookies and leaves socket_session_id.
SignOut(b) ==
    /\ account[b] # NoUser
    /\ account' = [account EXCEPT ![b] = NoUser]
    /\ UNCHANGED <<store, page, connected, bidVars, roomVars>>

\* The page is opened: GET /bids/:id finds the room, or it goes to dne.html.
Load(p) ==
    /\ page[p].pc = "closed"
    /\ room
    /\ page' = [page EXCEPT ![p].pc = "loaded"]
    /\ UNCHANGED <<account, store, connected, bidVars, roomVars>>

\* allowRequest() lets a handshake with a valid access token through.  From
\* then on the socket has this token, whatever the browser does.  The room
\* may be gone: GET /rooms/:id, before it, may answer from the cache.
Handshake(p) ==
    LET b == BrowserOf[p] IN
    /\ page[p].pc = "loaded"
    /\ account[b] # NoUser
    /\ page' = [page EXCEPT ![p].pc = "connected", ![p].user = account[b]]
    /\ connected' = [connected EXCEPT ![b] = @ \cup {account[b]}]
    /\ UNCHANGED <<account, store, bidVars, roomVars>>

\* handleConnection(), once it has found the user: the socket joins the room
\* of its account, the store is told, and the socket joins the auction room.
HandleConnection(p) ==
    /\ page[p].pc \in {"connected", "gone"}
    /\ page' = [page EXCEPT ![p].pc = IF @ = "gone" THEN "left" ELSE "joined"]
    /\ store' = [store EXCEPT ![BrowserOf[p]] = page[p].user]
    /\ UNCHANGED <<account, connected, bidVars, roomVars>>

\* ... or one of its calls rejects, as validateToken() does once the token of
\* the handshake has expired, and the socket is disconnected.
RefuseConnection(p) ==
    /\ page[p].pc \in {"connected", "gone"}
    /\ page' = [page EXCEPT ![p].pc = "left"]
    /\ UNCHANGED <<account, store, connected, bidVars, roomVars>>

\* The user leaves, or the connection is lost.
Leave(p) ==
    /\ page[p].pc = "loaded" \/ Live(p)
    /\ Close(p)
    /\ UNCHANGED <<account, store, connected, bidVars, roomVars>>

-----------------------------------------------------------------------------
(* makeBid() *)

\* The ids of the records in a set.
Ids(S) == {x.id : x \in S}

\* The client may emit as soon as the socket is connected, before
\* handleConnection() is done.
Emit(p, id, price) ==
    /\ Live(p)
    /\ id \notin Ids(requests) \cup Ids(bids) \cup told \cup lost \cup deleted
    /\ room => \A highest \in Highest : highest < price
    /\ requests' = requests \cup
          {[id |-> id, page |-> p, price |-> price, by |-> page[p].user,
            as |-> NoUser, sockets |-> {}, pc |-> "guard"]}
    /\ UNCHANGED <<socketVars, bids, told, heard, lost, deleted, roomVars>>

\* The call goes on to the await named by q.
Resume(r, q) ==
    /\ requests' = (requests \ {r}) \cup {q}
    /\ UNCHANGED <<page, told>>

\* The catch block: the page is sent an error, its socket is disconnected.
Report(r) ==
    /\ requests' = requests \ {r}
    /\ told' = told \cup {r.id}
    /\ Close(r.page)

\* Mutant of LookUp: the account is the one of the browser's cookie.
LookUpCookie(r) ==
    LET user == account[BrowserOf[r.page]] IN
    /\ r \in requests
    /\ r.pc = "guard"
    /\ IF user = NoUser THEN Report(r)
       ELSE Resume(r, [r EXCEPT !.pc = "fetch", !.as = user])
    /\ UNCHANGED <<account, store, connected, bids, heard, lost, deleted, roomVars>>

\* Mutant of LookUp: usersService.findOne() is not awaited.
LookUpUnawaited(r) ==
    /\ r \in requests
    /\ r.pc = "guard"
    /\ Resume(r, [r EXCEPT !.pc = "fetch", !.as = store[BrowserOf[r.page]]])
    /\ UNCHANGED <<account, store, connected, bids, heard, lost, deleted, roomVars>>

\* The guard lets the token through; the bidder is whoever the store has for
\* the socket session.  With nobody, usersService.findOne() throws.
LookUp(r) ==
    LET user == store[BrowserOf[r.page]] IN
    /\ r \in requests
    /\ r.pc = "guard"
    /\ IF user = NoUser THEN Report(r)
       ELSE Resume(r, [r EXCEPT !.pc = "fetch", !.as = user])
    /\ UNCHANGED <<account, store, connected, bids, heard, lost, deleted, roomVars>>

\* The guard throws, as it does once the token of the handshake has expired:
\* the page is sent an 'exception', to which it does not listen.
RefuseBid(r) ==
    /\ r \in requests
    /\ r.pc = "guard"
    /\ requests' = requests \ {r}
    /\ UNCHANGED <<socketVars, bids, told, heard, lost, deleted, roomVars>>

\* server.in(roomId).fetchSockets()
FetchSockets(r) ==
    /\ r \in requests
    /\ r.pc = "fetch"
    /\ Resume(r, [r EXCEPT !.pc = "announce",
                           !.sockets = {p \in Pages : page[p].pc = "joined"}])
    /\ UNCHANGED <<account, store, connected, bids, heard, lost, deleted, roomVars>>

\* client.rooms.has(userId): otherwise every announcement is broadcast from
\* the client's socket, which excludes it.
OwnAccount(r) == page[r.page].pc = "joined" /\ page[r.page].user = r.as

\* Sockets that joined since the fetch are not told, nor those that left.
Audience(r) ==
    {p \in r.sockets : page[p].pc = "joined" /\ (p = r.page => OwnAccount(r))}

\* Mutant of IsMine: client.rooms.has(userId), the same for every socket.
IsSender(r, p) == page[r.page].user = r.as

\* socket.rooms.has(userId), for the socket of p.
IsMine(r, p) == page[p].user = r.as

\* The loop over the sockets has no await in it.
Announce(r) ==
    /\ r \in requests
    /\ r.pc = "announce"
    /\ heard' = [p \in Pages |->
          IF p \in Audience(r) THEN heard[p] \cup {[id |-> r.id, mine |-> IsMine(r, p)]}
          ELSE heard[p]]
    /\ Resume(r, [r EXCEPT !.pc = "create", !.sockets = {}])
    /\ UNCHANGED <<account, store, connected, bids, lost, deleted, roomVars>>

\* Mutant of Create: create() is not awaited, so its rejection is lost.
CreateUnawaited(r) ==
    /\ r \in requests
    /\ r.pc = "create"
    /\ requests' = (requests \ {r}) \cup
          (IF room THEN {[r EXCEPT !.pc = "insert"]} ELSE {})
    /\ UNCHANGED <<socketVars, bids, told, heard, lost, deleted, roomVars>>

\* bidsService.create(), up to roomsService.findOne(), which throws without
\* the room.
Create(r) ==
    /\ r \in requests
    /\ r.pc = "create"
    /\ IF room THEN Resume(r, [r EXCEPT !.pc = "insert"]) ELSE Report(r)
    /\ UNCHANGED <<account, store, connected, bids, heard, lost, deleted, roomVars>>

\* bidsModel.create()
Insert(r) ==
    /\ r \in requests
    /\ r.pc = "insert"
    /\ Resume(r, [r EXCEPT !.pc = "save"])
    /\ bids' = bids \cup {[id |-> r.id, page |-> r.page, price |-> r.price,
                           by |-> r.by, user |-> r.as]}
    /\ UNCHANGED <<account, store, connected, heard, lost, deleted, roomVars>>

\* bid.save(), without a change: it only asks for the document, and throws
\* when that was deleted meanwhile.
Save(r) ==
    /\ r \in requests
    /\ r.pc = "save"
    /\ IF r.id \in Ids(bids)
       THEN requests' = requests \ {r} /\ UNCHANGED <<page, told>>
       ELSE Report(r)
    /\ UNCHANGED <<account, store, connected, bids, heard, lost, deleted, roomVars>>

-----------------------------------------------------------------------------
(* RoomsService.delete() and an order of the winner *)

\* delete() finds the room of the item, whose auction is over.
FindRoom(s) ==
    /\ closer[s].pc = "idle"
    /\ room
    /\ closer' = [closer EXCEPT ![s].pc = "top"]
    /\ UNCHANGED <<socketVars, bidVars, room, open>>

\* Mutant of FindHighest: item.save() is forgotten.
FindHighestUnsaved(s) ==
    /\ closer[s].pc = "top"
    /\ \/ bids = {} /\ closer' = [closer EXCEPT ![s].pc = "prune"]
       \/ \E b \in HighestBids :
             closer' = [closer EXCEPT ![s] = [pc |-> "prune", top |-> {b.id}]]
    /\ UNCHANGED <<socketVars, bidVars, room, open>>

\* findHighestOne(), and item.save() with auctionStatus = false.  It looks the
\* room up once more, and throws without one: RunLost.
FindHighest(s) ==
    /\ closer[s].pc = "top"
    /\ \/ bids = {} /\ closer' = [closer EXCEPT ![s].pc = "prune"]
       \/ \E b \in HighestBids :
             closer' = [closer EXCEPT ![s] = [pc |-> "prune", top |-> {b.id}]]
    /\ open' = FALSE
    /\ UNCHANGED <<socketVars, bidVars, room>>

DeleteBids(S) ==
    /\ bids' = bids \ S
    /\ deleted' = deleted \cup Ids(S)

\* deleteAllButHighest(): an id that is undefined spares no bid.
PruneBids(s) ==
    /\ closer[s].pc = "prune"
    /\ DeleteBids({b \in bids : b.id \notin closer[s].top})
    /\ closer' = [closer EXCEPT ![s] = [pc |-> "drop", top |-> {}]]
    /\ UNCHANGED <<socketVars, requests, told, heard, lost, room, open>>

\* room.deleteOne()
DropRoom(s) ==
    /\ closer[s].pc = "drop"
    /\ room' = FALSE
    /\ closer' = [closer EXCEPT ![s] = IdleRun]
    /\ UNCHANGED <<socketVars, bidVars, open>>

Delete(s) == FindRoom(s) \/ FindHighest(s) \/ PruneBids(s) \/ DropRoom(s)

\* OrdersService.create() deletes a bid whose item is closed.
OrderBid(b) ==
    /\ ~ open
    /\ DeleteBids({b})
    /\ UNCHANGED <<socketVars, requests, told, heard, lost, roomVars>>

-----------------------------------------------------------------------------
(* Faults *)

\* A call that makeBid() awaits rejects.
RejectCall(r) ==
    /\ r.pc # "announce"
    /\ Report(r)
    /\ UNCHANGED <<account, store, connected, bids, heard, lost, deleted, roomVars>>

\* The instance stops that has the socket of p, and what it was doing for it.
\* It stops all the sockets it has: several such steps.
Stop(p) ==
    LET mine == {r \in requests : r.page = p}
    IN  /\ page[p].pc \in {"connected", "gone", "joined", "left"}
        /\ page' = [page EXCEPT ![p].pc = "left"]
        /\ requests' = requests \ mine
        /\ lost' = lost \cup Ids({r \in mine : r.pc \notin {"guard", "save"}})
        /\ UNCHANGED <<account, store, connected, bids, told, heard, deleted, roomVars>>

\* The run of delete() ends, at a call that rejects or with its instance.
RunLost(s) ==
    /\ closer[s].pc # "idle"
    /\ closer' = [closer EXCEPT ![s] = IdleRun]
    /\ UNCHANGED <<socketVars, bidVars, room, open>>

Fault ==
    \/ \E r \in requests : RejectCall(r)
    \/ \E p \in Pages : Stop(p)
    \/ \E s \in Instances : RunLost(s)

-----------------------------------------------------------------------------

MakeBid(r) ==
    \/ LookUp(r) \/ RefuseBid(r) \/ FetchSockets(r) \/ Announce(r)
    \/ Create(r) \/ Insert(r) \/ Save(r)

\* What users and servers do in an auction that is open.
Work ==
    \/ \E r \in requests : MakeBid(r)
    \/ \E b \in Browsers, u \in Users : SignIn(b, u)
    \/ \E b \in Browsers : SignOut(b)
    \/ \E p \in Pages : \/ Load(p) \/ Handshake(p) \/ Leave(p)
                        \/ HandleConnection(p) \/ RefuseConnection(p)
    \/ \E p \in Pages, id \in BidIds, price \in Prices : Emit(p, id, price)

\* ... and what ends it.
Closing ==
    \/ \E s \in Instances : Delete(s)
    \/ \E b \in bids : OrderBid(b)

Next == Work \/ Closing \/ Fault

Spec == Init /\ [][Next]_vars

-----------------------------------------------------------------------------

\* A bid is stored under the account of the socket it came from, when no
\* other account has ever connected from that browser: the store is shared
\* by its sockets and outlives sign-out (bids.gateway.ts handleConnection()
\* :106, makeBid() :157).
OwnAccountBids ==
    \A b \in bids : connected[BrowserOf[b.page]] = {b.by} => b.user = b.by

\* Every page was told of a stored bid as its own if and only if the bid is
\* stored under the account of its socket, whoever sent it
\* (bids.gateway.ts makeBid() :173).
MineIsMine ==
    \A p \in Pages : \A h \in heard[p] : \A b \in bids :
        h.id = b.id => (h.mine <=> page[p].user = b.user)

\* A bid some page was told of is being stored, was stored, or its sender was
\* sent an error, unless the instance stopped in between: the announcement
\* comes first (bids.gateway.ts makeBid() :172-192).
AnnouncedIsAccountedFor ==
    \A p \in Pages : \A h \in heard[p] :
        h.id \in Ids(requests) \cup Ids(bids) \cup told \cup deleted \cup lost

-----------------------------------------------------------------------------
(* The promise as a specification of its own. *)

Taken == {[id |-> r.id, user |-> r.as] :
             r \in {q \in requests : q.pc \in {"fetch", "announce"}}}

Announced == {[id |-> r.id, user |-> r.as] :
                 r \in {q \in requests : q.pc \in {"create", "insert"}}}

Stored == {[id |-> b.id, user |-> b.user] : b \in bids}

Board == INSTANCE BidBoard WITH
    who <- [p \in Pages |-> page[p].user],
    taken <- Taken, announced <- Announced, stored <- Stored, failed <- told

\* The gateway, its store and the pages together keep what the room promises:
\* whatever sockets and sessions do between the steps of makeBid(), a bid has
\* one account and is announced once, goes from the board only stored, reported
\* or with its instance, and stays when stored until the auction has closed
\* (bids.gateway.ts makeBid(), rooms.service.ts delete()).
ImplementsBoard == Board!BoardSpec

-----------------------------------------------------------------------------
(* The invariant the proofs rest on.                                       *)

\* An id is that of one request, of one bid, or of one that is over; a bid and
\* its request meet only while bid.save() is awaited.
UniqueIds ==
    /\ \A r, q \in requests : r.id = q.id => r = q
    /\ \A b, c \in bids : b.id = c.id => b = c
    /\ \A r \in requests :
          /\ r.id \notin told \cup lost
          /\ IF r.pc = "save" THEN r.id \in Ids(bids) \cup deleted
             ELSE r.id \notin Ids(bids) \cup deleted

\* Pages hear of a bid when its request is about to store it.
HeardBeforeStored ==
    \A p \in Pages : \A h \in heard[p] :
        \/ \E r \in requests : r.id = h.id /\ r.pc \in {"create", "insert", "save"}
        \/ h.id \in Ids(bids) \cup told \cup deleted \cup lost

MineOfRequests ==
    \A p \in Pages : \A h \in heard[p] : \A r \in requests :
        h.id = r.id => (h.mine <=> page[p].user = r.as)

\* A page hears nothing before its handshake fixes its account.
SilentBefore ==
    \A p \in Pages : page[p].pc \in {"closed", "loaded"} => heard[p] = {}

\* Whatever names an account names one that connected from the browser.
FromConnected ==
    /\ \A b \in Browsers : store[b] \in connected[b] \cup {NoUser}
    /\ \A p \in Pages : page[p].pc \in {"connected", "gone", "joined"} =>
          page[p].user \in connected[BrowserOf[p]]
    /\ \A r \in requests : r.pc # "guard" => r.as \in connected[BrowserOf[r.page]]
    /\ \A b \in bids : b.user \in connected[BrowserOf[b.page]]

\* Bids are deleted by runs that have closed the auction.
ClosedBeforePruned ==
    \A s \in Instances : closer[s].pc = "prune" => ~ open

RoomInv ==
    /\ TypeOK
    /\ UniqueIds
    /\ HeardBeforeStored
    /\ MineOfRequests
    /\ MineIsMine
    /\ SilentBefore
    /\ FromConnected
    /\ ClosedBeforePruned

=============================================================================
