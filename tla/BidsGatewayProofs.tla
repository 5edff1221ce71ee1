------------------------- MODULE BidsGatewayProofs -------------------------
(***************************************************************************)
(* What BidsGateway guarantees for every number of browsers, pages,        *)
(* accounts, bids and instances.                                           *)
(***************************************************************************)
EXTENDS BidsGateway, TLAPS

\* The steps that touch neither requests, bids, nor what pages heard.
SocketStep ==
    \/ \E b \in Browsers, u \in Users : SignIn(b, u)
    \/ \E b \in Browsers : SignOut(b)
    \/ \E p \in Pages : \/ Load(p) \/ Handshake(p) \/ Leave(p)
                        \/ HandleConnection(p) \/ RefuseConnection(p)
    \/ \E s \in Instances : FindRoom(s) \/ FindHighest(s) \/ DropRoom(s) \/ RunLost(s)

RequestStep ==
    \/ \E p \in Pages, id \in BidIds, price \in Prices : Emit(p, id, price)
    \/ \E r \in requests : MakeBid(r) \/ RejectCall(r)
    \/ \E p \in Pages : Stop(p)

DeletionStep == (\E s \in Instances : PruneBids(s)) \/ (\E b \in bids : OrderBid(b))

\* Next is split into the steps of sockets and runs, those of makeBid(), and
\* those that delete bids.
LEMMA NextSplit == Next <=> SocketStep \/ RequestStep \/ DeletionStep
  BY DEF Next, Work, Closing, Fault, Delete, SocketStep, RequestStep, DeletionStep

\* No page changes its account or goes back.
PagesStay ==
    \A q \in Pages :
      /\ page'[q].user = page[q].user
      /\ page'[q].pc \in {"closed", "loaded"} => page[q].pc \in {"closed", "loaded"}
      /\ page'[q].pc \in {"connected", "gone", "joined"} =>
            page[q].pc \in {"connected", "gone", "joined"}

\* Close() keeps the type of the pages and the account of every socket.
LEMMA CloseType ==
    ASSUME TypeOK, NEW p \in Pages, Close(p)
    PROVE  page' \in [Pages -> Socket] /\ PagesStay
  BY DEF TypeOK, Close, Socket, PagePc, PagesStay

\* Nobody is connected at first.
LEMMA InitRoom == Init => RoomInv
  BY UsersAssumption DEF Init, RoomInv, TypeOK, Socket, PagePc, IdleRun, Run, UniqueIds,
     HeardBeforeStored, MineOfRequests, MineIsMine, SilentBefore, FromConnected,
     ClosedBeforePruned

-----------------------------------------------------------------------------
(* Types *)

\* The steps of sockets and runs keep the type of every variable.
LEMMA SocketType == ASSUME TypeOK, SocketStep PROVE TypeOK'
<1> USE DEF TypeOK, socketVars, bidVars, roomVars
<1>1. ASSUME NEW b \in Browsers, NEW u \in Users, SignIn(b, u) PROVE TypeOK'
  BY <1>1 DEF SignIn
<1>2. ASSUME NEW b \in Browsers, SignOut(b) PROVE TypeOK'
  BY <1>2 DEF SignOut
<1>3. ASSUME NEW p \in Pages, Load(p) PROVE TypeOK'
  BY <1>3 DEF Load, Socket, PagePc
<1>4. ASSUME NEW p \in Pages, Handshake(p) PROVE TypeOK'
  <2> DEFINE u == account[BrowserOf[p]]
  <2>1. u \in Users /\ BrowserOf[p] \in Browsers
    BY <1>4, PagesAssumption DEF Handshake
  <2> DEFINE s == [page[p] EXCEPT !.pc = "connected", !.user = u]
  <2>2. s \in Socket /\ s.user \in Users
    BY <2>1 DEF Socket, PagePc
  <2>3. page' = [page EXCEPT ![p] = s]
    BY <1>4 DEF Handshake
  <2>4. connected' \in [Browsers -> SUBSET Users]
    BY <1>4, <2>1 DEF Handshake
  <2>5. UNCHANGED <<account, store, bidVars, roomVars>>
    BY <1>4 DEF Handshake
  <2> HIDE DEF s, u
  <2> QED
    BY <2>2, <2>3, <2>4, <2>5
<1>5. ASSUME NEW p \in Pages, Leave(p) PROVE TypeOK'
  BY <1>5, CloseType DEF Leave, PagesStay
<1>6. ASSUME NEW p \in Pages, HandleConnection(p) PROVE TypeOK'
  BY <1>6, PagesAssumption DEF HandleConnection, Socket, PagePc
<1>7. ASSUME NEW p \in Pages, RefuseConnection(p) PROVE TypeOK'
  BY <1>7 DEF RefuseConnection, Socket, PagePc
<1>8. ASSUME NEW s \in Instances, FindRoom(s) \/ DropRoom(s) \/ RunLost(s)
      PROVE  TypeOK'
  <2>1. closer' \in [Instances -> Run]
    BY <1>8 DEF FindRoom, DropRoom, RunLost, Run, IdleRun
  <2>2. room' \in BOOLEAN
    BY <1>8 DEF FindRoom, DropRoom, RunLost
  <2>3. UNCHANGED <<socketVars, bidVars, open>>
    BY <1>8 DEF FindRoom, DropRoom, RunLost
  <2> QED
    BY <2>1, <2>2, <2>3
<1>9. ASSUME NEW s \in Instances, FindHighest(s) PROVE TypeOK'
  <2>1. \A b \in HighestBids : b.id \in BidIds
    BY DEF HighestBids, Bid
  <2>2. closer' \in [Instances -> Run]
    BY <1>9, <2>1 DEF FindHighest, Run
  <2> QED
    BY <1>9, <2>2 DEF FindHighest
<1> QED
  BY <1>1, <1>2, <1>3, <1>4, <1>5, <1>6, <1>7, <1>8, <1>9 DEF SocketStep

\* A call that goes on, and one that ends, keep the type of what they change.
LEMMA ResumeType ==
    ASSUME TypeOK, NEW r \in requests, NEW q \in Request, q.pc # "guard" => q.as \in Users,
           Resume(r, q)
    PROVE  /\ requests' \subseteq Request
           /\ \A x \in requests' : x.pc # "guard" => x.as \in Users
  BY DEF TypeOK, Resume

LEMMA ReportType ==
    ASSUME TypeOK, NEW r \in requests, Report(r),
           UNCHANGED <<account, store, connected, bids, heard, lost, deleted, roomVars>>
    PROVE  TypeOK'
<1>1. r.page \in Pages /\ r.id \in BidIds
  BY DEF TypeOK, Request
<1>2. page' \in [Pages -> Socket] /\ PagesStay
  BY <1>1, CloseType DEF Report
<1> QED
  BY <1>1, <1>2 DEF TypeOK, Report, PagesStay, roomVars

\* The steps of makeBid() keep the type of every variable.
LEMMA RequestType == ASSUME TypeOK, RequestStep PROVE TypeOK'
<1>1. ASSUME NEW p \in Pages, NEW id \in BidIds, NEW price \in Prices,
             Emit(p, id, price)
      PROVE  TypeOK'
  BY <1>1 DEF Emit, Live, Request, TypeOK, socketVars, roomVars
<1>2. ASSUME NEW r \in requests, MakeBid(r) PROVE TypeOK'
  <2>1. r \in Request /\ r.page \in Pages /\ r.id \in BidIds
    BY DEF TypeOK, Request
  <2>2. CASE LookUp(r)
    <3> DEFINE user == store[BrowserOf[r.page]]
               q == [r EXCEPT !.pc = "fetch", !.as = user]
    <3>1. CASE user = NoUser
      BY <2>2, <3>1, ReportType DEF LookUp
    <3>2. CASE user # NoUser
      <4>1. user \in Users
        BY <2>1, <3>2, PagesAssumption DEF TypeOK
      <4>2. q \in Request /\ q.as \in Users
        BY <2>1, <4>1 DEF Request
      <4>3. Resume(r, q) /\ UNCHANGED <<account, store, connected, bids, heard, lost, deleted, roomVars>>
        BY <2>2, <3>2 DEF LookUp
      <4> HIDE DEF q
      <4> QED
        BY <4>2, <4>3, ResumeType DEF Resume, TypeOK, roomVars
    <3> QED
      BY <3>1, <3>2
  <2>3. CASE RefuseBid(r)
    BY <2>3 DEF RefuseBid, TypeOK, socketVars, roomVars
  <2>4. CASE FetchSockets(r)
    <3> DEFINE q == [r EXCEPT !.pc = "announce",
                              !.sockets = {p \in Pages : page[p].pc = "joined"}]
    <3>1. q \in Request /\ q.as = r.as /\ r.as \in Users
      BY <2>1, <2>4 DEF FetchSockets, TypeOK, Request
    <3>2. Resume(r, q) /\ UNCHANGED <<account, store, connected, bids, heard, lost, deleted, roomVars>>
      BY <2>4 DEF FetchSockets
    <3> HIDE DEF q
    <3> QED
      BY <3>1, <3>2, ResumeType DEF Resume, TypeOK, roomVars
  <2>5. CASE Announce(r)
    <3> DEFINE q == [r EXCEPT !.pc = "create", !.sockets = {}]
    <3>1. q \in Request /\ q.as = r.as /\ r.as \in Users
      BY <2>1, <2>5 DEF Announce, TypeOK, Request
    <3>2. heard' \in [Pages -> SUBSET [id: BidIds, mine: BOOLEAN]]
      <4>1. \A p \in Pages : [id |-> r.id, mine |-> IsMine(r, p)] \in
                              [id: BidIds, mine: BOOLEAN]
        BY <2>1 DEF IsMine
      <4> QED
        BY <2>5, <4>1 DEF Announce, TypeOK
    <3>3. Resume(r, q) /\ UNCHANGED <<account, store, connected, bids, lost, deleted, roomVars>>
      BY <2>5 DEF Announce
    <3> HIDE DEF q
    <3> QED
      BY <3>1, <3>2, <3>3, ResumeType DEF Resume, TypeOK, roomVars
  <2>6. CASE Create(r)
    <3> DEFINE q == [r EXCEPT !.pc = "insert"]
    <3>1. CASE ~ room
      BY <2>6, <3>1, ReportType DEF Create
    <3>2. CASE room
      <4>1. q \in Request /\ q.as = r.as /\ r.as \in Users
        BY <2>1, <2>6 DEF Create, TypeOK, Request
      <4>2. Resume(r, q) /\ UNCHANGED <<account, store, connected, bids, heard, lost, deleted, roomVars>>
        BY <2>6, <3>2 DEF Create
      <4> HIDE DEF q
      <4> QED
        BY <4>1, <4>2, ResumeType DEF Resume, TypeOK, roomVars
    <3> QED
      BY <3>1, <3>2
  <2>7. CASE Insert(r)
    <3> DEFINE q == [r EXCEPT !.pc = "save"]
               b == [id |-> r.id, page |-> r.page, price |-> r.price, by |-> r.by,
                     user |-> r.as]
    <3>1. q \in Request /\ q.as = r.as /\ r.as \in Users
      BY <2>1, <2>7 DEF Insert, TypeOK, Request
    <3>2. b \in Bid
      BY <2>1, <3>1 DEF Request, Bid
    <3>3. /\ Resume(r, q) /\ bids' = bids \cup {b}
          /\ UNCHANGED <<account, store, connected, heard, lost, deleted, roomVars>>
      BY <2>7 DEF Insert
    <3> HIDE DEF q, b
    <3> QED
      BY <3>1, <3>2, <3>3, ResumeType DEF Resume, TypeOK, roomVars
  <2>8. CASE Save(r)
    <3>1. CASE r.id \in Ids(bids)
      BY <2>8, <3>1 DEF Save, TypeOK, roomVars
    <3>2. CASE r.id \notin Ids(bids)
      BY <2>8, <3>2, ReportType DEF Save
    <3> QED
      BY <3>1, <3>2
  <2> QED
    BY <1>2, <2>2, <2>3, <2>4, <2>5, <2>6, <2>7, <2>8 DEF MakeBid
<1>3. ASSUME NEW r \in requests, RejectCall(r) PROVE TypeOK'
  BY <1>3, ReportType DEF RejectCall
<1>4. ASSUME NEW p \in Pages, Stop(p) PROVE TypeOK'
  BY <1>4 DEF Stop, TypeOK, Socket, PagePc, Request, Ids, roomVars
<1> QED
  BY <1>1, <1>2, <1>3, <1>4 DEF RequestStep

\* Every step keeps the type of every variable.
LEMMA TypeNext == TypeOK /\ [Next]_vars => TypeOK'
<1> SUFFICES ASSUME TypeOK, [Next]_vars PROVE TypeOK'
  OBVIOUS
<1> USE DEF TypeOK, socketVars, bidVars, roomVars
<1>1. ASSUME NEW s \in Instances, PruneBids(s) PROVE TypeOK'
  BY <1>1 DEF PruneBids, DeleteBids, Ids, Bid, Run
<1>2. ASSUME NEW b \in bids, OrderBid(b) PROVE TypeOK'
  BY <1>2 DEF OrderBid, DeleteBids, Ids, Bid
<1>3. CASE UNCHANGED vars
  BY <1>3 DEF vars
<1> QED
  BY <1>1, <1>2, <1>3, SocketType, RequestType, NextSplit DEF DeletionStep

-----------------------------------------------------------------------------
(* The invariant *)

\* The account of a socket is fixed before its page hears of any bid, and no
\* page goes back.
LEMMA SocketPages ==
    ASSUME TypeOK, SilentBefore, SocketStep
    PROVE  /\ UNCHANGED bidVars
           /\ \A q \in Pages : heard[q] = {} \/ page'[q].user = page[q].user
           /\ \A q \in Pages : page'[q].pc \in {"closed", "loaded"} =>
                                 page[q].pc \in {"closed", "loaded"}
<1> DEFINE Goal ==
      /\ UNCHANGED bidVars
      /\ \A q \in Pages : heard[q] = {} \/ page'[q].user = page[q].user
      /\ \A q \in Pages : page'[q].pc \in {"closed", "loaded"} =>
                            page[q].pc \in {"closed", "loaded"}
<1>1. ASSUME UNCHANGED <<page, bidVars>> PROVE Goal
  BY <1>1
<1>2. ASSUME NEW p \in Pages, Load(p) PROVE Goal
  BY <1>2 DEF Load, TypeOK, Socket
<1>3. ASSUME NEW p \in Pages, Handshake(p) PROVE Goal
  BY <1>3 DEF Handshake, SilentBefore, TypeOK, Socket
<1>4. ASSUME NEW p \in Pages, Leave(p) PROVE Goal
  BY <1>4, CloseType DEF Leave, PagesStay
<1>5. ASSUME NEW p \in Pages, HandleConnection(p) \/ RefuseConnection(p) PROVE Goal
  <2>1. /\ page[p].pc \in {"connected", "gone"} /\ UNCHANGED bidVars
        /\ \E pc \in {"left", "joined"} : page' = [page EXCEPT ![p].pc = pc]
    BY <1>5 DEF HandleConnection, RefuseConnection
  <2>2. page \in [Pages -> Socket]
    BY DEF TypeOK
  <2>3. \A q \in Pages : /\ page'[q].user = page[q].user
                         /\ page'[q].pc \in {"closed", "loaded"} => page'[q] = page[q]
    BY <2>1, <2>2 DEF Socket
  <2> QED
    BY <2>1, <2>3
<1> HIDE DEF Goal
<1>6. \/ UNCHANGED <<page, bidVars>>
      \/ \E p \in Pages : \/ Load(p) \/ Handshake(p) \/ Leave(p)
                          \/ HandleConnection(p) \/ RefuseConnection(p)
  BY DEF SocketStep, SignIn, SignOut, FindRoom, FindHighest, DropRoom, RunLost, socketVars
<1>7. Goal
  BY <1>1, <1>2, <1>3, <1>4, <1>5, <1>6
<1> QED
  BY <1>7 DEF Goal

\* Sockets connect under accounts that are noted, and tell the store no other.
LEMMA SocketConnected ==
    ASSUME TypeOK, FromConnected, SocketStep
    PROVE  FromConnected'
<1> USE PagesAssumption DEF TypeOK, FromConnected, Socket, bidVars
<1>1. ASSUME UNCHANGED <<store, page, connected, bidVars>> PROVE FromConnected'
  BY <1>1
<1>2. ASSUME NEW p \in Pages, Load(p) PROVE FromConnected'
  BY <1>2 DEF Load
<1>3. ASSUME NEW p \in Pages, Handshake(p) PROVE FromConnected'
  <2> DEFINE b == BrowserOf[p]
             s == [page[p] EXCEPT !.pc = "connected", !.user = account[b]]
  <2>1. /\ b \in Browsers
        /\ s.user = account[b]
        /\ account[b] \in Users
    BY <1>3 DEF Handshake
  <2>2. page' = [page EXCEPT ![p] = s]
    BY <1>3 DEF Handshake
  <2>3. /\ connected' = [connected EXCEPT ![b] = @ \cup {account[b]}]
        /\ UNCHANGED <<store, requests, bids>>
    BY <1>3 DEF Handshake
  <2>4. \A c \in Browsers : connected[c] \subseteq connected'[c]
    BY <2>3
  <2>5. account[b] \in connected'[b]
    BY <2>1, <2>3
  <2> HIDE DEF s
  <2>6. \A q \in Pages : page'[q].pc \in {"connected", "gone", "joined"} =>
           page'[q].user \in connected'[BrowserOf[q]]
    BY <2>1, <2>2, <2>4, <2>5
  <2>7. \A r \in requests : r.page \in Pages
    BY DEF Request
  <2>8. \A d \in bids : d.page \in Pages
    BY DEF Bid
  <2> QED
    BY <2>3, <2>4, <2>6, <2>7, <2>8
<1>4. ASSUME NEW p \in Pages, Leave(p) PROVE FromConnected'
  BY <1>4, CloseType DEF Leave, PagesStay
<1>5. ASSUME NEW p \in Pages, HandleConnection(p) PROVE FromConnected'
  BY <1>5 DEF HandleConnection
<1>6. ASSUME NEW p \in Pages, RefuseConnection(p) PROVE FromConnected'
  BY <1>6 DEF RefuseConnection
<1>7. \/ UNCHANGED <<store, page, connected, bidVars>>
      \/ \E p \in Pages : \/ Load(p) \/ Handshake(p) \/ Leave(p)
                          \/ HandleConnection(p) \/ RefuseConnection(p)
  BY DEF SocketStep, SignIn, SignOut, FindRoom, FindHighest, DropRoom, RunLost, socketVars
<1> QED
  BY <1>1, <1>2, <1>3, <1>4, <1>5, <1>6, <1>7

\* A run that is about to prune has closed the auction, and nothing opens it
\* again.
LEMMA ClosedStays ==
    ASSUME TypeOK, ClosedBeforePruned, [Next]_vars
    PROVE  ClosedBeforePruned'
<1> USE DEF TypeOK, ClosedBeforePruned, roomVars
<1>1. ASSUME UNCHANGED roomVars PROVE ClosedBeforePruned'
  BY <1>1
<1>2. ASSUME NEW s \in Instances, FindHighest(s) PROVE ClosedBeforePruned'
  BY <1>2 DEF FindHighest
<1>3. ASSUME NEW s \in Instances, NEW top, NEW pc, pc # "prune", UNCHANGED open,
             closer' = [closer EXCEPT ![s] = [pc |-> pc, top |-> top]]
      PROVE  ClosedBeforePruned'
  <2> DEFINE run == [pc |-> pc, top |-> top]
  <2>1. run.pc # "prune" /\ closer' = [closer EXCEPT ![s] = run]
    BY <1>3
  <2> HIDE DEF run
  <2> QED
    BY <1>3, <2>1
<1>4. ASSUME NEW s \in Instances, FindRoom(s) PROVE ClosedBeforePruned'
  BY <1>4 DEF FindRoom, Run
<1>5. ASSUME NEW s \in Instances, PruneBids(s) \/ DropRoom(s) \/ RunLost(s)
      PROVE  ClosedBeforePruned'
  BY <1>3, <1>5 DEF PruneBids, DropRoom, RunLost, IdleRun
<1>6. \/ UNCHANGED roomVars
      \/ \E s \in Instances : \/ FindHighest(s) \/ FindRoom(s) \/ PruneBids(s)
                              \/ DropRoom(s) \/ RunLost(s)
  BY DEF Next, Work, Closing, Fault, Delete, MakeBid, SignIn, SignOut, Load, Handshake,
     Leave, HandleConnection, RefuseConnection, Emit, LookUp, RefuseBid, FetchSockets,
     Announce, Create, Insert, Save, OrderBid, RejectCall, Stop, vars
<1> QED
  BY <1>1, <1>2, <1>4, <1>5, <1>6

\* A step of a socket or of a run that deletes nothing keeps the invariant.
LEMMA SocketInv == RoomInv /\ SocketStep => RoomInv'
<1> SUFFICES ASSUME RoomInv, SocketStep PROVE RoomInv'
  OBVIOUS
<1>1. TypeOK' /\ ClosedBeforePruned'
  BY TypeNext, ClosedStays, NextSplit DEF RoomInv
<1>2. FromConnected'
  BY SocketConnected DEF RoomInv
<1>3. /\ UNCHANGED <<requests, bids, told, heard, lost, deleted>>
      /\ \A q \in Pages : heard[q] = {} \/ page'[q].user = page[q].user
      /\ \A q \in Pages : page'[q].pc \in {"closed", "loaded"} =>
                            page[q].pc \in {"closed", "loaded"}
  BY SocketPages DEF RoomInv, bidVars
<1>4. UniqueIds' /\ HeardBeforeStored' /\ SilentBefore'
  BY <1>3 DEF RoomInv, UniqueIds, HeardBeforeStored, SilentBefore, Ids
<1>5. MineOfRequests' /\ MineIsMine'
  BY <1>3 DEF RoomInv, MineOfRequests, MineIsMine
<1> QED
  BY <1>1, <1>2, <1>4, <1>5 DEF RoomInv

\* A new request has an id of its own, and no page has heard of it.
LEMMA EmitInv ==
    ASSUME RoomInv, NEW p \in Pages, NEW id \in BidIds, NEW price \in Prices,
           Emit(p, id, price)
    PROVE  RoomInv'
<1> DEFINE r == [id |-> id, page |-> p, price |-> price, by |-> page[p].user,
                 as |-> NoUser, sockets |-> {}, pc |-> "guard"]
<1>1. TypeOK' /\ ClosedBeforePruned'
  BY TypeNext, ClosedStays, NextSplit DEF RoomInv, RequestStep
<1>2. /\ requests' = requests \cup {r}
      /\ r.id = id /\ r.pc = "guard"
      /\ UNCHANGED <<bids, told, heard, lost, deleted, page, store, connected>>
  BY DEF Emit, socketVars
<1>3. /\ \A q \in requests : q.id # id
      /\ id \notin Ids(bids) \cup told \cup lost \cup deleted
  BY DEF Emit, Ids
<1> HIDE DEF r
<1>4. UniqueIds'
  BY <1>2, <1>3 DEF RoomInv, UniqueIds, Ids
<1>5. HeardBeforeStored'
  BY <1>2 DEF RoomInv, HeardBeforeStored, Ids
<1>6. \A q \in Pages : \A h \in heard[q] : h.id # id
  BY <1>3 DEF RoomInv, HeardBeforeStored
<1>7. MineOfRequests'
  BY <1>2, <1>6 DEF RoomInv, MineOfRequests
<1>8. MineIsMine' /\ SilentBefore' /\ FromConnected'
  BY <1>2 DEF RoomInv, MineIsMine, SilentBefore, FromConnected
<1> QED
  BY <1>1, <1>4, <1>5, <1>7, <1>8 DEF RoomInv

\* A request that was not announced was heard of by no page.
LEMMA NotHeardYet ==
    ASSUME RoomInv, NEW r \in requests, r.pc \in {"guard", "fetch", "announce"}
    PROVE  \A p \in Pages : \A h \in heard[p] : h.id # r.id
  BY DEF RoomInv, HeardBeforeStored, UniqueIds, Ids

\* A call that goes on, up to the look-up of the room, keeps its id and page,
\* and its account once it has one; pages hear of it when it is announced.
LEMMA ResumeInv ==
    ASSUME RoomInv, TypeOK', ClosedBeforePruned',
           NEW r \in requests, NEW q, Resume(r, q),
           q.id = r.id, q.page = r.page,
           IF r.pc = "guard" THEN q.as \in connected[BrowserOf[r.page]] ELSE q.as = r.as,
           \/ r.pc \in {"guard", "fetch"} /\ q.pc \in {"fetch", "announce"}
           \/ r.pc \in {"announce", "create"} /\ q.pc \in {"create", "insert"},
           \A p \in Pages : \A h \in heard'[p] :
              \/ h \in heard[p]
              \/ /\ h.id = r.id /\ r.pc = "announce"
                 /\ h.mine <=> page[p].user = r.as
                 /\ page[p].pc = "joined",
           UNCHANGED <<store, connected, bids, lost, deleted>>
    PROVE  RoomInv'
<1>1. /\ requests' = (requests \ {r}) \cup {q}
      /\ UNCHANGED <<page, told>>
  BY DEF Resume
<1>2. r.pc # "create" => \A p \in Pages : \A h \in heard[p] : h.id # r.id
  BY NotHeardYet
<1>3. UniqueIds'
  BY <1>1 DEF RoomInv, UniqueIds, Ids
<1>4. HeardBeforeStored'
  BY <1>1, <1>2 DEF RoomInv, HeardBeforeStored, Ids
<1>5. MineOfRequests'
  <2> SUFFICES ASSUME NEW p \in Pages, NEW h \in heard'[p], NEW x \in requests', h.id = x.id
               PROVE  h.mine <=> page[p].user = x.as
    BY <1>1 DEF MineOfRequests
  <2>1. CASE h \in heard[p]
    BY <1>1, <1>2, <2>1 DEF RoomInv, MineOfRequests
  <2>2. CASE h \notin heard[p]
    BY <1>1, <2>2 DEF RoomInv, UniqueIds
  <2> QED
    BY <2>1, <2>2
<1>6. MineIsMine'
  BY <1>1 DEF RoomInv, MineIsMine, UniqueIds, Ids
<1>7. SilentBefore'
  BY <1>1 DEF RoomInv, SilentBefore
<1>8. FromConnected'
  BY <1>1 DEF RoomInv, FromConnected
<1> QED
  BY <1>3, <1>4, <1>5, <1>6, <1>7, <1>8 DEF RoomInv

\* Requests that end leave nothing behind but their ids, if they were announced.
LEMMA EndInv ==
    ASSUME RoomInv, TypeOK', ClosedBeforePruned',
           NEW S, S \subseteq requests, requests' = requests \ S,
           told \subseteq told', lost \subseteq lost',
           told' \cup lost' \subseteq told \cup lost \cup Ids(S),
           \A r \in S : \/ r.pc \in {"guard", "fetch", "announce"}
                       \/ r.id \in Ids(bids) \cup deleted \cup told' \cup lost',
           UNCHANGED <<bids, heard, deleted, store, connected>>,
           PagesStay
    PROVE  RoomInv'
<1>1. UniqueIds'
  <2>1. \A r \in requests' : r.id \notin Ids(S)
    BY DEF RoomInv, UniqueIds, Ids
  <2> QED
    BY <2>1 DEF RoomInv, UniqueIds, Ids
<1>2. HeardBeforeStored'
  <2> SUFFICES ASSUME NEW p \in Pages, NEW h \in heard[p]
               PROVE  \/ \E q \in requests' : /\ q.id = h.id
                                               /\ q.pc \in {"create", "insert", "save"}
                      \/ h.id \in Ids(bids) \cup told' \cup deleted \cup lost'
    BY DEF HeardBeforeStored, Ids
  <2>1. CASE \E r \in S : r.id = h.id /\ r.pc \in {"guard", "fetch", "announce"}
    BY <2>1, NotHeardYet
  <2>2. CASE \E r \in S : r.id = h.id /\ r.pc \notin {"guard", "fetch", "announce"}
    BY <2>2
  <2>3. CASE \A r \in S : r.id # h.id
    BY <2>3 DEF RoomInv, HeardBeforeStored
  <2> QED
    BY <2>1, <2>2, <2>3
<1>3. MineOfRequests' /\ MineIsMine' /\ SilentBefore'
  BY DEF RoomInv, MineOfRequests, MineIsMine, SilentBefore, PagesStay
<1>4. FromConnected'
  BY DEF RoomInv, FromConnected, PagesStay
<1> QED
  BY <1>1, <1>2, <1>3, <1>4 DEF RoomInv

\* So does one that is reported.
LEMMA ReportInv ==
    ASSUME RoomInv, TypeOK', ClosedBeforePruned', NEW r \in requests, Report(r),
           UNCHANGED <<store, connected, bids, heard, lost, deleted>>
    PROVE  RoomInv'
<1>1. r.page \in Pages
  BY DEF RoomInv, TypeOK, Request
<1>2. PagesStay
  BY <1>1, CloseType DEF Report, RoomInv
<1>3. requests' = requests \ {r} /\ told' = told \cup {r.id} /\ Ids({r}) = {r.id}
  BY DEF Report, Ids
<1> QED
  BY <1>2, <1>3, EndInv

\* The account the store answers with has connected from the browser.
LEMMA LookUpInv ==
    ASSUME RoomInv, TypeOK', ClosedBeforePruned', NEW r \in requests, LookUp(r)
    PROVE  RoomInv'
<1> DEFINE user == store[BrowserOf[r.page]]
           q == [r EXCEPT !.pc = "fetch", !.as = user]
<1>1. r \in Request /\ r.page \in Pages /\ r.pc = "guard"
  BY DEF RoomInv, TypeOK, Request, LookUp
<1>2. CASE user = NoUser
  BY <1>2, ReportInv DEF LookUp
<1>3. CASE user # NoUser
  <2>1. q.id = r.id /\ q.page = r.page /\ q.as = user /\ q.pc = "fetch"
    BY <1>1 DEF Request
  <2>2. Resume(r, q) /\ UNCHANGED <<bids, heard, lost, deleted, store, connected>>
    BY <1>3 DEF LookUp
  <2>3. user \in connected[BrowserOf[r.page]]
    BY <1>1, <1>3, PagesAssumption DEF RoomInv, FromConnected
  <2> HIDE DEF user, q
  <2> QED
    BY <1>1, <2>1, <2>2, <2>3, ResumeInv
<1> QED
  BY <1>2, <1>3

\* Fetching the sockets leaves what names the request and its account alone.
LEMMA FetchInv ==
    ASSUME RoomInv, TypeOK', ClosedBeforePruned', NEW r \in requests, FetchSockets(r)
    PROVE  RoomInv'
<1> DEFINE q == [r EXCEPT !.pc = "announce",
                          !.sockets = {p \in Pages : page[p].pc = "joined"}]
<1>1. q.id = r.id /\ q.page = r.page /\ q.as = r.as /\ q.pc = "announce"
  BY DEF RoomInv, TypeOK, Request
<1>2. /\ Resume(r, q) /\ r.pc = "fetch"
      /\ UNCHANGED <<bids, heard, lost, deleted, store, connected>>
  BY DEF FetchSockets
<1> HIDE DEF q
<1> QED
  BY <1>1, <1>2, ResumeInv

\* Every socket is told whether the bid is of its own account.
LEMMA AnnounceInv ==
    ASSUME RoomInv, TypeOK', ClosedBeforePruned', NEW r \in requests, Announce(r)
    PROVE  RoomInv'
<1> DEFINE q == [r EXCEPT !.pc = "create", !.sockets = {}]
<1>1. q.id = r.id /\ q.page = r.page /\ q.as = r.as /\ q.pc = "create"
  BY DEF RoomInv, TypeOK, Request
<1>2. /\ Resume(r, q) /\ r.pc = "announce"
      /\ UNCHANGED <<bids, lost, deleted, store, connected>>
  BY DEF Announce
<1>3. \A p \in Pages : \A h \in heard'[p] :
         \/ h \in heard[p]
         \/ /\ h.id = r.id
            /\ h.mine <=> page[p].user = r.as
            /\ page[p].pc = "joined"
  <2> TAKE p \in Pages
  <2> DEFINE new == [id |-> r.id, mine |-> IsMine(r, p)]
  <2>1. new.id = r.id /\ (new.mine <=> page[p].user = r.as)
    BY DEF IsMine
  <2>2. heard'[p] = IF p \in Audience(r) THEN heard[p] \cup {new} ELSE heard[p]
    BY DEF Announce
  <2>3. p \in Audience(r) => page[p].pc = "joined"
    BY DEF Audience
  <2> HIDE DEF new
  <2> QED
    BY <2>1, <2>2, <2>3
<1> HIDE DEF q
<1> QED
  BY <1>1, <1>2, <1>3, ResumeInv

\* A room that is not found is reported, as is anything else that rejects.
LEMMA CreateInv ==
    ASSUME RoomInv, TypeOK', ClosedBeforePruned', NEW r \in requests, Create(r)
    PROVE  RoomInv'
<1> DEFINE q == [r EXCEPT !.pc = "insert"]
<1>1. q.id = r.id /\ q.page = r.page /\ q.as = r.as /\ q.pc = "insert"
  BY DEF RoomInv, TypeOK, Request
<1>2. /\ r.pc = "create"
      /\ UNCHANGED <<bids, heard, lost, deleted, store, connected>>
      /\ Resume(r, q) \/ Report(r)
  BY DEF Create
<1> HIDE DEF q
<1> QED
  BY <1>1, <1>2, ResumeInv, ReportInv

\* A bid is stored under the account its request was announced under.
LEMMA InsertInv ==
    ASSUME RoomInv, TypeOK', ClosedBeforePruned', NEW r \in requests, Insert(r)
    PROVE  RoomInv'
<1> DEFINE q == [r EXCEPT !.pc = "save"]
           b == [id |-> r.id, page |-> r.page, price |-> r.price, by |-> r.by,
                 user |-> r.as]
<1>1. q.id = r.id /\ q.page = r.page /\ q.as = r.as /\ q.pc = "save"
  BY DEF RoomInv, TypeOK, Request
<1>2. b.id = r.id /\ b.page = r.page /\ b.user = r.as
  OBVIOUS
<1>3. /\ requests' = (requests \ {r}) \cup {q}
      /\ bids' = bids \cup {b}
      /\ r.pc = "insert"
      /\ UNCHANGED <<page, told, heard, lost, deleted, store, connected>>
  BY DEF Insert, Resume
<1> HIDE DEF b, q
<1>4. Ids(bids') = Ids(bids) \cup {r.id}
  BY <1>2, <1>3 DEF Ids
<1>5. UniqueIds'
  <2>1. \A x, y \in requests' : x.id = y.id => x = y
    BY <1>1, <1>3 DEF RoomInv, UniqueIds
  <2>2. \A c, d \in bids' : c.id = d.id => c = d
    BY <1>2, <1>3 DEF RoomInv, UniqueIds, Ids
  <2>3. \A x \in requests' :
          /\ x.id \notin told \cup lost
          /\ IF x.pc = "save" THEN x.id \in Ids(bids') \cup deleted
             ELSE x.id \notin Ids(bids') \cup deleted
    BY <1>1, <1>3, <1>4 DEF RoomInv, UniqueIds
  <2> QED
    BY <1>3, <2>1, <2>2, <2>3 DEF UniqueIds
<1>6. HeardBeforeStored'
  BY <1>1, <1>3, <1>4 DEF RoomInv, HeardBeforeStored
<1>7. MineOfRequests'
  BY <1>1, <1>3 DEF RoomInv, MineOfRequests
<1>8. MineIsMine'
  BY <1>2, <1>3 DEF RoomInv, MineIsMine, MineOfRequests
<1>9. SilentBefore' /\ FromConnected'
  BY <1>1, <1>2, <1>3 DEF RoomInv, SilentBefore, FromConnected
<1> QED
  BY <1>5, <1>6, <1>7, <1>8, <1>9 DEF RoomInv

\* What bid.save() finds was stored; what it does not find was deleted.
LEMMA SaveInv ==
    ASSUME RoomInv, TypeOK', ClosedBeforePruned', NEW r \in requests, Save(r)
    PROVE  RoomInv'
<1>1. UNCHANGED <<bids, heard, lost, deleted, store, connected>>
  BY DEF Save
<1>2. CASE r.id \in Ids(bids)
  <2>1. /\ requests' = requests \ {r} /\ UNCHANGED <<page, told>> /\ PagesStay
        /\ Ids({r}) = {r.id}
    BY <1>2 DEF Save, PagesStay, Ids
  <2> DEFINE S == {r}
  <2>2. /\ S \subseteq requests /\ requests' = requests \ S
        /\ told' \cup lost' \subseteq told \cup lost \cup Ids(S)
        /\ \A x \in S : x.id \in Ids(bids) \cup deleted \cup told' \cup lost'
    BY <1>1, <1>2, <2>1
  <2> HIDE DEF S
  <2> QED
    BY <1>1, <2>1, <2>2, EndInv
<1>3. CASE r.id \notin Ids(bids)
  BY <1>1, <1>3, ReportInv DEF Save
<1> QED
  BY <1>2, <1>3

\* With its instance goes what was not stored yet, and is noted as lost.
LEMMA StopInv ==
    ASSUME RoomInv, TypeOK', ClosedBeforePruned', NEW p \in Pages, Stop(p)
    PROVE  RoomInv'
<1> DEFINE S == {r \in requests : r.page = p}
           L == {r \in S : r.pc \notin {"guard", "save"}}
<1>1. /\ requests' = requests \ S /\ lost' = lost \cup Ids(L)
      /\ UNCHANGED <<bids, heard, told, deleted, store, connected>>
  BY DEF Stop
<1>2. PagesStay
  BY DEF Stop, PagesStay, RoomInv, TypeOK, Socket
<1>3. \A r \in S : \/ r.pc = "guard" \/ r.id \in Ids(L)
                   \/ r.id \in Ids(bids) \cup deleted
  BY DEF Ids, RoomInv, UniqueIds
<1>4. Ids(L) \subseteq Ids(S)
  BY DEF Ids
<1> HIDE DEF L
<1>5. S \subseteq requests
  OBVIOUS
<1> HIDE DEF S
<1> QED
  BY <1>1, <1>2, <1>3, <1>4, <1>5, EndInv

\* Bids that are deleted are noted as such.
LEMMA DeleteInv ==
    ASSUME RoomInv, TypeOK', ClosedBeforePruned', NEW S, S \subseteq bids, DeleteBids(S),
           UNCHANGED <<page, requests, told, heard, lost, store, connected>>
    PROVE  RoomInv'
<1>1. bids' \subseteq bids /\ Ids(bids') \cup deleted' = Ids(bids) \cup deleted
  BY DEF DeleteBids, Ids
<1>2. \A r \in requests : r.pc # "save" => r.id \notin Ids(bids') \cup deleted'
  BY <1>1 DEF RoomInv, UniqueIds
<1>3. UniqueIds'
  BY <1>1, <1>2 DEF RoomInv, UniqueIds
<1>4. HeardBeforeStored'
  BY <1>1 DEF RoomInv, HeardBeforeStored
<1>5. MineOfRequests' /\ MineIsMine' /\ SilentBefore' /\ FromConnected'
  BY <1>1 DEF RoomInv, MineOfRequests, MineIsMine, SilentBefore, FromConnected
<1> QED
  BY <1>3, <1>4, <1>5 DEF RoomInv

\* RoomInv is inductive.
THEOREM RoomInvariant == Spec => []RoomInv
<1>1. RoomInv /\ [Next]_vars => RoomInv'
  <2> SUFFICES ASSUME RoomInv, [Next]_vars PROVE RoomInv'
    OBVIOUS
  <2>1. TypeOK' /\ ClosedBeforePruned'
    BY TypeNext, ClosedStays DEF RoomInv
  <2>2. CASE SocketStep
    BY <2>2, SocketInv
  <2>3. ASSUME NEW p \in Pages, NEW id \in BidIds, NEW price \in Prices,
               Emit(p, id, price)
        PROVE  RoomInv'
    BY <2>3, EmitInv
  <2>4. ASSUME NEW r \in requests, MakeBid(r) PROVE RoomInv'
    <3>1. CASE RefuseBid(r)
      <4>1. Ids({r}) = {r.id} /\ PagesStay
        BY <3>1 DEF Ids, RefuseBid, PagesStay, socketVars
      <4> QED
        BY <2>1, <3>1, <4>1, EndInv DEF RefuseBid, socketVars
    <3> QED
      BY <2>1, <2>4, <3>1, LookUpInv, FetchInv, AnnounceInv, CreateInv, InsertInv,
         SaveInv DEF MakeBid
  <2>5. ASSUME NEW r \in requests, RejectCall(r) PROVE RoomInv'
    BY <2>1, <2>5, ReportInv DEF RejectCall
  <2>6. ASSUME NEW p \in Pages, Stop(p) PROVE RoomInv'
    BY <2>1, <2>6, StopInv
  <2>7. ASSUME NEW s \in Instances, PruneBids(s) PROVE RoomInv'
    <3> DEFINE S == {b \in bids : b.id \notin closer[s].top}
    <3>1. S \subseteq bids /\ DeleteBids(S)
          /\ UNCHANGED <<page, requests, told, heard, lost, store, connected>>
      BY <2>7 DEF PruneBids, socketVars
    <3> HIDE DEF S
    <3> QED
      BY <2>1, <3>1, DeleteInv
  <2>8. ASSUME NEW b \in bids, OrderBid(b) PROVE RoomInv'
    <3>1. {b} \subseteq bids /\ DeleteBids({b})
          /\ UNCHANGED <<page, requests, told, heard, lost, store, connected>>
      BY <2>8 DEF OrderBid, socketVars
    <3> QED
      BY <2>1, <3>1, DeleteInv
  <2>9. CASE UNCHANGED vars
    <3>1. UNCHANGED <<page, requests, bids, told, heard, lost, deleted, store, connected>>
      BY <2>9 DEF vars, socketVars, bidVars
    <3>2. UniqueIds' /\ HeardBeforeStored' /\ SilentBefore'
      BY <3>1 DEF RoomInv, UniqueIds, HeardBeforeStored, SilentBefore, Ids
    <3>3. MineOfRequests' /\ MineIsMine' /\ FromConnected'
      BY <3>1 DEF RoomInv, MineOfRequests, MineIsMine, FromConnected
    <3> QED
      BY <2>1, <3>2, <3>3 DEF RoomInv
  <2> QED
    BY <2>2, <2>3, <2>4, <2>5, <2>6, <2>7, <2>8, <2>9, NextSplit
    DEF RequestStep, DeletionStep
<1> QED
  BY <1>1, InitRoom, PTL DEF Spec

\* Every variable keeps its type: no bid is announced or stored for nobody
\* (makeBid(), handleConnection()).
THEOREM GatewayTypes == Spec => []TypeOK
<1>1. RoomInv => TypeOK
  BY DEF RoomInv
<1> QED
  BY RoomInvariant, <1>1, PTL

\* A page is told of a stored bid as its own exactly when it is stored under
\* the account of its socket (makeBid()).
THEOREM OwnBidsAreNamedOwn == Spec => []MineIsMine
<1>1. RoomInv => MineIsMine
  BY DEF RoomInv
<1> QED
  BY RoomInvariant, <1>1, PTL

\* No announced bid vanishes: it is being stored, was stored, or its sender was
\* sent an error, but for those whose instance stopped (makeBid()).
THEOREM NoAnnouncementVanishes == Spec => []AnnouncedIsAccountedFor
<1>1. RoomInv => AnnouncedIsAccountedFor
  BY DEF RoomInv, HeardBeforeStored, AnnouncedIsAccountedFor, Ids
<1> QED
  BY RoomInvariant, <1>1, PTL

\* In a browser that only ever connected under one account, bids are stored
\* under this account (handleConnection(), makeBid()).
THEOREM BidsAreOwn == Spec => []OwnAccountBids
<1>1. RoomInv => OwnAccountBids
  BY DEF RoomInv, FromConnected, OwnAccountBids
<1> QED
  BY RoomInvariant, <1>1, PTL

-----------------------------------------------------------------------------
(* The gateway implements the board *)

\* A page has no account before its handshake, and keeps the one it gets.
AnonymousBefore ==
    \A p \in Pages : page[p].pc \in {"closed", "loaded"} => page[p].user = NoUser

\* What a step does to the pages: it opens one, gives it its account, or leaves
\* the accounts as they are.
LEMMA PageSteps ==
  ASSUME TypeOK, [Next]_vars
  PROVE  PagesStay \/ \E p \in Pages : Load(p) \/ Handshake(p)
<1>1. ASSUME page' = page PROVE PagesStay
  BY <1>1 DEF PagesStay
<1>2. ASSUME NEW p \in Pages, Close(p) PROVE PagesStay
  BY <1>2, CloseType
<1>3. ASSUME NEW p \in Pages, HandleConnection(p) \/ RefuseConnection(p) \/ Stop(p)
      PROVE  PagesStay
  BY <1>3 DEF HandleConnection, RefuseConnection, Stop, PagesStay, TypeOK, Socket
<1>4. \A r \in requests : r.page \in Pages
  BY DEF TypeOK, Request
<1>5. \/ page' = page
      \/ \E p \in Pages : \/ Close(p) \/ Load(p) \/ Handshake(p)
                          \/ HandleConnection(p) \/ RefuseConnection(p) \/ Stop(p)
  <2>1. ASSUME NEW r \in requests, MakeBid(r) \/ RejectCall(r)
        PROVE  page' = page \/ Close(r.page)
    BY <2>1 DEF MakeBid, LookUp, RefuseBid, FetchSockets, Announce, Create, Insert, Save,
       RejectCall, Resume, Report, socketVars
  <2>2. CASE SocketStep
    BY <2>2 DEF SocketStep, SignIn, SignOut, Leave, FindRoom, FindHighest, DropRoom,
       RunLost, socketVars
  <2>3. CASE DeletionStep
    BY <2>3 DEF DeletionStep, PruneBids, OrderBid, socketVars
  <2>4. CASE RequestStep
    BY <1>4, <2>1, <2>4 DEF RequestStep, Emit, socketVars
  <2>5. CASE UNCHANGED vars
    BY <2>5 DEF vars, socketVars
  <2> QED
    BY <2>2, <2>3, <2>4, <2>5, NextSplit
<1> QED
  BY <1>1, <1>2, <1>3, <1>5

LEMMA AnonymousStep == TypeOK /\ AnonymousBefore /\ [Next]_vars => AnonymousBefore'
<1> SUFFICES ASSUME TypeOK, AnonymousBefore, [Next]_vars PROVE AnonymousBefore'
  OBVIOUS
<1>1. ASSUME NEW p \in Pages, Load(p) \/ Handshake(p) PROVE AnonymousBefore'
  BY <1>1 DEF Load, Handshake, AnonymousBefore, TypeOK, Socket
<1>2. CASE PagesStay
  BY <1>2 DEF PagesStay, AnonymousBefore
<1> QED
  BY <1>1, <1>2, PageSteps

Who == [p \in Pages |-> page[p].user]

\* The board sees of a step only accounts, requests, bids and announcements.
LEMMA BoardStays ==
  ASSUME UNCHANGED <<open, bids, told, lost, deleted, heard>>, Taken' = Taken,
         Announced' = Announced, Who' = Who
  PROVE  UNCHANGED Board!boardVars
  BY DEF Board!boardVars, Stored, Who

\* The steps of sockets and runs are none of the board's, but for the handshake,
\* which gives a page its account, and the end of the auction.
LEMMA SocketBoard ==
  ASSUME RoomInv, AnonymousBefore, SocketStep
  PROVE  [Board!BoardNext]_(Board!boardVars)
<1>1. TypeOK /\ UNCHANGED <<requests, bids, told, heard, lost, deleted>>
  BY SocketPages DEF RoomInv, bidVars
<1>2. Taken' = Taken /\ Announced' = Announced /\ Stored' = Stored
  BY <1>1 DEF Taken, Announced, Stored
<1>3. ASSUME NEW p \in Pages, Handshake(p) PROVE Board!Enter
  <2> DEFINE u == account[BrowserOf[p]]
  <2>1. u \in Users
    BY <1>1, <1>3, PagesAssumption DEF Handshake, TypeOK
  <2>2. page[p].user = NoUser
    BY <1>3 DEF Handshake, AnonymousBefore
  <2>3. \A q \in Pages : page'[q].user = IF q = p THEN u ELSE page[q].user
    BY <1>1, <1>3 DEF Handshake, TypeOK, Socket
  <2> HIDE DEF u
  <2>4. Who' = [Who EXCEPT ![p] = u]
    BY <2>3 DEF Who
  <2>5. Who[p] = NoUser /\ UNCHANGED open
    BY <1>3, <2>2 DEF Who, Handshake, roomVars
  <2> QED
    BY <1>1, <1>2, <2>1, <2>4, <2>5 DEF Board!Enter, Who
<1>4. CASE Who' = Who /\ open' = open
  BY <1>1, <1>2, <1>4, BoardStays
<1>5. CASE Who' = Who /\ open' = FALSE
  BY <1>1, <1>2, <1>5 DEF Board!BoardNext, Board!Close, Who
<1>6. ASSUME PagesStay \/ \E p \in Pages : Load(p) PROVE Who' = Who
  BY <1>1, <1>6 DEF Who, PagesStay, Load, TypeOK, Socket
<1>7. open' \in {open, FALSE}
  BY DEF SocketStep, SignIn, SignOut, Load, Handshake, Leave, HandleConnection,
     RefuseConnection, FindRoom, FindHighest, DropRoom, RunLost, roomVars
<1> QED
  BY <1>1, <1>3, <1>4, <1>5, <1>6, <1>7, PageSteps, NextSplit DEF Board!BoardNext

\* What the board sees of a request or a bid.
OnBoard(id, user) == [id |-> id, user |-> user]

OfRequests(S) == {OnBoard(r.id, r.as) : r \in S}

OfBids(S) == {OnBoard(b.id, b.user) : b \in S}

Waiting == {r \in requests : r.pc \in {"fetch", "announce"}}

Storing == {r \in requests : r.pc \in {"create", "insert"}}

LEMMA OnBoardIs ==
  /\ \A id, user : OnBoard(id, user).id = id /\ OnBoard(id, user).user = user
  /\ Taken = OfRequests(Waiting)
  /\ Announced = OfRequests(Storing)
  /\ Stored = OfBids(bids)
  BY DEF OnBoard, Taken, Announced, Stored, OfRequests, OfBids, Waiting, Storing

\* The ids on the board are those of the requests and bids.
LEMMA IdsOnBoard ==
  ASSUME NEW S
  PROVE  Board!IdsOf(OfRequests(S)) = Ids(S) /\ Board!IdsOf(OfBids(S)) = Ids(S)
  BY OnBoardIs DEF Board!IdsOf, Ids, OfRequests, OfBids

\* An id a request waits at the guard with is new to the board.
LEMMA FreshOnBoard ==
  ASSUME RoomInv, NEW r \in requests, r.pc = "guard"
  PROVE  Board!Fresh(r.id)
<1>1. \A b \in Taken \cup Announced : \E q \in requests : b.id = q.id /\ q.pc # "guard"
  BY OnBoardIs DEF OfRequests, Waiting, Storing
<1>2. \A b \in Stored : b.id \in Ids(bids)
  BY OnBoardIs DEF OfBids, Ids
<1> QED
  BY <1>1, <1>2 DEF RoomInv, UniqueIds, Board!Fresh, Board!IdsOf

\* Requests, and bids, that go leave no other with their ids behind.
LEMMA LeaveBoard ==
  ASSUME RoomInv, NEW S, NEW T, S \subseteq requests, T \subseteq requests
  PROVE  OfRequests(S \ T) = OfRequests(S) \ OfRequests(T)
<1>1. ASSUME NEW q \in S, NEW r \in T, q # r PROVE OnBoard(q.id, q.as) # OnBoard(r.id, r.as)
  <2>1. q.id # r.id
    BY <1>1 DEF RoomInv, UniqueIds
  <2> QED
    BY <2>1, OnBoardIs
<1> QED
  BY <1>1 DEF OfRequests

LEMMA DeletedFromBoard ==
  ASSUME RoomInv, NEW S, S \subseteq bids
  PROVE  OfBids(bids \ S) = OfBids(bids) \ OfBids(S)
<1>1. ASSUME NEW b \in bids, NEW c \in S, b # c
      PROVE  OnBoard(b.id, b.user) # OnBoard(c.id, c.user)
  <2>1. b.id # c.id
    BY <1>1 DEF RoomInv, UniqueIds
  <2> QED
    BY <2>1, OnBoardIs
<1> QED
  BY <1>1 DEF OfBids

\* A request that ends is taken from the board.
LEMMA EndOnBoard ==
  ASSUME RoomInv, NEW S, S \subseteq requests, requests' = requests \ S
  PROVE  Taken' = Taken \ OfRequests(S) /\ Announced' = Announced \ OfRequests(S)
<1>1. Waiting' = Waiting \ S /\ Storing' = Storing \ S
  BY DEF Waiting, Storing
<1>2. Taken' = OfRequests(Waiting \ S) /\ Announced' = OfRequests(Storing \ S)
  BY <1>1 DEF Taken, Announced, OfRequests, OnBoard, Waiting, Storing
<1>3. Waiting \subseteq requests /\ Storing \subseteq requests
  BY DEF Waiting, Storing
<1> QED
  BY <1>2, <1>3, LeaveBoard, OnBoardIs

\* One that is not there leaves the board as it is.
LEMMA NotOnBoard ==
  ASSUME RoomInv, NEW r \in requests
  PROVE  /\ r.pc \notin {"fetch", "announce"} => Taken \ OfRequests({r}) = Taken
         /\ r.pc \notin {"create", "insert"} => Announced \ OfRequests({r}) = Announced
<1>1. ASSUME NEW S, S \subseteq requests, r \notin S
      PROVE  OfRequests(S) \ OfRequests({r}) = OfRequests(S)
  <2>1. S \ {r} = S
    BY <1>1
  <2> QED
    BY <1>1, <2>1, LeaveBoard
<1>2. r.pc \notin {"fetch", "announce"} => r \notin Waiting
  BY DEF Waiting
<1>3. r.pc \notin {"create", "insert"} => r \notin Storing
  BY DEF Storing
<1>4. Waiting \subseteq requests /\ Storing \subseteq requests
  BY DEF Waiting, Storing
<1> QED
  BY <1>1, <1>2, <1>3, <1>4, OnBoardIs

\* A call that goes on is taken from the board, and put where its await is.
LEMMA ResumeOnBoard ==
  ASSUME RoomInv, NEW r \in requests, NEW q, q.id = r.id, q.as = r.as, Resume(r, q)
  PROVE  /\ Taken' = (Taken \ OfRequests({r}))
               \cup IF q.pc \in {"fetch", "announce"} THEN {OnBoard(r.id, r.as)} ELSE {}
         /\ Announced' = (Announced \ OfRequests({r}))
               \cup IF q.pc \in {"create", "insert"} THEN {OnBoard(r.id, r.as)} ELSE {}
<1>1. /\ Waiting' = (Waiting \ {r}) \cup {x \in {q} : x.pc \in {"fetch", "announce"}}
      /\ Storing' = (Storing \ {r}) \cup {x \in {q} : x.pc \in {"create", "insert"}}
  BY DEF Waiting, Storing, Resume
<1>2. Taken' = OfRequests(Waiting') /\ Announced' = OfRequests(Storing')
  BY DEF Taken, Announced, OfRequests, OnBoard, Waiting, Storing
<1>3. Waiting \subseteq requests /\ Storing \subseteq requests
  BY DEF Waiting, Storing
<1> DEFINE Q(P) == {x \in {q} : x.pc \in P}
<1>4. \A P : /\ OfRequests((Waiting \ {r}) \cup Q(P))
                 = OfRequests(Waiting \ {r}) \cup OfRequests(Q(P))
           /\ OfRequests((Storing \ {r}) \cup Q(P))
                 = OfRequests(Storing \ {r}) \cup OfRequests(Q(P))
  BY DEF OfRequests
<1>5. /\ OfRequests(Waiting \ {r}) = Taken \ OfRequests({r})
      /\ OfRequests(Storing \ {r}) = Announced \ OfRequests({r})
  BY <1>3, LeaveBoard, OnBoardIs
<1>6. \A P : OfRequests(Q(P)) = IF q.pc \in P THEN {OnBoard(r.id, r.as)} ELSE {}
  BY DEF OfRequests
<1> HIDE DEF Q
<1>7. /\ Waiting' = (Waiting \ {r}) \cup Q({"fetch", "announce"})
      /\ Storing' = (Storing \ {r}) \cup Q({"create", "insert"})
  BY <1>1 DEF Q
<1> QED
  BY <1>2, <1>4, <1>5, <1>6, <1>7

\* A request waits at one await: what was taken is not yet announced.
LEMMA RequestOnBoard ==
  ASSUME RoomInv, NEW r \in requests
  PROVE  /\ OfRequests({r}) = {OnBoard(r.id, r.as)}
         /\ r.pc \in {"fetch", "announce"} => OnBoard(r.id, r.as) \in Taken
         /\ r.pc \in {"create", "insert"} => OnBoard(r.id, r.as) \in Announced
  BY OnBoardIs DEF OfRequests, Waiting, Storing

\* A bid is typed that the board does not know yet.
LEMMA EmitBoard ==
  ASSUME RoomInv, NEW p \in Pages, NEW id \in BidIds, NEW price \in Prices,
         Emit(p, id, price)
  PROVE  UNCHANGED Board!boardVars
<1> DEFINE r == [id |-> id, page |-> p, price |-> price, by |-> page[p].user,
                 as |-> NoUser, sockets |-> {}, pc |-> "guard"]
<1>1. r.pc = "guard" /\ requests' = requests \cup {r}
  BY DEF Emit
<1> HIDE DEF r
<1>2. Taken' = Taken /\ Announced' = Announced
  BY <1>1 DEF Taken, Announced
<1> QED
  BY <1>2, BoardStays DEF Emit, Who, socketVars, roomVars

\* A bid that is reported was none yet, ends there, or is stored all the same.
LEMMA ReportBoard ==
  ASSUME RoomInv, NEW r \in requests, Report(r),
         UNCHANGED <<bids, heard, lost, deleted, open>>
  PROVE  Board!BoardNext
<1> DEFINE b == OnBoard(r.id, r.as)
<1>1. /\ requests' = requests \ {r} /\ told' = told \cup {r.id} /\ Stored' = Stored
      /\ r.id \in BidIds /\ r.page \in Pages /\ r \in Request
  BY DEF Report, RoomInv, TypeOK, Request, Stored
<1>2. Who' = Who
  <2>1. Close(r.page) /\ TypeOK
    BY DEF Report, RoomInv
  <2> QED
    BY <1>1, <2>1, CloseType DEF Who, PagesStay
<1>3. Taken' = Taken \ {b} /\ Announced' = Announced \ {b}
  BY <1>1, EndOnBoard, RequestOnBoard
<1>4. b.id = r.id
  BY OnBoardIs
<1>5. CASE r.pc = "guard"
  <2>1. Taken' = Taken /\ Announced' = Announced
    BY <1>3, <1>5, NotOnBoard, RequestOnBoard
  <2>2. Board!Fresh(r.id)
    BY <1>5, FreshOnBoard
  <2> QED
    BY <1>1, <1>2, <2>1, <2>2 DEF Board!BoardNext, Board!Reject, Who
<1>6. CASE r.pc = "save"
  <2>1. Taken' = Taken /\ Announced' = Announced
    BY <1>3, <1>6, NotOnBoard, RequestOnBoard
  <2>2. r.id \in Board!IdsOf(Stored) \cup deleted
    BY <1>6, IdsOnBoard, OnBoardIs DEF RoomInv, UniqueIds
  <2> QED
    BY <1>1, <1>2, <2>1, <2>2 DEF Board!BoardNext, Board!Mistake, Who
<1>7. CASE r.pc \notin {"guard", "save"}
  <2>1. b \in Taken \cup Announced
    BY <1>1, <1>7, RequestOnBoard DEF Request
  <2> HIDE DEF b
  <2> QED
    BY <1>1, <1>2, <1>3, <1>4, <2>1 DEF Board!BoardNext, Board!Fail, Who
<1> QED
  BY <1>5, <1>6, <1>7

\* The look-up takes the bid under an account, or rejects it.
LEMMA LookUpBoard ==
  ASSUME RoomInv, NEW r \in requests, LookUp(r)
  PROVE  Board!BoardNext
<1> DEFINE user == store[BrowserOf[r.page]]
           q == [r EXCEPT !.pc = "fetch", !.as = user]
<1>1. /\ TypeOK /\ r \in Request /\ r.page \in Pages /\ r.id \in BidIds
      /\ r.pc = "guard" /\ UNCHANGED <<bids, heard, lost, deleted, open>>
      /\ Stored' = Stored
  BY DEF RoomInv, TypeOK, Request, LookUp, Stored, roomVars
<1>2. Board!Fresh(r.id)
  BY <1>1, FreshOnBoard
<1>3. CASE user = NoUser
  BY <1>1, <1>3, ReportBoard DEF LookUp
<1>4. CASE user # NoUser
  <2>1. user \in Users
    BY <1>1, <1>4, PagesAssumption DEF TypeOK
  <2>2. q.id = r.id /\ q.as = user /\ q.pc = "fetch"
    BY <1>1 DEF Request
  <2>3. requests' = (requests \ {r}) \cup {q} /\ UNCHANGED <<told, page>>
    BY <1>4 DEF LookUp, Resume
  <2> HIDE DEF user, q
  <2>4. Taken' = Taken \cup {[id |-> r.id, user |-> user]} /\ Announced' = Announced
    BY <1>1, <2>2, <2>3 DEF Taken, Announced
  <2>5. Board!Take
    BY <1>1, <1>2, <2>1, <2>3, <2>4 DEF Board!Take
  <2> QED
    BY <2>5 DEF Board!BoardNext
<1> QED
  BY <1>3, <1>4

\* fetchSockets() and the look-up of the room change nothing on the board.
LEMMA FetchBoard ==
  ASSUME RoomInv, NEW r \in requests, FetchSockets(r)
  PROVE  UNCHANGED Board!boardVars
<1> DEFINE q == [r EXCEPT !.pc = "announce",
                          !.sockets = {p \in Pages : page[p].pc = "joined"}]
<1>1. q.id = r.id /\ q.as = r.as /\ q.pc = "announce" /\ r.pc = "fetch"
  BY DEF RoomInv, TypeOK, Request, FetchSockets
<1>2. Resume(r, q)
  BY DEF FetchSockets
<1> HIDE DEF q
<1>3. Taken' = Taken /\ Announced' = Announced
  <2>1. /\ Taken' = (Taken \ OfRequests({r})) \cup {OnBoard(r.id, r.as)}
        /\ Announced' = Announced \ OfRequests({r})
    BY <1>1, <1>2, ResumeOnBoard
  <2> QED
    BY <1>1, <2>1, RequestOnBoard, NotOnBoard
<1>4. UNCHANGED <<open, bids, told, lost, deleted, heard, page>>
  BY <1>2 DEF FetchSockets, Resume, roomVars
<1> QED
  BY <1>3, <1>4, BoardStays DEF Who

LEMMA CreateBoard ==
  ASSUME RoomInv, NEW r \in requests, Create(r)
  PROVE  [Board!BoardNext]_(Board!boardVars)
<1> DEFINE q == [r EXCEPT !.pc = "insert"]
<1>1. q.id = r.id /\ q.as = r.as /\ q.pc = "insert" /\ r.pc = "create"
  BY DEF RoomInv, TypeOK, Request, Create
<1>2. UNCHANGED <<open, bids, lost, deleted, heard>>
  BY DEF Create, roomVars
<1>3. CASE Resume(r, q)
  <2> HIDE DEF q
  <2>1. Taken' = Taken /\ Announced' = Announced
    <3>1. /\ Taken' = Taken \ OfRequests({r})
          /\ Announced' = (Announced \ OfRequests({r})) \cup {OnBoard(r.id, r.as)}
      BY <1>1, <1>3, ResumeOnBoard
    <3> QED
      BY <1>1, <3>1, RequestOnBoard, NotOnBoard
  <2>2. UNCHANGED <<told, page>>
    BY <1>3 DEF Resume
  <2> QED
    BY <1>2, <2>1, <2>2, BoardStays DEF Who
<1>4. CASE Report(r)
  BY <1>2, <1>4, ReportBoard
<1> QED
  BY <1>3, <1>4 DEF Create

\* The announcement tells every page whether the bid is its own.
LEMMA AnnounceBoard ==
  ASSUME RoomInv, NEW r \in requests, Announce(r)
  PROVE  Board!Announce
<1> DEFINE q == [r EXCEPT !.pc = "create", !.sockets = {}]
           b == OnBoard(r.id, r.as)
<1>1. q.id = r.id /\ q.as = r.as /\ q.pc = "create" /\ r.pc = "announce"
  BY DEF RoomInv, TypeOK, Request, Announce
<1>2. /\ Resume(r, q) /\ Stored' = Stored
      /\ UNCHANGED <<page, bids, told, open, lost, deleted>>
  BY DEF Announce, Resume, Stored, roomVars
<1>3. b \in Taken /\ b.id = r.id /\ b.user = r.as
  BY <1>1, RequestOnBoard, OnBoardIs
<1> HIDE DEF q
<1>4. Taken' = Taken \ {b} /\ Announced' = Announced \cup {b}
  BY <1>1, <1>2, ResumeOnBoard, RequestOnBoard, NotOnBoard
<1>5. Audience(r) \in SUBSET {p \in Pages : Who[p] # NoUser}
  <2>1. Audience(r) \subseteq {p \in Pages : page[p].pc = "joined"}
    BY DEF Audience, RoomInv, TypeOK, Request
  <2> QED
    BY <2>1, UsersAssumption DEF RoomInv, TypeOK, Who
<1>6. heard' = [p \in Pages |-> IF p \in Audience(r)
                   THEN heard[p] \cup {[id |-> b.id, mine |-> Who[p] = b.user]}
                   ELSE heard[p]]
  <2>1. ASSUME NEW p \in Pages
        PROVE  [id |-> r.id, mine |-> IsMine(r, p)]
                  = [id |-> b.id, mine |-> Who[p] = b.user]
    <3>1. Who[p] = page[p].user
      BY <2>1 DEF Who
    <3>2. IsMine(r, p) = (Who[p] = b.user)
      BY <1>3, <3>1 DEF IsMine
    <3> QED
      BY <1>3, <3>2
  <2> QED
    BY <2>1 DEF Announce
<1> HIDE DEF b
<1>7. Board!Hear(b, Audience(r))
  BY <1>6 DEF Board!Hear, Who
<1> QED
  BY <1>2, <1>3, <1>4, <1>5, <1>7 DEF Board!Announce, Who

\* bidsModel.create() stores the bid under the account it was announced with.
LEMMA InsertBoard ==
  ASSUME RoomInv, NEW r \in requests, Insert(r)
  PROVE  Board!Store
<1> DEFINE q == [r EXCEPT !.pc = "save"]
           b == OnBoard(r.id, r.as)
           c == [id |-> r.id, page |-> r.page, price |-> r.price, by |-> r.by,
                 user |-> r.as]
<1>1. q.id = r.id /\ q.as = r.as /\ q.pc = "save" /\ r.pc = "insert"
  BY DEF RoomInv, TypeOK, Request, Insert
<1>2. /\ Resume(r, q) /\ bids' = bids \cup {c}
      /\ UNCHANGED <<page, told, heard, open, lost, deleted>>
  BY DEF Insert, Resume, roomVars
<1>3. b \in Announced
  BY <1>1, RequestOnBoard
<1> HIDE DEF q
<1>4. Taken' = Taken /\ Announced' = Announced \ {b}
  <2>1. Taken' = Taken \ OfRequests({r}) /\ Announced' = Announced \ OfRequests({r})
    BY <1>1, <1>2, ResumeOnBoard
  <2> QED
    BY <1>1, <2>1, RequestOnBoard, NotOnBoard
<1>5. c.id = r.id /\ c.user = r.as
  OBVIOUS
<1> HIDE DEF c
<1>6. Stored' = Stored \cup {b}
  <2>1. Stored' = OfBids(bids')
    BY DEF Stored, OfBids, OnBoard
  <2>2. OfBids(bids \cup {c}) = OfBids(bids) \cup {OnBoard(c.id, c.user)}
    BY DEF OfBids
  <2> QED
    BY <1>2, <1>5, <2>1, <2>2, OnBoardIs
<1> HIDE DEF b
<1> QED
  BY <1>2, <1>3, <1>4, <1>6 DEF Board!Store, Who

\* bid.save() finds the bid, or its sender is told of a bid that was stored.
LEMMA SaveBoard ==
  ASSUME RoomInv, NEW r \in requests, Save(r)
  PROVE  [Board!BoardNext]_(Board!boardVars)
<1>1. r.pc = "save" /\ UNCHANGED <<open, bids, lost, deleted, heard>>
  BY DEF Save, roomVars
<1>2. CASE Report(r)
  BY <1>1, <1>2, ReportBoard
<1>3. CASE requests' = requests \ {r} /\ UNCHANGED <<page, told>>
  <2>1. Taken' = Taken /\ Announced' = Announced
    <3>1. Taken' = Taken \ OfRequests({r}) /\ Announced' = Announced \ OfRequests({r})
      BY <1>3, EndOnBoard
    <3> QED
      BY <1>1, <3>1, NotOnBoard
  <2> QED
    BY <1>1, <1>3, <2>1, BoardStays DEF Who
<1> QED
  BY <1>2, <1>3 DEF Save

\* What an instance had that stops, and had not stored, is lost.
LEMMA StopBoard ==
  ASSUME RoomInv, NEW p \in Pages, Stop(p)
  PROVE  Board!Lose
<1> DEFINE mine == {r \in requests : r.page = p}
           unstored == {r \in mine : r.pc \notin {"guard", "save"}}
           gone == OfRequests(unstored)
<1>1. /\ requests' = requests \ mine /\ lost' = lost \cup Ids(unstored)
      /\ UNCHANGED <<bids, told, heard, open, deleted>> /\ Stored' = Stored
  BY DEF Stop, Stored, roomVars
<1>2. Who' = Who
  BY DEF Stop, Who, RoomInv, TypeOK, Socket
<1>3. unstored \subseteq Waiting \cup Storing /\ unstored \subseteq mine
  BY DEF RoomInv, TypeOK, Request, Waiting, Storing
<1>4. /\ gone \subseteq Taken \cup Announced
      /\ Board!IdsOf(gone) = Ids(unstored)
  BY <1>3, OnBoardIs, IdsOnBoard DEF OfRequests
<1>5. Taken' = Taken \ gone /\ Announced' = Announced \ gone
  <2>1. Waiting \ mine = Waiting \ unstored /\ Storing \ mine = Storing \ unstored
    BY DEF Waiting, Storing
  <2>2. Waiting' = Waiting \ mine /\ Storing' = Storing \ mine
    BY <1>1 DEF Waiting, Storing
  <2>3. Taken' = OfRequests(Waiting') /\ Announced' = OfRequests(Storing')
    BY DEF Taken, Announced, OfRequests, OnBoard, Waiting, Storing
  <2>4. Waiting \subseteq requests /\ Storing \subseteq requests /\ unstored \subseteq requests
    BY DEF Waiting, Storing
  <2> HIDE DEF mine, unstored
  <2> QED
    BY <2>1, <2>2, <2>3, <2>4, LeaveBoard, OnBoardIs
<1> HIDE DEF gone
<1> QED
  BY <1>1, <1>2, <1>4, <1>5 DEF Board!Lose, Who

\* Bids are deleted when the auction has closed.
LEMMA DeleteBoard ==
  ASSUME RoomInv, NEW S, S \subseteq bids, DeleteBids(S), ~ open,
         UNCHANGED <<requests, page, told, heard, lost, open>>
  PROVE  Board!Delete
<1>1. Stored' = Stored \ OfBids(S)
  <2>1. Stored' = OfBids(bids')
    BY DEF Stored, OfBids, OnBoard
  <2> QED
    BY <2>1, DeletedFromBoard, OnBoardIs DEF DeleteBids
<1>2. deleted' = deleted \cup Board!IdsOf(OfBids(S)) /\ OfBids(S) \subseteq Stored
  BY IdsOnBoard, OnBoardIs DEF DeleteBids, OfBids
<1>3. Taken' = Taken /\ Announced' = Announced
  BY DEF Taken, Announced
<1> QED
  BY <1>1, <1>2, <1>3 DEF Board!Delete, Who

\* Every step of the gateway is a step of the board, or none.
LEMMA StepBoard ==
  ASSUME RoomInv, AnonymousBefore, [Next]_vars
  PROVE  [Board!BoardNext]_(Board!boardVars)
<1>1. CASE SocketStep
  BY <1>1, SocketBoard
<1>2. CASE RequestStep
  <2>1. ASSUME NEW p \in Pages, NEW id \in BidIds, NEW price \in Prices,
               Emit(p, id, price)
        PROVE  UNCHANGED Board!boardVars
    BY <2>1, EmitBoard
  <2>2. ASSUME NEW r \in requests, RefuseBid(r)
        PROVE  UNCHANGED Board!boardVars
    <3>1. r.pc = "guard" /\ requests' = requests \ {r}
      BY <2>2 DEF RefuseBid
    <3>2. Taken' = Taken /\ Announced' = Announced
      BY <3>1 DEF Taken, Announced
    <3> QED
      BY <2>2, <3>2, BoardStays DEF RefuseBid, Who, socketVars, roomVars
  <2>3. ASSUME NEW r \in requests,
               \/ LookUp(r) \/ FetchSockets(r) \/ Announce(r)
               \/ Create(r) \/ Insert(r) \/ Save(r)
        PROVE  [Board!BoardNext]_(Board!boardVars)
    BY <2>3, LookUpBoard, FetchBoard, AnnounceBoard, CreateBoard, InsertBoard, SaveBoard
       DEF Board!BoardNext
  <2>4. ASSUME NEW r \in requests, RejectCall(r)
        PROVE  Board!BoardNext
    BY <2>4, ReportBoard DEF RejectCall, roomVars
  <2>5. ASSUME NEW p \in Pages, Stop(p)
        PROVE  Board!BoardNext
    BY <2>5, StopBoard DEF Board!BoardNext
  <2> QED
    BY <1>2, <2>1, <2>2, <2>3, <2>4, <2>5 DEF RequestStep, MakeBid
<1>3. CASE DeletionStep
  <2>1. ASSUME NEW s \in Instances, PruneBids(s) PROVE Board!Delete
    <3> DEFINE S == {b \in bids : b.id \notin closer[s].top}
    <3>1. /\ S \subseteq bids /\ DeleteBids(S) /\ ~ open
          /\ UNCHANGED <<requests, page, told, heard, lost, open>>
      BY <2>1 DEF PruneBids, socketVars, RoomInv, ClosedBeforePruned
    <3> HIDE DEF S
    <3> QED
      BY <3>1, DeleteBoard
  <2>2. ASSUME NEW b \in bids, OrderBid(b) PROVE Board!Delete
    <3> DEFINE S == {b}
    <3>1. /\ S \subseteq bids /\ DeleteBids(S) /\ ~ open
          /\ UNCHANGED <<requests, page, told, heard, lost, open>>
      BY <2>2 DEF OrderBid, socketVars, roomVars
    <3> HIDE DEF S
    <3> QED
      BY <3>1, DeleteBoard
  <2> QED
    BY <1>3, <2>1, <2>2 DEF DeletionStep, Board!BoardNext
<1>4. CASE UNCHANGED vars
  BY <1>4, BoardStays DEF vars, socketVars, bidVars, roomVars, Taken, Announced, Who
<1> QED
  BY <1>1, <1>2, <1>3, <1>4, NextSplit

LEMMA InitBoard == Init => AnonymousBefore /\ Board!BoardInit
<1> SUFFICES ASSUME Init PROVE AnonymousBefore /\ Board!BoardInit
  OBVIOUS
<1>1. /\ \A p \in Pages : page[p].user = NoUser
      /\ Taken = {} /\ Announced = {} /\ Stored = {} /\ told = {}
      /\ lost = {} /\ deleted = {} /\ open = TRUE
      /\ heard = [p \in Pages |-> {}]
  BY DEF Init, Taken, Announced, Stored
<1> QED
  BY <1>1 DEF AnonymousBefore, Board!BoardInit

\* The gateway keeps what the room promises (makeBid(), handleConnection(),
\* RoomsService.delete()): one account for a bid, one announcement, one end, and
\* no stored bid deleted while the auction is open.
THEOREM BoardImplemented == Spec => ImplementsBoard
<1>1. RoomInv => TypeOK
  BY DEF RoomInv
<1> QED
  BY <1>1, InitBoard, AnonymousStep, StepBoard, RoomInvariant, PTL
     DEF Spec, ImplementsBoard, Board!BoardSpec

=============================================================================
