# Wevre, verified

Wevre is an auction site for handicraft: a NestJS server (HTTP and Socket.IO)
over MongoDB and Redis, and static pages as its client. docker-compose.yml runs
two instances of the server, `app1` and `app2`, behind one proxy, over one
database. This directory holds TLA+ models of its core, translated from
`src/src`, the TLC runs that check them, and theorems about them that TLAPS
checks.

## 1. Inventory

| component | state it keeps | operations | talks to |
|---|---|---|---|
| rooms (`modules/rooms/rooms.service.ts`) | rooms collection; `item.auctionStatus`; one `session` field | `create()` and `delete()`, cron jobs at midnight on every instance; `findOne()` | items, bids |
| bids (`modules/bids/bids.service.ts`) | bids collection | `create`, `findHighestOne`, `find`, `findAll`, `deleteAll`, `deleteAllButHighest` | rooms |
| orders (`modules/orders/orders.service.ts`) | orders collection | `create()`, `find()` | bids |
| real-time room (`bids.gateway.ts`, `adapters/`, `guards/`, `socket-session-store.ts`, `public/room.html`) | sockets and their rooms, `socket:session#id` in Redis, what a page shows | handshake, `handleConnection`, `joinRoom`, `leaveRoom`, `makeBid` | authentication, users, bids |
| items (`modules/items`) | items, categories, materials (seeded) | `find()`, `findOne()`, `findAll()` | query builder |
| pagination (`dtos/pag*.ts`, `query-builder.factory.ts`) | none | page arithmetic, search and sort queries | items, bids, orders |
| authentication (`modules/auth`, `public/common.js`) | `access_token` and `refresh_token` cookies of a browser, the renewal timer of its page | sign-up, sign-in, sign-out, renewal, Google and Naver | users |
| users (`modules/users`) | users collection, unique e-mail, hash of the refresh token | `create`, `createWithOAuth`, `update`, `setRefreshToken`, `removeRefreshToken`, `findByRefreshToken` | |
| HTTP cache (`interceptors/cache.interceptor.ts`) | Redis entries with a TTL | answers GET /items/:id, GET /rooms/:id | items, rooms |
| views, health, filters, pipes, middleware, configuration | none | one request each | |

What makes the core hard:

- **No operation is atomic.** `delete()` makes six database calls per item,
  `orders.create()` four, `bids.create()` two. The `ClientSession` that
  `withTransaction()` runs with is given to none of them, so each commits by
  itself, anything may run in between, and nothing is undone.
- **Both instances run both jobs at the same midnight**, over the same rooms,
  while bidders bid and winners order.
- **Values are read before an await and used after it**: the highest bid, the
  room of a bid, the status of an ordered item, the sockets to announce to.
- **Failure is final.** A run that throws, at the first expired item without a
  room for instance, ends there until the next midnight.
- **The announcement of a bid precedes its storage**: what a page does about it
  races with the storage, and so do the pruning and the end of the room.
- **One key per browser names the bidder**, whatever account its sockets are of.
- **Cookies and stored token are two states.** Sign-in, renewal and sign-out
  write the hash of the refresh token first and the cookies with their answer;
  the tabs of one browser share the cookies, all browsers share the hash, and
  answers come in any order, or not at all.

What makes each component correct:

- rooms: an auction that is over is marked closed, loses its losing bids, then
  its room, in this order; the winner's bid stays.
- bids: no bid of an open auction goes; a bid belongs to its bidder.
- orders: only closed items are ordered, and each bid once.
- real-time room: an announced bid is stored or its failure reported; pages are
  told which bids are theirs; the highest bid shown is the highest one stored.
- pagination: leafing through a list shows each document once; page, total and
  the next button agree.
- authentication and users: a sign-in with a provider is never one to another
  provider's account; a page that stays open keeps its user signed in; a sign-out
  ends the sessions of the account everywhere, within the life of an access token.

## 2. Modules

```
AuctionDB  <-  RoomsService  <-  BidsService  \
           <-  OrdersService                   >  Auction  ->  AuctionLedger (implements)
                                              /      |
                                     MCAuction, AuctionProofs
AuctionProofs <-  MidnightProofs;  AuctionProofs  <-  WinnerProofs  <-  OrdersProofs
BidsGateway   <-  MCBidsGateway, BidsGatewayProofs;  BidsGateway -> BidBoard (implements)
BidsGateway   <-  RoomScreen  <-  MCRoomScreen
UsersService  <-  AuthSession  <-  MCAuthSession, AuthSessionProofs
Pagination    <-  Paging <- MCPaging;  PaginationProofs;  PagingProofs
```

### The auction

`AuctionDB` has the collections. A bid is a record of its id, bidder, item and
price, an order one of its number, user and the bids it is made from; items are
numbered in the order `find()` returns them, and time is the number of midnights
passed. `RoomsService` has the two jobs: `closer[s]` is the await at which the
run of `delete()` on instance `s` stands, the item its loop is at, and the
highest bid it has read; every action from `CloserSkip` to `CloserReturn` is the
code between two awaits. `create()` calls `findOne()`, which throws where the
code expects null, so the branch that stores a room cannot be reached and is not
an action. `BidsService` has a bid on its way from the page's comparison with
the highest bid (`SendBid`) over `AcceptBid` (the room is found) to `InsertBid`.
`OrdersService` has the four calls of an order as `FetchBids`, `PopulateItems`,
`InsertOrder`, `DeleteOrderedBids`; its history variable `exposed` has the users
who sent a request while another of theirs was under way, or whose request ended
between the two writes. `Auction` composes them and adds `Fault`:
any run, bid or order may end between two calls, for good, with what it wrote
left as it is (the instance stops, or a call rejects).

`AuctionLedger` is the abstract promise: an auction goes open, closing, closed
and never back; bids are given up, and items sold, only when it is no longer
open. `Auction` implements it, with the stage computed from the status and the
room of an item and with the two collections as they are.

### The real-time room

`BidsGateway` has one auction room. A page goes from `closed` over `loaded` and
`connected` (`allowRequest()` let the handshake through) to `joined`
(`handleConnection()` is done), and ends in `left`; `gone` is a socket that closed
while `handleConnection()` was under way, which goes on and writes the store all
the same. A call of `makeBid()` is a record in `requests`; its `pc` is the await it
stands at:

| `pc` | awaited | actions |
|---|---|---|
| guard | the guard's token, the store, the bidder | `LookUp`, `RefuseBid` |
| fetch | `fetchSockets()` | `FetchSockets` |
| announce | nothing more: the loop over the sockets | `Announce` |
| create | the room, in `BidsService.create()` | `Create` |
| insert | `bidsModel.create()` | `Insert` |
| save | `bid.save()`, which asks whether the document is still there | `Save` |

`as` is the account that the store named, `by` the one of the socket. The catch
block of `makeBid()` is `Report`: the page is sent an error and its socket is
disconnected. It is reached from every await, because each may reject
(`RejectCall`), from a look-up that finds nobody or no room, and from a
`bid.save()` whose document was deleted. An instance may stop with all it was
doing for a page (`Stop`). A token that expires needs no clock: `RefuseConnection`
and `RefuseBid` may come whenever a token is validated.

The auction may be closed at any time. `closer[s]` is the run of `delete()` on
instance `s` once it is at the item of this room: `FindRoom`, `FindHighest` (with
`item.save()`), `PruneBids` (`deleteAllButHighest()`), `DropRoom`; `RunLost` cuts it
short. `OrderBid` is an order, which deletes a bid of the closed item. `lost` and
`deleted` are history: the bids whose instance stopped before they were stored,
and those that were stored and deleted.

`RoomScreen` adds what the pages display: `asks`, `answers` and `shown` are the
page's GET /bids/:id requests, their answers on the way, and the price shown.

`BidBoard` is the room as its bidders are promised it, without sockets, tokens and
awaits: a bid is taken under one account, announced once and to whoever is there
at the same moment, then stored under that account, reported as failed, or lost
with its server; a stored bid is deleted only once the auction is closed. What was
stored may be reported as failed all the same (`Mistake`), when `bid.save()`
throws. The mapping of `BidsGateway` onto it reads the bids taken and announced
off the requests (`Taken`, `Announced`) and forgets the prices and pages of the
bids stored (`Stored`).

The HTTP cache is here only as what it makes possible: a page may load a room
that is gone (`Handshake` does not ask for `room`), because GET /rooms/:id
answers from Redis up to `CACHE_TTL` after the room was dropped.

### Authentication

`UsersService` has the users collection. An account is known by its e-mail, which
has a unique index; `provider` is what it was made with and `hashed` the set of
accounts that have a refresh token stored. It is a set and not a token, because
bcrypt hashes 72 bytes and the first 72 bytes of a refresh token are the JWT
header and the beginning of a payload that starts with the account's id: all
refresh tokens of one account compare equal to the stored hash. A second sign-in
therefore does not end the first session, and a sign-out ends all of them.

`AuthSession` has the browsers. A cookie has its account and the ticks its token
has left (cookie and token have the same life); `timer` is what is left of
`setInterval(refreshAccessToken)`. A call of `AuthController` is a record in
`requests`, and its `pc` the await it stands at:

| operation | `pc` in order | actions |
|---|---|---|
| `signUp()` (the page signs in afterwards) | insert, validate, ... | `SignUp`, `CreateUser` |
| `signIn()` | validate, store, signed | `SignIn`, `ValidateCredentials`, `StoreRefreshToken`, `AnswerSignIn` |
| Google, Naver | exists, find or insert, update (Naver), store, signed | `SignInWithGoogle`, `SignInWithNaver`, `LookForUser`, `FindUser`, `UpdateUser`, `CreateWithOAuth`, then as above |
| `refreshToken()` | guard, renewed | `Renew`, `RenewInTab`, `Guard`, `AnswerRenewal` |
| `signout()` | remove, cleared | `SignOut`, `ForgetRefreshToken`, `AnswerSignOut` |

`Refuse` is every answer that is an exception, `Lose` a call that rejects, an
instance that stops or an answer that never arrives. `UpdateUser` changes nothing
because `findOrCreateNaver()` passes a string where `update()` takes fields.
`sinceOut`, `steady` and `out` are history variables: how long an account has
been signed out, which browsers have done nothing since their sign-in that ends
their session or delays its renewal (signing out, a lost request, a page loaded
with less than `RenewEvery` left of its token), and which have signed out.

### Lists

`Pagination` has the arithmetic of `PaginationDto` and `PageStateDto` as
operators, and how `ItemsService.find()` chooses between the answers of its two
queries, `FirstPage` and `FirstTotal`: each takes the first that is not empty,
one without looking at the other. `Paging` is a user who leafs through a list:
of bids or orders, where documents come and go between any two of the queries
(`others` is empty), or of items, where `docs` are found by item name, `others`
by artist name (they are of the constant `ByArtist`, empty where the list is one
of bids or orders), and neither changes.

## 3. Runs

| run | what it checks | bounds and why they are enough |
|---|---|---|
| closing | `TypeOK`, `WinnerKept`, `OnlyWinnerLeft`, `ClosedBeforeRoomGone`, `NoBidLostWhileOpen` | 1 item, 2 instances, 2 users, 2 prices, 2 bids, 1 order: two bids make a winner and a loser, two instances every race of two runs |
| orders | `OrderedItemsAreClosed`, `OrderedOnceInTurn`, `ImplementsLedger` | 2 items that close on different days, 2 orders: an order may hold an open and a closed item, and a user may send a second request; 1 instance and 1 price (two instances and two prices are in `closing`) |
| midnight | `MidnightDropsRooms` under `FairSpec`, `NoRoomForgotten` | 3 items, 2 instances: an earlier expired item with, and one without a room |
| room | `TypeOK`, `OwnAccountBids`, `MineIsMine`, `AnnouncedIsAccountedFor`, `ImplementsBoard` | 1 browser, 2 accounts, 2 pages, 2 bids of one price, 1 instance that closes the auction: an account change between two pages; a page hears of its own bid and of another's; one of two stored bids is pruned while the other waits at any await. Several instances that close it are in `closing`, and in the proofs |
| sessions | `TypeOK`, `ProviderKept`, `SignedOutEverywhere`, `SteadyStaysSignedIn` | 1 account, 2 browsers, 2 requests at a time: every race of two calls, in one browser and across two; lives of 2 and 3 ticks and a renewal every tick are the smallest with RenewEvery < AccessLife < RefreshLife. Two accounts on two browsers take TLC too long; the proofs cover them |
| leaf | `TypeOK`, `ShownAreTotal`, `NoneSkipped`, `NoneTwice`, `OneSearch`, `AnswerIsCoherent` | one order of the documents; 5 documents, 2 per page: a full and a partial last page, three pages; every pair of answers to the two queries of a search |

The runs that end in a violation show where the program and what the repository
says of it part; `findings` in PROJECT.json quotes the lines.

| run | violated | what the behaviour is |
|---|---|---|
| deleted | `RoomsAreDeleted` | an expired item without a room blocks those behind it at every midnight |
| highest | `HighestIsKept` | `delete()` reads no bid, one is stored before the pruning, which spares nothing, and is deleted although it is the highest (2 instances, 2 prices, 2 bids) |
| once | `OrderedOnce` | two requests of one user order the same bid |
| signedout | `SignedOutStaysOut` | a renewal that passed its guard before the sign-out is answered after it: the browser has an access token again |
| screen | `ShownCatchesUp` | a page hears of the first bid, is answered that there is none before it is stored, and never asks again (1 page, 1 bid) |
| ties | `ShownAreTotal` | bids are sorted by a field they do not have: of three bids, leafed through in pages of two, one is shown twice and another never |

Two more follow from the code without a run. `create()` never stores a room:
`findOne()` throws where it expects null (`OpenerThrow`). And the server compares
no prices: two pages that read the same highest bid store the same price, and
`findHighestOne()` may return either (`CloserFindHighest`). `WinnerKept` is
therefore about bids that beat all others. Of bids that tie nothing is promised:
two instances may read a different one each, and delete what the other spares.
`HighestIsKept` asks for one of them as well, and what `highest` reports is the
shortest of the ways it fails.

Deadlock is not checked in `room`, `screen`, `leaf` and `ties`: every page may
have been closed and every list been leafed through. Symmetry is used in runs
that check no liveness: ids, users, instances and pages are only compared.

**Fairness.** `Auction!FairSpec` has no faults and weak fairness of midnight and
of each job: the cron fires daily and Node's event loop resumes an awaiting
function once its call has answered. `RoomScreen!ScreenSpec` is an open auction in
which nothing fails, with weak fairness of each connection, of each `makeBid()`
under way and of the delivery of answers; nothing users do is fair.

## 4. Proofs

Each theorem holds for every value of the constants that satisfies the named
assumptions of its module: any number of items, users, bids, prices, instances,
browsers, pages.

- `AuctionProofs`. `TypeCorrect` goes action by action. The safety properties
  rest on `ClosingInv`: besides `ClosedBeforeRoomGone`, it says that a run that
  is about to prune or drop has marked its item (`MarkedBeforePruned`), and that
  the lines of an order are of closed items from the moment the status was read
  (`LinesAreClosed`). Neither property is inductive alone: the pruning of one
  instance preserves it only because of what that instance did two calls before,
  and because nothing marks an item as open again. `OpenBidsStay` and
  `LedgerImplemented` follow step by step from the same invariant.
- `MidnightProofs`. The liveness of `MidnightDropsRooms` is TLC's; the safety half
  of it is proved. Another instance may drop a room between two look-ups, so a run
  can throw, and then only the run that dropped it is left to go on. A run is on
  its way to the room of an item (`Reaches`) as long as every room it still needs
  up to there exists. `RoomsAreNotForgotten` says that this passes from run to run
  until the room is gone: a step of a run keeps it on its way
  (`ReachingRunGoesOn`), and when a step of another run drops a room it had not
  looked up yet, that other run is on its way (`OvertakingRunTakesOver`).
  Needed for it is `OverdueOnly`: what a run has looked up stays out of its window, since no
  midnight comes before the run is over. Faults are left out (`FairSpec`): a run
  that is cut short leaves its rooms to the next midnight.
- `WinnerProofs`. `WinnerNeverLost` needs `WinnerInv`: as long as no bid arrives
  late, the bid a run has read as the highest stays the winner until it has
  pruned, unless it was ordered (`TopIsWinner`), and an order takes bids of its
  own user only (`LinesAreOwn`). `LosersGone` needs `OneLeftInv`: a run carries
  one highest bid at most (`OneTop`), and what it leaves after pruning is at most
  one bid (`PrunedToOne`).
- `OrdersProofs`. `NoneOrderedTwice` is about users whose requests come one after
  the other and are not cut short once the order is stored; `once` shows what the
  others may meet. `OnceInv` follows a bid through the three places it can be
  ordered from: an order that is over has no bid left (`Cleared`), one in the
  making has none of an order stored before (`NotOrderedYet`), and a bid that was
  deleted does not come back, since it is inserted once (`InsertedOnce`,
  `LinesWerePlaced`) and numbers are those of one request (`OnePlace`).
- `BidsGatewayProofs`. `RoomInv` adds to the properties: an id is that of one
  request, one bid, or one that is over, and a bid and its request meet only while
  `bid.save()` is awaited (`UniqueIds`); pages hear of a bid from the announcement
  on (`HeardBeforeStored`); what they were told is of the request's account
  (`MineOfRequests`); a page hears nothing before its handshake fixes its account
  (`SilentBefore`); whatever names an account of a browser names one that
  connected from it (`FromConnected`); and a run that is about to prune has closed
  the auction (`ClosedBeforePruned`). The steps that end a request, whether it is
  reported, refused, done or lost, share `EndInv`, those that resume it
  `ResumeInv`. `BoardImplemented` shows, action by action, that every step is one
  of `BidBoard` or changes nothing of it: a handshake gives a page an account it
  had not before (`AnonymousBefore`), a report is `Reject`, `Fail` or `Mistake` by
  the await it comes from (`ReportBoard`), a stopped instance is `Lose`, pruning
  and orders are `Delete`, which needs the auction to be closed.
- `AuthSessionProofs`. `SessionInv` is needed because each property looks at one
  of three places a session is in. `SignedOutEverywhere` is not inductive: an
  access token may be on its way. `OutJustNow` says that such an answer is of an
  account that signed out in this tick if at all, and `TokensRunOut` that what is
  left of a token and the time since the sign-out never add up to more than
  `AccessLife`. `SteadyStaysSignedIn` needs `RenewedInTime`: the token outlives
  the timer, or a renewal that will succeed is under way; this rests on
  `StoredFirst`, the order of storing the hash and sending the cookies.
  `ProviderKept` needs `PasswordOnly`. The only assumption about time is that the
  renewal period is shorter than the life of an access token.
- `PaginationProofs`. A page is found exactly when it starts before the last
  document, the next button is offered exactly when the next page is found, and
  each document of an unchanged list is on exactly one page. `PageSize` counts
  the documents of a page, by a bijection between documents and places.
- `PagingProofs`. `PagingInv` adds to the properties: the next page is offered
  only up to the last page there can be (`NextIsWithinDocs`); no page of a search
  but an existing one is ever read (`SearchStays`), so that an empty first answer
  means that nothing has that name; and a page read bounds the count that follows
  (`PageBoundsTotal`). `NoneSkipped` and `NoneTwice` hold for databases that
  break ties in one way, which their theorems have as the hypothesis `OneOrder`:
  while no document comes, those shown stay before the end of what was shown
  (`ShownAreBefore`); while none goes, those not shown stay behind it
  (`OthersAreBehind`). `TotalIsShown` says, under the same hypothesis, that the
  total of the last page is what was shown, if nothing came or went: what was
  shown is there (`StaysInv`), and no document that is there is missing. Without
  the hypothesis the run `ties` violates it.

Only model-checked: `MidnightDropsRooms`, which is liveness and beyond this
prover, and the violations. Every other property of a passing run has a theorem.

## 5. Assumptions

- A run of a job is over before the next midnight, and `startSession()` answers.
- `find()` returns the items in the same order every day (natural order).
- Users and items are never deleted; no operation of the code does.
- A price is a natural number. The page sends the text typed, and refuses what
  is not numeric; the comparisons of `room.html` convert it.
- A page is loaded once and has one socket: a reconnect is another page. Every
  browser has its `socket_session_id` cookie, which the item list obtains by
  opening a socket before the room page is entered.
- The Redis calls of one session id arrive in the order they were made.
- `findHighestOne()` and the `item.save()` after it are one step in `BidsGateway`,
  two in `RoomsService`.
- `bid.save()` of a document without changes is an existence query, which throws
  when there is no document (Mongoose 7).
- `Paging`: in the run `leaf` the database breaks ties in one way, in `ties` in
  any. MongoDB promises no single order of bids or orders (see `ties`), so that
  `NoneSkipped`, `NoneTwice` and `ShownAreTotal` hold of them on this assumption
  only. No order has ties within one query.
- A request of `AuthController` takes less than a tick, of which an access token
  lives two or more. Cookie and token were issued together and expire together.
- The page of `common.js` renews while it is open; a browser that sleeps past its
  timer is one whose request is lost.

## 6. Not modelled, and what comes next

1. `HttpCache` as a module: keys, TTL and the write after a miss, composed with
   the item list, so that the age of an answer is bounded by a property.
2. Composing `BidsGateway` with `BidsService`, so that a bid announced in the
   room is one the auction of `Auction` accepts or loses.
3. A specification of a session, without cookies, timers and awaits, that
   `AuthSession` implements.

Left out for good: the field `this.session`, which `create()` and `delete()`
share so that one may end the session of the other, because no call inside uses
the session; passport's own checks of signatures and passwords (a wrong password
is `Refuse`); views, health checks, logging, validation and serialisation of
fields no property tells apart, configuration, the seed.
