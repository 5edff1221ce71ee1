------------------------------- MODULE Paging -------------------------------
(***************************************************************************)
(* A user leafs through a list from the first page to the last: the user's *)
(* bids or orders, while bids and orders come and go, or the items that a  *)
(* search finds, by item name and by artist name.  find() reads the page   *)
(* and then, in a second query, counts the documents.                      *)
(*                                                                         *)
(* Bids and orders are sorted by a field of the items, which they do not   *)
(* have: all of them are equal, and the database may answer each query in  *)
(* any order.  One that breaks ties in one way has a single order.         *)
(***************************************************************************)
EXTENDS Pagination

CONSTANTS
    Docs,     \* bound: the documents there may be
    ByArtist, \* those a search may find by artist name: none of bids or orders
    Orders,   \* the orders the database may answer a query in
    Limit

ASSUME PagingAssumption ==
    /\ IsFiniteSet(Docs) /\ Docs # {}
    /\ ByArtist \subseteq Docs
    /\ Orders \subseteq [Docs -> Nat] /\ Orders # {}
    /\ \A rank \in Orders : \A d, e \in Docs : rank[d] = rank[e] => d = e
    /\ Limit \in Nat \ {0}

VARIABLES
    docs,    \* the documents of the user, or those found by item name
    others,  \* those found by artist name
    pc,      \* the reader: asks for a page, waits for the count, or is done
    offset,  \* the page asked for
    data,    \* the page read
    seen,    \* the documents shown since the first page
    answer,  \* whether the last page was found, and whether it has a next one
    atStart, \* history: the matches when the reader began
    came,    \* history: a document came: since the reader began, since the page
    gone,    \* history: the same for a document that went
    twice    \* history: a document was shown twice

changes == <<came, gone>>
vars == <<docs, others, pc, offset, data, seen, answer, atStart, changes, twice>>

Answers == [found: BOOLEAN, next: BOOLEAN]

Changed == [walk: BOOLEAN, page: BOOLEAN]

\* No page after the last one there can be is ever asked for.
TypeOK ==
    /\ docs \subseteq Docs
    /\ others \subseteq Docs
    /\ pc \in {"page", "count", "shown", "done"}
    /\ offset \in 0 .. LastPage(Cardinality(Docs), Limit)
    /\ data \subseteq Docs
    /\ seen \subseteq Docs
    /\ answer \in Answers
    /\ atStart \subseteq Docs
    /\ came \in Changed
    /\ gone \in Changed
    /\ twice \in BOOLEAN

\* What the list is of: the first search that finds any.
Matches == IF docs # {} THEN docs ELSE others

Nothing == [walk |-> FALSE, page |-> FALSE]

Init ==
    /\ docs \in SUBSET Docs
    /\ others \in SUBSET ByArtist
    /\ pc = "page"
    /\ offset \in {0, 1}
    /\ data = {}
    /\ seen = {}
    /\ answer = [found |-> FALSE, next |-> FALSE]
    /\ atStart = Matches
    /\ came = Nothing
    /\ gone = Nothing
    /\ twice = FALSE

\* ....find(searchQuery).skip(skip).limit(limit).sort(sortQuery)
FindPage ==
    /\ pc = "page"
    /\ pc' = "count"
    /\ \E rank \in Orders :
          data' = FirstPage(docs, others, rank, offset, Limit)
    /\ came' = [came EXCEPT !.page = FALSE]
    /\ gone' = [gone EXCEPT !.page = FALSE]
    /\ UNCHANGED <<docs, others, offset, seen, answer, atStart, twice>>

\* countDocuments(searchQuery); the page is shown unless it does not exist.
CountDocuments ==
    LET total == FirstTotal(docs, others)
        found == PageFound(total, offset, Limit)
    IN
    /\ pc = "count"
    /\ answer' = [found |-> found, next |-> IsNextPageValid(total, offset, Limit)]
    /\ pc' = IF ~ found \/ ~ IsNextPageValid(total, offset, Limit)
             THEN "done" ELSE "shown"
    /\ seen' = IF found THEN seen \cup data ELSE seen
    /\ twice' = (twice \/ (found /\ seen \cap data # {}))
    /\ UNCHANGED <<docs, others, offset, data, atStart, changes>>

\* The next button asks for the page after state.currentPage.
NextPage ==
    /\ pc = "shown"
    /\ pc' = "page"
    /\ offset' = CurrentPage(offset) + 1
    /\ UNCHANGED <<docs, others, data, seen, answer, atStart, changes, twice>>

\* BidsService.create(), OrdersService.create(); items neither come nor go.
Come ==
    /\ pc # "done"
    /\ others = {}
    /\ \E d \in Docs \ docs : docs' = docs \cup {d}
    /\ came' = [walk |-> TRUE, page |-> TRUE]
    /\ UNCHANGED <<others, pc, offset, data, seen, answer, atStart, gone, twice>>

\* deleteAll(), deleteAllButHighest()
Go ==
    /\ pc # "done"
    /\ others = {}
    /\ \E d \in docs : docs' = docs \ {d}
    /\ gone' = [walk |-> TRUE, page |-> TRUE]
    /\ UNCHANGED <<others, pc, offset, data, seen, answer, atStart, came, twice>>

Next == FindPage \/ CountDocuments \/ NextPage \/ Come \/ Go

Spec == Init /\ [][Next]_vars

-----------------------------------------------------------------------------

\* Whoever leafs to the last page while no document comes or goes has seen
\* as many as the page says there are: "입찰 개수" (public/bids.html
\* fetchBids(), bids.service.ts find()).
ShownAreTotal ==
    pc = "done" /\ answer.found /\ ~ came.walk /\ ~ gone.walk =>
        Cardinality(seen) = Cardinality(Matches)

\* Documents that come while the user leafs through the list hide none of the
\* others: whoever was there from the start has been shown, as long as none
\* went (pagination.dto.ts skip, page-state.dto.ts lastPage).
NoneSkipped == pc = "done" /\ ~ gone.walk => atStart \subseteq seen

\* Documents that go make the user miss some, but show none twice
\* (pagination.dto.ts skip).
NoneTwice == ~ came.walk => ~ twice

\* The pages of a search are all of one of its two queries: page and total
\* are chosen one by one, and yet never show items found by artist among
\* items found by name (items.service.ts find()).
OneSearch == others # {} => seen \subseteq Matches

\* Page and total are two queries.  A page that is found is empty only if a
\* document came in between, one that is not found has documents only if
\* one went in between, and one that has a next page is full unless one came
\* (bids.service.ts find(), orders.service.ts find()).
AnswerIsCoherent ==
    pc \in {"shown", "done"} =>
        /\ answer.found /\ data = {} => came.page
        /\ ~ answer.found /\ data # {} => gone.page
        /\ answer.next /\ Cardinality(data) # Limit => came.page

=============================================================================
