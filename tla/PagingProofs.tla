---------------------------- MODULE PagingProofs ----------------------------
(***************************************************************************)
(* Leafing through a list, for every set of documents and page size.       *)
(***************************************************************************)
EXTENDS Paging, PaginationProofs

Total == Cardinality(Matches)

\* The first document of the page asked for, and of the page after it.
Here == Skip(offset, Limit)

\* The next page is asked for only if a count, now perhaps out of date, had it.
NextIsWithinDocs ==
    pc = "shown" => CurrentPage(offset) + 1 <= LastPage(Cardinality(Docs), Limit)

\* Items neither come nor go: no page of a search but an existing one is read,
\* so that the first query never leaves the page to the second by accident.
SearchStays ==
    others # {} =>
        /\ pc \in {"page", "count"} => PageFound(Total, offset, Limit)
        /\ pc = "shown" => IsNextPageValid(Total, offset, Limit)
        /\ pc = "count" => data \subseteq Matches
        /\ seen \subseteq Matches

\* What the page read says of the count yet to be made.
PageBoundsTotal ==
    pc = "count" =>
        /\ ~ came.page /\ data = {} => Total <= Here
        /\ ~ gone.page /\ data # {} => Here < Total
        /\ ~ came.page /\ Cardinality(data) # Limit => Total < Here + Limit

PagingInv ==
    /\ TypeOK
    /\ NextIsWithinDocs
    /\ SearchStays
    /\ PageBoundsTotal
    /\ AnswerIsCoherent

\* The database breaks ties in one way.
OneOrder == \A r1, r2 \in Orders : r1 = r2

Rank == CHOOSE rank \in Orders : TRUE

Place(d) == Before(Matches, Rank, d)

\* Where the part of the list that was shown ends.
ShownUpTo == IF pc \in {"page", "count"} THEN Here ELSE Here + Limit

\* While no document comes those shown stay before the end of what was shown.
ShownAreBefore ==
    ~ came.walk =>
        /\ ~ twice
        /\ \A d \in seen \cap Matches : Place(d) < ShownUpTo
        /\ pc = "count" => /\ data \cap seen = {}
                           /\ \A d \in data \cap Matches : Place(d) < Here + Limit

\* While none goes those not shown yet stay behind it.
OthersAreBehind ==
    ~ gone.walk =>
        /\ atStart \subseteq Matches
        /\ pc # "done" => \A d \in atStart \ seen : ShownUpTo <= Place(d)
        /\ pc = "count" => \A d \in atStart \ (seen \cup data) : Here + Limit <= Place(d)
        /\ pc = "done" => atStart \subseteq seen


(***************************************************************************)
(* What the queries answer.                                                *)
(***************************************************************************)

\* The count is that of the matches (items.service.ts find()).
LEMMA CountOfMatches ==
    ASSUME docs \subseteq Docs, others \subseteq Docs
    PROVE  /\ Matches \subseteq Docs /\ IsFiniteSet(Matches)
           /\ Total \in Nat /\ Total <= Cardinality(Docs)
           /\ FirstTotal(docs, others) = Total
<1>1. IsFiniteSet(Docs) /\ Matches \subseteq Docs
  BY PagingAssumption DEF Matches
<1>2. IsFiniteSet(Matches) /\ Total \in Nat /\ Total <= Cardinality(Docs)
  BY <1>1, FS_Subset, FS_CardinalityType DEF Total
<1>3. IsFiniteSet(docs) /\ (Cardinality(docs) = 0 <=> docs = {})
  BY <1>1, FS_Subset, FS_EmptySet
<1> QED
  BY <1>1, <1>2, <1>3 DEF FirstTotal, Total, Matches

\* The database answers in an order without ties.
LEMMA OrdersAreStrict ==
    ASSUME NEW rank \in Orders, NEW some \in SUBSET Docs
    PROVE  Strict(rank, some)
<1>1. /\ rank \in [Docs -> Nat]
      /\ \A d, e \in Docs : rank[d] = rank[e] => d = e
  BY PagingAssumption
<1> QED
  BY <1>1 DEF Strict

\* Pages follow each other without a gap.
LEMMA NextFollows ==
    ASSUME offset \in Nat
    PROVE  /\ Here \in Nat /\ Limit \in Nat \ {0}
           /\ CurrentPage(offset) + 1 \in Nat
           /\ Skip(CurrentPage(offset) + 1, Limit) = Here + Limit
<1>1. Limit \in Nat \ {0}
  BY PagingAssumption
<1>2. /\ CurrentPage(offset) \in Nat \ {0}
      /\ Here = (CurrentPage(offset) - 1) * Limit
  BY <1>1, SkipOfPage DEF Here
<1> DEFINE k == CurrentPage(offset)
<1>3. Skip(k + 1, Limit) = k * Limit
  BY <1>1, <1>2 DEF Skip
<1> HIDE DEF k
<1>4. k \in Nat \ {0} /\ Here = (k - 1) * Limit
  BY <1>2 DEF k
<1>5. k * Limit = (k - 1) * Limit + Limit /\ (k - 1) * Limit \in Nat
  BY <1>1, <1>4
<1> QED
  BY <1>1, <1>2, <1>3, <1>4, <1>5 DEF k

\* What an answer says of the matches at the time of the count.
LEMMA CountSays ==
    ASSUME TypeOK
    PROVE  /\ PageFound(Total, offset, Limit) <=> Here < Total
           /\ IsNextPageValid(Total, offset, Limit) <=> Here + Limit < Total
<1>1. Total \in Nat /\ offset \in Nat
  BY CountOfMatches DEF TypeOK
<1>2. Limit \in Nat \ {0} /\ CurrentPage(offset) + 1 \in Nat
  BY <1>1, NextFollows
<1>3. PageFound(Total, offset, Limit) <=> Here < Total
  BY <1>1, <1>2, FoundIsNotEmpty DEF Here
<1>4. IsNextPageValid(Total, offset, Limit)
         <=> PageFound(Total, CurrentPage(offset) + 1, Limit)
  BY <1>1, <1>2, NextIsFound
<1>5. PageFound(Total, CurrentPage(offset) + 1, Limit)
         <=> Skip(CurrentPage(offset) + 1, Limit) < Total
  BY <1>1, <1>2, FoundIsNotEmpty
<1> QED
  BY <1>1, <1>3, <1>4, <1>5, NextFollows

\* The page is one of the matches', unless it is past the last one
\* (items.service.ts find()).
LEMMA PageOfMatches ==
    ASSUME TypeOK, others # {} => PageFound(Total, offset, Limit),
           NEW rank \in Orders
    PROVE  FirstPage(docs, others, rank, offset, Limit)
               = PageOf(Matches, rank, offset, Limit)
<1>1. CASE docs = {}
  BY <1>1 DEF Matches, FirstPage, PageOf
<1>2. CASE docs # {} /\ others = {}
  BY <1>2 DEF Matches, FirstPage, PageOf
<1>3. CASE docs # {} /\ others # {}
  <2>1. Matches = docs
    BY <1>3 DEF Matches
  <2>2. Here < Total
    BY <1>3, CountSays
  <2>3. /\ IsFiniteSet(Matches) /\ Total \in Nat /\ offset \in Nat
        /\ Matches \subseteq Docs
    BY CountOfMatches DEF TypeOK
  <2>4. Here \in Nat /\ Limit \in Nat \ {0}
    BY <2>3, NextFollows
  <2>5. PageOf(Matches, rank, offset, Limit) # {}
    BY <2>2, <2>3, <2>4, PageSize, OrdersAreStrict DEF Total, Here
  <2> QED
    BY <2>1, <2>5 DEF FirstPage
<1> QED
  BY <1>1, <1>2, <1>3

\* Bids and orders come and go one by one; the items of a search stay.
LEMMA ListChanges ==
    ASSUME TypeOK
    PROVE  /\ Come => /\ others = {} /\ Matches = docs /\ Matches' = docs'
                      /\ Matches \in SUBSET Matches' /\ Matches' \subseteq Docs
                      /\ Total \in Nat /\ Total' \in Nat /\ Total <= Total'
           /\ Go => /\ others = {} /\ Matches = docs /\ Matches' = docs'
                    /\ Matches' \in SUBSET Matches /\ Matches \subseteq Docs
                    /\ Total \in Nat /\ Total' \in Nat /\ Total' <= Total
<1>1. IsFiniteSet(Docs)
  BY PagingAssumption
<1>2. ASSUME Come
      PROVE  /\ others = {} /\ Matches = docs /\ Matches' = docs'
             /\ Matches \in SUBSET Matches' /\ Matches' \subseteq Docs
  BY <1>2 DEF Come, TypeOK, Matches
<1>3. ASSUME Go
      PROVE  /\ others = {} /\ Matches = docs /\ Matches' = docs'
             /\ Matches' \in SUBSET Matches /\ Matches \subseteq Docs
  BY <1>3 DEF Go, TypeOK, Matches
<1>4. ASSUME NEW s, NEW t, s \subseteq t, t \subseteq Docs
      PROVE  /\ Cardinality(s) \in Nat /\ Cardinality(t) \in Nat
             /\ Cardinality(s) <= Cardinality(t)
  BY <1>1, <1>4, FS_Subset, FS_CardinalityType
<1> QED
  BY <1>2, <1>3, <1>4 DEF Total

(***************************************************************************)
(* The invariant holds at the start and each action keeps it.              *)
(***************************************************************************)

\* A reader starts at the first page.
LEMMA FirstRead == Init => PagingInv
<1> SUFFICES ASSUME Init PROVE PagingInv
  OBVIOUS
<1>1. /\ docs \subseteq Docs /\ others \subseteq Docs /\ offset \in {0, 1}
      /\ pc = "page" /\ data = {} /\ seen = {}
      /\ came = Nothing /\ gone = Nothing /\ atStart = Matches
      /\ answer = [found |-> FALSE, next |-> FALSE] /\ twice = FALSE
  BY PagingAssumption DEF Init
<1>2. Limit \in Nat \ {0} /\ IsFiniteSet(Docs) /\ Docs # {}
  BY PagingAssumption
<1>3. Cardinality(Docs) \in Nat \ {0}
  BY <1>2, FS_CardinalityType, FS_EmptySet
<1>4. LastPage(Cardinality(Docs), Limit) \in Nat \ {0}
  BY <1>2, <1>3, LastPageBounds
<1>5. TypeOK
  <2>1. Nothing \in Changed
    BY DEF Nothing, Changed
  <2>2. Matches \subseteq Docs
    BY <1>1, CountOfMatches
  <2>3. answer \in Answers
    BY <1>1 DEF Answers
  <2>4. offset \in 0 .. LastPage(Cardinality(Docs), Limit)
    BY <1>1, <1>4
  <2> QED
    BY <1>1, <2>1, <2>2, <2>3, <2>4 DEF TypeOK
<1>6. others # {} => PageFound(Total, offset, Limit)
  <2> SUFFICES ASSUME others # {} PROVE Here < Total
    BY <1>5, CountSays
  <2>1. Matches # {} /\ IsFiniteSet(Matches) /\ Total \in Nat
    BY <1>1, CountOfMatches DEF Matches
  <2>2. Total # 0 /\ Here = 0
    BY <1>1, <1>2, <2>1, FS_EmptySet DEF Total, Here, Skip
  <2> QED
    BY <2>1, <2>2
<1> QED
  BY <1>1, <1>5, <1>6
  DEF PagingInv, NextIsWithinDocs, SearchStays, PageBoundsTotal, AnswerIsCoherent

\* find() reads a page.
LEMMA PageRead == PagingInv /\ FindPage => PagingInv'
<1> SUFFICES ASSUME PagingInv, FindPage PROVE PagingInv'
  OBVIOUS
<1>1. TypeOK /\ SearchStays
  BY DEF PagingInv
<1>2. PICK rank \in Orders : data' = FirstPage(docs, others, rank, offset, Limit)
  BY DEF FindPage
<1>3. /\ pc = "page" /\ pc' = "count"
      /\ came' = [came EXCEPT !.page = FALSE]
      /\ gone' = [gone EXCEPT !.page = FALSE]
      /\ docs' = docs /\ others' = others /\ offset' = offset /\ seen' = seen
      /\ answer' = answer /\ atStart' = atStart /\ twice' = twice
  BY DEF FindPage
<1>4. Matches' = Matches /\ Total' = Total /\ Here' = Here
  BY <1>3 DEF Matches, Total, Here
<1>5. data' = PageOf(Matches, rank, offset, Limit)
  BY <1>1, <1>2, <1>3, PageOfMatches DEF SearchStays
<1>6. data' \subseteq Matches /\ Matches \subseteq Docs /\ IsFiniteSet(Matches)
  BY <1>1, <1>5, CountOfMatches DEF PageOf, TypeOK
<1>7. TypeOK'
  BY <1>1, <1>3, <1>6 DEF TypeOK, Changed
<1>8. SearchStays'
  BY <1>1, <1>3, <1>4, <1>6 DEF SearchStays
<1>9. PageBoundsTotal'
  <2>1. /\ offset \in Nat /\ Total \in Nat
    BY <1>1, CountOfMatches DEF TypeOK
  <2>2. Limit \in Nat \ {0} /\ Here \in Nat
    BY <2>1, NextFollows
  <2>3. /\ data' = {} <=> Total <= Here
        /\ Here + Limit <= Total => Cardinality(data') = Limit
    BY <1>5, <1>6, <2>1, <2>2, PageSize, OrdersAreStrict DEF Total, Here
  <2> QED
    BY <1>4, <2>1, <2>2, <2>3 DEF PageBoundsTotal
<1> QED
  BY <1>3, <1>7, <1>8, <1>9 DEF PagingInv, NextIsWithinDocs, AnswerIsCoherent

\* find() counts the documents and answers.
LEMMA DocumentsCounted == PagingInv /\ CountDocuments => PagingInv'
<1> SUFFICES ASSUME PagingInv, CountDocuments PROVE PagingInv'
  OBVIOUS
<1>1. TypeOK /\ SearchStays /\ PageBoundsTotal
  BY DEF PagingInv
<1> DEFINE found == PageFound(Total, offset, Limit)
           next == IsNextPageValid(Total, offset, Limit)
<1>2. /\ pc = "count" /\ answer' = [found |-> found, next |-> next]
      /\ pc' = IF ~ found \/ ~ next THEN "done" ELSE "shown"
      /\ seen' = IF found THEN seen \cup data ELSE seen
      /\ twice' = (twice \/ (found /\ seen \cap data # {}))
      /\ docs' = docs /\ others' = others /\ offset' = offset /\ data' = data
      /\ atStart' = atStart /\ came' = came /\ gone' = gone
  BY <1>1, CountOfMatches DEF CountDocuments, TypeOK, changes
<1>3. Matches' = Matches /\ Total' = Total
  BY <1>2 DEF Matches, Total
<1>4. Total \in Nat /\ Total <= Cardinality(Docs) /\ offset \in Nat
  BY <1>1, CountOfMatches DEF TypeOK
<1>5. Limit \in Nat \ {0} /\ Here \in Nat
  BY <1>4, NextFollows
<1>6. found \in BOOLEAN /\ next \in BOOLEAN
  BY DEF PageFound, IsNextPageValid
<1>7. (found <=> Here < Total) /\ (next <=> Here + Limit < Total)
  BY <1>1, CountSays
<1>8. next => CurrentPage(offset) + 1 <= LastPage(Cardinality(Docs), Limit)
  <2>1. IsFiniteSet(Docs) /\ Cardinality(Docs) \in Nat
    BY PagingAssumption, FS_CardinalityType
  <2>2. LastPage(Total, Limit) <= LastPage(Cardinality(Docs), Limit)
    BY <1>4, <1>5, <2>1, LastPageMonotone
  <2>3. /\ LastPage(Total, Limit) \in Nat
        /\ LastPage(Cardinality(Docs), Limit) \in Nat
        /\ CurrentPage(offset) \in Nat
    BY <1>4, <1>5, <2>1, LastPageBounds, SkipOfPage
  <2> QED
    BY <2>2, <2>3 DEF IsNextPageValid
<1> HIDE DEF found, next
<1>9. TypeOK'
  <2>1. pc' \in {"done", "shown"} /\ seen' \subseteq Docs /\ answer' \in Answers
    BY <1>1, <1>2, <1>6 DEF TypeOK, Answers
  <2>2. twice' \in BOOLEAN
    BY <1>1, <1>2 DEF TypeOK
  <2> QED
    BY <1>1, <1>2, <2>1, <2>2 DEF TypeOK
<1>10. NextIsWithinDocs'
  BY <1>2, <1>8 DEF NextIsWithinDocs
<1>11. SearchStays'
  <2>1. pc' = "shown" => next
    BY <1>2
  <2>2. pc' = "shown" => IsNextPageValid(Total, offset, Limit)
    BY <2>1 DEF next
  <2> QED
    BY <1>1, <1>2, <1>3, <2>2 DEF SearchStays
<1>12. AnswerIsCoherent'
  <2>1. answer'.found = found /\ answer'.next = next
    BY <1>2
  <2>2. found /\ data = {} => came.page
    BY <1>1, <1>2, <1>4, <1>5, <1>7 DEF PageBoundsTotal
  <2>3. ~ found /\ data # {} => gone.page
    BY <1>1, <1>2, <1>4, <1>5, <1>7 DEF PageBoundsTotal
  <2>4. next /\ Cardinality(data) # Limit => came.page
    BY <1>1, <1>2, <1>4, <1>5, <1>7 DEF PageBoundsTotal
  <2> QED
    BY <1>2, <2>1, <2>2, <2>3, <2>4 DEF AnswerIsCoherent
<1>13. PageBoundsTotal'
  BY <1>2 DEF PageBoundsTotal
<1> QED
  BY <1>9, <1>10, <1>11, <1>12, <1>13 DEF PagingInv

\* The user asks for the page that follows.
LEMMA PageTurned == PagingInv /\ NextPage => PagingInv'
<1> SUFFICES ASSUME PagingInv, NextPage PROVE PagingInv'
  OBVIOUS
<1>1. TypeOK /\ SearchStays /\ NextIsWithinDocs
  BY DEF PagingInv
<1>2. /\ pc = "shown" /\ pc' = "page" /\ offset' = CurrentPage(offset) + 1
      /\ docs' = docs /\ others' = others /\ data' = data /\ seen' = seen
      /\ answer' = answer /\ atStart' = atStart /\ came' = came /\ gone' = gone
      /\ twice' = twice
  BY DEF NextPage, changes
<1>3. Matches' = Matches /\ Total' = Total
  BY <1>2 DEF Matches, Total
<1>4. Total \in Nat /\ offset \in Nat
  BY <1>1, CountOfMatches DEF TypeOK
<1>5. Limit \in Nat \ {0} /\ offset' \in Nat
  BY <1>2, <1>4, NextFollows
<1>6. TypeOK'
  <2>1. IsFiniteSet(Docs) /\ Cardinality(Docs) \in Nat
    BY PagingAssumption, FS_CardinalityType
  <2>2. offset' \in 0 .. LastPage(Cardinality(Docs), Limit)
    BY <1>1, <1>2, <1>5, <2>1, LastPageBounds DEF NextIsWithinDocs
  <2> QED
    BY <1>1, <1>2, <2>2 DEF TypeOK
<1>7. SearchStays'
  <2>1. others # {} => PageFound(Total, offset', Limit)
    BY <1>1, <1>2, <1>4, <1>5, NextIsFound DEF SearchStays
  <2> QED
    BY <1>1, <1>2, <1>3, <2>1 DEF SearchStays
<1> QED
  BY <1>2, <1>6, <1>7
  DEF PagingInv, NextIsWithinDocs, PageBoundsTotal, AnswerIsCoherent

\* A bid or an order is stored or deleted.
LEMMA ListChanged == PagingInv /\ (Come \/ Go) => PagingInv'
<1> SUFFICES ASSUME PagingInv, Come \/ Go PROVE PagingInv'
  OBVIOUS
<1>1. TypeOK
  BY DEF PagingInv
<1>2. /\ pc' = pc /\ offset' = offset /\ data' = data /\ seen' = seen
      /\ others' = others /\ answer' = answer /\ atStart' = atStart
      /\ twice' = twice
  BY DEF Come, Go
<1>3. /\ Come => came' = [walk |-> TRUE, page |-> TRUE] /\ gone' = gone
      /\ Go => gone' = [walk |-> TRUE, page |-> TRUE] /\ came' = came
  BY DEF Come, Go
<1>4. /\ came' \in Changed /\ gone' \in Changed
      /\ came.page => came'.page
      /\ gone.page => gone'.page
  <2> DEFINE now == [walk |-> TRUE, page |-> TRUE]
  <2>1. now \in Changed /\ now.page
    BY DEF Changed
  <2>2. came \in Changed /\ gone \in Changed
    BY <1>1 DEF TypeOK
  <2> HIDE DEF now
  <2>3. CASE Come
    BY <2>1, <2>2, <2>3, <1>3 DEF now
  <2>4. CASE Go
    BY <2>1, <2>2, <2>4, <1>3 DEF now
  <2> QED
    BY <2>3, <2>4
<1>5. docs' \subseteq Docs /\ others = {}
  BY <1>1, ListChanges DEF TypeOK
<1>6. TypeOK'
  BY <1>1, <1>2, <1>4, <1>5 DEF TypeOK
<1>7. PageBoundsTotal'
  <2>1. offset \in Nat
    BY <1>1 DEF TypeOK
  <2>2. Here \in Nat /\ Limit \in Nat /\ Here' = Here
    BY <1>2, <2>1, NextFollows DEF Here
  <2>3. CASE Come
    <3>1. Total \in Nat /\ Total' \in Nat /\ Total <= Total'
      BY <1>1, <2>3, ListChanges
    <3>2. came'.page /\ gone'.page = gone.page
      BY <1>3, <2>3
    <3> QED
      BY <1>2, <2>2, <3>1, <3>2 DEF PagingInv, PageBoundsTotal
  <2>4. CASE Go
    <3>1. Total \in Nat /\ Total' \in Nat /\ Total' <= Total
      BY <1>1, <2>4, ListChanges
    <3>2. gone'.page /\ came'.page = came.page
      BY <1>3, <2>4
    <3> QED
      BY <1>2, <2>2, <3>1, <3>2 DEF PagingInv, PageBoundsTotal
  <2> QED
    BY <2>3, <2>4
<1>8. AnswerIsCoherent'
  BY <1>2, <1>4 DEF PagingInv, AnswerIsCoherent
<1> QED
  BY <1>2, <1>5, <1>6, <1>7, <1>8 DEF PagingInv, NextIsWithinDocs, SearchStays

LEMMA PagingInvariant == Spec => []PagingInv
<1>1. Init => PagingInv
  BY FirstRead
<1>2. PagingInv /\ [Next]_vars => PagingInv'
  <2> SUFFICES ASSUME PagingInv, [Next]_vars PROVE PagingInv'
    OBVIOUS
  <2>1. CASE FindPage
    BY <2>1, PageRead
  <2>2. CASE CountDocuments
    BY <2>2, DocumentsCounted
  <2>3. CASE NextPage
    BY <2>3, PageTurned
  <2>4. CASE Come \/ Go
    BY <2>4, ListChanged
  <2>5. CASE UNCHANGED vars
    BY <2>5 DEF vars, changes, PagingInv, TypeOK, NextIsWithinDocs, SearchStays,
                PageBoundsTotal, AnswerIsCoherent, Total, Here, Matches
  <2> QED
    BY <2>1, <2>2, <2>3, <2>4, <2>5 DEF Next
<1> QED
  BY <1>1, <1>2, PTL DEF Spec

\* Whatever comes or goes, no page number runs past the pages there can be
\* (pagination.dto.ts, page-state.dto.ts isNextPageValid).
THEOREM TypeCorrect == Spec => []TypeOK
<1>1. PagingInv => TypeOK
  BY DEF PagingInv
<1> QED
  BY <1>1, PagingInvariant, PTL

\* A search never shows items found by artist among items found by name,
\* however many pages either has (items.service.ts find()).
THEOREM SearchIsOne == Spec => []OneSearch
<1>1. PagingInv => OneSearch
  BY DEF PagingInv, SearchStays, OneSearch
<1> QED
  BY <1>1, PagingInvariant, PTL

\* Page and total, read one after the other, contradict each other only if a
\* document came or went in between (bids.service.ts, orders.service.ts find()).
THEOREM AnswersAreCoherent == Spec => []AnswerIsCoherent
<1>1. PagingInv => AnswerIsCoherent
  BY DEF PagingInv
<1> QED
  BY <1>1, PagingInvariant, PTL

(***************************************************************************)
(* With one order: what was shown is a prefix of the list.                 *)
(***************************************************************************)

LeafInv == ShownAreBefore /\ OthersAreBehind

\* A place in the list and the list before and after a change.
LEMMA PlacesMove ==
    ASSUME TypeOK, NEW d
    PROVE  /\ Place(d) \in Nat
           /\ Come => Place(d)' \in Nat /\ Place(d) <= Place(d)'
           /\ Go => Place(d)' \in Nat /\ Place(d)' <= Place(d)
<1>1. IsFiniteSet(Docs) /\ IsFiniteSet(Matches)
  BY PagingAssumption, CountOfMatches DEF TypeOK
<1>2. Place(d) \in Nat
  BY <1>1, PlacesShift DEF Place
<1>3. ASSUME Come PROVE Place(d)' \in Nat /\ Place(d) <= Place(d)'
  <2>1. Matches \in SUBSET Matches' /\ Matches' \subseteq Docs
    BY <1>3, ListChanges
  <2>2. IsFiniteSet(Matches')
    BY <1>1, <2>1, FS_Subset
  <2> QED
    BY <2>1, <2>2, PlacesShift DEF Place
<1>4. ASSUME Go PROVE Place(d)' \in Nat /\ Place(d)' <= Place(d)
  <2>1. Matches' \in SUBSET Matches
    BY <1>4, ListChanges
  <2> QED
    BY <1>1, <2>1, PlacesShift DEF Place
<1> QED
  BY <1>2, <1>3, <1>4

\* A page holds the documents from its first place to its last.
LEMMA PageIsPlaces ==
    ASSUME PagingInv, OneOrder, FindPage
    PROVE  data' = {d \in Matches : Here <= Place(d) /\ Place(d) < Here + Limit}
<1>1. TypeOK /\ SearchStays /\ pc = "page"
  BY DEF PagingInv, FindPage
<1>2. PICK rank \in Orders : data' = FirstPage(docs, others, rank, offset, Limit)
  BY DEF FindPage
<1>3. rank = Rank
  BY <1>2 DEF OneOrder, Rank
<1>4. data' = PageOf(Matches, Rank, offset, Limit)
  BY <1>1, <1>2, <1>3, PageOfMatches DEF SearchStays
<1> QED
  BY <1>4 DEF PageOf, Place, Here

LEMMA FirstReadLeaf == Init => LeafInv
<1> SUFFICES ASSUME Init PROVE LeafInv
  OBVIOUS
<1>1. TypeOK
  BY FirstRead DEF PagingInv
<1>2. /\ pc = "page" /\ seen = {} /\ twice = FALSE /\ atStart = Matches
      /\ offset \in {0, 1}
  BY DEF Init
<1>3. Here = 0
  BY <1>2, PagingAssumption DEF Here, Skip
<1>4. \A d : Place(d) \in Nat
  BY <1>1, PlacesMove
<1> QED
  BY <1>2, <1>3, <1>4 DEF LeafInv, ShownAreBefore, OthersAreBehind, ShownUpTo

LEMMA PageReadLeaf == PagingInv /\ LeafInv /\ OneOrder /\ FindPage => LeafInv'
<1> SUFFICES ASSUME PagingInv, LeafInv, OneOrder, FindPage PROVE LeafInv'
  OBVIOUS
<1>1. data' = {d \in Matches : Here <= Place(d) /\ Place(d) < Here + Limit}
  BY PageIsPlaces
<1>2. /\ pc = "page" /\ pc' = "count"
      /\ came' = [came EXCEPT !.page = FALSE]
      /\ gone' = [gone EXCEPT !.page = FALSE]
      /\ docs' = docs /\ others' = others /\ offset' = offset /\ seen' = seen
      /\ atStart' = atStart /\ twice' = twice
  BY DEF FindPage
<1>3. Matches' = Matches /\ Here' = Here /\ ShownUpTo' = Here /\ ShownUpTo = Here
      /\ \A d : Place(d)' = Place(d)
  BY <1>2 DEF Matches, Here, ShownUpTo, Place
<1>4. TypeOK /\ came'.walk = came.walk /\ gone'.walk = gone.walk
  BY <1>2 DEF PagingInv, TypeOK, Changed
<1>5. \A d : Place(d) \in Nat
  BY <1>4, PlacesMove
<1>6. Here \in Nat /\ Limit \in Nat \ {0}
  BY <1>4, NextFollows DEF TypeOK
<1>7. ShownAreBefore'
  <2> SUFFICES ASSUME ~ came.walk
               PROVE  /\ ~ twice
                      /\ \A d \in seen \cap Matches : Place(d) < Here
                      /\ data' \cap seen = {}
                      /\ \A d \in data' \cap Matches : Place(d) < Here + Limit
    BY <1>2, <1>3, <1>4 DEF ShownAreBefore
  <2>1. ~ twice /\ \A d \in seen \cap Matches : Place(d) < Here
    BY <1>3 DEF LeafInv, ShownAreBefore
  <2> QED
    BY <1>1, <1>5, <1>6, <2>1
<1>8. OthersAreBehind'
  <2> SUFFICES ASSUME ~ gone.walk
               PROVE  /\ atStart \subseteq Matches
                      /\ \A d \in atStart \ seen : Here <= Place(d)
                      /\ \A d \in atStart \ (seen \cup data') : Here + Limit <= Place(d)
    BY <1>2, <1>3, <1>4 DEF OthersAreBehind
  <2>1. atStart \subseteq Matches /\ \A d \in atStart \ seen : Here <= Place(d)
    BY <1>2, <1>3 DEF LeafInv, OthersAreBehind
  <2> QED
    BY <1>1, <1>5, <1>6, <2>1
<1> QED
  BY <1>7, <1>8 DEF LeafInv

LEMMA DocumentsCountedLeaf == PagingInv /\ LeafInv /\ CountDocuments => LeafInv'
<1> SUFFICES ASSUME PagingInv, LeafInv, CountDocuments PROVE LeafInv'
  OBVIOUS
<1>1. TypeOK
  BY DEF PagingInv
<1> DEFINE found == PageFound(Total, offset, Limit)
           next == IsNextPageValid(Total, offset, Limit)
<1>2. /\ pc = "count" /\ pc' = IF ~ found \/ ~ next THEN "done" ELSE "shown"
      /\ seen' = IF found THEN seen \cup data ELSE seen
      /\ twice' = (twice \/ (found /\ seen \cap data # {}))
      /\ docs' = docs /\ others' = others /\ offset' = offset
      /\ atStart' = atStart /\ came' = came /\ gone' = gone
  BY <1>1, CountOfMatches DEF CountDocuments, TypeOK, changes
<1>3. /\ Matches' = Matches /\ Here' = Here /\ ShownUpTo' = Here + Limit
      /\ ShownUpTo = Here /\ \A d : Place(d)' = Place(d)
  BY <1>2 DEF Matches, Here, ShownUpTo, Place
<1>4. Total \in Nat /\ offset \in Nat /\ IsFiniteSet(Matches)
  BY <1>1, CountOfMatches DEF TypeOK
<1>5. Limit \in Nat \ {0} /\ Here \in Nat
  BY <1>4, NextFollows
<1>6. (found <=> Here < Total) /\ (next <=> Here + Limit < Total)
  BY <1>1, CountSays
<1>7. (\A d : Place(d) \in Nat) /\ \A d \in Matches : Place(d) < Total
  <2>1. \A d \in Matches : Rank[d] \in Nat
    BY <1>1, CountOfMatches, PagingAssumption DEF TypeOK, Rank
  <2> QED
    BY <1>1, <1>4, <2>1, PlacesMove, PlaceInList DEF Place, Total
<1> HIDE DEF found, next
<1>8. ShownAreBefore'
  <2> SUFFICES ASSUME ~ came.walk
               PROVE  /\ ~ twice'
                      /\ \A d \in seen' \cap Matches : Place(d) < Here + Limit
    BY <1>2, <1>3 DEF ShownAreBefore
  <2>1. /\ ~ twice /\ data \cap seen = {}
        /\ \A d \in seen \cap Matches : Place(d) < Here
        /\ \A d \in data \cap Matches : Place(d) < Here + Limit
    BY <1>2, <1>3 DEF LeafInv, ShownAreBefore
  <2>2. \A d \in (seen \cup data) \cap Matches : Place(d) < Here + Limit
    BY <1>5, <1>7, <2>1
  <2> QED
    BY <1>2, <2>1, <2>2
<1>9. OthersAreBehind'
  <2> SUFFICES ASSUME ~ gone.walk
               PROVE  /\ atStart \subseteq Matches
                      /\ pc' # "done" =>
                            \A d \in atStart \ seen' : Here + Limit <= Place(d)
                      /\ pc' = "done" => atStart \subseteq seen'
    BY <1>2, <1>3 DEF OthersAreBehind
  <2>1. /\ atStart \subseteq Matches
        /\ \A d \in atStart \ seen : Here <= Place(d)
        /\ \A d \in atStart \ (seen \cup data) : Here + Limit <= Place(d)
    BY <1>2, <1>3 DEF LeafInv, OthersAreBehind
  <2>2. CASE ~ found
    BY <1>2, <1>4, <1>5, <1>6, <1>7, <2>1, <2>2
  <2>3. CASE found
    BY <1>2, <1>4, <1>5, <1>6, <1>7, <2>1, <2>3
  <2> QED
    BY <2>2, <2>3
<1> QED
  BY <1>8, <1>9 DEF LeafInv

LEMMA PageTurnedLeaf == PagingInv /\ LeafInv /\ NextPage => LeafInv'
<1> SUFFICES ASSUME PagingInv, LeafInv, NextPage PROVE LeafInv'
  OBVIOUS
<1>1. /\ pc = "shown" /\ pc' = "page" /\ offset' = CurrentPage(offset) + 1
      /\ docs' = docs /\ others' = others /\ seen' = seen
      /\ atStart' = atStart /\ came' = came /\ gone' = gone /\ twice' = twice
  BY DEF NextPage, changes
<1>2. offset \in Nat
  BY DEF PagingInv, TypeOK
<1>3. Here' = Here + Limit
  BY <1>1, <1>2, NextFollows DEF Here
<1>4. /\ Matches' = Matches /\ ShownUpTo' = ShownUpTo
      /\ \A d : Place(d)' = Place(d)
  BY <1>1, <1>3 DEF Matches, ShownUpTo, Place
<1> QED
  BY <1>1, <1>4 DEF LeafInv, ShownAreBefore, OthersAreBehind

LEMMA ListChangedLeaf == PagingInv /\ LeafInv /\ (Come \/ Go) => LeafInv'
<1> SUFFICES ASSUME PagingInv, LeafInv, Come \/ Go PROVE LeafInv'
  OBVIOUS
<1>1. TypeOK
  BY DEF PagingInv
<1>2. /\ pc' = pc /\ pc # "done" /\ offset' = offset /\ data' = data
      /\ seen' = seen /\ atStart' = atStart /\ twice' = twice
  BY DEF Come, Go
<1>3. Here' = Here /\ ShownUpTo' = ShownUpTo
  BY <1>2 DEF Here, ShownUpTo
<1>4. ShownUpTo \in Nat /\ Here \in Nat /\ Here + Limit \in Nat
  BY <1>1, NextFollows DEF TypeOK, ShownUpTo
<1>5. CASE Come
  <2>1. came'.walk /\ gone' = gone
    BY <1>5 DEF Come
  <2>2. Matches \subseteq Matches'
    BY <1>1, <1>5, ListChanges
  <2>3. \A d : /\ Place(d) \in Nat /\ Place(d)' \in Nat
               /\ Place(d) <= Place(d)'
    BY <1>1, <1>5, PlacesMove
  <2>4. ShownAreBefore'
    BY <2>1 DEF ShownAreBefore
  <2>5. OthersAreBehind'
    <3> SUFFICES ASSUME ~ gone.walk
                 PROVE  /\ atStart \subseteq Matches'
                        /\ \A d \in atStart \ seen : ShownUpTo <= Place(d)'
                        /\ pc = "count" =>
                              \A d \in atStart \ (seen \cup data) : Here + Limit <= Place(d)'
      BY <1>2, <1>3, <2>1 DEF OthersAreBehind
    <3>1. /\ atStart \subseteq Matches
          /\ \A d \in atStart \ seen : ShownUpTo <= Place(d)
          /\ pc = "count" =>
                \A d \in atStart \ (seen \cup data) : Here + Limit <= Place(d)
      BY <1>2 DEF LeafInv, OthersAreBehind
    <3> QED
      BY <1>4, <2>2, <2>3, <3>1
  <2> QED
    BY <2>4, <2>5 DEF LeafInv
<1>6. CASE Go
  <2>1. gone'.walk /\ came' = came
    BY <1>6 DEF Go
  <2>2. Matches' \subseteq Matches
    BY <1>1, <1>6, ListChanges
  <2>3. \A d : /\ Place(d) \in Nat /\ Place(d)' \in Nat
               /\ Place(d)' <= Place(d)
    BY <1>1, <1>6, PlacesMove
  <2>4. OthersAreBehind'
    BY <2>1 DEF OthersAreBehind
  <2>5. ShownAreBefore'
    <3> SUFFICES ASSUME ~ came.walk
                 PROVE  /\ ~ twice
                        /\ \A d \in seen \cap Matches' : Place(d)' < ShownUpTo
                        /\ pc = "count" =>
                              /\ data \cap seen = {}
                              /\ \A d \in data \cap Matches' : Place(d)' < Here + Limit
      BY <1>2, <1>3, <2>1 DEF ShownAreBefore
    <3>1. /\ ~ twice /\ \A d \in seen \cap Matches : Place(d) < ShownUpTo
          /\ pc = "count" =>
                /\ data \cap seen = {}
                /\ \A d \in data \cap Matches : Place(d) < Here + Limit
      BY DEF LeafInv, ShownAreBefore
    <3> QED
      BY <1>4, <2>2, <2>3, <3>1
  <2> QED
    BY <2>4, <2>5 DEF LeafInv
<1> QED
  BY <1>5, <1>6

LEMMA LeafInvariant == OneOrder /\ Spec => []LeafInv
<1> DEFINE Inv == PagingInv /\ LeafInv /\ OneOrder
<1>1. OneOrder /\ Init => Inv
  BY FirstRead, FirstReadLeaf
<1>2. Inv /\ [Next]_vars => Inv'
  <2> SUFFICES ASSUME PagingInv, LeafInv, OneOrder, [Next]_vars
               PROVE  PagingInv' /\ LeafInv' /\ OneOrder'
    OBVIOUS
  <2>1. OneOrder'
    BY DEF OneOrder
  <2>2. CASE FindPage
    BY <2>1, <2>2, PageRead, PageReadLeaf
  <2>3. CASE CountDocuments
    BY <2>1, <2>3, DocumentsCounted, DocumentsCountedLeaf
  <2>4. CASE NextPage
    BY <2>1, <2>4, PageTurned, PageTurnedLeaf
  <2>5. CASE Come \/ Go
    BY <2>1, <2>5, ListChanged, ListChangedLeaf
  <2>6. CASE UNCHANGED vars
    <3>1. PagingInv'
      BY <2>6 DEF vars, changes, PagingInv, TypeOK, NextIsWithinDocs, SearchStays,
                  PageBoundsTotal, AnswerIsCoherent, Total, Here, Matches
    <3>2. LeafInv'
      BY <2>6 DEF vars, changes, LeafInv, ShownAreBefore, OthersAreBehind,
                  ShownUpTo, Place, Here, Matches
    <3> QED
      BY <2>1, <3>1, <3>2
  <2> QED
    BY <2>2, <2>3, <2>4, <2>5, <2>6 DEF Next
<1>3. Inv => LeafInv
  OBVIOUS
<1> QED
  BY <1>1, <1>2, <1>3, PTL DEF Spec

\* With a database that breaks ties in one way, documents that come hide none
\* that were there when the user began (bids.service.ts find() skip, limit).
THEOREM AllAreShown == OneOrder /\ Spec => []NoneSkipped
<1>1. LeafInv => NoneSkipped
  BY DEF LeafInv, OthersAreBehind, NoneSkipped
<1> QED
  BY <1>1, LeafInvariant, PTL

\* With such a database documents that go show none twice
\* (bids.service.ts find() skip, limit).
THEOREM NoneIsShownTwice == OneOrder /\ Spec => []NoneTwice
<1>1. LeafInv => NoneTwice
  BY DEF LeafInv, ShownAreBefore, NoneTwice
<1> QED
  BY <1>1, LeafInvariant, PTL

(***************************************************************************)
(* The page's total: as many documents are shown as there are.             *)
(***************************************************************************)

\* While none goes those shown are still in the list.
ShownAreThere ==
    ~ gone.walk => /\ seen \subseteq Matches
                   /\ pc = "count" => data \subseteq Matches

\* While none comes all were in the list from the start.
NoneIsNew == ~ came.walk => Matches \subseteq atStart

StaysInv == ShownAreThere /\ NoneIsNew

LEMMA StaysStep == PagingInv /\ StaysInv /\ [Next]_vars => StaysInv'
<1> SUFFICES ASSUME PagingInv, StaysInv, [Next]_vars PROVE StaysInv'
  OBVIOUS
<1>1. TypeOK /\ SearchStays
  BY DEF PagingInv
<1>2. CASE FindPage
  <2>1. PICK rank \in Orders : data' = FirstPage(docs, others, rank, offset, Limit)
    BY <1>2 DEF FindPage
  <2>2. data' = PageOf(Matches, rank, offset, Limit)
    BY <1>1, <1>2, <2>1, PageOfMatches DEF FindPage, SearchStays
  <2>3. data' \subseteq Matches
    BY <2>2 DEF PageOf
  <2>4. /\ docs' = docs /\ others' = others /\ seen' = seen /\ atStart' = atStart
        /\ came' = [came EXCEPT !.page = FALSE]
        /\ gone' = [gone EXCEPT !.page = FALSE]
    BY <1>2 DEF FindPage
  <2>5. came'.walk = came.walk /\ gone'.walk = gone.walk /\ Matches' = Matches
    BY <1>1, <2>4 DEF TypeOK, Changed, Matches
  <2> QED
    BY <2>3, <2>4, <2>5 DEF StaysInv, ShownAreThere, NoneIsNew
<1>3. CASE CountDocuments
  <2>1. /\ pc = "count" /\ pc' # "count" /\ seen' \subseteq seen \cup data
        /\ docs' = docs /\ others' = others /\ atStart' = atStart
        /\ came' = came /\ gone' = gone
    BY <1>3 DEF CountDocuments, changes
  <2> QED
    BY <2>1 DEF StaysInv, ShownAreThere, NoneIsNew, Matches
<1>4. CASE NextPage
  BY <1>4 DEF NextPage, changes, StaysInv, ShownAreThere, NoneIsNew, Matches
<1>5. CASE Come
  <2>1. /\ came'.walk /\ gone' = gone /\ seen' = seen /\ data' = data /\ pc' = pc
    BY <1>5 DEF Come
  <2>2. Matches \subseteq Matches'
    BY <1>1, <1>5, ListChanges
  <2> QED
    BY <2>1, <2>2 DEF StaysInv, ShownAreThere, NoneIsNew
<1>6. CASE Go
  <2>1. gone'.walk /\ came' = came /\ atStart' = atStart
    BY <1>6 DEF Go
  <2>2. Matches' \subseteq Matches
    BY <1>1, <1>6, ListChanges
  <2> QED
    BY <2>1, <2>2 DEF StaysInv, ShownAreThere, NoneIsNew
<1>7. CASE UNCHANGED vars
  BY <1>7 DEF vars, changes, StaysInv, ShownAreThere, NoneIsNew, Matches
<1> QED
  BY <1>2, <1>3, <1>4, <1>5, <1>6, <1>7 DEF Next

\* With a database that breaks ties in one way, whoever leafs through a list
\* that does not change sees as many documents as the page says there are
\* (public/bids.html fetchBids(), bids.service.ts find()).
THEOREM TotalIsShown == OneOrder /\ Spec => []ShownAreTotal
<1>1. Init => StaysInv
  BY DEF Init, StaysInv, ShownAreThere, NoneIsNew
<1>2. StaysInv /\ LeafInv => ShownAreTotal
  <2> SUFFICES ASSUME StaysInv, LeafInv, pc = "done", ~ came.walk, ~ gone.walk
               PROVE  Cardinality(seen) = Cardinality(Matches)
    BY DEF ShownAreTotal
  <2>1. seen \subseteq Matches /\ Matches \subseteq atStart
    BY DEF StaysInv, ShownAreThere, NoneIsNew
  <2>2. atStart \subseteq seen
    BY DEF LeafInv, OthersAreBehind
  <2>3. seen = Matches
    BY <2>1, <2>2
  <2> QED
    BY <2>3
<1> QED
  BY <1>1, <1>2, StaysStep, PagingInvariant, LeafInvariant, PTL DEF Spec

=============================================================================
