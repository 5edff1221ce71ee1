-------------------------- MODULE PaginationProofs --------------------------
(***************************************************************************)
(* What the arithmetic of a page guarantees for every total, page number   *)
(* and page size.                                                          *)
(***************************************************************************)
EXTENDS Pagination, FiniteSetTheorems, TLAPS

\* A page number and the page it stands for start at the same document.
LEMMA SkipOfPage ==
    ASSUME NEW offset \in Nat, NEW limit \in Nat \ {0}
    PROVE  /\ CurrentPage(offset) \in Nat \ {0}
           /\ Skip(offset, limit) = (CurrentPage(offset) - 1) * limit
  BY DEF Skip, CurrentPage

\* Math.ceil() rounds up: the last page holds the last document.
LEMMA LastPageBounds ==
    ASSUME NEW total \in Nat, NEW limit \in Nat \ {0}
    PROVE  /\ LastPage(total, limit) \in Nat
           /\ total <= LastPage(total, limit) * limit
           /\ LastPage(total, limit) * limit < total + limit
<1> DEFINE n == total + limit - 1
           l == n \div limit
<1>1. n \in Nat
  OBVIOUS
<1> HIDE DEF n
<1>2. l \in Nat /\ n = l * limit + (n % limit) /\ (n % limit) \in 0 .. limit - 1
  BY <1>1, Z3
<1>3. l = LastPage(total, limit)
  BY DEF LastPage, n
<1> HIDE DEF l
<1>4. l * limit \in Nat
  BY <1>2
<1>5. l * limit = n - (n % limit)
  BY <1>1, <1>2, <1>4
<1>6. total <= l * limit /\ l * limit < total + limit
  BY <1>1, <1>2, <1>4, <1>5 DEF n
<1> QED
  BY <1>2, <1>3, <1>6

\* Multiplying by the page size keeps the order of page numbers.
LEMMA Monotone ==
    ASSUME NEW a \in Nat, NEW b \in Nat, NEW k \in Nat, a <= b
    PROVE  a * k <= b * k
  BY Z3

\* A page is found if and only if it starts before the last document: no page
\* that is found is empty, and no page that has documents is refused
\* (page-state.dto.ts, bids.service.ts find()).
THEOREM FoundIsNotEmpty ==
    \A total, offset \in Nat, limit \in Nat \ {0} :
        PageFound(total, offset, limit) <=> Skip(offset, limit) < total
<1> SUFFICES ASSUME NEW total \in Nat, NEW offset \in Nat, NEW limit \in Nat \ {0}
             PROVE  PageFound(total, offset, limit) <=> Skip(offset, limit) < total
  OBVIOUS
<1> DEFINE p == CurrentPage(offset)
           l == LastPage(total, limit)
<1>1. p \in Nat \ {0} /\ Skip(offset, limit) = (p - 1) * limit
  BY SkipOfPage
<1>2. l \in Nat /\ total <= l * limit /\ l * limit < total + limit
  BY LastPageBounds
<1>3. PageFound(total, offset, limit) <=> p <= l
  BY <1>1, <1>2 DEF PageFound
<1> HIDE DEF p, l
<1>4. CASE p <= l
  <2>1. (p - 1) * limit <= (l - 1) * limit
    BY <1>1, <1>2, <1>4, Monotone
  <2>2. (l - 1) * limit = l * limit - limit
    BY <1>2
  <2>3. (p - 1) * limit \in Nat /\ l * limit \in Nat
    BY <1>1, <1>2
  <2> QED
    BY <1>1, <1>2, <1>3, <1>4, <2>1, <2>2, <2>3
<1>5. CASE ~ p <= l
  <2>1. l * limit <= (p - 1) * limit
    BY <1>1, <1>2, <1>5, Monotone
  <2>2. (p - 1) * limit \in Nat /\ l * limit \in Nat
    BY <1>1, <1>2
  <2> QED
    BY <1>1, <1>2, <1>3, <1>5, <2>1, <2>2
<1> QED
  BY <1>4, <1>5

\* The next button is offered if and only if the next page is found
\* (page-state.dto.ts isNextPageValid).
THEOREM NextIsFound ==
    \A total, offset \in Nat, limit \in Nat \ {0} :
        IsNextPageValid(total, offset, limit)
            <=> PageFound(total, CurrentPage(offset) + 1, limit)
<1> SUFFICES ASSUME NEW total \in Nat, NEW offset \in Nat, NEW limit \in Nat \ {0}
             PROVE  IsNextPageValid(total, offset, limit)
                        <=> PageFound(total, CurrentPage(offset) + 1, limit)
  OBVIOUS
<1>1. CurrentPage(offset) \in Nat \ {0} /\ LastPage(total, limit) \in Nat
  BY SkipOfPage, LastPageBounds
<1>2. CurrentPage(CurrentPage(offset) + 1) = CurrentPage(offset) + 1
  BY <1>1 DEF CurrentPage
<1> QED
  BY <1>1, <1>2 DEF IsNextPageValid, PageFound

\* Every place in the list is on some page.
LEMMA PlaceHasPage ==
    ASSUME NEW i \in Nat, NEW limit \in Nat \ {0}
    PROVE  \E page \in Nat \ {0} :
              /\ Skip(page, limit) <= i
              /\ i < Skip(page, limit) + limit
<1> DEFINE k == i \div limit
<1>1. k \in Nat /\ i = k * limit + (i % limit) /\ (i % limit) \in 0 .. limit - 1
  BY Z3
<1> HIDE DEF k
<1>2. k + 1 \in Nat \ {0} /\ Skip(k + 1, limit) = k * limit
  BY <1>1 DEF Skip
<1>3. k * limit \in Nat
  BY <1>1
<1>4. k * limit <= i /\ i < k * limit + limit
  BY <1>1, <1>3
<1> QED
  BY <1>2, <1>4

\* The pages before a page end before it starts.
LEMMA PagesInOrder ==
    ASSUME NEW a \in Nat \ {0}, NEW b \in Nat \ {0}, NEW limit \in Nat \ {0}, a < b
    PROVE  Skip(a, limit) + limit <= Skip(b, limit)
<1>1. Skip(a, limit) = (a - 1) * limit /\ Skip(b, limit) = (b - 1) * limit
  BY DEF Skip
<1>2. a * limit <= (b - 1) * limit
  BY Monotone
<1>3. (a - 1) * limit + limit = a * limit
  OBVIOUS
<1> QED
  BY <1>1, <1>2, <1>3

\* The place of a document of a finite list is below the list's length.
LEMMA PlaceInList ==
    ASSUME NEW docs, IsFiniteSet(docs), NEW rank, NEW d \in docs, rank[d] \in Nat
    PROVE  /\ Before(docs, rank, d) \in Nat
           /\ Before(docs, rank, d) < Cardinality(docs)
<1> DEFINE earlier == {e \in docs : rank[e] < rank[d]}
<1>1. earlier \subseteq docs /\ d \notin earlier
  OBVIOUS
<1>2. /\ IsFiniteSet(earlier)
      /\ Cardinality(earlier) \in Nat
      /\ Cardinality(docs) \in Nat
      /\ Cardinality(earlier) < Cardinality(docs)
  BY <1>1, FS_Subset, FS_CardinalityType
<1> QED
  BY <1>2 DEF Before

\* As long as no document comes or goes and the database keeps to one order,
\* every document is on exactly one
\* page, and this page is found: leafing from the first page to the last
\* shows each document once (pagination.dto.ts skip, page-state.dto.ts).
THEOREM EachOnOnePage ==
    ASSUME NEW docs, IsFiniteSet(docs), NEW rank \in [docs -> Nat],
           NEW limit \in Nat \ {0}, NEW d \in docs
    PROVE  \E page \in Nat \ {0} :
              /\ PageFound(Cardinality(docs), page, limit)
              /\ \A q \in Nat \ {0} :
                    d \in PageOf(docs, rank, q, limit) <=> q = page
<1> DEFINE i == Before(docs, rank, d)
<1>1. i \in Nat /\ i < Cardinality(docs) /\ Cardinality(docs) \in Nat
  BY PlaceInList, FS_CardinalityType
<1>2. \A q \in Nat \ {0} :
         /\ Skip(q, limit) \in Nat
         /\ d \in PageOf(docs, rank, q, limit) <=>
               Skip(q, limit) <= i /\ i < Skip(q, limit) + limit
  BY DEF PageOf, Skip
<1> HIDE DEF i
<1>3. PICK page \in Nat \ {0} : Skip(page, limit) <= i /\ i < Skip(page, limit) + limit
  BY <1>1, PlaceHasPage
<1>4. PageFound(Cardinality(docs), page, limit)
  BY <1>1, <1>2, <1>3, FoundIsNotEmpty
<1>5. ASSUME NEW q \in Nat \ {0}, d \in PageOf(docs, rank, q, limit)
      PROVE  q = page
  <2>1. Skip(q, limit) <= i /\ i < Skip(q, limit) + limit
    BY <1>2, <1>5
  <2>2. Skip(q, limit) \in Nat /\ Skip(page, limit) \in Nat
    BY <1>2
  <2>3. ASSUME q < page PROVE FALSE
    <3>1. Skip(q, limit) + limit <= Skip(page, limit)
      BY <2>3, PagesInOrder
    <3> QED
      BY <1>1, <1>3, <2>1, <2>2, <3>1
  <2>4. ASSUME page < q PROVE FALSE
    <3>1. Skip(page, limit) + limit <= Skip(q, limit)
      BY <2>4, PagesInOrder
    <3> QED
      BY <1>1, <1>3, <2>1, <2>2, <3>1
  <2> QED
    BY <2>3, <2>4
<1> QED
  BY <1>2, <1>3, <1>4, <1>5

(***************************************************************************)
(* Lists that change, and pages of them.                                   *)
(***************************************************************************)

\* More documents need no fewer pages.
LEMMA LastPageMonotone ==
    ASSUME NEW a \in Nat, NEW b \in Nat, NEW limit \in Nat \ {0}, a <= b
    PROVE  LastPage(a, limit) <= LastPage(b, limit)
<1> DEFINE k == LastPage(a, limit)
           l == LastPage(b, limit)
<1>1. k \in Nat /\ k * limit < a + limit
  BY LastPageBounds
<1>2. l \in Nat /\ b <= l * limit
  BY LastPageBounds
<1> HIDE DEF k, l
<1>3. ASSUME l < k PROVE FALSE
  <2>1. (l + 1) * limit <= k * limit
    BY <1>1, <1>2, <1>3, Monotone
  <2>2. (l + 1) * limit = l * limit + limit
    BY <1>2
  <2>3. l * limit \in Nat /\ k * limit \in Nat
    BY <1>1, <1>2
  <2> QED
    BY <1>1, <1>2, <2>1, <2>2, <2>3
<1> QED
  BY <1>1, <1>2, <1>3 DEF k, l

\* A document moves to the front when others go, to the back when others come.
LEMMA PlacesShift ==
    ASSUME NEW docs, IsFiniteSet(docs), NEW fewer \in SUBSET docs, NEW rank, NEW d
    PROVE  /\ Before(fewer, rank, d) \in Nat
           /\ Before(docs, rank, d) \in Nat
           /\ Before(fewer, rank, d) <= Before(docs, rank, d)
<1> DEFINE in(s) == {e \in s : rank[e] < rank[d]}
<1>1. in(docs) \subseteq docs /\ in(fewer) \subseteq in(docs)
  OBVIOUS
<1>2. /\ IsFiniteSet(in(docs)) /\ IsFiniteSet(in(fewer))
      /\ Cardinality(in(docs)) \in Nat /\ Cardinality(in(fewer)) \in Nat
      /\ Cardinality(in(fewer)) <= Cardinality(in(docs))
  BY <1>1, FS_Subset, FS_CardinalityType
<1> QED
  BY <1>2 DEF Before

\* An order of the documents without ties.
Strict(rank, docs) ==
    \A d \in docs : /\ rank[d] \in Nat
                    /\ \A e \in docs : rank[d] = rank[e] => d = e

\* In an order without ties no two documents are at the same place, and every
\* place up to the last one is taken.
LEMMA EveryPlaceTaken ==
    ASSUME NEW docs, IsFiniteSet(docs), NEW rank, Strict(rank, docs)
    PROVE  [d \in docs |-> Before(docs, rank, d)]
               \in Bijection(docs, 0 .. Cardinality(docs) - 1)
<1> DEFINE n == Cardinality(docs)
           f == [d \in docs |-> Before(docs, rank, d)]
<1>1. n \in Nat
  BY FS_CardinalityType
<1>2. \A d \in docs : f[d] \in Nat /\ f[d] < n
  BY PlaceInList DEF Strict
<1> HIDE DEF n
<1>3. f \in [docs -> 0 .. n - 1]
  BY <1>1, <1>2
<1>4. ASSUME NEW d \in docs, NEW e \in docs, rank[d] < rank[e]
      PROVE  f[d] < f[e]
  <2> DEFINE before(x) == {c \in docs : rank[c] < rank[x]}
  <2>1. /\ before(d) \subseteq before(e) /\ before(e) \subseteq docs
        /\ d \in before(e) /\ d \notin before(d)
    BY <1>4 DEF Strict
  <2>2. /\ IsFiniteSet(before(e))
        /\ Cardinality(before(d)) \in Nat /\ Cardinality(before(e)) \in Nat
        /\ Cardinality(before(d)) <= Cardinality(before(e))
        /\ Cardinality(before(d)) # Cardinality(before(e))
    BY <2>1, FS_Subset, FS_CardinalityType
  <2> QED
    BY <2>2 DEF Before
<1>5. \A d, e \in docs : f[d] = f[e] => d = e
  <2> SUFFICES ASSUME NEW d \in docs, NEW e \in docs, f[d] = f[e], d # e
               PROVE  FALSE
    OBVIOUS
  <2>1. rank[d] < rank[e] \/ rank[e] < rank[d]
    BY DEF Strict
  <2>2. f[d] \in Nat /\ f[e] \in Nat
    BY <1>2
  <2> HIDE DEF f
  <2> QED
    BY <1>4, <2>1, <2>2
<1>6. f \in Injection(docs, 0 .. n - 1)
  BY <1>3, <1>5 DEF Injection, IsInjective
<1>7. IsFiniteSet(0 .. n - 1) /\ Cardinality(0 .. n - 1) = n
  BY <1>1, FS_Interval
<1>8. f \in Surjection(docs, 0 .. n - 1)
  BY <1>6, <1>7, FS_Injection DEF n
<1> QED
  BY <1>6, <1>8 DEF Bijection, n

\* A page is full if its documents are all there, and is empty if and only if
\* the list ends before it (bids.service.ts find() skip, limit).
LEMMA PageSize ==
    ASSUME NEW docs, IsFiniteSet(docs), NEW rank, Strict(rank, docs),
           NEW offset \in Nat, NEW limit \in Nat \ {0}
    PROVE  /\ PageOf(docs, rank, offset, limit) = {}
                  <=> Cardinality(docs) <= Skip(offset, limit)
           /\ Skip(offset, limit) + limit <= Cardinality(docs) =>
                  Cardinality(PageOf(docs, rank, offset, limit)) = limit
<1> DEFINE n == Cardinality(docs)
           f == [d \in docs |-> Before(docs, rank, d)]
           s == Skip(offset, limit)
           page == PageOf(docs, rank, offset, limit)
<1>1. n \in Nat /\ s \in Nat
  BY FS_CardinalityType DEF Skip
<1>2. /\ f \in [docs -> 0 .. n - 1]
      /\ \A d, e \in docs : f[d] = f[e] => d = e
      /\ \A i \in 0 .. n - 1 : \E d \in docs : f[d] = i
  <2>1. f \in Bijection(docs, 0 .. n - 1)
    BY EveryPlaceTaken
  <2> HIDE DEF f, n
  <2>2. f \in Injection(docs, 0 .. n - 1) /\ f \in Surjection(docs, 0 .. n - 1)
    BY <2>1 DEF Bijection
  <2>3. f \in [docs -> 0 .. n - 1] /\ IsInjective(f)
    BY <2>2 DEF Injection
  <2>4. DOMAIN f = docs
    BY <2>3
  <2>5. \A d, e \in docs : f[d] = f[e] => d = e
    BY <2>3, <2>4 DEF IsInjective
  <2>6. \A i \in 0 .. n - 1 : \E d \in docs : f[d] = i
    BY <2>2 DEF Surjection
  <2> QED
    BY <2>3, <2>5, <2>6
<1>3. page = {d \in docs : s <= f[d] /\ f[d] < s + limit}
  BY DEF PageOf
<1> HIDE DEF n, f, s, page
<1>4. page = {} <=> n <= s
  <2>1. ASSUME s < n PROVE page # {}
    <3>1. s \in 0 .. n - 1
      BY <1>1, <2>1
    <3>2. PICK d \in docs : f[d] = s
      BY <1>2, <3>1
    <3> QED
      BY <1>1, <1>3, <3>2
  <2>2. ASSUME n <= s, NEW d \in page PROVE FALSE
    <3>1. d \in docs /\ s <= f[d] /\ f[d] \in 0 .. n - 1
      BY <1>2, <1>3, <2>2
    <3> QED
      BY <1>1, <2>2, <3>1
  <2> QED
    BY <1>1, <2>1, <2>2
<1>5. ASSUME s + limit <= n PROVE Cardinality(page) = limit
  <2> DEFINE t == s .. s + limit - 1
             g == [d \in page |-> f[d]]
  <2>1. IsFiniteSet(t) /\ Cardinality(t) = limit
    BY <1>1, FS_Interval
  <2>2. page \subseteq docs /\ \A d \in page : f[d] \in t
    BY <1>1, <1>2, <1>3
  <2>3. g \in Injection(page, t)
    BY <1>2, <2>2 DEF Injection, IsInjective
  <2>4. ASSUME NEW i \in t PROVE \E d \in page : g[d] = i
    <3>1. i \in 0 .. n - 1
      BY <1>1, <1>5
    <3>2. PICK d \in docs : f[d] = i
      BY <1>2, <3>1
    <3> QED
      BY <1>1, <1>3, <3>2
  <2>5. g \in Surjection(page, t)
    BY <2>2, <2>4 DEF Surjection
  <2> HIDE DEF t, g
  <2> QED
    BY <2>1, <2>3, <2>5, FS_Injection
<1> QED
  BY <1>4, <1>5 DEF n, s, page

=============================================================================
