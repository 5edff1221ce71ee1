----------------------------- MODULE Pagination -----------------------------
(***************************************************************************)
(* The arithmetic of a page (PaginationDto, PageStateDto) and which        *)
(* documents a paged query returns.                                        *)
(***************************************************************************)
EXTENDS Integers, FiniteSets

\* Mutant of Skip: pages overlap by one document.
SkipOverlapping(offset, limit) ==
    IF offset <= 1 THEN 0 ELSE (offset - 1) * limit - 1

\* Mutant of Skip: offset counts pages from 0.
SkipFromZero(offset, limit) == offset * limit

\* PaginationDto: offset is a page number, and 0 means the first page.
Skip(offset, limit) == IF offset <= 0 THEN 0 ELSE (offset - 1) * limit

CurrentPage(offset) == IF offset <= 0 THEN 1 ELSE offset

\* Mutant of LastPage: one page too many when the last one is full.
LastPageFloor(total, limit) == total \div limit + 1

\* Math.ceil(total / limit)
LastPage(total, limit) == (total + limit - 1) \div limit

\* Mutant of IsNextPageValid: the last page has a next one.
IsNextPageValidLax(total, offset, limit) ==
    CurrentPage(offset) <= LastPage(total, limit)

IsNextPageValid(total, offset, limit) ==
    CurrentPage(offset) < LastPage(total, limit)

\* Otherwise find() throws NotFoundException.
PageFound(total, offset, limit) ==
    ~ LastPage(total, limit) < CurrentPage(offset)

\* The number of documents before d, for a query that answers in the order
\* of their ranks.
Before(docs, rank, d) == Cardinality({e \in docs : rank[e] < rank[d]})

\* .skip(skip).limit(limit).sort(...)
PageOf(docs, rank, offset, limit) ==
    {d \in docs : /\ Skip(offset, limit) <= Before(docs, rank, d)
                  /\ Before(docs, rank, d) < Skip(offset, limit) + limit}

\* ItemsService.find() asks twice, for the items with the name searched and
\* for those by the artist, and answers with the first page that has items,
\* or none ...
FirstPage(named, made, rank, offset, limit) ==
    LET page == PageOf(named, rank, offset, limit)
    IN  IF page # {} THEN page ELSE PageOf(made, rank, offset, limit)

\* Mutant of FirstTotal: the count of the last search that has items.
LastTotal(named, made) ==
    IF made # {} THEN Cardinality(made) ELSE Cardinality(named)

\* ... and with the first count that is not zero, or zero.
FirstTotal(named, made) ==
    IF Cardinality(named) # 0 THEN Cardinality(named) ELSE Cardinality(made)

=============================================================================
