------------------------------ MODULE MCPaging ------------------------------
(* Paging over up to five documents, with a database that keeps to one     *)
(* order, and over three bids with one that does not.                      *)
EXTENDS Paging, Functions

MCDocs == 1 .. 5

MCOneOrder == {[d \in Docs |-> d]}

MCFewDocs == 1 .. 3

MCAnyOrder == Bijection(Docs, Docs)

=============================================================================
