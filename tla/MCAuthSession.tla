--------------------------- MODULE MCAuthSession ---------------------------
(* AuthSession on small instances.                                         *)
EXTENDS AuthSession, TLC

Symmetry == Permutations(Browsers) \cup Permutations(Emails)
            \cup Permutations(RequestIds)

=============================================================================
