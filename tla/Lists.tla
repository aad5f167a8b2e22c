------------------------------- MODULE Lists --------------------------------
(***************************************************************************)
(* The doubly linked lists of radiusd, as sequences.                       *)
(***************************************************************************)
EXTENDS Naturals, FiniteSets, Sequences

\* s without the elements of S, which are unlinked.
Without(s, S) ==
    LET kept == {i \in DOMAIN s : s[i] \notin S}
        Rank(i) == Cardinality({j \in kept : j <= i})
    IN  [k \in 1..Cardinality(kept) |-> s[CHOOSE i \in kept : Rank(i) = k]]
=============================================================================
