------------------------------ MODULE Sublists ------------------------------
(* Parts of lists, by the positions that are kept. *)
EXTENDS Integers, Sequences, FiniteSets

\* The place of i among the members of I, counted from 1.
Place(I, i) == Cardinality({j \in I : j <= i})

\* The member of I at place k.
Member(I, k) == CHOOSE i \in I : Place(I, i) = k

\* The elements of list at the positions of I, in their order.
Sublist(list, I) == [k \in 1..Cardinality(I) |-> list[Member(I, k)]]

\* The list without the first of the positions K, or as it is if there is none.
DropFirst(list, K) == Sublist(list, {k \in DOMAIN list : k \in K => \E j \in K : j < k})
=============================================================================
