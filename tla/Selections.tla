------------------------------ MODULE Selections ------------------------------
(***************************************************************************)
(* The loops of the code that keep some entries of a slice, in their       *)
(* order: SelectSeq of module Sequences, stated by the indices that are    *)
(* kept, and without recursion.                                            *)
(***************************************************************************)
EXTENDS Integers, FiniteSets

\* The n-th smallest of a set of numbers.
Nth(I, n) == CHOOSE i \in I : Cardinality({j \in I : j <= i}) = n

\* The entries of seq whose index is in I.
SelectAt(seq, I) == [n \in 1..Cardinality(I) |-> seq[Nth(I, n)]]
=============================================================================
