---- MODULE Subsequences ----
(***************************************************************************)
(* The elements of a sequence at some of its positions, in their order:    *)
(* what a waitq or a line of values is when sudogs in its middle are       *)
(* passed over or removed.  (SelectSeq with the positions as a set.)       *)
(***************************************************************************)
EXTENDS Integers, Sequences, FiniteSets

\* The n-th smallest element of a finite set of integers.
Nth(S, n) == CHOOSE i \in S : Cardinality({j \in S : j <= i}) = n

At(s, S) == [n \in 1..Cardinality(S) |-> s[Nth(S, n)]]
====
