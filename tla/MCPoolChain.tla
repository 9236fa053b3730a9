---- MODULE MCPoolChain ----
(***************************************************************************)
(* An instance of PoolChain for TLC: items and consumers are               *)
(* interchangeable.                                                        *)
(***************************************************************************)
EXTENDS PoolChain

Symmetry == Permutations(Item) \cup Permutations(Consumer)
====
