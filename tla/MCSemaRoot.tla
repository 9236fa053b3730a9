---- MODULE MCSemaRoot ----
(* Instances of SemaRoot for TLC: goroutines and addresses are model values *)
(* and the goroutines are interchangeable.                                  *)
EXTENDS SemaRoot, TLC

Symmetry == Permutations(G)
====
