---- MODULE MCContext ----
(***************************************************************************)
(* Trees for Context: a chain with a deadline in the middle; deadlines     *)
(* that are sooner and later than the parent's; two children; children of  *)
(* a foreign context.  The user's goroutines are interchangeable.          *)
(***************************************************************************)
EXTENDS Context, TLC

CONSTANTS c1, c2, c3

Tree(p1, p2, p3, d1, d2, d3, f) ==
    [parent |-> c1 :> p1 @@ c2 :> p2 @@ c3 :> p3,
     deadline |-> c1 :> d1 @@ c2 :> d2 @@ c3 :> d3, foreign |-> f]

Chain == Tree(Background, c1, c2, None, 1, None, {})
Deadlines == Tree(Background, c1, c1, 1, 2, 0, {})
Siblings == Tree(Background, c1, c1, None, None, 1, {})
Wrapped == Tree(Background, c1, c2, 1, None, None, {c2})
AllTrees == {Chain, Deadlines, Siblings, Wrapped}
====
