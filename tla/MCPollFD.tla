---- MODULE MCPollFD ----
(***************************************************************************)
(* Programs for PollFD: two writers and a closer; both modes with shared   *)
(* deadlines; blocking mode, with the count of references at its limit;    *)
(* error events; more writers than the count of waiters can hold.  A file  *)
(* opened after the close gets the same descriptor.                        *)
(***************************************************************************)
EXTENDS PollFD, TLC

CONSTANTS g1, g2, g3, g4

Until(which, to) == [which |-> which, to |-> to]
Program(c1, c2, c3, c4, s, opens, n) ==
    [calls |-> g1 :> c1 @@ g2 :> c2 @@ g3 :> c3 @@ g4 :> c4,
     sets |-> s, maxOpen |-> opens, maxSets |-> n]

Writers == Program({"w"}, {"w"}, {"set", "close"}, {}, {Until({"w"}, Past), Until({"w"}, None)}, 1, 2)
Deadlines == Program({}, {}, {"set", "close"}, {},
                     {Until(Modes, 1), Until({"r"}, 1), Until({"w"}, 2), Until({"w"}, None)}, 1, 3)
Reuse == Program({"r"}, {}, {"set", "close"}, {}, {Until({"r"}, 1), Until({"r"}, 2)}, 2, 2)
References == Program({"r"}, {"block"}, {"close"}, {"misc"}, {}, 1, 0)
Errors == Program({"r"}, {}, {"close", "error"}, {}, {}, 2, 0)
Crowd == Program({"w"}, {"w"}, {"w"}, {"w", "misc", "close"}, {}, 1, 0)
AllPrograms == {Writers, Deadlines, Reuse, References, Errors, Crowd}
====
