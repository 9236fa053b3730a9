---- MODULE MCChan ----
(***************************************************************************)
(* Instances of Chan for TLC.  Goroutines and values are interchangeable.  *)
(* The programs: one channel of size 0, 1 or 2 with every call but select; *)
(* selects on one channel, of both directions or with two cases alike;     *)
(* selects on two channels.                                                *)
(***************************************************************************)
EXTENDS Chan

Symmetry == Permutations(G) \cup Permutations(Val)

Plain(o, c) ==
    [op |-> o, cases |-> {<<c, Direction[o], 1>>}]
Select(o, s) == [op |-> o, cases |-> s]

OneChannel(n) ==
    [dataqsiz |-> <<n, 0>>,
     calls |-> {Plain(o, 1) : o \in {"send", "recv", "nbsend", "nbrecv", "close"}}]

Both == {<<1, "send", 1>>, <<1, "recv", 1>>, <<1, "recv", 2>>}

BothWays ==
    [dataqsiz |-> <<0, 0>>,
     calls |-> {Plain(o, 1) : o \in {"send", "recv", "close"}}
               \cup {Select("select", Both), Select("selectdefault", {<<1, "send", 1>>, <<1, "recv", 1>>})}]

Alike(d) ==
    [dataqsiz |-> <<1, 0>>,
     calls |-> {Plain(o, 1) : o \in {"send", "recv", "close"}}
               \cup {Select("select", {<<1, d, 1>>, <<1, d, 2>>})}]

TwoChannels ==
    [dataqsiz |-> <<0, 0>>,
     calls |-> {Plain("send", 1), Plain("recv", 2), Plain("close", 2),
                Select("select", {<<1, "send", 1>>, <<2, "recv", 1>>}),
                Select("select", {<<1, "recv", 1>>, <<2, "send", 1>>})}]

Programs == {OneChannel(n) : n \in 0..2} \cup {Alike(d) : d \in {"send", "recv"}}
            \cup {BothWays, TwoChannels}

====
