---- MODULE FifoChannel ----
(***************************************************************************)
(* What a Go channel promises: values are received in the order in which   *)
(* they were sent, each once, and a closed channel delivers what it has    *)
(* buffered and then zero values.                                          *)
(*                                                                         *)
(* line holds the values on their way: up to cap of them are in the        *)
(* channel, the others are offered by blocked senders.  got is what each   *)
(* goroutine's receive in progress has obtained.                           *)
(***************************************************************************)
EXTENDS Subsequences

CONSTANTS G, Val,
          Zero,     \* the zero value, received from a closed channel
          NoVal     \* nothing received yet

VARIABLES cap, line, closed, got

vars == <<cap, line, closed, got>>

Init ==
    /\ line = <<>>
    /\ closed = FALSE
    /\ got = [g \in G |-> NoVal]

Obtain(g, v) == got[g] = NoVal /\ got' = [got EXCEPT ![g] = v]

\* A value joins the line, or meets a receiver that found the line empty (but
\* for the receiver's own offer, if it would also send).
Send(v) ==
    /\ ~closed
    /\ line' = Append(line, v)
    /\ UNCHANGED <<closed, got>>

Meet(g, v) ==
    /\ ~closed /\ (line = <<>> \/ (cap = 0 /\ Len(line) = 1))
    /\ Obtain(g, v)
    /\ line' = <<>>
    /\ UNCHANGED closed

Receive(g) ==
    /\ line # <<>>
    /\ Obtain(g, Head(line))
    /\ line' = Tail(line)
    /\ UNCHANGED closed

ReceiveZero(g) ==
    /\ closed /\ line = <<>>
    /\ Obtain(g, Zero)
    /\ UNCHANGED <<line, closed>>

\* Selects with another case to go on with take their offers back.
Withdraw ==
    /\ \E gone \in SUBSET (cap + 1..Len(line)) :
          line' = At(line, DOMAIN line \ gone)
    /\ UNCHANGED <<closed, got>>

\* Blocked senders panic; what is in the channel stays.
Close ==
    /\ ~closed /\ closed' = TRUE
    /\ line' = SubSeq(line, 1, IF Len(line) < cap THEN Len(line) ELSE cap)
    /\ UNCHANGED got

\* The receive has returned.
Forget(g) == got' = [got EXCEPT ![g] = NoVal] /\ UNCHANGED <<line, closed>>

Next ==
    /\ UNCHANGED cap
    /\ \/ \E v \in Val : Send(v) \/ \E g \in G : Meet(g, v)
       \/ \E g \in G : Receive(g) \/ ReceiveZero(g) \/ Forget(g)
       \/ Withdraw \/ Close

Spec == Init /\ [][Next]_vars
====
