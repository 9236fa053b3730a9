---- MODULE PoolDeque ----
(***************************************************************************)
(* What the queue of a sync.Pool promises: items are pushed at the head,   *)
(* and every pop takes the newest item (at the head) or the oldest (at the *)
(* tail), in one step, and returns this very item.                         *)
(***************************************************************************)
EXTENDS Integers, Sequences

CONSTANTS T, Item, NoItem

VARIABLES line,    \* the items of the pool, oldest first
          has      \* the item each thread holds: about to be pushed, or popped

vars == <<line, has>>

Init == line = <<>> /\ has = [t \in T |-> NoItem]

\* A thread comes by an item that is nowhere else, or disposes of one.
Obtain(t, x) ==
    /\ has[t] = NoItem /\ \A u \in T : has[u] # x
    /\ \A i \in 1..Len(line) : line[i] # x
    /\ has' = [has EXCEPT ![t] = x]
    /\ UNCHANGED line
Dispose(t) == has[t] # NoItem /\ has' = [has EXCEPT ![t] = NoItem] /\ UNCHANGED line

PushHead(t) ==
    /\ has[t] # NoItem
    /\ line' = Append(line, has[t])
    /\ has' = [has EXCEPT ![t] = NoItem]

PopHead(t) ==
    /\ has[t] = NoItem /\ line # <<>>
    /\ line' = SubSeq(line, 1, Len(line) - 1)
    /\ has' = [has EXCEPT ![t] = line[Len(line)]]

PopTail(t) ==
    /\ has[t] = NoItem /\ line # <<>>
    /\ line' = Tail(line)
    /\ has' = [has EXCEPT ![t] = Head(line)]

Next ==
    \E t \in T : \/ \E x \in Item : Obtain(t, x)
                 \/ Dispose(t) \/ PushHead(t) \/ PopHead(t) \/ PopTail(t)

Spec == Init /\ [][Next]_vars
====
