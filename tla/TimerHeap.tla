---- MODULE TimerHeap ----
(***************************************************************************)
(* runtime/time.go: the 4-ary heap of a P's timers.  A heap is a sequence  *)
(* of timers, w the times at which they are to run.  The code moves a hole *)
(* where these operators exchange two elements.                            *)
(***************************************************************************)
EXTENDS Integers, Sequences, FiniteSetsExt

Parent(i) == (i - 2) \div 4 + 1
Children(h, i) == (4 * i - 2 .. 4 * i + 1) \cap DOMAIN h
Swap(h, i, j) == [h EXCEPT ![i] = h[j], ![j] = h[i]]

RECURSIVE siftupTimer(_, _, _)
siftupTimer(h, w, i) ==
    IF i = 1 \/ w[h[i]] >= w[h[Parent(i)]] THEN h
    ELSE siftupTimer(Swap(h, i, Parent(i)), w, Parent(i))

\* The first of the children that are to run soonest.
Soonest(h, w, i) ==
    Min({c \in Children(h, i) : \A d \in Children(h, i) : w[h[c]] <= w[h[d]]})

RECURSIVE siftdownTimer(_, _, _)
siftdownTimer(h, w, i) ==
    IF Children(h, i) = {} \/ w[h[Soonest(h, w, i)]] >= w[h[i]] THEN h
    ELSE siftdownTimer(Swap(h, i, Soonest(h, w, i)), w, Soonest(h, w, i))

Added(h, w, t) == siftupTimer(Append(h, t), w, Len(h) + 1)

\* Mutation: the last timer is only sifted down from its new place.
DeletedDown(h, w, i) ==
    LET last == Len(h)
        s == SubSeq([h EXCEPT ![i] = h[last]], 1, last - 1)
    IN  IF i = last THEN s ELSE siftdownTimer(s, w, i)
\* The last timer takes the place of the deleted one.
Deleted(h, w, i) ==
    LET last == Len(h)
        s == SubSeq([h EXCEPT ![i] = h[last]], 1, last - 1)
    IN  IF i = last THEN s ELSE siftdownTimer(siftupTimer(s, w, i), w, i)

\* verifyTimerHeap
IsHeap(h, w) == \A i \in DOMAIN h \ {1} : w[h[Parent(i)]] <= w[h[i]]
====
