---- MODULE PoolChain ----
(***************************************************************************)
(* sync/poolqueue.go: a doubly linked chain of lock-free rings.  One       *)
(* producer pushes and pops at the head, consumers pop at the tail.  The   *)
(* two indices of a ring are one word, updated by add or CAS, and wrap     *)
(* around at Wrap; a slot has two words, of which typ tells whether it is  *)
(* in use.  A load of the word and the CAS on it are one step: a CAS that  *)
(* fails goes back to the load.                                            *)
(***************************************************************************)
EXTENDS Integers, SequencesExt

CONSTANTS Producer, Consumer, Item, NoItem,
          Wrap,          \* 1 << dequeueBits
          InitSize, DequeueLimit,
          MaxElts        \* bound on the rings of a chain

ASSUME PoolAssumption ==
    /\ Producer \notin Consumer /\ NoItem \notin Item
    /\ InitSize \in Nat \ {0} /\ InitSize <= DequeueLimit /\ 2 * DequeueLimit <= Wrap
    /\ \A s \in {InitSize, DequeueLimit, Wrap} : \E n \in 0..32 : s = 2^n
    /\ MaxElts \in Nat \ {0}

VARIABLES size,              \* len(d.vals) of each ring, 0 if it is not made
          head, tail,        \* d.headTail
          typ, val,          \* d.vals
          next, prev,        \* links, 0 for nil
          chead, ctail,      \* c.head and c.tail
          pc, d, d2, slot,   \* locals of each thread
          has                \* the item a thread pushes or has popped

rings == <<size, head, tail, typ, val, next, prev>>
vars == <<rings, chead, ctail, pc, d, d2, slot, has>>

Elt == 1..MaxElts
T == Consumer \cup {Producer}

TypeOK ==
    /\ size \in [Elt -> 0..DequeueLimit]
    /\ head \in [Elt -> 0..(Wrap - 1)] /\ tail \in [Elt -> 0..(Wrap - 1)]
    /\ typ \in [Elt -> [0..(DequeueLimit - 1) -> BOOLEAN]]
    /\ val \in [Elt -> [0..(DequeueLimit - 1) -> Item \cup {NoItem}]]
    /\ next \in [Elt -> Elt \cup {0}] /\ prev \in [Elt -> Elt \cup {0}]
    /\ chead \in Elt \cup {0} /\ ctail \in Elt \cup {0}
    /\ pc \in [T -> {"idle", "push", "store", "add", "grow", "popHead", "prev", "take",
                     "next", "popTail", "drop", "unlink", "read", "clear", "release"}]
    /\ \A t \in T : d[t] \in Elt \cup {0} /\ d2[t] \in Elt \cup {0} /\ has[t] \in Item \cup {NoItem}
    \* Never more items than slots, also when an index has wrapped around.
    /\ \A e \in Elt : (head[e] - tail[e]) % Wrap <= size[e]

Init ==
    /\ size = [e \in Elt |-> 0]
    /\ head = [e \in Elt |-> 0] /\ tail = [e \in Elt |-> 0]
    /\ typ = [e \in Elt |-> [i \in 0..(DequeueLimit - 1) |-> FALSE]]
    /\ val = [e \in Elt |-> [i \in 0..(DequeueLimit - 1) |-> NoItem]]
    /\ next = [e \in Elt |-> 0] /\ prev = [e \in Elt |-> 0]
    /\ chead = 0 /\ ctail = 0
    /\ pc = [t \in T |-> "idle"]
    /\ d = [t \in T |-> 0] /\ d2 = [t \in T |-> 0] /\ slot = [t \in T |-> 0]
    /\ has = [t \in T |-> NoItem]

Goto(t, l) == pc' = [pc EXCEPT ![t] = l]
Index(e, i) == i % size[e]
Advance(i) == (i + 1) % Wrap
IsEmpty(e) == head[e] = tail[e]

-----------------------------------------------------------------------------
\* What callers do with items: get hold of one that is nowhere, drop one.
Obtain(t, x) ==
    /\ pc[t] = "idle" /\ has[t] = NoItem
    /\ \A u \in T : has[u] # x
    /\ \A e \in Elt : \A i \in DOMAIN val[e] : val[e][i] # x
    /\ has' = [has EXCEPT ![t] = x]
    /\ UNCHANGED <<rings, chead, ctail, pc, d, d2, slot>>

Dispose(t) ==
    /\ pc[t] = "idle" /\ has[t] # NoItem
    /\ has' = [has EXCEPT ![t] = NoItem]
    /\ UNCHANGED <<rings, chead, ctail, pc, d, d2, slot>>

-----------------------------------------------------------------------------
\* poolChain.pushHead

PushHead(t) ==
    /\ pc[t] = "idle" /\ has[t] # NoItem
    /\ IF chead = 0
       THEN size' = [size EXCEPT ![1] = InitSize] /\ chead' = 1 /\ ctail' = 1
       ELSE UNCHANGED <<size, chead, ctail>>
    /\ d' = [d EXCEPT ![t] = chead']
    /\ Goto(t, "push")
    /\ UNCHANGED <<head, tail, typ, val, next, prev, d2, slot, has>>

IsFull(e) == (tail[e] + size[e]) % Wrap = head[e]

\* Mutation: a slot that a consumer still works on is taken for free.
NeverInUse(e, i) == FALSE
\* slot.typ != nil
InUse(e, i) == typ[e][i]

\* poolDequeue.pushHead, up to the check of the slot.
FindSlot(t) ==
    LET e == d[t]  i == Index(e, head[e])
    IN  /\ pc[t] = "push"
        /\ slot' = [slot EXCEPT ![t] = i]
        /\ Goto(t, IF IsFull(e) \/ InUse(e, i) THEN "grow" ELSE "store")
        /\ UNCHANGED <<rings, chead, ctail, d, d2, has>>

StoreSlot(t) ==
    /\ pc[t] = "store"
    /\ typ' = [typ EXCEPT ![d[t]][slot[t]] = TRUE]
    /\ val' = [val EXCEPT ![d[t]][slot[t]] = has[t]]
    /\ Goto(t, "add")
    /\ UNCHANGED <<size, head, tail, next, prev, chead, ctail, d, d2, slot, has>>

AddHead(t) ==
    /\ pc[t] = "add"
    /\ head' = [head EXCEPT ![d[t]] = Advance(@)]
    /\ has' = [has EXCEPT ![t] = NoItem]
    /\ d' = [d EXCEPT ![t] = 0] /\ slot' = [slot EXCEPT ![t] = 0]
    /\ Goto(t, "idle")
    /\ UNCHANGED <<size, tail, typ, val, next, prev, chead, ctail, d2>>

\* A new ring of twice the size, linked to the chain.
Grow(t) ==
    LET n == d[t] + 1
        newSize == IF 2 * size[d[t]] >= DequeueLimit THEN DequeueLimit ELSE 2 * size[d[t]]
    IN  /\ pc[t] = "grow" /\ n <= MaxElts
        /\ size' = [size EXCEPT ![n] = newSize]
        /\ prev' = [prev EXCEPT ![n] = d[t]]
        /\ next' = [next EXCEPT ![d[t]] = n]
        /\ chead' = n
        /\ d' = [d EXCEPT ![t] = n]
        /\ Goto(t, "push")
        /\ UNCHANGED <<head, tail, typ, val, ctail, d2, slot, has>>

-----------------------------------------------------------------------------
\* poolChain.popHead

PopHead(t) ==
    /\ pc[t] = "idle" /\ has[t] = NoItem /\ chead # 0
    /\ d' = [d EXCEPT ![t] = chead]
    /\ Goto(t, "popHead")
    /\ UNCHANGED <<rings, chead, ctail, d2, slot, has>>

\* poolDequeue.popHead, up to its CAS.
TakeHead(t) ==
    LET e == d[t]  h == (head[e] - 1) % Wrap
    IN  /\ pc[t] = "popHead"
        /\ IF IsEmpty(e) THEN Goto(t, "prev") /\ UNCHANGED <<head, slot>>
           ELSE /\ head' = [head EXCEPT ![e] = h]
                /\ slot' = [slot EXCEPT ![t] = Index(e, h)]
                /\ Goto(t, "take")
        /\ UNCHANGED <<size, tail, typ, val, next, prev, chead, ctail, d, d2, has>>

\* *slot = eface{}
Zeroed(e, i) == [typ EXCEPT ![e][i] = FALSE]

TakeValue(t) ==
    /\ pc[t] = "take"
    /\ has' = [has EXCEPT ![t] = val[d[t]][slot[t]]]
    /\ typ' = Zeroed(d[t], slot[t])
    /\ val' = [val EXCEPT ![d[t]][slot[t]] = NoItem]
    /\ d' = [d EXCEPT ![t] = 0] /\ slot' = [slot EXCEPT ![t] = 0]
    /\ Goto(t, "idle")
    /\ UNCHANGED <<size, head, tail, next, prev, chead, ctail, d2>>

BackUp(t) ==
    /\ pc[t] = "prev"
    /\ d' = [d EXCEPT ![t] = prev[@]]
    /\ Goto(t, IF prev[d[t]] = 0 THEN "idle" ELSE "popHead")
    /\ UNCHANGED <<rings, chead, ctail, d2, slot, has>>

-----------------------------------------------------------------------------
\* poolChain.popTail

PopTail(t) ==
    /\ pc[t] = "idle" /\ has[t] = NoItem /\ ctail # 0
    /\ d' = [d EXCEPT ![t] = ctail]
    /\ Goto(t, "next")
    /\ UNCHANGED <<rings, chead, ctail, d2, slot, has>>

LoadNext(t) ==
    /\ pc[t] = "next"
    /\ d2' = [d2 EXCEPT ![t] = next[d[t]]]
    /\ Goto(t, "popTail")
    /\ UNCHANGED <<rings, chead, ctail, d, slot, has>>

\* poolDequeue.popTail, up to its CAS.
TakeTail(t) ==
    LET e == d[t]
    IN  /\ pc[t] = "popTail"
        /\ IF IsEmpty(e) THEN Goto(t, "drop") /\ UNCHANGED <<tail, slot>>
           ELSE /\ tail' = [tail EXCEPT ![e] = Advance(@)]
                /\ slot' = [slot EXCEPT ![t] = Index(e, tail[e])]
                /\ Goto(t, "read")
        /\ UNCHANGED <<size, head, typ, val, next, prev, chead, ctail, d, d2, has>>

ReadSlot(t) ==
    /\ pc[t] = "read"
    /\ has' = [has EXCEPT ![t] = val[d[t]][slot[t]]]
    /\ Goto(t, "clear")
    /\ UNCHANGED <<rings, chead, ctail, d, d2, slot>>

\* slot.val = nil, then slot.typ = nil, which passes the slot on.
ClearSlot(t) ==
    /\ pc[t] = "clear"
    /\ val' = [val EXCEPT ![d[t]][slot[t]] = NoItem]
    /\ Goto(t, "release")
    /\ UNCHANGED <<size, head, tail, typ, next, prev, chead, ctail, d, d2, slot, has>>

ReleaseSlot(t) ==
    /\ pc[t] = "release"
    /\ typ' = [typ EXCEPT ![d[t]][slot[t]] = FALSE]
    /\ d' = [d EXCEPT ![t] = 0] /\ d2' = [d2 EXCEPT ![t] = 0] /\ slot' = [slot EXCEPT ![t] = 0]
    /\ Goto(t, "idle")
    /\ UNCHANGED <<size, head, tail, val, next, prev, chead, ctail, has>>

\* Mutation: the next ring is loaded after the pop has failed.
NextNow(t) == next[d[t]]
Successor(t) == d2[t]

\* The pop has failed: give up at the end of the chain, or try to drop the ring.
DropRing(t) ==
    LET n == Successor(t)
    IN  /\ pc[t] = "drop"
        /\ ctail' = IF n # 0 /\ ctail = d[t] THEN n ELSE ctail
        /\ Goto(t, IF n = 0 THEN "idle" ELSE IF ctail = d[t] THEN "unlink" ELSE "next")
        /\ d' = [d EXCEPT ![t] = n] /\ d2' = [d2 EXCEPT ![t] = 0]
        /\ UNCHANGED <<rings, chead, slot, has>>

Unlink(t) ==
    /\ pc[t] = "unlink"
    /\ prev' = [prev EXCEPT ![d[t]] = 0]
    /\ Goto(t, "next")
    /\ UNCHANGED <<size, head, tail, typ, val, next, chead, ctail, d, d2, slot, has>>

-----------------------------------------------------------------------------
Next ==
    \/ \E t \in T : Dispose(t)
    \/ \E t \in {Producer} :
          \/ \E x \in Item : Obtain(t, x)
          \/ PushHead(t) \/ FindSlot(t) \/ StoreSlot(t) \/ AddHead(t) \/ Grow(t)
          \/ PopHead(t) \/ TakeHead(t) \/ TakeValue(t) \/ BackUp(t)
    \/ \E t \in Consumer :
          \/ PopTail(t) \/ LoadNext(t) \/ TakeTail(t) \/ ReadSlot(t) \/ ClearSlot(t) \/ ReleaseSlot(t)
          \/ DropRing(t) \/ Unlink(t)

Spec == Init /\ [][Next]_vars

-----------------------------------------------------------------------------
Held(e) == (head[e] - tail[e]) % Wrap
Contents(e) == [i \in 1..Held(e) |-> val[e][Index(e, tail[e] + i - 1)]]

\* Unused slots are nil ("it nils out unused slots"): what is neither between tail
\* and head nor being worked on refers to nothing, so that nothing is kept alive.
NothingRetained ==
    \A e \in Elt : \A i \in 0..(size[e] - 1) :
        typ[e][i] \/ val[e][i] # NoItem =>
            \/ \E k \in 1..Held(e) : i = Index(e, tail[e] + k - 1)
            \/ \E t \in T : d[t] = e /\ slot[t] = i /\ pc[t] \in {"add", "take", "read", "clear", "release"}

\* Both ends reach what is in the chain: no ring with items is dropped at the tail,
\* and the producer gets back to it through prev.
ReachedFromBothEnds ==
    \A e \in Elt : Held(e) > 0 => ctail <= e /\ \A k \in (e + 1)..chead : prev[k] = k - 1

\* The chain of rings stays in one piece and holds on to nothing it does not need
\* while consumers drop rings from its tail and the producer adds to its head, with
\* indices that wrap.
ChainInvariant == TypeOK /\ NothingRetained /\ ReachedFromBothEnds

Deque == INSTANCE PoolDeque WITH
    line <- FlattenSeq([e \in Elt |-> IF ctail \in 1..e THEN Contents(e) ELSE <<>>]),
    has <- [t \in T |-> IF pc[t] \in {"take", "read"} THEN val[d[t]][slot[t]] ELSE has[t]]

\* The chain is a deque: items come out at the ends, each once, and a slot is not
\* used again before the one who popped it has read it.
ImplementsDeque == Deque!Spec
====
