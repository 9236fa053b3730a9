---- MODULE SemaRoot ----
(***************************************************************************)
(* runtime/sema.go: semacquire1 and semrelease1 on the addresses that hash *)
(* to one semaRoot.                                                        *)
(*                                                                         *)
(* The addresses share the root's lock and its waiter count nwait.  nwait  *)
(* is read without the lock by semrelease1 ("easy case"), which is what    *)
(* makes a missed wakeup possible.  Every atomic operation on *addr and    *)
(* every read of nwait outside the lock is a step of its own; nwait is     *)
(* only written with the lock held, so its reads and writes inside a       *)
(* critical section are merged with the section's first or last step.      *)
(* cansemacquire's load/CAS loop is one step: it fails on reading 0 and    *)
(* otherwise decrements the value it read.  The treap of waiter lists is   *)
(* one sequence per address.  Profiling is left out.                       *)
(***************************************************************************)
EXTENDS Naturals, Sequences, FiniteSets

CONSTANTS G,        \* goroutines
          NoG,      \* "no goroutine"
          Addr,     \* semaphore addresses that share the root
          NoAddr,   \* "no address": the goroutine is not in a call
          Focus,    \* the address whose contract is considered
          MaxVal    \* bound: permits outstanding or being posted per address

ASSUME RootAssumption ==
    /\ IsFiniteSet(G)
    /\ NoG \notin G
    /\ NoAddr \notin Addr
    /\ Focus \in Addr
    /\ MaxVal \in Nat \ {0}

VARIABLES val,      \* *addr
          queue,    \* root.treap: the sudogs waiting on each address
          nwait,    \* root.nwait
          lock,     \* holder of root.lock
          pc,       \* control of each goroutine
          addr,     \* argument addr of the call in progress
          flag,     \* argument lifo, or handoff, of the call in progress
          ticket,   \* s.ticket = 1 in the goroutine's own sudog
          s         \* the waiter a semrelease1 dequeued

vars == <<val, queue, nwait, lock, pc, addr, flag, ticket, s>>

Acquiring == {"easy", "lock", "recheck", "undo", "enqueue", "parked", "resumed"}
Releasing == {"xadd", "load", "rlock", "dequeue", "ready"}

TypeOK ==
    /\ val \in [Addr -> Nat]
    /\ queue \in [Addr -> Seq(G)]
    /\ nwait \in 0..Cardinality(G)
    /\ lock \in G \cup {NoG}
    /\ pc \in [G -> {"idle"} \cup Acquiring \cup Releasing]
    /\ addr \in [G -> Addr \cup {NoAddr}]
    /\ flag \in [G -> BOOLEAN]
    /\ ticket \in [G -> BOOLEAN]
    /\ s \in [G -> G \cup {NoG}]

Init ==
    /\ val = [a \in Addr |-> 0]
    /\ queue = [a \in Addr |-> <<>>]
    /\ nwait = 0
    /\ lock = NoG
    /\ pc = [g \in G |-> "idle"]
    /\ addr = [g \in G |-> NoAddr]
    /\ flag = [g \in G |-> FALSE]
    /\ ticket = [g \in G |-> FALSE]
    /\ s = [g \in G |-> NoG]

-----------------------------------------------------------------------------
\* Control.
Goto(g, l) == pc' = [pc EXCEPT ![g] = l]

Call(g, a, f, l) ==
    /\ pc[g] = "idle"
    /\ Goto(g, l)
    /\ addr' = [addr EXCEPT ![g] = a]
    /\ flag' = [flag EXCEPT ![g] = f]
    /\ UNCHANGED <<val, queue, nwait, lock, ticket, s>>

Return(g) ==
    /\ Goto(g, "idle")
    /\ addr' = [addr EXCEPT ![g] = NoAddr]
    /\ flag' = [flag EXCEPT ![g] = FALSE]

Stay == UNCHANGED <<addr, flag>>

\* lock(&root.lock) of a critical section that leaves it in a later step.
Lock(g) == lock = NoG /\ lock' = g
Unlock(g) == lock = g /\ lock' = NoG

\* cansemacquire(addr).
CanAcquire(g) == val[addr[g]] > 0
TakePermit(g) == val' = [val EXCEPT ![addr[g]] = @ - 1]

-----------------------------------------------------------------------------
\* semacquire1.
semacquire1(g, a, lf) == Call(g, a, lf, "easy")

EasyAcquire(g) ==
    /\ pc[g] = "easy"
    /\ \/ CanAcquire(g) /\ TakePermit(g) /\ Return(g)
       \/ ~CanAcquire(g) /\ Goto(g, "lock") /\ Stay /\ UNCHANGED val
    /\ UNCHANGED <<queue, nwait, lock, ticket, s>>

\* atomic.Xadd(&root.nwait, 1), "to disable easy case in semrelease"
CountWaiter == nwait' = nwait + 1

\* lock(&root.lock), then count ourselves.
AnnounceWaiter(g) ==
    /\ pc[g] = "lock"
    /\ Lock(g)
    /\ CountWaiter
    /\ Goto(g, "recheck")
    /\ Stay
    /\ UNCHANGED <<val, queue, ticket, s>>

\* Mutation: go to sleep on the strength of the first, unlocked check.
RecheckDropped(g) ==
    /\ pc[g] = "recheck"
    /\ Goto(g, "enqueue")
    /\ Stay
    /\ UNCHANGED <<val, queue, nwait, lock, ticket, s>>
\* "Check cansemacquire to avoid missed wakeup."
Recheck(g) ==
    /\ pc[g] = "recheck"
    /\ \/ CanAcquire(g) /\ TakePermit(g) /\ Goto(g, "undo")
       \/ ~CanAcquire(g) /\ Goto(g, "enqueue") /\ UNCHANGED val
    /\ Stay
    /\ UNCHANGED <<queue, nwait, lock, ticket, s>>

UndoAnnounce(g) ==
    /\ pc[g] = "undo"
    /\ nwait' = nwait - 1
    /\ Unlock(g)
    /\ Return(g)
    /\ UNCHANGED <<val, queue, ticket, s>>

\* root.queue(addr, s, lifo)
Queued(q, g, lf) == IF lf THEN <<g>> \o q ELSE Append(q, g)

\* root.queue, then goparkunlock: the goroutine is parked before it unlocks.
QueueAndPark(g) ==
    /\ pc[g] = "enqueue"
    /\ queue' = [queue EXCEPT ![addr[g]] = Queued(@, g, flag[g])]
    /\ Unlock(g)
    /\ Goto(g, "parked")
    /\ Stay
    /\ UNCHANGED <<val, nwait, ticket, s>>

\* Back from goparkunlock: s.ticket != 0 || cansemacquire(addr), else loop.
Resume(g) ==
    /\ pc[g] = "resumed"
    /\ \/ ticket[g] /\ Return(g) /\ UNCHANGED val
       \/ ~ticket[g] /\ CanAcquire(g) /\ TakePermit(g) /\ Return(g)
       \/ ~ticket[g] /\ ~CanAcquire(g) /\ Goto(g, "lock") /\ Stay /\ UNCHANGED val
    /\ ticket' = [ticket EXCEPT ![g] = FALSE]
    /\ UNCHANGED <<queue, nwait, lock, s>>

-----------------------------------------------------------------------------
\* semrelease1.  The guard on val is the bound MaxVal.
Posting(a) == Cardinality({g \in G : pc[g] = "xadd" /\ addr[g] = a})

semrelease1(g, a, ho) ==
    /\ val[a] + Posting(a) < MaxVal
    /\ Call(g, a, ho, "xadd")

XaddPermit(g) ==
    /\ pc[g] = "xadd"
    /\ val' = [val EXCEPT ![addr[g]] = @ + 1]
    /\ Goto(g, "load")
    /\ Stay
    /\ UNCHANGED <<queue, nwait, lock, ticket, s>>

\* Mutation: an off-by-one in the easy case.
NoWaitersButOne == nwait <= 1
NoWaiters == nwait = 0

\* "Easy case: no waiters?"
LoadNwait(g) ==
    /\ pc[g] = "load"
    /\ \/ NoWaiters /\ Return(g)
       \/ ~NoWaiters /\ Goto(g, "rlock") /\ Stay
    /\ UNCHANGED <<val, queue, nwait, lock, ticket, s>>

\* "Harder case: search for a waiter and wake it."
LockToWake(g) ==
    /\ pc[g] = "rlock"
    /\ Lock(g)
    /\ Goto(g, "dequeue")
    /\ Stay
    /\ UNCHANGED <<val, queue, nwait, ticket, s>>

\* Mutation: the waiter stays on its list.
LeftQueued(q) == q
\* root.dequeue(addr): the list without the waiter it returns.
Dequeued(q) == Tail(q)

\* if s != nil { atomic.Xadd(&root.nwait, -1) }
UncountWaiter(found) == nwait' = IF found THEN nwait - 1 ELSE nwait

\* Recheck nwait, take the first waiter on addr if there is one, unlock.
DequeueWaiter(g) ==
    LET a == addr[g]
        found == ~NoWaiters /\ queue[a] # <<>>
    IN  /\ pc[g] = "dequeue"
        /\ Unlock(g)
        /\ UncountWaiter(found)
        /\ \/ /\ ~found
              /\ Return(g)
              /\ UNCHANGED <<queue, s>>
           \/ /\ found
              /\ s' = [s EXCEPT ![g] = Head(queue[a])]
              /\ queue' = [queue EXCEPT ![a] = Dequeued(@)]
              /\ Goto(g, "ready")
              /\ Stay
        /\ UNCHANGED <<val, ticket>>

\* if handoff && cansemacquire(addr) { s.ticket = 1 }; readyWithTime(s)
\* (the goyield that follows a direct handoff is a scheduling hint).
ReadyWaiter(g) ==
    LET direct == flag[g] /\ CanAcquire(g)
    IN  /\ pc[g] = "ready"
        /\ val' = IF direct THEN [val EXCEPT ![addr[g]] = @ - 1] ELSE val
        /\ ticket' = [ticket EXCEPT ![s[g]] = direct]
        /\ s' = [s EXCEPT ![g] = NoG]
        /\ pc' = [pc EXCEPT ![s[g]] = "resumed", ![g] = "idle"]
        /\ addr' = [addr EXCEPT ![g] = NoAddr]
        /\ flag' = [flag EXCEPT ![g] = FALSE]
        /\ UNCHANGED <<queue, nwait, lock>>

-----------------------------------------------------------------------------
\* The steps a goroutine takes once it is in a call.
Step(g) ==
    \/ EasyAcquire(g) \/ AnnounceWaiter(g) \/ Recheck(g) \/ UndoAnnounce(g)
    \/ QueueAndPark(g) \/ Resume(g)
    \/ XaddPermit(g) \/ LoadNwait(g) \/ LockToWake(g) \/ DequeueWaiter(g)
    \/ ReadyWaiter(g)

Next ==
    \E g \in G :
        \/ \E a \in Addr, f \in BOOLEAN : semacquire1(g, a, f) \/ semrelease1(g, a, f)
        \/ Step(g)

Spec == Init /\ [][Next]_vars

-----------------------------------------------------------------------------
\* Properties.

\* Goroutines at address a that will look at *addr again, or will wake a
\* waiter that does: a permit they may still account for.
Movers(a) ==
    {g \in G : /\ addr[g] = a
               /\ \/ pc[g] \in {"easy", "lock", "recheck", "load", "rlock", "dequeue", "ready"}
                  \/ pc[g] = "resumed" /\ ~ticket[g]}

HasWaiter(a) ==
    queue[a] # <<>> \/ \E g \in G : addr[g] = a /\ pc[g] = "enqueue"

\* No lost wakeup: while someone sleeps, or has decided to sleep, on an
\* address, every free permit of that address is still being announced by a
\* semrelease1 or is about to be taken by a running semacquire1.  This is what
\* the order "nwait++, then cansemacquire" in semacquire1 against "*addr++, then
\* load nwait" in semrelease1 is for.
NoLostWakeup ==
    \A a \in Addr : HasWaiter(a) => val[a] <= Cardinality(Movers(a))

\* The sudog of g is on the list of a.
On(g, a) == \E i \in DOMAIN queue[a] : queue[a][i] = g

\* A parked goroutine has exactly one owner: one place in the queue of its own
\* address, or the hand of one semrelease1 on that address (a sudog that is
\* queued twice, dropped, or readied twice would break this).
ParkedOwnedOnce ==
    /\ \A a \in Addr : \A i, j \in DOMAIN queue[a] : queue[a][i] = queue[a][j] => i = j
    /\ \A a \in Addr, g \in G : On(g, a) =>
          pc[g] = "parked" /\ addr[g] = a /\ \A r \in G : s[r] # g
    /\ \A r \in G : s[r] # NoG =>
          /\ pc[s[r]] = "parked" /\ addr[s[r]] = addr[r]
          /\ \A q \in G : s[q] = s[r] => q = r
    /\ \A g \in G : pc[g] = "parked" => On(g, addr[g]) \/ \E r \in G : s[r] = g

\* The root and the lists of its addresses stay consistent: nwait is at all times a
\* possible number of waiters, and every sleeper is in one place only, whatever
\* semacquire1 and semrelease1 do on the addresses that share the root.
RootInvariant == TypeOK /\ ParkedOwnedOnce

\* The abstract state of the address Focus: the stage of a goroutine at label p of
\* a call on address a, with ticket t.  It counts as parked from the moment its
\* second cansemacquire failed.
StageOf(p, a, t) ==
    IF a # Focus \/ p \in {"idle", "undo"} THEN "none"
    ELSE CASE p \in {"easy", "lock", "recheck"} -> "acquire"
           [] p \in {"enqueue", "parked"} -> "parked"
           [] p = "resumed" -> IF t THEN "ticket" ELSE "acquire"
           [] p = "xadd" -> "post"
           [] p \in {"load", "rlock", "dequeue"} -> "wake"
           [] p = "ready" -> "hand"

Stage(g) == StageOf(pc[g], addr[g], ticket[g])

Waitq ==
    IF lock \in G /\ pc[lock] = "enqueue" /\ addr[lock] = Focus
    THEN Queued(queue[Focus], lock, flag[lock])
    ELSE queue[Focus]

Contract == INSTANCE SemaQueue WITH
    val <- val[Focus],
    waitq <- Waitq,
    call <- [g \in G |-> Stage(g)],
    hand <- [g \in G |-> IF addr[g] = Focus THEN s[g] ELSE NoG]

\* An address of the root behaves as module SemaQueue says, whatever happens on
\* the other addresses: semrelease1 skips the wakeup only when no one is
\* parked, permits are neither lost nor duplicated, and waiters are woken in
\* queue order.
ImplementsContract == Contract!SemaSpec
====
