---- MODULE Cond ----
(***************************************************************************)
(* sync/cond.go and the notifyList of runtime/sema.go it is built on.      *)
(*                                                                         *)
(* Wait takes a ticket before it unlocks c.L and queues itself later, so a *)
(* ticket can be notified before its owner is on the list.  wait and       *)
(* notify are counters of a fixed width (modulo Width, 2^32 in the code)   *)
(* compared with less; the model starts them at any value.  A critical     *)
(* section of l.lock is one step: what it reads of wait, which is updated  *)
(* outside the lock, only grows.  The two loads of the fast path of Signal *)
(* and Broadcast are two steps.  c.L is a sync.Locker; the callers of      *)
(* Wait hold it, those of Signal and Broadcast may.                        *)
(***************************************************************************)
EXTENDS Integers, Sequences, FiniteSets, SequencesExt

CONSTANTS G, NoG,
          Width,        \* number of values of a counter: 2^32
          MaxTickets    \* bound: calls of Wait in a behaviour, fewer than Width \div 2

VARIABLES L,            \* owner of c.L
          wait, notify, \* the counters of the notifyList
          list,         \* its parked waiters, head first
          pc,           \* control of each goroutine
          ticket,       \* t of a Wait in progress
          seen,         \* wait as the fast path loaded it
          all,          \* the call in progress is Broadcast, not Signal
          hand,         \* waiters taken off the list, to be readied
          held,         \* the caller of Signal or Broadcast holds c.L
          issued,       \* tickets issued (for the bound)
          must          \* auxiliary: who was waiting when a notifier was called

list_ == <<wait, notify, list>>
locals == <<ticket, seen, all, hand, held>>
vars == <<L, list_, pc, locals, issued, must>>

Waiting == {"added", "unlocked", "parked"}
Notifying == {"call", "loaded", "lock", "ready", "fast"}

TypeOK ==
    /\ L \in G \cup {NoG}
    /\ wait \in 0..Width - 1 /\ notify \in 0..Width - 1
    /\ list \in Seq(G)
    /\ pc \in [G -> {"idle", "locked", "relock"} \cup Waiting \cup Notifying]
    /\ ticket \in [G -> 0..Width - 1]
    /\ seen \in [G -> 0..Width - 1]
    /\ all \in [G -> BOOLEAN]
    /\ hand \in [G -> Seq(G)]
    /\ held \in [G -> BOOLEAN]
    /\ issued \in 0..MaxTickets
    /\ must \in [G -> SUBSET G]

Init ==
    /\ L = NoG
    /\ wait \in 0..Width - 1 /\ notify = wait
    /\ list = <<>>
    /\ pc = [g \in G |-> "idle"]
    /\ ticket = [g \in G |-> 0]
    /\ seen = [g \in G |-> 0]
    /\ all = [g \in G |-> FALSE]
    /\ hand = [g \in G |-> <<>>]
    /\ held = [g \in G |-> FALSE]
    /\ issued = 0
    /\ must = [g \in G |-> {}]

Goto(g, l) == pc' = [pc EXCEPT ![g] = l]

CL == INSTANCE OwnedLock WITH owner <- L

\* int32(a-b) < 0
less(a, b) == (a - b) % Width >= Width \div 2

\* The counters are uint32.
Succ(t) == (t + 1) % Width

Notified(g) == less(ticket[g], notify)

-----------------------------------------------------------------------------
\* The callers around Wait.
LockL(g) ==
    /\ pc[g] = "idle"
    /\ CL!Lock(g)
    /\ Goto(g, "locked")
    /\ UNCHANGED <<list_, locals, issued, must>>

UnlockL(g) ==
    /\ pc[g] = "locked"
    /\ CL!Unlock(g)
    /\ Goto(g, "idle")
    /\ UNCHANGED <<list_, locals, issued, must>>

\* Wait: t := runtime_notifyListAdd(&c.notify)
notifyListAdd(g) ==
    /\ pc[g] = "locked"
    /\ issued < MaxTickets
    /\ issued' = issued + 1
    /\ ticket' = [ticket EXCEPT ![g] = wait]
    /\ wait' = Succ(wait)
    /\ Goto(g, "added")
    /\ UNCHANGED <<L, notify, list, seen, all, hand, held, must>>

WaitUnlocks(g) ==
    /\ pc[g] = "added"
    /\ CL!Unlock(g)
    /\ Goto(g, "unlocked")
    /\ UNCHANGED <<list_, locals, issued, must>>

\* Mutation: queue without looking whether the ticket has been notified.
notifyListWaitUnchecked(g) ==
    /\ pc[g] = "unlocked"
    /\ list' = Append(list, g)
    /\ Goto(g, "parked")
    /\ UNCHANGED <<L, wait, notify, locals, issued, must>>
\* runtime_notifyListWait(&c.notify, t): "Return right away if this ticket has
\* already been notified", else queue and park.
notifyListWait(g) ==
    /\ pc[g] = "unlocked"
    /\ \/ Notified(g) /\ Goto(g, "relock") /\ UNCHANGED list
       \/ ~Notified(g) /\ Goto(g, "parked") /\ list' = Append(list, g)
    /\ UNCHANGED <<L, wait, notify, locals, issued, must>>

\* c.L.Lock() at the end of Wait.
WaitLocks(g) ==
    /\ pc[g] = "relock"
    /\ CL!Lock(g)
    /\ Goto(g, "locked")
    /\ ticket' = [ticket EXCEPT ![g] = 0]
    /\ must' = [h \in G |-> must[h] \ {g}]
    /\ UNCHANGED <<list_, seen, all, hand, held, issued>>

-----------------------------------------------------------------------------
\* Signal and Broadcast.
Notify(g, a) ==
    /\ pc[g] \in {"idle", "locked"}
    /\ held' = [held EXCEPT ![g] = pc[g] = "locked"]
    /\ all' = [all EXCEPT ![g] = a]
    /\ Goto(g, "call")
    /\ must' = [must EXCEPT ![g] = {h \in G : pc[h] \in Waiting}]
    /\ UNCHANGED <<L, list_, ticket, seen, hand, issued>>

\* The two loads of the fast path, wait first.
LoadWait(g) ==
    /\ pc[g] = "call"
    /\ seen' = [seen EXCEPT ![g] = wait]
    /\ Goto(g, "loaded")
    /\ UNCHANGED <<L, list_, ticket, all, hand, held, issued, must>>

LoadNotify(g) ==
    /\ pc[g] = "loaded"
    /\ Goto(g, IF seen[g] = notify THEN "fast" ELSE "lock")
    /\ UNCHANGED <<L, list_, locals, issued, must>>

\* Mutation: Broadcast counts only the waiters that are on the list.
UpToListed == (notify + Len(list)) % Width
\* Broadcast notifies every ticket issued so far: "any previous waiters are
\* already in the list or will notice that they have already been notified".
UpToIssued == wait

\* notifyListNotifyAll, under the lock: take the whole list.
TakeAll(g) ==
    /\ pc[g] = "lock"
    /\ all[g]
    /\ hand' = [hand EXCEPT ![g] = list]
    /\ list' = <<>>
    /\ notify' = UpToIssued
    /\ Goto(g, "ready")
    /\ UNCHANGED <<L, wait, ticket, seen, all, held, issued, must>>

\* s.ticket == t
OwnersOfNext == SelectSeq(list, LAMBDA h : ticket[h] = notify)

\* notifyListNotifyOne, under the lock: the owner of the next ticket, if it is
\* on the list yet.
TakeNext(g) ==
    /\ pc[g] = "lock"
    /\ ~all[g]
    /\ \/ /\ notify = wait
          /\ UNCHANGED <<notify, list, hand>>
       \/ /\ notify # wait /\ OwnersOfNext = <<>>
          /\ notify' = Succ(notify)
          /\ UNCHANGED <<list, hand>>
       \/ /\ notify # wait /\ OwnersOfNext # <<>>
          /\ notify' = Succ(notify)
          /\ hand' = [hand EXCEPT ![g] = <<Head(OwnersOfNext)>>]
          /\ list' = Remove(list, Head(OwnersOfNext))
    /\ Goto(g, "ready")
    /\ UNCHANGED <<L, wait, ticket, seen, all, held, issued, must>>

\* readyWithTime(s), outside the lock, one waiter after the other.
ReadyWaiter(g) ==
    /\ pc[g] = "ready"
    /\ hand[g] # <<>>
    /\ Goto(Head(hand[g]), "relock")
    /\ hand' = [hand EXCEPT ![g] = Tail(@)]
    /\ UNCHANGED <<L, list_, ticket, seen, all, held, issued, must>>

NotifyReturns(g) ==
    /\ pc[g] \in {"ready", "fast"}
    /\ hand[g] = <<>>
    /\ Goto(g, IF held[g] THEN "locked" ELSE "idle")
    /\ must' = [must EXCEPT ![g] = {}]
    /\ held' = [held EXCEPT ![g] = FALSE]
    /\ all' = [all EXCEPT ![g] = FALSE]
    /\ seen' = [seen EXCEPT ![g] = 0]
    /\ UNCHANGED <<L, list_, ticket, hand, issued>>

-----------------------------------------------------------------------------
\* The steps of a goroutine that is in a call of Cond.
Step(g) ==
    \/ WaitUnlocks(g) \/ notifyListWait(g) \/ WaitLocks(g)
    \/ LoadWait(g) \/ LoadNotify(g) \/ TakeAll(g) \/ TakeNext(g)
    \/ ReadyWaiter(g) \/ NotifyReturns(g)

Next ==
    \E g \in G :
        \/ LockL(g) \/ UnlockL(g) \/ notifyListAdd(g)
        \/ \E a \in BOOLEAN : Notify(g, a)
        \/ Step(g)

Spec == Init /\ [][Next]_vars

\* The scheduler runs every goroutine that is in a call.
FairSpec == Spec /\ \A g \in G : WF_vars(Step(g))

-----------------------------------------------------------------------------
\* Every waiter is where its notification will find it: with a notified ticket
\* it is not on the list, and if it sleeps exactly one notifier is about to
\* ready it; without one it is on the list exactly once if it sleeps.  A
\* goroutine leaves Wait only with a notified ticket: "Wait cannot return unless
\* awoken by Broadcast or Signal" (cond.go).
WaiterPlaces ==
    \A g \in G :
        LET places == Cardinality({i \in DOMAIN list : list[i] = g})
            hands == Cardinality({<<n, i>> \in G \X (1..Cardinality(G)) :
                                      i <= Len(hand[n]) /\ hand[n][i] = g})
        IN  /\ places = (IF pc[g] = "parked" /\ ~Notified(g) THEN 1 ELSE 0)
            /\ hands = (IF pc[g] = "parked" /\ Notified(g) THEN 1 ELSE 0)
            /\ pc[g] = "relock" => Notified(g)

\* The tickets between notify and wait belong to one waiter each, so that each
\* Signal counts for a waiter, also across the wraparound of the counters.
TicketsOwned ==
    LET pending == {g \in G : pc[g] \in Waiting /\ ~Notified(g)}
    IN  /\ Cardinality(pending) = (wait - notify) % Width
        /\ \A g, h \in pending : ticket[g] = ticket[h] => g = h

\* Whoever was waiting when Broadcast was called has been notified by the time
\* it readies its waiters, or returns by the fast path; on the fast path the
\* same is true of Signal.
WaitersServed ==
    \A g \in G :
        pc[g] = "fast" \/ (pc[g] = "ready" /\ all[g]) => \A h \in must[g] : Notified(h)

\* Tickets, list and notifications of notifyList agree at every step of Wait, Signal
\* and Broadcast, so that a notification finds its waiter wherever it is.
NotifyListInvariant == TypeOK /\ WaiterPlaces /\ TicketsOwned /\ WaitersServed

\* A waiter that has been notified goes on to lock c.L.
NotifiedResumes ==
    \A g \in G : (pc[g] \in Waiting /\ Notified(g)) ~> pc[g] = "relock"
====
