---- MODULE FdMutex ----
(***************************************************************************)
(* internal/poll/fd_mutex.go: one word that counts the references to a     *)
(* file descriptor, serialises its reads and its writes, and refuses       *)
(* everything once the descriptor is closed.                               *)
(*                                                                         *)
(* Each method loads the word, computes a new one and retries until its    *)
(* CAS succeeds; what it does depends on the word only, so it is one step. *)
(* The word is modelled by its fields, with counts up to MaxRef and    *)
(* MaxWait (2^20 - 1 in the code).  The semaphores are the counting semaphores of Semaphore. *)
(***************************************************************************)
EXTENDS Integers

CONSTANTS MaxRef,    \* the highest count mutexRefMask holds
          MaxWait    \* the highest count mutexRMask and mutexWMask hold

ASSUME LimitAssumption == MaxRef \in Nat \ {0} /\ MaxWait \in Nat \ {0}

VARIABLES mu,      \* fdMutex.state
          sema     \* rsema and wsema

Mode == {"r", "w"}

FdMutexType ==
    /\ mu \in [closed : BOOLEAN, lock : [Mode -> BOOLEAN], ref : 0..MaxRef, wait : [Mode -> 0..MaxWait]]
    /\ sema \in [Mode -> Nat]

NewFdMutex == [closed |-> FALSE, lock |-> [m \in Mode |-> FALSE],
               ref |-> 0, wait |-> [m \in Mode |-> 0]]

\* Mutation: one too many is let in.
FullLate(n, max) == n = max + 1
\* One more would not fit into the field: panic(overflowMsg).
Full(n, max) == n = max

\* Mutation: the references are not looked at.
ClosedReference == mu'.closed
\* "It reports whether there is no remaining reference": new&(mutexClosed|mutexRefMask)
\* == mutexClosed.
LastReference == mu'.closed /\ mu'.ref = 0

incref == ~mu.closed /\ ~Full(mu.ref, MaxRef) /\ mu' = [mu EXCEPT !.ref = @ + 1]

decref == mu.ref > 0 /\ mu' = [mu EXCEPT !.ref = @ - 1]

\* "Mark as closed and acquire a reference.  Remove all read and write waiters."
Closed == [mu EXCEPT !.closed = TRUE, !.ref = @ + 1, !.wait = [m \in Mode |-> 0]]

increfAndClose == ~mu.closed /\ ~Full(mu.ref, MaxRef) /\ mu' = Closed

\* rwlock: "Lock is free, acquire it" or "Wait for lock".
Acquire(m) ==
    /\ ~mu.closed /\ ~mu.lock[m] /\ ~Full(mu.ref, MaxRef)
    /\ mu' = [mu EXCEPT !.lock[m] = TRUE, !.ref = @ + 1]

AwaitLock(m) ==
    /\ ~mu.closed /\ mu.lock[m] /\ ~Full(mu.wait[m], MaxWait)
    /\ mu' = [mu EXCEPT !.wait[m] = @ + 1]

Overflows(m) ==
    /\ ~mu.closed
    /\ IF mu.lock[m] THEN Full(mu.wait[m], MaxWait) ELSE Full(mu.ref, MaxRef)

\* rwunlock: "Drop lock, drop reference and wake read waiter if present."
Wakes(m) == mu.wait[m] > 0
rwunlock(m) ==
    /\ mu.lock[m] /\ mu.ref > 0
    /\ mu' = [mu EXCEPT !.lock[m] = FALSE, !.ref = @ - 1,
                        !.wait[m] = IF Wakes(m) THEN @ - 1 ELSE @]

Semacquire(m) == sema[m] > 0 /\ sema' = [sema EXCEPT ![m] = @ - 1]
Semrelease(m) == sema' = [sema EXCEPT ![m] = @ + 1]
====
