---- MODULE Mutex ----
(***************************************************************************)
(* sync/mutex.go: sync.Mutex in its normal and starvation modes, over the  *)
(* contract of the runtime semaphore (module SemaQueue, extended here with *)
(* its variables for m.sema).                                              *)
(*                                                                         *)
(* m.state is a record of its three bits and the waiter count.  Every      *)
(* atomic operation on it is a step; lockSlow and unlockSlow work on a     *)
(* copy old that may be stale by the time they use it.  The reload of old  *)
(* after a CAS is part of the CAS's step: a later reload, seeing a newer   *)
(* state, is the reload followed by LockRetry or UnlockRetry.  Whether     *)
(* runtime_canSpin allows a spin and whether a sleeper waited for more     *)
(* than 1 ms are nondeterministic.  A throw ends the program: a goroutine  *)
(* about to throw has no step.                                             *)
(***************************************************************************)
EXTENDS SemaQueue

CONSTANT ActiveSpin    \* active_spin: how often a goroutine spins in a row

ASSUME SpinAssumption == ActiveSpin \in Nat

VARIABLES state,       \* m.state
          pc,          \* control of each goroutine
          old,         \* lockSlow's and unlockSlow's copy of m.state
          awoke, starving, iter,   \* locals of lockSlow
          waited,      \* waitStartTime # 0
          queueLifo    \* the argument of runtime_SemacquireMutex

locals == <<old, awoke, starving, iter, waited, queueLifo>>
vars == <<state, pc, locals, semaVars>>

State == [locked : BOOLEAN, woken : BOOLEAN, starving : BOOLEAN, waiters : Nat]
Bits(l, w, s, n) == [locked |-> l, woken |-> w, starving |-> s, waiters |-> n]
Unlocked == Bits(FALSE, FALSE, FALSE, 0)

Control == {"idle", "loop", "sema", "woke", "handoff", "cs",
            "unlockLoop", "semrelease", "semhandoff"}

TypeOK ==
    /\ SemaTypeOK
    /\ state \in State
    /\ pc \in [G -> Control]
    /\ old \in [G -> State]
    /\ awoke \in [G -> BOOLEAN]
    /\ starving \in [G -> BOOLEAN]
    /\ iter \in [G -> 0..ActiveSpin]
    /\ waited \in [G -> BOOLEAN]
    /\ queueLifo \in [G -> BOOLEAN]

Init ==
    /\ SemaInit
    /\ state = Unlocked
    /\ pc = [g \in G |-> "idle"]
    /\ old = [g \in G |-> Unlocked]
    /\ awoke = [g \in G |-> FALSE]
    /\ starving = [g \in G |-> FALSE]
    /\ iter = [g \in G |-> 0]
    /\ waited = [g \in G |-> FALSE]
    /\ queueLifo = [g \in G |-> FALSE]

Goto(g, l) == pc' = [pc EXCEPT ![g] = l]

\* The locals of a goroutine that is in neither lockSlow nor unlockSlow.
DropLocals(g) ==
    /\ old' = [old EXCEPT ![g] = Unlocked]
    /\ awoke' = [awoke EXCEPT ![g] = FALSE]
    /\ starving' = [starving EXCEPT ![g] = FALSE]
    /\ iter' = [iter EXCEPT ![g] = 0]
    /\ waited' = [waited EXCEPT ![g] = FALSE]
    /\ queueLifo' = [queueLifo EXCEPT ![g] = FALSE]

Reload(g) == old' = [old EXCEPT ![g] = state]

\* The fatal errors: awoke but mutexWoken is clear, a starvation handoff of a
\* mutex that is locked, woken or without waiters ("inconsistent mutex state"),
\* and "unlock of unlocked mutex".
Inconsistent(o) == o.locked \/ o.woken \/ o.waiters = 0

Throws(g) ==
    \/ pc[g] = "loop" /\ awoke[g] /\ ~old[g].woken
    \/ pc[g] = "woke" /\ state.starving /\ Inconsistent(state)
    \/ pc[g] = "cs" /\ ~state.locked

-----------------------------------------------------------------------------
\* Lock: the CAS from 0 to mutexLocked, or lockSlow, which begins by reading
\* m.state.
LockFast(g) ==
    /\ pc[g] = "idle"
    /\ state = Unlocked
    /\ state' = Bits(TRUE, FALSE, FALSE, 0)
    /\ Goto(g, "cs")
    /\ UNCHANGED <<locals, semaVars>>

LockSlow(g) ==
    /\ pc[g] = "idle"
    /\ state # Unlocked
    /\ Reload(g)
    /\ Goto(g, "loop")
    /\ UNCHANGED <<state, awoke, starving, iter, waited, queueLifo, semaVars>>

\* One round of active spinning, which may set mutexWoken "to inform Unlock to
\* not wake other blocked goroutines".
Spin(g) ==
    LET mark == /\ ~awoke[g]
                /\ ~old[g].woken
                /\ old[g].waiters # 0
                /\ state = old[g]
    IN  /\ pc[g] = "loop"
        /\ old[g].locked /\ ~old[g].starving
        /\ iter[g] < ActiveSpin
        /\ state' = Bits(state.locked, state.woken \/ mark, state.starving, state.waiters)
        /\ awoke' = [awoke EXCEPT ![g] = @ \/ mark]
        /\ iter' = [iter EXCEPT ![g] = @ + 1]
        /\ old' = [old EXCEPT ![g] = state']
        /\ UNCHANGED <<pc, starving, waited, queueLifo, semaVars>>

\* Mutation: newcomers look at mutexLocked only.
WaitIfLocked(o) == o.locked
\* old&(mutexLocked|mutexStarving) != 0
MustWait(o) == o.locked \/ o.starving

\* Mutation: a woken goroutine does not clear mutexWoken.
DesiredStillWoken(g) ==
    LET o == old[g]
    IN  Bits(o.locked \/ ~o.starving,
             o.woken,
             o.starving \/ (starving[g] /\ o.locked),
             IF MustWait(o) THEN o.waiters + 1 ELSE o.waiters)
\* The value new that lockSlow wants to turn old into.
Desired(g) ==
    LET o == old[g]
    IN  Bits(o.locked \/ ~o.starving,
             o.woken /\ ~awoke[g],
             o.starving \/ (starving[g] /\ o.locked),
             IF MustWait(o) THEN o.waiters + 1 ELSE o.waiters)

LockRetry(g) ==
    /\ pc[g] = "loop"
    /\ ~Throws(g)
    /\ state # old[g]
    /\ Reload(g)
    /\ UNCHANGED <<state, pc, awoke, starving, iter, waited, queueLifo, semaVars>>

\* "locked the mutex with CAS"
LockCAS(g) ==
    /\ pc[g] = "loop"
    /\ ~Throws(g)
    /\ state = old[g]
    /\ ~MustWait(old[g])
    /\ state' = Desired(g)
    /\ Goto(g, "cs")
    /\ DropLocals(g)
    /\ UNCHANGED semaVars

\* Count as a waiter and call runtime_SemacquireMutex.
WaitCAS(g) ==
    /\ pc[g] = "loop"
    /\ ~Throws(g)
    /\ state = old[g]
    /\ MustWait(old[g])
    /\ state' = Desired(g)
    /\ BeginAcquire(g)
    /\ Goto(g, "sema")
    /\ queueLifo' = [queueLifo EXCEPT ![g] = waited[g]]
    /\ waited' = [waited EXCEPT ![g] = TRUE]
    /\ old' = [old EXCEPT ![g] = Unlocked]
    /\ awoke' = [awoke EXCEPT ![g] = FALSE]
    /\ iter' = [iter EXCEPT ![g] = 0]
    /\ UNCHANGED <<starving, val, waitq, hand>>

SleepOnSema(g) ==
    /\ pc[g] = "sema"
    /\ Park(g, queueLifo[g])
    /\ UNCHANGED <<state, pc, locals>>

\* runtime_SemacquireMutex returns; has it been more than 1 ms?
WakeFromSema(g) ==
    /\ pc[g] = "sema"
    /\ Acquire(g) \/ TakeTicket(g)
    /\ Goto(g, "woke")
    /\ \E late \in BOOLEAN : starving' = [starving EXCEPT ![g] = @ \/ late]
    /\ UNCHANGED <<state, old, awoke, iter, waited, queueLifo>>

\* Read m.state again: in starvation mode the mutex is now ours, otherwise go
\* round the loop and compete for it.
Woke(g) ==
    /\ pc[g] = "woke"
    /\ ~Throws(g)
    /\ Reload(g)
    /\ \/ /\ ~state.starving
          /\ Goto(g, "loop")
          /\ awoke' = [awoke EXCEPT ![g] = TRUE]
       \/ /\ state.starving
          /\ Goto(g, "handoff")
          /\ UNCHANGED awoke
    /\ UNCHANGED <<state, starving, iter, waited, queueLifo, semaVars>>

\* atomic.AddInt32(&m.state, delta), delta chosen from the copy read in Woke.
ExitStarvation(g) == ~starving[g] \/ old[g].waiters = 1

\* Mutation: the new owner stays counted as a waiter.
TakeOverStillCounted(g) ==
    /\ pc[g] = "handoff"
    /\ state' = Bits(TRUE, state.woken, state.starving /\ ~ExitStarvation(g), state.waiters)
    /\ Goto(g, "cs")
    /\ DropLocals(g)
    /\ UNCHANGED semaVars
TakeOver(g) ==
    /\ pc[g] = "handoff"
    /\ state' = Bits(TRUE, state.woken, state.starving /\ ~ExitStarvation(g), state.waiters - 1)
    /\ Goto(g, "cs")
    /\ DropLocals(g)
    /\ UNCHANGED semaVars

-----------------------------------------------------------------------------
\* Unlock: drop the lock bit; if anything is left in m.state, unlockSlow.
Released == Bits(FALSE, state.woken, state.starving, state.waiters)

Unlock(g) ==
    /\ pc[g] = "cs"
    /\ ~Throws(g)
    /\ state' = Released
    /\ \/ /\ Released = Unlocked
          /\ Goto(g, "idle")
          /\ UNCHANGED <<old, call>>
       \/ /\ Released # Unlocked /\ ~Released.starving
          /\ old' = [old EXCEPT ![g] = Released]
          /\ Goto(g, "unlockLoop")
          /\ UNCHANGED call
       \/ /\ Released.starving
          /\ BeginRelease(g)
          /\ Goto(g, "semhandoff")
          /\ UNCHANGED old
    /\ UNCHANGED <<awoke, starving, iter, waited, queueLifo, val, waitq, hand>>

\* "no need to wake anyone"
NobodyToWake(o) == o.waiters = 0 \/ o.locked \/ o.woken \/ o.starving

UnlockDone(g) ==
    /\ pc[g] = "unlockLoop"
    /\ NobodyToWake(old[g])
    /\ Goto(g, "idle")
    /\ DropLocals(g)
    /\ UNCHANGED <<state, semaVars>>

UnlockRetry(g) ==
    /\ pc[g] = "unlockLoop"
    /\ ~NobodyToWake(old[g])
    /\ state # old[g]
    /\ Reload(g)
    /\ UNCHANGED <<state, pc, awoke, starving, iter, waited, queueLifo, semaVars>>

\* Mutation: the waker does not set mutexWoken.
WakeCASUnmarked(g) ==
    /\ pc[g] = "unlockLoop"
    /\ ~NobodyToWake(old[g])
    /\ state = old[g]
    /\ state' = Bits(state.locked, state.woken, state.starving, state.waiters - 1)
    /\ BeginRelease(g)
    /\ Goto(g, "semrelease")
    /\ DropLocals(g)
    /\ UNCHANGED <<val, waitq, hand>>
\* "Grab the right to wake someone."
WakeCAS(g) ==
    /\ pc[g] = "unlockLoop"
    /\ ~NobodyToWake(old[g])
    /\ state = old[g]
    /\ state' = Bits(state.locked, TRUE, state.starving, state.waiters - 1)
    /\ BeginRelease(g)
    /\ Goto(g, "semrelease")
    /\ DropLocals(g)
    /\ UNCHANGED <<val, waitq, hand>>

\* runtime_Semrelease(&m.sema, handoff, 1)
SemreleaseStep(g) ==
    /\ pc[g] \in {"semrelease", "semhandoff"}
    /\ Post(g) \/ Dequeue(g)
    /\ UNCHANGED <<state, pc, locals>>

SemreleaseReturn(g) ==
    /\ pc[g] \in {"semrelease", "semhandoff"}
    /\ NoWaiter(g) \/ Ready(g, pc[g] = "semhandoff")
    /\ Goto(g, "idle")
    /\ UNCHANGED <<state, locals>>

-----------------------------------------------------------------------------
\* The steps of a goroutine that is inside Lock or Unlock, or holds the lock.
Step(g) ==
    \/ Spin(g) \/ LockRetry(g) \/ LockCAS(g) \/ WaitCAS(g)
    \/ SleepOnSema(g) \/ WakeFromSema(g) \/ Woke(g) \/ TakeOver(g)
    \/ Unlock(g) \/ UnlockDone(g) \/ UnlockRetry(g)
    \/ WakeCAS(g) \/ SemreleaseStep(g) \/ SemreleaseReturn(g)

Next == \E g \in G : LockFast(g) \/ LockSlow(g) \/ Step(g)

Spec == Init /\ [][Next]_vars

\* The scheduler runs every runnable goroutine and every holder unlocks.
FairSpec == Spec /\ \A g \in G : WF_vars(Step(g))

-----------------------------------------------------------------------------
\* At most one goroutine is between a return from Lock and the Unlock that
\* follows, across fast path, CAS and starvation handoff.
MutualExclusion == \A g, h \in G : pc[g] = "cs" /\ pc[h] = "cs" => g = h

\* None of the throws "inconsistent mutex state" (lockSlow) and "unlock of
\* unlocked mutex" (unlockSlow) is reachable.
NoThrow == \A g \in G : ~Throws(g)

\* The mutex is safe: one holder at most and no throw, whatever goroutines act on
\* stale copies of m.state, with every count and copy in range.
MutexSafe == TypeOK /\ MutualExclusion /\ NoThrow

\* The one wakeup token: the goroutines that carry it (posting the permit,
\* handed it as a ticket, back from the semaphore, or running with awoke).  It
\* is free in m.sema when val is 1.
Bearers ==
    {g \in G : \/ call[g] \in {"post", "ticket"}
               \/ pc[g] \in {"woke", "handoff"}
               \/ pc[g] = "loop" /\ awoke[g]}

TokenOut == val = 1 \/ Bearers # {}

\* At most one wakeup is ever under way.  In normal mode it is under way exactly
\* when mutexWoken is set: a bit left set without a goroutine that will clear it
\* would make every later Unlock skip its wakeup.  In starvation mode it is
\* under way exactly when mutexLocked is clear, and whoever gets it is the new
\* owner; nobody runs with awoke.
TokenInv ==
    /\ val <= 1
    /\ val = 1 => Bearers = {}
    /\ \A g, h \in Bearers : g = h
    /\ TokenOut <=> (IF state.starving THEN ~state.locked ELSE state.woken)
    /\ state.starving => ~state.woken
    /\ \A g \in Bearers : /\ pc[g] = "handoff" => state.starving
                          /\ pc[g] = "loop" => ~state.starving

\* Wakeups that their receiver has not acted on.
Carriers == {g \in G : call[g] \in {"post", "ticket"} \/ pc[g] = "woke"}
InFlight == val + Cardinality(Carriers)

\* The goroutines inside the semaphore, or back from it and not yet the owner.
Waiting == {g \in G : pc[g] \in {"sema", "woke", "handoff"}}

\* The waiter count is exact: it is the number of goroutines in the semaphore,
\* less the one a normal-mode Unlock has already subtracted and is waking.
WaiterCount ==
    state.waiters + (IF state.starving THEN 0 ELSE InFlight) = Cardinality(Waiting)

\* A goroutine in the slow path of Lock is not left behind by everyone: someone
\* gets the mutex.
SomeoneLocks == (\E g \in G : pc[g] \in {"loop", "sema", "woke"}) ~> (\E g \in G : pc[g] = "cs")

\* The goroutine between Lock and Unlock.
Owner == IF \E g \in G : pc[g] = "cs" THEN CHOOSE g \in G : pc[g] = "cs" ELSE NoG

Lockr == INSTANCE OwnedLock WITH owner <- Owner

\* Lock and Unlock implement a sync.Locker: the mutex is free when it is taken,
\* also by the waiter it is handed to, and it is never taken from its owner.
ImplementsLocker == Lockr!Spec
====
