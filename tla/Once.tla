---- MODULE Once ----
(***************************************************************************)
(* sync/once.go: Once.Do over a sync.Locker for o.m (module OwnedLock,     *)
(* which Mutex implements).  Do is called any number of times by any       *)
(* goroutine; f returns or panics, in both cases the deferred store and    *)
(* unlock run.                                                             *)
(***************************************************************************)
EXTENDS Naturals

CONSTANTS G, NoG

ASSUME OnceAssumption == NoG \notin G

VARIABLES done,      \* o.done
          m,         \* owner of o.m
          pc,        \* control of each goroutine
          panicking, \* f panicked in this goroutine's call
          runs       \* how far the call of f has got, and whether there was one

vars == <<done, m, pc, panicking, runs>>

Control == {"idle", "slow", "check", "f", "store", "unlock", "returned", "panicked"}

TypeOK ==
    /\ done \in {0, 1}
    /\ m \in {NoG} \cup {g \in G : pc[g] \in {"check", "f", "store", "unlock"}}
    /\ pc \in [G -> Control]
    /\ panicking \in [G -> BOOLEAN]
    /\ runs \in {"never", "running", "finished", "twice"}

Init ==
    /\ done = 0
    /\ m = NoG
    /\ pc = [g \in G |-> "idle"]
    /\ panicking = [g \in G |-> FALSE]
    /\ runs = "never"

Goto(g, l) == pc' = [pc EXCEPT ![g] = l]

M == INSTANCE OwnedLock WITH owner <- m

-----------------------------------------------------------------------------
\* Mutation: the flag is set by the compare-and-swap that the comment in Do calls
\* an incorrect implementation.
DoCAS(g) ==
    /\ pc[g] = "idle"
    /\ Goto(g, IF done = 0 THEN "slow" ELSE "returned")
    /\ done' = 1
    /\ UNCHANGED <<m, panicking, runs>>
\* if atomic.LoadUint32(&o.done) == 0 { o.doSlow(f) }
Do(g) ==
    /\ pc[g] = "idle"
    /\ Goto(g, IF done = 0 THEN "slow" ELSE "returned")
    /\ UNCHANGED <<done, m, panicking, runs>>

\* doSlow: o.m.Lock()
doSlow(g) ==
    /\ pc[g] = "slow"
    /\ M!Lock(g)
    /\ Goto(g, "check")
    /\ UNCHANGED <<done, panicking, runs>>

\* o.done == 0, under the lock
NotDone == done = 0

\* Call f, or leave.
CallF(g) ==
    /\ pc[g] = "check"
    /\ \/ /\ NotDone
          /\ runs' = IF runs = "never" THEN "running" ELSE "twice"
          /\ Goto(g, "f")
       \/ /\ ~NotDone
          /\ Goto(g, "unlock")
          /\ UNCHANGED runs
    /\ UNCHANGED <<done, m, panicking>>

\* f returns or panics.
FEnds(g) ==
    /\ pc[g] = "f"
    /\ runs' = IF runs = "running" THEN "finished" ELSE runs
    /\ \E p \in BOOLEAN : panicking' = [panicking EXCEPT ![g] = p]
    /\ Goto(g, "store")
    /\ UNCHANGED <<done, m>>

\* defer atomic.StoreUint32(&o.done, 1)
StoreDone(g) == done' = 1

DeferredStore(g) ==
    /\ pc[g] = "store"
    /\ StoreDone(g)
    /\ Goto(g, "unlock")
    /\ UNCHANGED <<m, panicking, runs>>

\* Mutation: a panic of f leaves the mutex locked.
UnlockUnlessPanic(g) ==
    /\ pc[g] = "unlock"
    /\ IF panicking[g] THEN UNCHANGED m ELSE M!Unlock(g)
    /\ Goto(g, IF panicking[g] THEN "panicked" ELSE "returned")
    /\ UNCHANGED <<done, panicking, runs>>
\* defer o.m.Unlock()
DeferredUnlock(g) ==
    /\ pc[g] = "unlock"
    /\ M!Unlock(g)
    /\ Goto(g, IF panicking[g] THEN "panicked" ELSE "returned")
    /\ UNCHANGED <<done, panicking, runs>>

\* The caller goes on (a panic is recovered further up) and may call Do again.
Leave(g) ==
    /\ pc[g] \in {"returned", "panicked"}
    /\ Goto(g, "idle")
    /\ panicking' = [panicking EXCEPT ![g] = FALSE]
    /\ UNCHANGED <<done, m, runs>>

-----------------------------------------------------------------------------
Step(g) ==
    \/ doSlow(g) \/ CallF(g) \/ FEnds(g) \/ DeferredStore(g) \/ DeferredUnlock(g)
    \/ Leave(g)

Next == \E g \in G : Do(g) \/ Step(g)

Spec == Init /\ [][Next]_vars

\* f ends and the scheduler runs every goroutine.
FairSpec == Spec /\ \A g \in G : WF_vars(Step(g))

-----------------------------------------------------------------------------
\* "Do calls the function f if and only if Do is being called for the first
\* time", also when calls overlap and when f panics.
AtMostOnce == runs # "twice"

\* "Do guarantees that when it returns, f has finished", for every caller: those
\* of the fast path, those that waited for the lock, and the one that ran f.
DoneWhenReturned ==
    \A g \in G : pc[g] \in {"returned", "panicked"} => runs = "finished"

\* What Do promises of f: it runs once, and is over when any Do returns.
RunsOnceBeforeReturn == TypeOK /\ AtMostOnce /\ DoneWhenReturned

\* Every call of Do returns: after a panic of f nobody is locked out.
DoReturns == \A g \in G : pc[g] = "slow" ~> pc[g] \in {"returned", "panicked"}
====
