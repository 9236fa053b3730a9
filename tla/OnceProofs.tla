---- MODULE OnceProofs ----
(***************************************************************************)
(* Proofs about sync.Once (module Once), for any set of goroutines: f runs *)
(* once, and it is over when any call of Do returns.                       *)
(*                                                                         *)
(* Neither is inductive alone.  That f is not called again rests on the    *)
(* lock, held from the check of done to the store, and on done telling     *)
(* apart the states in which f has been called by nobody and by the holder *)
(* of the lock.                                                            *)
(***************************************************************************)
EXTENDS Once, TLAPS

Critical == {"check", "f", "store", "unlock"}

\* o.m is held exactly from doSlow's Lock to the deferred Unlock.
LockInv == \A g \in G : pc[g] \in Critical <=> m = g

\* What done says about the call of f.  While it is 0 only the goroutine that runs
\* f, or is about to store, has called it; nobody leaves Do before it is 1.
RunInv ==
    /\ done = 1 => runs = "finished"
    /\ done = 0 /\ (\A g \in G : pc[g] \notin {"f", "store"}) => runs = "never"
    /\ \A g \in G :
          /\ pc[g] = "f" => done = 0 /\ runs = "running"
          /\ pc[g] = "store" => done = 0 /\ runs = "finished"
          /\ pc[g] \in {"unlock", "returned", "panicked"} => done = 1

\* The inductive invariant.
IInv == TypeOK /\ LockInv /\ RunInv

-----------------------------------------------------------------------------
\* A new Once.
LEMMA InitIInv == Init => IInv
BY OnceAssumption DEF Init, IInv, TypeOK, LockInv, RunInv, Critical, Control

\* The fast path of Do, and its way into doSlow.
LEMMA DoStep == ASSUME NEW g \in G, IInv, Do(g) PROVE IInv'
<1> USE DEF IInv, Do, Goto
<1>1. TypeOK' /\ LockInv'
  BY DEF TypeOK, LockInv, Critical, Control
<1>2. RunInv'
  BY DEF TypeOK, RunInv, Control
<1>3. QED
  BY <1>1, <1>2

\* doSlow gets the lock: nobody else is between the check and the unlock.
LEMMA doSlowStep == ASSUME NEW g \in G, IInv, doSlow(g) PROVE IInv'
<1> USE DEF IInv, doSlow, Goto, M!Lock, M!Passes
<1>1. TypeOK'
  BY DEF TypeOK, Control
<1>2. LockInv'
  BY OnceAssumption DEF TypeOK, LockInv, Critical, Control
<1>3. RunInv'
  BY DEF TypeOK, RunInv, Control
<1>4. QED
  BY <1>1, <1>2, <1>3

\* Under the lock done decides whether f is called.  With done = 0 nobody has
\* called it: whoever had would still hold the lock.
LEMMA CallFStep == ASSUME NEW g \in G, IInv, CallF(g) PROVE IInv'
<1> USE DEF IInv, CallF, Goto, NotDone
<1>1. m = g /\ \A h \in G : pc[h] \in Critical => h = g
  BY DEF LockInv, Critical
<1>2. done = 0 => runs = "never"
  BY <1>1 DEF RunInv, Critical
<1>3. TypeOK'
  BY <1>2 DEF TypeOK, Control
<1>4. LockInv'
  BY <1>1 DEF TypeOK, LockInv, Critical, Control
<1>5. RunInv'
  BY <1>1, <1>2 DEF TypeOK, RunInv, Critical, Control
<1>6. QED
  BY <1>3, <1>4, <1>5

\* f returns or panics; its caller is the only one that ran it.
LEMMA FEndsStep == ASSUME NEW g \in G, IInv, FEnds(g) PROVE IInv'
<1> USE DEF IInv, FEnds, Goto
<1>1. m = g /\ \A h \in G : pc[h] \in Critical => h = g
  BY DEF LockInv, Critical
<1>2. done = 0 /\ runs = "running"
  BY DEF RunInv
<1>3. TypeOK'
  BY <1>1, <1>2 DEF TypeOK, Control
<1>4. LockInv'
  BY <1>1 DEF TypeOK, LockInv, Critical, Control
<1>5. RunInv'
  BY <1>1, <1>2 DEF TypeOK, RunInv, Critical, Control
<1>6. QED
  BY <1>3, <1>4, <1>5

\* The deferred store of done, with the lock still held.
LEMMA DeferredStoreStep == ASSUME NEW g \in G, IInv, DeferredStore(g) PROVE IInv'
<1> USE DEF IInv, DeferredStore, StoreDone, Goto
<1>1. m = g /\ \A h \in G : pc[h] \in Critical => h = g
  BY DEF LockInv, Critical
<1>2. runs = "finished"
  BY DEF RunInv
<1>3. TypeOK'
  BY <1>1 DEF TypeOK, Control
<1>4. LockInv'
  BY <1>1 DEF TypeOK, LockInv, Critical, Control
<1>5. RunInv'
  BY <1>1, <1>2 DEF TypeOK, RunInv, Critical, Control
<1>6. QED
  BY <1>3, <1>4, <1>5

\* The deferred unlock, after a return or a panic of f.
LEMMA DeferredUnlockStep == ASSUME NEW g \in G, IInv, DeferredUnlock(g) PROVE IInv'
<1> USE DEF IInv, DeferredUnlock, Goto, M!Unlock, M!Passes
<1>1. done = 1 /\ runs = "finished"
  BY DEF RunInv
<1>2. TypeOK'
  BY DEF TypeOK, Control
<1>3. LockInv'
  BY OnceAssumption DEF TypeOK, LockInv, Critical, Control
<1>4. RunInv'
  BY <1>1 DEF TypeOK, RunInv, Control
<1>5. QED
  BY <1>2, <1>3, <1>4

\* The caller goes on after Do.
LEMMA LeaveStep == ASSUME NEW g \in G, IInv, Leave(g) PROVE IInv'
<1> USE DEF IInv, Leave, Goto
<1>1. TypeOK' /\ LockInv'
  BY DEF TypeOK, LockInv, Critical, Control
<1>2. RunInv'
  BY DEF TypeOK, RunInv, Control
<1>3. QED
  BY <1>1, <1>2

\* Every step of Do keeps the invariant.
LEMMA NextIInv == IInv /\ [Next]_vars => IInv'
<1> SUFFICES ASSUME IInv, [Next]_vars PROVE IInv'
  OBVIOUS
<1>1. CASE UNCHANGED vars
  BY <1>1 DEF vars, IInv, TypeOK, LockInv, RunInv
<1>2. ASSUME NEW g \in G, Do(g) \/ Step(g) PROVE IInv'
  BY <1>2, DoStep, doSlowStep, CallFStep, FEndsStep, DeferredStoreStep, DeferredUnlockStep,
     LeaveStep DEF Step
<1>3. QED
  BY <1>1, <1>2 DEF Next

-----------------------------------------------------------------------------
\* Do (once.go) runs f at most once, whether calls overlap, wait for each other or f
\* panics, and f is over when any of them returns.
THEOREM OnceSafety == Spec => []RunsOnceBeforeReturn
<1>1. IInv => RunsOnceBeforeReturn
  BY DEF IInv, RunsOnceBeforeReturn, AtMostOnce, DoneWhenReturned, RunInv, TypeOK
<1>2. QED
  BY <1>1, InitIInv, NextIInv, PTL DEF Spec
====
