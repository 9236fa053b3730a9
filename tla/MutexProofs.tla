---- MODULE MutexProofs ----
(***************************************************************************)
(* Proofs about sync.Mutex (module Mutex), for any set of goroutines and   *)
(* any spin bound: types, mutual exclusion, the single wakeup token, and   *)
(* that no throw of mutex.go is reachable.                                 *)
(*                                                                         *)
(* None of these is inductive alone.  A goroutine back from the semaphore  *)
(* takes the mutex without looking whether it is locked, so mutual         *)
(* exclusion needs the single token; the token moves through the           *)
(* semaphore, so it needs the parked goroutines to have one owner each;    *)
(* and mutexWoken is cleared on the strength of the local awoke, so it     *)
(* needs what the locals say about m.state.                                *)
(***************************************************************************)
EXTENDS Mutex, Counting, TLAPS

\* A goroutine is inside a semaphore call exactly where mutex.go makes one.
CallInv ==
    \A g \in G :
        /\ call[g] \in {"acquire", "parked", "ticket"} <=> pc[g] = "sema"
        /\ call[g] \in {"post", "wake", "hand"} <=> pc[g] \in {"semrelease", "semhandoff"}

\* A parked goroutine is queued once or in the hand of one releaser, not both.
QueueInv ==
    /\ \A i \in DOMAIN waitq : call[waitq[i]] = "parked"
    /\ \A i, j \in DOMAIN waitq : waitq[i] = waitq[j] => i = j
    /\ \A r \in G : call[r] = "hand" =>
          /\ hand[r] \in G
          /\ call[hand[r]] = "parked"
          /\ \A i \in DOMAIN waitq : waitq[i] # hand[r]
          /\ \A q \in G : call[q] = "hand" /\ hand[q] = hand[r] => q = r

\* mutexLocked is set exactly while someone holds the mutex.
OwnerInv == state.locked <=> \E g \in G : pc[g] = "cs"

\* What the locals of lockSlow say about m.state.  A goroutine that is to take
\* over the mutex saw at most as many waiters as there are now.
LocalInv ==
    /\ state.starving => state.waiters > 0
    /\ \A g \in G :
        /\ awoke[g] => pc[g] = "loop" /\ old[g].woken
        /\ starving[g] => pc[g] \in {"sema", "woke", "handoff"} \/ awoke[g]
        /\ pc[g] = "handoff" => old[g].waiters > 0 /\ old[g].waiters <= state.waiters

\* The inductive invariant.
IInv == TypeOK /\ CallInv /\ QueueInv /\ MutualExclusion /\ OwnerInv /\ TokenInv /\ LocalInv

-----------------------------------------------------------------------------
\* The values lockSlow and unlockSlow write to m.state are states.
LEMMA BitsType ==
    ASSUME NEW l \in BOOLEAN, NEW w \in BOOLEAN, NEW s \in BOOLEAN, NEW n \in Nat
    PROVE  Bits(l, w, s, n) \in State
BY DEF Bits, State

\* The values locals are reset to.
LEMMA ResetType == Unlocked \in State /\ 0 \in 0..ActiveSpin
<1>1. Unlocked \in State
  BY BitsType DEF Unlocked
<1>2. 0 \in 0..ActiveSpin
  BY SpinAssumption
<1>3. QED
  BY <1>1, <1>2

\* Leaving lockSlow or unlockSlow keeps the locals well typed.
LEMMA DropLocalsType ==
    ASSUME TypeOK, NEW g \in G, DropLocals(g)
    PROVE  /\ old' \in [G -> State]
           /\ awoke' \in [G -> BOOLEAN]
           /\ starving' \in [G -> BOOLEAN]
           /\ iter' \in [G -> 0..ActiveSpin]
           /\ waited' \in [G -> BOOLEAN]
           /\ queueLifo' \in [G -> BOOLEAN]
BY ResetType DEF TypeOK, DropLocals

\* The CAS 0 -> mutexLocked in Lock.
LEMMA LockFastStep == ASSUME NEW g \in G, IInv, LockFast(g) PROVE IInv'
<1> USE DEF IInv, TypeOK, State, Unlocked, Bits, LockFast, Goto, locals, semaVars
<1>1. TypeOK'
  BY DEF SemaTypeOK, Control
<1>2. CallInv' /\ QueueInv'
  BY DEF CallInv, QueueInv
<1>3. MutualExclusion' /\ OwnerInv'
  BY DEF MutualExclusion, OwnerInv
<1>4. TokenInv'
  BY DEF TokenInv, TokenOut, Bearers, LocalInv, CallInv
<1>5. LocalInv'
  BY DEF LocalInv
<1>6. QED
  BY <1>1, <1>2, <1>3, <1>4, <1>5

\* Entering lockSlow.
LEMMA LockSlowStep == ASSUME NEW g \in G, IInv, LockSlow(g) PROVE IInv'
<1> USE DEF IInv, TypeOK, LockSlow, Goto, Reload, semaVars
<1>1. TypeOK'
  BY DEF SemaTypeOK, Control
<1>2. CallInv' /\ QueueInv'
  BY DEF CallInv, QueueInv
<1>3. MutualExclusion' /\ OwnerInv'
  BY DEF MutualExclusion, OwnerInv
<1>4. TokenInv'
  <2>1. ~awoke[g]
    BY DEF LocalInv
  <2>2. Bearers' = Bearers /\ g \notin Bearers
    BY <2>1 DEF Bearers, CallInv
  <2>3. QED
    BY <2>2 DEF TokenInv, TokenOut
<1>5. LocalInv'
  BY DEF LocalInv
<1>6. QED
  BY <1>1, <1>2, <1>3, <1>4, <1>5

\* A spin of lockSlow: setting mutexWoken makes the spinner the token bearer.
LEMMA SpinStep == ASSUME NEW g \in G, IInv, Spin(g) PROVE IInv'
<1> USE DEF IInv, semaVars
<1> DEFINE mark == ~awoke[g] /\ ~old[g].woken /\ old[g].waiters # 0 /\ state = old[g]
<1>0. /\ pc[g] = "loop" /\ UNCHANGED pc
      /\ state' = Bits(state.locked, state.woken \/ mark, state.starving, state.waiters)
      /\ awoke' = [awoke EXCEPT ![g] = awoke[g] \/ mark]
      /\ old' = [old EXCEPT ![g] = state']
      /\ iter' = [iter EXCEPT ![g] = iter[g] + 1]
      /\ UNCHANGED <<starving, waited, queueLifo, val, waitq, call, hand>>
      /\ iter[g] < ActiveSpin /\ old[g].locked /\ ~old[g].starving
  BY DEF Spin
<1>1. TypeOK'
  <2>1. state.locked \in BOOLEAN /\ state.starving \in BOOLEAN /\ state.waiters \in Nat
    BY DEF TypeOK, State
  <2>2. state' \in State
    BY <1>0, <2>1, BitsType
  <2>3. iter[g] + 1 \in 0..ActiveSpin
    BY <1>0, SpinAssumption DEF TypeOK
  <2>4. (awoke[g] \/ mark) \in BOOLEAN
    OBVIOUS
  <2>5. QED
    BY <2>2, <2>3, <2>4, <1>0 DEF TypeOK, SemaTypeOK
<1>2. CallInv' /\ QueueInv'
  BY <1>0 DEF CallInv, QueueInv
<1>3. MutualExclusion' /\ OwnerInv'
  BY <1>0 DEF MutualExclusion, OwnerInv, Bits
<1>4. TokenInv'
  BY <1>0 DEF TokenInv, TokenOut, Bearers, CallInv, LocalInv, Bits, TypeOK, State
<1>5. LocalInv'
  BY <1>0 DEF LocalInv, TokenInv, TokenOut, Bearers, Bits, TypeOK, State
<1>6. QED
  BY <1>1, <1>2, <1>3, <1>4, <1>5

\* A failed CAS in lockSlow; an awoke goroutine sees mutexWoken again.
LEMMA LockRetryStep == ASSUME NEW g \in G, IInv, LockRetry(g) PROVE IInv'
<1> USE DEF IInv, TypeOK, LockRetry, Reload, semaVars
<1>1. TypeOK'
  BY DEF SemaTypeOK
<1>2. CallInv' /\ QueueInv' /\ MutualExclusion' /\ OwnerInv'
  BY DEF CallInv, QueueInv, MutualExclusion, OwnerInv
<1>3. TokenInv'
  BY DEF TokenInv, TokenOut, Bearers
<1>4. LocalInv'
  BY DEF LocalInv, TokenInv, TokenOut, Bearers
<1>5. QED
  BY <1>1, <1>2, <1>3, <1>4

\* The CAS with which lockSlow takes the mutex.
LEMMA LockCASStep == ASSUME NEW g \in G, IInv, LockCAS(g) PROVE IInv'
<1> USE DEF IInv, LockCAS, semaVars
<1>1. TypeOK'
  <2>1. old[g] \in State /\ awoke[g] \in BOOLEAN /\ starving[g] \in BOOLEAN
    BY DEF TypeOK
  <2>2. Desired(g) \in State
    BY <2>1, BitsType DEF Desired, State
  <2>3. QED
    BY <2>2, DropLocalsType DEF TypeOK, SemaTypeOK, Goto, Control
<1>2. CallInv'
  BY DEF CallInv, TypeOK, Goto
<1>3. QueueInv'
  BY DEF QueueInv
<1> DEFINE o == old[g]
<1>0. /\ state = o /\ ~o.locked /\ ~o.starving /\ pc[g] = "loop"
      /\ state'.locked /\ ~state'.starving /\ (state'.woken <=> o.woken /\ ~awoke[g])
      /\ state'.waiters = o.waiters
      /\ pc' = [pc EXCEPT ![g] = "cs"]
      /\ awoke' = [awoke EXCEPT ![g] = FALSE]
      /\ awoke[g] => o.woken
  BY DEF Desired, Bits, MustWait, Goto, DropLocals, Throws, TypeOK, State
<1>4. MutualExclusion' /\ OwnerInv'
  BY <1>0 DEF MutualExclusion, OwnerInv, TypeOK
<1>5. TokenInv'
  <2>1. Bearers' = Bearers \ {g}
    BY <1>0 DEF Bearers, TypeOK, CallInv
  <2>2. CASE awoke[g]
    <3>1. g \in Bearers
      BY <1>0, <2>2 DEF Bearers
    <3>2. QED
      BY <3>1, <2>1, <2>2, <1>0 DEF TokenInv, TokenOut, TypeOK
  <2>3. CASE ~awoke[g]
    <3>1. Bearers' = Bearers
      BY <1>0, <2>1, <2>3 DEF Bearers, CallInv
    <3>2. QED
      BY <3>1, <2>3, <1>0 DEF TokenInv, TokenOut, TypeOK, Bearers
  <2>4. QED
    BY <2>2, <2>3 DEF TypeOK
<1>6. LocalInv'
  BY <1>0 DEF LocalInv, TypeOK, DropLocals
<1>7. QED
  BY <1>1, <1>2, <1>3, <1>4, <1>5, <1>6

\* The CAS with which lockSlow queues, possibly switching to starvation mode.
LEMMA WaitCASStep == ASSUME NEW g \in G, IInv, WaitCAS(g) PROVE IInv'
<1> USE DEF IInv
<1> DEFINE o == old[g]
<1>0. /\ pc[g] = "loop" /\ state = o /\ (o.locked \/ o.starving)
      /\ awoke[g] => o.woken
      /\ state' = Bits(o.locked \/ ~o.starving, o.woken /\ ~awoke[g],
                       o.starving \/ (starving[g] /\ o.locked), o.waiters + 1)
      /\ call[g] = "none" /\ call' = [call EXCEPT ![g] = "acquire"]
      /\ pc' = [pc EXCEPT ![g] = "sema"]
      /\ queueLifo' = [queueLifo EXCEPT ![g] = waited[g]]
      /\ waited' = [waited EXCEPT ![g] = TRUE]
      /\ old' = [old EXCEPT ![g] = Unlocked]
      /\ awoke' = [awoke EXCEPT ![g] = FALSE]
      /\ iter' = [iter EXCEPT ![g] = 0]
      /\ UNCHANGED <<starving, val, waitq, hand>>
  BY DEF WaitCAS, Throws, MustWait, Desired, BeginAcquire, Goto, TypeOK
<1>1. TypeOK'
  <2>1. o.waiters + 1 \in Nat
    BY DEF TypeOK, State
  <2>2. state' \in State
    BY <1>0, <2>1, BitsType
  <2>3. QED
    BY <2>2, <1>0, ResetType DEF TypeOK, SemaTypeOK, Control, Stages
<1>2. CallInv'
  BY <1>0 DEF CallInv, TypeOK, SemaTypeOK
<1>3. QueueInv'
  BY <1>0 DEF QueueInv, TypeOK, SemaTypeOK
<1>4. MutualExclusion' /\ OwnerInv'
  BY <1>0 DEF MutualExclusion, OwnerInv, Bits, TypeOK, State
<1>5. TokenInv'
  <2>1. Bearers' = Bearers \ {g}
    BY <1>0 DEF Bearers, TypeOK, SemaTypeOK, CallInv
  <2>2. CASE awoke[g]
    <3>1. g \in Bearers /\ ~o.starving
      BY <1>0, <2>2 DEF Bearers, TokenInv
    <3>2. ~TokenOut'
      BY <3>1, <2>1, <1>0 DEF TokenInv, TokenOut
    <3>3. QED
      BY <3>1, <3>2, <2>1, <2>2, <1>0 DEF TokenInv, TokenOut, TypeOK, SemaTypeOK, State, Bits
  <2>3. CASE ~awoke[g]
    <3>1. Bearers' = Bearers /\ g \notin Bearers /\ ~starving[g]
      BY <1>0, <2>1, <2>3 DEF Bearers, LocalInv, CallInv
    <3>2. QED
      BY <3>1, <2>3, <1>0 DEF TokenInv, TokenOut, TypeOK, SemaTypeOK, State, Bits, Bearers
  <2>4. QED
    BY <2>2, <2>3 DEF TypeOK
<1>6. LocalInv'
  BY <1>0 DEF LocalInv, TypeOK, State, Bits, Unlocked
<1>7. QED
  BY <1>1, <1>2, <1>3, <1>4, <1>5, <1>6

\* Going to sleep in semacquire1.
LEMMA SleepOnSemaStep == ASSUME NEW g \in G, IInv, SleepOnSema(g) PROVE IInv'
<1> USE DEF IInv, SleepOnSema, Park, locals
<1>0. waitq \in Seq(G) /\ waitq' = Pushed(waitq, g, queueLifo[g]) /\ waitq' \in Seq(G)
  BY DEF TypeOK, SemaTypeOK, Pushed
<1>1. TypeOK'
  BY <1>0 DEF TypeOK, SemaTypeOK, Stages
<1>2. CallInv'
  BY DEF CallInv, TypeOK, SemaTypeOK
<1>3. QueueInv'
  <2>1. /\ call[g] = "acquire" /\ call' = [call EXCEPT ![g] = "parked"]
        /\ \A i \in DOMAIN waitq : waitq[i] # g
        /\ \A r \in G : call[r] = "hand" => hand[r] # g
    BY DEF QueueInv, TypeOK, SemaTypeOK
  <2>2. CASE queueLifo[g]
    <3>1. /\ waitq' = <<g>> \o waitq
          /\ DOMAIN waitq' = 1 .. Len(waitq) + 1
          /\ DOMAIN waitq = 1 .. Len(waitq)
          /\ waitq'[1] = g
          /\ \A i \in 2 .. Len(waitq) + 1 : waitq'[i] = waitq[i - 1] /\ i - 1 \in DOMAIN waitq
      BY <2>2, <1>0 DEF Pushed
    <3>2. \A i \in DOMAIN waitq' : i = 1 \/ i \in 2 .. Len(waitq) + 1
      BY <3>1, <1>0
    <3>3. \A i \in DOMAIN waitq' : call'[waitq'[i]] = "parked"
      BY <3>1, <3>2, <2>1 DEF QueueInv, TypeOK, SemaTypeOK
    <3>4. \A i, j \in DOMAIN waitq' : waitq'[i] = waitq'[j] => i = j
      BY <3>1, <3>2, <2>1, <1>0 DEF QueueInv
    <3>5. \A r \in G : call'[r] = "hand" => \A i \in DOMAIN waitq' : waitq'[i] # hand'[r]
      BY <3>1, <3>2, <2>1 DEF QueueInv, TypeOK, SemaTypeOK
    <3>6. QED
      BY <3>3, <3>4, <3>5, <2>1 DEF QueueInv, TypeOK, SemaTypeOK
  <2>3. CASE ~queueLifo[g]
    <3>1. /\ waitq' = Append(waitq, g)
          /\ DOMAIN waitq' = 1 .. Len(waitq) + 1
          /\ DOMAIN waitq = 1 .. Len(waitq)
          /\ waitq'[Len(waitq) + 1] = g
          /\ \A i \in 1 .. Len(waitq) : waitq'[i] = waitq[i]
      BY <2>3, <1>0 DEF Pushed
    <3>2. \A i \in DOMAIN waitq' : i = Len(waitq) + 1 \/ i \in DOMAIN waitq
      BY <3>1, <1>0
    <3>3. \A i \in DOMAIN waitq' : call'[waitq'[i]] = "parked"
      BY <3>1, <3>2, <2>1 DEF QueueInv, TypeOK, SemaTypeOK
    <3>4. \A i, j \in DOMAIN waitq' : waitq'[i] = waitq'[j] => i = j
      BY <3>1, <3>2, <2>1, <1>0 DEF QueueInv
    <3>5. \A r \in G : call'[r] = "hand" => \A i \in DOMAIN waitq' : waitq'[i] # hand'[r]
      BY <3>1, <3>2, <2>1 DEF QueueInv, TypeOK, SemaTypeOK
    <3>6. QED
      BY <3>3, <3>4, <3>5, <2>1 DEF QueueInv, TypeOK, SemaTypeOK
  <2>4. QED
    BY <2>2, <2>3
<1>4. MutualExclusion' /\ OwnerInv' /\ LocalInv'
  BY DEF MutualExclusion, OwnerInv, LocalInv
<1>5. TokenInv'
  <2>1. Bearers' = Bearers
    BY DEF Bearers, TypeOK, SemaTypeOK
  <2>2. QED
    BY <2>1 DEF TokenInv, TokenOut
<1>6. QED
  BY <1>1, <1>2, <1>3, <1>4, <1>5

\* semacquire1 returns to lockSlow: the token passes to the goroutine.
LEMMA WakeFromSemaStep == ASSUME NEW g \in G, IInv, WakeFromSema(g) PROVE IInv'
<1> USE DEF IInv
<1>0. PICK late \in BOOLEAN : starving' = [starving EXCEPT ![g] = starving[g] \/ late]
  BY DEF WakeFromSema
<1>1. /\ pc[g] = "sema" /\ pc' = [pc EXCEPT ![g] = "woke"]
      /\ call[g] \in {"acquire", "ticket"} /\ call' = [call EXCEPT ![g] = "none"]
      /\ call[g] = "acquire" => val > 0 /\ val' = val - 1
      /\ call[g] = "ticket" => val' = val
      /\ UNCHANGED <<waitq, hand, state, old, awoke, iter, waited, queueLifo>>
  BY DEF WakeFromSema, Goto, Acquire, TakeTicket
<1>2. TypeOK'
  <2>1. (starving[g] \/ late) \in BOOLEAN
    OBVIOUS
  <2>2. val' \in Nat
    BY <1>1 DEF TypeOK, SemaTypeOK
  <2>3. QED
    BY <2>1, <2>2, <1>0, <1>1 DEF TypeOK, SemaTypeOK, Stages, Control
<1>3. CallInv'
  BY <1>1 DEF CallInv, TypeOK, SemaTypeOK
<1>4. QueueInv'
  <2>1. /\ \A i \in DOMAIN waitq : waitq[i] # g
        /\ \A r \in G : call[r] = "hand" => hand[r] # g
        /\ \A r \in G : call'[r] = "hand" => call[r] = "hand"
        /\ \A h \in G : h # g => call'[h] = call[h]
        /\ \A i \in DOMAIN waitq : waitq[i] \in G
    BY <1>1 DEF QueueInv, TypeOK, SemaTypeOK
  <2>2. QED
    BY <2>1, <1>1 DEF QueueInv
<1>5. MutualExclusion' /\ OwnerInv'
  BY <1>1 DEF MutualExclusion, OwnerInv, TypeOK
<1>6. TokenInv'
  <2>1. Bearers' = Bearers \cup {g}
    BY <1>1 DEF Bearers, TypeOK, SemaTypeOK, CallInv
  <2>2. CASE call[g] = "acquire"
    <3>1. val = 1 /\ val' = 0 /\ Bearers' = {g}
      BY <2>1, <2>2, <1>1 DEF TokenInv, TypeOK, SemaTypeOK
    <3>2. QED
      BY <3>1, <1>1 DEF TokenInv, TokenOut, TypeOK
  <2>3. CASE call[g] = "ticket"
    <3>1. g \in Bearers /\ Bearers' = Bearers /\ val' = val
      BY <2>1, <2>3, <1>1 DEF Bearers
    <3>2. QED
      BY <3>1, <1>1 DEF TokenInv, TokenOut, TypeOK
  <2>4. QED
    BY <1>1, <2>2, <2>3
<1>7. LocalInv'
  BY <1>0, <1>1 DEF LocalInv, TypeOK
<1>8. QED
  BY <1>2, <1>3, <1>4, <1>5, <1>6, <1>7

\* lockSlow reads m.state after its sleep.
LEMMA WokeStep == ASSUME NEW g \in G, IInv, Woke(g) PROVE IInv'
<1> USE DEF IInv, semaVars
<1>0. /\ pc[g] = "woke"
      /\ old' = [old EXCEPT ![g] = state]
      /\ state.starving => state.waiters > 0
      /\ UNCHANGED <<state, starving, iter, waited, queueLifo, val, waitq, call, hand>>
  BY DEF Woke, Reload, LocalInv
<1>1. \/ /\ ~state.starving
         /\ pc' = [pc EXCEPT ![g] = "loop"]
         /\ awoke' = [awoke EXCEPT ![g] = TRUE]
      \/ /\ state.starving
         /\ pc' = [pc EXCEPT ![g] = "handoff"]
         /\ awoke' = awoke
  BY DEF Woke, Goto
<1>2. TypeOK'
  BY <1>0, <1>1 DEF TypeOK, SemaTypeOK, Control
<1>3. CallInv' /\ QueueInv'
  BY <1>0, <1>1 DEF CallInv, QueueInv, TypeOK
<1>4. MutualExclusion'
  BY <1>1 DEF MutualExclusion, TypeOK
<1>5. OwnerInv'
  BY <1>0, <1>1 DEF OwnerInv, TypeOK
<1>6. TokenInv'
  <2>1. g \in Bearers /\ Bearers' = Bearers
    BY <1>0, <1>1 DEF Bearers, TypeOK
  <2>2. \A h \in Bearers : h = g
    BY <2>1 DEF TokenInv
  <2>3. QED
    BY <2>1, <2>2, <1>0, <1>1 DEF TokenInv, TokenOut, TypeOK
<1>7. LocalInv'
  <2>1. ~state.starving => state.woken
    BY <1>0 DEF TokenInv, TokenOut, Bearers
  <2>2. QED
    BY <2>1, <1>0, <1>1 DEF LocalInv, TypeOK, State
<1>8. QED
  BY <1>2, <1>3, <1>4, <1>5, <1>6, <1>7

\* The AddInt32 with which a waiter takes over a starving mutex.
LEMMA TakeOverStep == ASSUME NEW g \in G, IInv, TakeOver(g) PROVE IInv'
<1> USE DEF IInv, semaVars
<1>0. /\ pc[g] = "handoff" /\ pc' = [pc EXCEPT ![g] = "cs"]
      /\ state' = Bits(TRUE, state.woken, state.starving /\ ~ExitStarvation(g), state.waiters - 1)
      /\ DropLocals(g)
      /\ awoke' = [awoke EXCEPT ![g] = FALSE]
      /\ old' = [old EXCEPT ![g] = Unlocked]
      /\ starving' = [starving EXCEPT ![g] = FALSE]
      /\ UNCHANGED <<val, waitq, call, hand>>
  BY DEF TakeOver, Goto, DropLocals
<1>1. /\ g \in Bearers /\ state.starving /\ ~state.locked /\ ~state.woken
      /\ val = 0 /\ \A h \in Bearers : h = g
      /\ old[g].waiters > 0 /\ old[g].waiters <= state.waiters
  <2>1. g \in Bearers
    BY <1>0 DEF Bearers
  <2>2. state.starving
    BY <2>1, <1>0 DEF TokenInv
  <2>3. QED
    BY <2>1, <2>2, <1>0 DEF TokenInv, TokenOut, LocalInv, TypeOK, SemaTypeOK
<1>2. old[g].waiters \in Nat /\ state.waiters \in Nat /\ state.waiters - 1 \in Nat
  BY <1>1 DEF TypeOK, State
<1>3. TypeOK'
  <2>1. state' \in State
    <3>1. state.woken \in BOOLEAN /\ (state.starving /\ ~ExitStarvation(g)) \in BOOLEAN
      BY DEF TypeOK, State
    <3>2. QED
      BY <3>1, <1>0, <1>2, BitsType
  <2>2. QED
    BY <2>1, <1>0, DropLocalsType DEF TypeOK, SemaTypeOK, Control
<1>4. CallInv' /\ QueueInv'
  BY <1>0 DEF CallInv, QueueInv, TypeOK
<1>5. MutualExclusion' /\ OwnerInv'
  <2>1. \A h \in G : pc[h] # "cs"
    BY <1>1 DEF OwnerInv
  <2>2. QED
    BY <2>1, <1>0 DEF MutualExclusion, OwnerInv, TypeOK, Bits
<1>6. TokenInv'
  <2>1. Bearers' = {}
    BY <1>0, <1>1 DEF Bearers, TypeOK, CallInv
  <2>2. state'.locked /\ ~state'.woken
    BY <1>0, <1>1 DEF Bits
  <2>3. QED
    BY <2>1, <2>2, <1>0, <1>1 DEF TokenInv, TokenOut
<1>7. LocalInv'
  <2>1. state'.starving => state'.waiters > 0
    <3>1. state'.waiters = state.waiters - 1 /\ (state'.starving => ~ExitStarvation(g))
      BY <1>0 DEF Bits
    <3>2. ~ExitStarvation(g) => old[g].waiters # 1
      BY DEF ExitStarvation
    <3>3. QED
      BY <3>1, <3>2, <1>1, <1>2
  <2>2. \A h \in G : h # g => pc'[h] # "handoff" /\ pc'[h] = pc[h]
    BY <1>0, <1>1 DEF Bearers, TypeOK
  <2>3. QED
    BY <2>1, <2>2, <1>0 DEF LocalInv, TypeOK
<1>8. QED
  BY <1>3, <1>4, <1>5, <1>6, <1>7

\* Unlock: in starvation mode it issues the token.
LEMMA UnlockStep == ASSUME NEW g \in G, IInv, Unlock(g) PROVE IInv'
<1> USE DEF IInv
<1>0. /\ pc[g] = "cs" /\ state.locked
      /\ state' = Bits(FALSE, state.woken, state.starving, state.waiters)
      /\ UNCHANGED <<awoke, starving, iter, waited, queueLifo, val, waitq, hand>>
  BY DEF Unlock, Released, Throws
<1>1. \/ /\ ~state.starving
         /\ pc' = [pc EXCEPT ![g] = "idle"]
         /\ UNCHANGED <<old, call>>
      \/ /\ ~state.starving
         /\ pc' = [pc EXCEPT ![g] = "unlockLoop"]
         /\ old' = [old EXCEPT ![g] = state']
         /\ UNCHANGED call
      \/ /\ state.starving
         /\ pc' = [pc EXCEPT ![g] = "semhandoff"]
         /\ call[g] = "none" /\ call' = [call EXCEPT ![g] = "post"]
         /\ UNCHANGED old
  BY DEF Unlock, Released, Unlocked, Bits, Goto, BeginRelease
<1>2. TypeOK'
  <2>1. state' \in State
    <3>1. state.woken \in BOOLEAN /\ state.starving \in BOOLEAN /\ state.waiters \in Nat
      BY DEF TypeOK, State
    <3>2. QED
      BY <3>1, <1>0, BitsType
  <2>2. pc' \in [G -> Control] /\ call' \in [G -> Stages]
    BY <1>1 DEF TypeOK, SemaTypeOK, Control, Stages
  <2>3. old' \in [G -> State]
    BY <2>1, <1>1 DEF TypeOK
  <2>4. QED
    BY <2>1, <2>2, <2>3, <1>0 DEF TypeOK, SemaTypeOK
<1>3. CallInv'
  <2>1. call[g] = "none"
    BY <1>0 DEF CallInv, TypeOK, SemaTypeOK, Stages
  <2>2. QED
    BY <2>1, <1>0, <1>1 DEF CallInv, TypeOK, SemaTypeOK
<1>4. QueueInv'
  <2>1. \A h \in G : /\ call[h] = "parked" => call'[h] = "parked"
                     /\ call'[h] = "hand" => call[h] = "hand"
    BY <1>0, <1>1 DEF TypeOK, SemaTypeOK
  <2>2. \A i \in DOMAIN waitq : waitq[i] \in G
    BY DEF TypeOK, SemaTypeOK
  <2>3. QED
    BY <2>1, <2>2, <1>0 DEF QueueInv
<1>5. MutualExclusion' /\ OwnerInv'
  BY <1>0, <1>1 DEF MutualExclusion, OwnerInv, TypeOK, Bits
<1>6. TokenInv'
  <2>1. /\ state'.woken = state.woken /\ state'.starving = state.starving /\ ~state'.locked
        /\ g \notin Bearers
    BY <1>0 DEF Bits, Bearers, CallInv
  <2>2. CASE state.starving
    <3>1. Bearers' = Bearers \cup {g}
      BY <2>2, <1>0, <1>1 DEF Bearers, TypeOK, SemaTypeOK, CallInv
    <3>2. Bearers = {} /\ val = 0
      BY <2>2, <1>0 DEF TokenInv, TokenOut, TypeOK, SemaTypeOK
    <3>3. pc'[g] = "semhandoff"
      BY <2>2, <1>1 DEF TypeOK
    <3>4. QED
      BY <2>1, <2>2, <3>1, <3>2, <3>3, <1>0 DEF TokenInv, TokenOut
  <2>3. CASE ~state.starving
    <3>1. /\ Bearers' = Bearers
          /\ \A h \in Bearers : pc'[h] = pc[h]
      BY <2>1, <2>3, <1>0, <1>1 DEF Bearers, TypeOK, SemaTypeOK
    <3>2. QED
      BY <2>1, <2>3, <3>1, <1>0 DEF TokenInv, TokenOut
  <2>4. QED
    BY <2>2, <2>3
<1>7. LocalInv'
  BY <1>0, <1>1 DEF LocalInv, TypeOK, Bits
<1>8. QED
  BY <1>2, <1>3, <1>4, <1>5, <1>6, <1>7

\* unlockSlow returns without waking anyone.
LEMMA UnlockDoneStep == ASSUME NEW g \in G, IInv, UnlockDone(g) PROVE IInv'
<1> USE DEF IInv, UnlockDone, Goto, semaVars
<1>1. TypeOK'
  BY DropLocalsType DEF TypeOK, SemaTypeOK, Control
<1>2. CallInv' /\ QueueInv' /\ MutualExclusion' /\ OwnerInv'
  BY DEF CallInv, QueueInv, MutualExclusion, OwnerInv, TypeOK
<1>3. TokenInv'
  <2>1. /\ Bearers' = Bearers
        /\ \A h \in Bearers : pc'[h] = pc[h]
    BY DEF Bearers, DropLocals, TypeOK, CallInv
  <2>2. QED
    BY <2>1 DEF TokenInv, TokenOut
<1>4. LocalInv'
  BY DEF LocalInv, DropLocals, TypeOK
<1>5. QED
  BY <1>1, <1>2, <1>3, <1>4

\* A failed CAS in unlockSlow.
LEMMA UnlockRetryStep == ASSUME NEW g \in G, IInv, UnlockRetry(g) PROVE IInv'
<1> USE DEF IInv, UnlockRetry, Reload, semaVars
<1>1. TypeOK'
  BY DEF TypeOK, SemaTypeOK
<1>2. CallInv' /\ QueueInv' /\ MutualExclusion' /\ OwnerInv'
  BY DEF CallInv, QueueInv, MutualExclusion, OwnerInv
<1>3. TokenInv'
  BY DEF TokenInv, TokenOut, Bearers
<1>4. LocalInv'
  BY DEF LocalInv, TypeOK
<1>5. QED
  BY <1>1, <1>2, <1>3, <1>4

\* unlockSlow grabs the right to wake someone: it issues the token.
LEMMA WakeCASStep == ASSUME NEW g \in G, IInv, WakeCAS(g) PROVE IInv'
<1> USE DEF IInv
<1>0. /\ pc[g] = "unlockLoop" /\ pc' = [pc EXCEPT ![g] = "semrelease"]
      /\ ~state.locked /\ ~state.woken /\ ~state.starving /\ state.waiters # 0
      /\ state' = Bits(state.locked, TRUE, state.starving, state.waiters - 1)
      /\ call[g] = "none" /\ call' = [call EXCEPT ![g] = "post"]
      /\ DropLocals(g)
      /\ UNCHANGED <<val, waitq, hand>>
  BY DEF WakeCAS, NobodyToWake, BeginRelease, Goto
<1>1. TypeOK'
  <2>1. /\ state.locked \in BOOLEAN /\ state.starving \in BOOLEAN
        /\ state.waiters - 1 \in Nat
    BY <1>0 DEF TypeOK, State
  <2>2. state' \in State
    BY <2>1, <1>0, BitsType
  <2>3. QED
    BY <2>2, <1>0, DropLocalsType DEF TypeOK, SemaTypeOK, Control, Stages
<1>2. CallInv'
  BY <1>0 DEF CallInv, TypeOK, SemaTypeOK
<1>3. QueueInv'
  BY <1>0 DEF QueueInv, TypeOK, SemaTypeOK
<1>4. MutualExclusion' /\ OwnerInv'
  BY <1>0 DEF MutualExclusion, OwnerInv, TypeOK, Bits
<1>5. TokenInv'
  <2>1. Bearers' = Bearers \cup {g}
    BY <1>0 DEF Bearers, DropLocals, TypeOK, SemaTypeOK, CallInv
  <2>2. Bearers = {} /\ val = 0
    BY <1>0 DEF TokenInv, TokenOut, TypeOK, SemaTypeOK
  <2>3. /\ state'.woken /\ ~state'.starving /\ ~state'.locked
        /\ pc'[g] = "semrelease"
    BY <1>0 DEF Bits, TypeOK
  <2>4. QED
    BY <2>1, <2>2, <2>3, <1>0 DEF TokenInv, TokenOut
<1>6. LocalInv'
  <2>1. \A h \in G : pc[h] # "handoff"
    BY <1>0 DEF TokenInv, Bearers
  <2>2. QED
    BY <2>1, <1>0 DEF LocalInv, DropLocals, TypeOK, Bits
<1>7. QED
  BY <1>1, <1>2, <1>3, <1>4, <1>5, <1>6

\* semrelease1 posts the permit and takes a waiter off the queue.
LEMMA SemreleaseStepStep == ASSUME NEW g \in G, IInv, SemreleaseStep(g) PROVE IInv'
<1> USE DEF IInv, SemreleaseStep, locals
<1>1. CASE Post(g)
  <2> USE <1>1 DEF Post
  <2>1. TypeOK'
    BY DEF TypeOK, SemaTypeOK, Stages
  <2>2. CallInv' /\ QueueInv' /\ MutualExclusion' /\ OwnerInv' /\ LocalInv'
    BY DEF CallInv, QueueInv, MutualExclusion, OwnerInv, LocalInv, TypeOK, SemaTypeOK
  <2>3. TokenInv'
    <3>1. g \in Bearers /\ Bearers' = Bearers \ {g}
      BY DEF Bearers, TypeOK, SemaTypeOK
    <3>2. val = 0 /\ Bearers' = {}
      BY <3>1 DEF TokenInv, TypeOK, SemaTypeOK
    <3>3. QED
      BY <3>1, <3>2 DEF TokenInv, TokenOut
  <2>4. QED
    BY <2>1, <2>2, <2>3
<1>2. CASE Dequeue(g)
  <2> USE <1>2 DEF Dequeue
  <2>1. /\ waitq \in Seq(G) /\ waitq # <<>>
        /\ waitq' \in Seq(G)
        /\ 1 \in DOMAIN waitq /\ Head(waitq) = waitq[1] /\ Head(waitq) \in G
        /\ \A i \in DOMAIN waitq' : i + 1 \in DOMAIN waitq /\ waitq'[i] = waitq[i + 1] /\ i + 1 # 1 /\ i \in Nat
    BY DEF TypeOK, SemaTypeOK
  <2>2. TypeOK'
    BY <2>1 DEF TypeOK, SemaTypeOK, Stages
  <2>3. CallInv' /\ MutualExclusion' /\ OwnerInv' /\ LocalInv'
    BY DEF CallInv, MutualExclusion, OwnerInv, LocalInv, TypeOK, SemaTypeOK
  <2>4. QueueInv'
    <3>1. /\ call[g] = "wake" /\ call' = [call EXCEPT ![g] = "hand"]
          /\ hand' = [hand EXCEPT ![g] = waitq[1]]
          /\ call \in [G -> Stages] /\ hand \in [G -> G \cup {NoG}]
      BY <2>1 DEF TypeOK, SemaTypeOK
    <3>2. \A i \in DOMAIN waitq' : call'[waitq'[i]] = "parked"
      BY <3>1, <2>1 DEF QueueInv
    <3>3. \A i, j \in DOMAIN waitq' : waitq'[i] = waitq'[j] => i = j
      BY <2>1 DEF QueueInv
    <3>4. ASSUME NEW r \in G, call'[r] = "hand"
          PROVE  /\ hand'[r] \in G
                 /\ call'[hand'[r]] = "parked"
                 /\ \A i \in DOMAIN waitq' : waitq'[i] # hand'[r]
                 /\ \A q \in G : call'[q] = "hand" /\ hand'[q] = hand'[r] => q = r
      BY <3>1, <3>4, <2>1 DEF QueueInv
    <3>5. QED
      BY <3>2, <3>3, <3>4 DEF QueueInv
  <2>5. TokenInv'
    <3>1. Bearers' = Bearers
      BY DEF Bearers, TypeOK, SemaTypeOK
    <3>2. QED
      BY <3>1 DEF TokenInv, TokenOut
  <2>6. QED
    BY <2>2, <2>3, <2>4, <2>5
<1>3. QED
  BY <1>1, <1>2

\* semrelease1 returns: there was no waiter, or it readies the one it took.
LEMMA SemreleaseReturnStep == ASSUME NEW g \in G, IInv, SemreleaseReturn(g) PROVE IInv'
<1> USE DEF IInv, SemreleaseReturn, Goto, locals
<1>1. CASE NoWaiter(g)
  <2> USE <1>1 DEF NoWaiter
  <2>1. TypeOK'
    BY DEF TypeOK, SemaTypeOK, Stages, Control
  <2>2. CallInv' /\ QueueInv' /\ MutualExclusion' /\ OwnerInv' /\ LocalInv'
    BY DEF CallInv, QueueInv, MutualExclusion, OwnerInv, LocalInv, TypeOK, SemaTypeOK
  <2>3. TokenInv'
    <3>1. Bearers' = Bearers /\ g \notin Bearers
      BY DEF Bearers, TypeOK, SemaTypeOK
    <3>2. \A h \in Bearers : pc'[h] = pc[h]
      BY <3>1 DEF TypeOK, Bearers
    <3>3. QED
      BY <3>1, <3>2 DEF TokenInv, TokenOut
  <2>4. QED
    BY <2>1, <2>2, <2>3
<1>2. CASE Ready(g, pc[g] = "semhandoff")
  <2> DEFINE h == hand[g]
             direct == pc[g] = "semhandoff" /\ val > 0
  <2>0. /\ call[g] = "hand" /\ h \in G /\ call[h] = "parked" /\ h # g
        /\ pc[g] \in {"semrelease", "semhandoff"} /\ pc[h] = "sema"
    BY <1>2 DEF Ready, QueueInv, CallInv
  <2>1. /\ val' = IF direct THEN val - 1 ELSE val
        /\ call' = [call EXCEPT ![g] = "none", ![h] = IF direct THEN "ticket" ELSE "acquire"]
        /\ hand' = [hand EXCEPT ![g] = NoG]
        /\ pc' = [pc EXCEPT ![g] = "idle"]
        /\ UNCHANGED <<waitq, state, old, awoke, starving, iter, waited, queueLifo>>
    BY <1>2 DEF Ready
  <2>2. /\ call'[g] = "none" /\ call'[h] \in {"ticket", "acquire"}
        /\ call'[h] = "ticket" <=> direct
        /\ \A k \in G : k # g /\ k # h => call'[k] = call[k]
        /\ pc'[g] = "idle" /\ \A k \in G : k # g => pc'[k] = pc[k]
        /\ \A k \in G : k # g => hand'[k] = hand[k]
    BY <2>0, <2>1 DEF TypeOK, SemaTypeOK
  <2>3. TypeOK'
    <3>1. val' \in Nat
      BY <2>1 DEF TypeOK, SemaTypeOK
    <3>2. call' \in [G -> Stages]
      BY <2>0, <2>1 DEF TypeOK, SemaTypeOK, Stages
    <3>3. QED
      BY <3>1, <3>2, <2>1 DEF TypeOK, SemaTypeOK, Control
  <2>4. CallInv'
    BY <2>0, <2>2 DEF CallInv
  <2>5. QueueInv'
    <3>1. \A i \in DOMAIN waitq : waitq[i] \in G /\ waitq[i] # h /\ waitq[i] # g
      BY <2>0 DEF QueueInv, TypeOK, SemaTypeOK
    <3>2. \A r \in G : call'[r] = "hand" =>
             r # g /\ r # h /\ call[r] = "hand" /\ hand[r] # h /\ hand[r] # g
      BY <2>0, <2>2 DEF QueueInv
    <3>3. \A i \in DOMAIN waitq : call'[waitq[i]] = "parked"
      BY <3>1, <2>2 DEF QueueInv
    <3>4. ASSUME NEW r \in G, call'[r] = "hand"
          PROVE  /\ hand'[r] \in G
                 /\ call'[hand'[r]] = "parked"
                 /\ \A i \in DOMAIN waitq : waitq[i] # hand'[r]
                 /\ \A q \in G : call'[q] = "hand" /\ hand'[q] = hand'[r] => q = r
      <4>1. hand'[r] = hand[r] /\ hand[r] \in G /\ call[hand[r]] = "parked"
        BY <3>2, <3>4, <2>2 DEF QueueInv
      <4>2. call'[hand[r]] = "parked"
        BY <4>1, <3>2, <3>4, <2>2
      <4>3. \A i \in DOMAIN waitq : waitq[i] # hand[r]
        BY <3>2, <3>4 DEF QueueInv
      <4>4. \A q \in G : call'[q] = "hand" /\ hand'[q] = hand[r] => q = r
        BY <3>2, <3>4, <2>2 DEF QueueInv
      <4>5. QED
        BY <4>1, <4>2, <4>3, <4>4
    <3>5. QED
      BY <3>3, <3>4, <2>1 DEF QueueInv
  <2>6. MutualExclusion' /\ OwnerInv'
    BY <2>0, <2>1, <2>2 DEF MutualExclusion, OwnerInv
  <2>7. TokenInv'
    <3>0. g \notin Bearers /\ h \notin Bearers
      BY <2>0 DEF Bearers
    <3>1. Bearers' = IF direct THEN Bearers \cup {h} ELSE Bearers
      BY <2>0, <2>1, <2>2, <3>0 DEF Bearers
    <3>2. \A k \in Bearers' : pc'[k] = pc[k]
      BY <2>0, <2>2, <3>0, <3>1 DEF Bearers
    <3>3. CASE direct
      <4>1. val = 1 /\ val' = 0 /\ Bearers' = {h}
        BY <3>1, <3>3, <2>1 DEF TokenInv, TypeOK, SemaTypeOK
      <4>2. QED
        BY <4>1, <3>2, <2>0, <2>1 DEF TokenInv, TokenOut
    <3>4. CASE ~direct
      BY <3>1, <3>2, <3>4, <2>1 DEF TokenInv, TokenOut
    <3>5. QED
      BY <3>3, <3>4
  <2>8. LocalInv'
    BY <2>0, <2>1, <2>2 DEF LocalInv
  <2>9. QED
    BY <2>3, <2>4, <2>5, <2>6, <2>7, <2>8
<1>3. QED
  BY <1>1, <1>2

\* The initial state satisfies the invariant.
LEMMA InitIInv == Init => IInv
<1> SUFFICES ASSUME Init PROVE IInv
  OBVIOUS
<1> USE DEF Init, SemaInit
<1>1. TypeOK
  BY ResetType DEF TypeOK, SemaTypeOK, Stages, Control
<1>2. CallInv /\ QueueInv /\ MutualExclusion /\ OwnerInv
  BY DEF CallInv, QueueInv, MutualExclusion, OwnerInv, Unlocked, Bits
<1>3. TokenInv
  <2>1. Bearers = {}
    BY DEF Bearers
  <2>2. QED
    BY <2>1 DEF TokenInv, TokenOut, Unlocked, Bits
<1>4. LocalInv
  BY DEF LocalInv, Unlocked, Bits
<1>5. QED
  BY <1>1, <1>2, <1>3, <1>4 DEF IInv

\* Every step preserves it.
LEMMA NextIInv == IInv /\ [Next]_vars => IInv'
<1> SUFFICES ASSUME IInv, [Next]_vars PROVE IInv'
  OBVIOUS
<1>1. CASE Next
  <2>1. PICK g \in G : LockFast(g) \/ LockSlow(g) \/ Step(g)
    BY <1>1 DEF Next
  <2>2. CASE LockFast(g) \/ LockSlow(g)
    BY <2>2, LockFastStep, LockSlowStep
  <2>3. CASE Spin(g) \/ LockRetry(g) \/ LockCAS(g) \/ WaitCAS(g)
    BY <2>3, SpinStep, LockRetryStep, LockCASStep, WaitCASStep
  <2>4. CASE SleepOnSema(g) \/ WakeFromSema(g) \/ Woke(g) \/ TakeOver(g)
    BY <2>4, SleepOnSemaStep, WakeFromSemaStep, WokeStep, TakeOverStep
  <2>5. CASE Unlock(g) \/ UnlockDone(g) \/ UnlockRetry(g) \/ WakeCAS(g)
    BY <2>5, UnlockStep, UnlockDoneStep, UnlockRetryStep, WakeCASStep
  <2>6. CASE SemreleaseStep(g) \/ SemreleaseReturn(g)
    BY <2>6, SemreleaseStepStep, SemreleaseReturnStep
  <2>7. QED
    BY <2>1, <2>2, <2>3, <2>4, <2>5, <2>6 DEF Step
<1>2. CASE UNCHANGED vars
  BY <1>2 DEF vars, locals, semaVars, IInv, TypeOK, SemaTypeOK, CallInv, QueueInv,
              MutualExclusion, OwnerInv, TokenInv, TokenOut, Bearers, LocalInv
<1>3. QED
  BY <1>1, <1>2

\* The invariant holds throughout.
THEOREM Invariance == Spec => []IInv
BY InitIInv, NextIInv, PTL DEF Spec

\* Type correctness: in particular the waiter count never goes below zero.
THEOREM TypeCorrectness == Spec => []TypeOK
<1>1. IInv => TypeOK
  BY DEF IInv
<1>2. QED
  BY <1>1, Invariance, PTL

\* At most one goroutine holds the mutex.
THEOREM MutexExclusion == Spec => []MutualExclusion
<1>1. IInv => MutualExclusion
  BY DEF IInv
<1>2. QED
  BY <1>1, Invariance, PTL

\* At most one wakeup is under way, and mutexWoken tells exactly whether.
THEOREM SingleWakeup == Spec => []TokenInv
<1>1. IInv => TokenInv
  BY DEF IInv
<1>2. QED
  BY <1>1, Invariance, PTL

\* No goroutine throws.
THEOREM NeverThrows == Spec => []NoThrow
<1>1. IInv => NoThrow
  <2> SUFFICES ASSUME IInv, NEW g \in G PROVE ~Throws(g)
    BY DEF NoThrow
  <2>1. ~(pc[g] = "loop" /\ awoke[g] /\ ~old[g].woken)
    BY DEF IInv, LocalInv
  <2>2. ~(pc[g] = "woke" /\ state.starving /\ Inconsistent(state))
    <3> SUFFICES ASSUME pc[g] = "woke", state.starving PROVE ~Inconsistent(state)
      OBVIOUS
    <3>1. TokenOut
      BY DEF TokenOut, Bearers
    <3>2. QED
      BY <3>1 DEF IInv, TokenInv, LocalInv, Inconsistent, TypeOK, State
  <2>3. ~(pc[g] = "cs" /\ ~state.locked)
    BY DEF IInv, OwnerInv
  <2>4. QED
    BY <2>1, <2>2, <2>3 DEF Throws
<1>2. QED
  BY <1>1, Invariance, PTL

-----------------------------------------------------------------------------
\* Refinement of OwnedLock.

\* The owner in terms of the program counters p.
OwnerIn(p) == IF \E g \in G : p[g] = "cs" THEN CHOOSE g \in G : p[g] = "cs" ELSE NoG

\* The only goroutine in its critical section is the owner.
LEMMA OwnerIsThatOne ==
    ASSUME NEW p, NEW g \in G, p[g] = "cs", \A h \in G : p[h] = "cs" => h = g
    PROVE  OwnerIn(p) = g
<1>1. (CHOOSE h \in G : p[h] = "cs") = g
  OBVIOUS
<1>2. QED
  BY <1>1 DEF OwnerIn

\* Without one there is no owner.
LEMMA OwnerIsNobody ==
    ASSUME NEW p, \A h \in G : p[h] # "cs"
    PROVE  OwnerIn(p) = NoG
BY DEF OwnerIn

\* A goroutine that enters its critical section takes the lock.
LEMMA EnterIsLock ==
    ASSUME NEW g \in G, \A h \in G : pc[h] # "cs",
           pc'[g] = "cs", \A h \in G : pc'[h] = "cs" => h = g
    PROVE  Lockr!Lock(g)
<1>1. OwnerIn(pc) = NoG
  BY OwnerIsNobody
<1>2. OwnerIn(pc') = g
  BY OwnerIsThatOne
<1>3. QED
  BY <1>1, <1>2 DEF Lockr!Lock, Lockr!Passes, Owner, OwnerIn

\* A goroutine that leaves it gives the lock back.
LEMMA LeaveIsUnlock ==
    ASSUME NEW g \in G, pc[g] = "cs", \A h \in G : pc[h] = "cs" => h = g,
           \A h \in G : pc'[h] # "cs"
    PROVE  Lockr!Unlock(g)
<1>1. OwnerIn(pc) = g
  BY OwnerIsThatOne
<1>2. OwnerIn(pc') = NoG
  BY OwnerIsNobody
<1>3. QED
  BY <1>1, <1>2 DEF Lockr!Unlock, Lockr!Passes, Owner, OwnerIn

\* Any other step leaves the owner alone.
LEMMA SameOwner ==
    ASSUME MutualExclusion, \A h \in G : pc'[h] = "cs" <=> pc[h] = "cs"
    PROVE  Owner' = Owner
<1>1. CASE \E g \in G : pc[g] = "cs"
  <2>1. PICK g \in G : pc[g] = "cs"
    BY <1>1
  <2>2. \A h \in G : pc[h] = "cs" => h = g
    BY <2>1 DEF MutualExclusion
  <2>3. OwnerIn(pc) = g /\ OwnerIn(pc') = g
    BY <2>1, <2>2, OwnerIsThatOne
  <2>4. QED
    BY <2>3 DEF Owner, OwnerIn
<1>2. CASE \A g \in G : pc[g] # "cs"
  <2>1. OwnerIn(pc) = NoG /\ OwnerIn(pc') = NoG
    BY <1>2, OwnerIsNobody
  <2>2. QED
    BY <2>1 DEF Owner, OwnerIn
<1>3. QED
  BY <1>1, <1>2

\* Taking the mutex, by whichever of the three ways, finds it free.
LEMMA TakingIsLock ==
    ASSUME IInv, IInv', NEW g \in G, LockFast(g) \/ LockCAS(g) \/ TakeOver(g)
    PROVE  Lockr!Lock(g)
<1>1. pc \in [G -> Control] /\ pc' = [pc EXCEPT ![g] = "cs"]
  BY DEF IInv, TypeOK, LockFast, LockCAS, TakeOver, Goto
<1>2. ~state.locked
  <2>1. CASE LockFast(g)
    BY <2>1 DEF LockFast, Unlocked, Bits
  <2>2. CASE LockCAS(g)
    BY <2>2 DEF LockCAS, MustWait
  <2>3. CASE TakeOver(g)
    BY <2>3 DEF IInv, TakeOver, TokenInv, TokenOut, Bearers
  <2>4. QED
    BY <2>1, <2>2, <2>3
<1>3. \A h \in G : pc[h] # "cs"
  BY <1>2 DEF IInv, OwnerInv
<1>4. pc'[g] = "cs" /\ \A h \in G : pc'[h] = "cs" => h = g
  BY <1>1, <1>3
<1>5. QED
  BY <1>3, <1>4, EnterIsLock

\* Every step of the mutex is a step of OwnedLock or changes nothing there.
LEMMA NextRefines == IInv /\ IInv' /\ [Next]_vars => [Lockr!ChangesHands]_Owner
<1> SUFFICES ASSUME IInv, IInv', [Next]_vars PROVE Lockr!ChangesHands \/ Owner' = Owner
  OBVIOUS
<1>0. MutualExclusion /\ pc \in [G -> Control]
  BY DEF IInv, TypeOK
<1>1. CASE Next
  <2>1. PICK g \in G : LockFast(g) \/ LockSlow(g) \/ Step(g)
    BY <1>1 DEF Next
  <2>2. CASE LockFast(g) \/ LockCAS(g) \/ TakeOver(g)
    BY <2>2, TakingIsLock DEF Lockr!ChangesHands
  <2>3. CASE Unlock(g)
    <3>1. pc[g] = "cs" /\ pc'[g] # "cs" /\ \A h \in G \ {g} : pc'[h] = pc[h]
      BY <1>0, <2>3 DEF Unlock, Goto
    <3>2. \A h \in G : pc[h] = "cs" => h = g
      BY <3>1, <1>0 DEF MutualExclusion
    <3>3. \A h \in G : pc'[h] # "cs"
      BY <3>1, <3>2
    <3>4. QED
      BY <3>1, <3>2, <3>3, LeaveIsUnlock DEF Lockr!ChangesHands
  <2>4. CASE \/ LockSlow(g) \/ Spin(g) \/ LockRetry(g) \/ WaitCAS(g) \/ SleepOnSema(g)
             \/ WakeFromSema(g) \/ Woke(g) \/ UnlockDone(g) \/ UnlockRetry(g)
             \/ WakeCAS(g) \/ SemreleaseStep(g) \/ SemreleaseReturn(g)
    <3>1. \A h \in G : pc'[h] = "cs" <=> pc[h] = "cs"
      BY <1>0, <2>4 DEF LockSlow, Spin, LockRetry, WaitCAS, SleepOnSema, WakeFromSema,
         Woke, UnlockDone, UnlockRetry, WakeCAS, SemreleaseStep, SemreleaseReturn, Goto
    <3>2. QED
      BY <1>0, <3>1, SameOwner
  <2>5. QED
    BY <2>1, <2>2, <2>3, <2>4 DEF Step
<1>2. CASE UNCHANGED vars
  BY <1>2 DEF vars, Owner
<1>3. QED
  BY <1>1, <1>2

\* The mutex is safe for any set of goroutines: types, exclusion and no throws.
THEOREM MutexSafety == Spec => []MutexSafe
<1>1. TypeOK /\ MutualExclusion /\ NoThrow => MutexSafe
  BY DEF MutexSafe
<1>2. QED
  BY <1>1, TypeCorrectness, MutexExclusion, NeverThrows, PTL

\* sync.Mutex implements sync.Locker: Lock returns only when nobody holds the
\* mutex, and only its owner's Unlock frees it.
THEOREM LockerRefinement == Spec => ImplementsLocker
<1>1. Init => Lockr!Free
  BY OwnerIsNobody DEF Init, Lockr!Free, Owner, OwnerIn
<1>2. QED
  BY <1>1, NextRefines, Invariance, PTL DEF Spec, ImplementsLocker, Lockr!Spec

-----------------------------------------------------------------------------
\* The waiter count.  Nothing bounds the goroutines of the program; the sets that
\* are counted are finite because they begin empty and change by one at a time.

CountInv == IsFiniteSet(Waiting) /\ WaiterCount

\* At most one goroutine carries a wakeup, and none if none is under way.
LEMMA CarriersFew ==
    ASSUME IInv
    PROVE  /\ IsFiniteSet(Carriers) /\ IsFiniteSet(Tickets)
           /\ Tickets \subseteq Carriers /\ Carriers \subseteq Bearers
           /\ Bearers = {} \/ \E b \in Bearers : Bearers = {b}
           /\ Cardinality({}) = 0
<1>1. Tickets \subseteq Carriers /\ Carriers \subseteq Bearers
  BY DEF Tickets, Carriers, Bearers
<1>2. Bearers = {} \/ \E b \in Bearers : Bearers = {b}
  BY DEF IInv, TokenInv
<1>3. IsFiniteSet(Bearers)
  <2>1. CASE Bearers = {}
    BY <2>1, FS_EmptySet
  <2>2. CASE \E b \in Bearers : Bearers = {b}
    <3>1. PICK b : Bearers = {b}
      BY <2>2
    <3>2. IsFiniteSet({b})
      BY FS_Singleton
    <3>3. QED
      BY <3>1, <3>2
  <2>3. QED
    BY <1>2, <2>1, <2>2
<1>4. IsFiniteSet(Carriers) /\ IsFiniteSet(Tickets)
  BY <1>1, <1>3, FS_Subset
<1>5. QED
  BY <1>1, <1>2, <1>4, FS_EmptySet

\* What a step in which at most g changes its place and at most h its wakeup does
\* to the two numbers that are compared.
Counts(g, h) ==
    /\ IsFiniteSet(Waiting')
    /\ Cardinality(Waiting) \in Nat /\ Cardinality(Waiting') \in Nat
    /\ Cardinality(Waiting') = Cardinality(Waiting) + (IF g \in Waiting' THEN 1 ELSE 0)
                                                    - (IF g \in Waiting THEN 1 ELSE 0)
    /\ Cardinality(Carriers) \in Nat /\ Cardinality(Carriers') \in Nat
    /\ Cardinality(Carriers') = Cardinality(Carriers) + (IF h \in Carriers' THEN 1 ELSE 0)
                                                      - (IF h \in Carriers THEN 1 ELSE 0)
    /\ val \in Nat /\ val' \in Nat
    /\ state.waiters \in Nat /\ state'.waiters \in Nat
    /\ state.starving \in BOOLEAN /\ state'.starving \in BOOLEAN

\* Sets that change by at most one goroutine.
LEMMA OneMoves ==
    ASSUME IInv, IInv', CountInv, NEW g, Waiting' \ {g} = Waiting \ {g},
           NEW h, Carriers' \ {h} = Carriers \ {h}
    PROVE  Counts(g, h)
<1>1. /\ IsFiniteSet(Waiting')
      /\ Cardinality(Waiting) \in Nat /\ Cardinality(Waiting') \in Nat
      /\ Cardinality(Waiting') = Cardinality(Waiting) + (IF g \in Waiting' THEN 1 ELSE 0)
                                                      - (IF g \in Waiting THEN 1 ELSE 0)
  BY CardinalityStep DEF CountInv
<1>2. /\ Cardinality(Carriers) \in Nat /\ Cardinality(Carriers') \in Nat
      /\ Cardinality(Carriers') = Cardinality(Carriers) + (IF h \in Carriers' THEN 1 ELSE 0)
                                                        - (IF h \in Carriers THEN 1 ELSE 0)
  BY CarriersFew, CardinalityStep
<1>3. /\ val \in Nat /\ val' \in Nat
      /\ state.waiters \in Nat /\ state'.waiters \in Nat
      /\ state.starving \in BOOLEAN /\ state'.starving \in BOOLEAN
  BY DEF IInv, TypeOK, SemaTypeOK, State
<1>4. QED
  BY <1>1, <1>2, <1>3 DEF Counts

\* Nothing is in flight when no wakeup is under way.
LEMMA NoneInFlight == ASSUME IInv, ~TokenOut PROVE InFlight = 0
<1>1. val = 0 /\ Carriers = {}
  BY CarriersFew DEF IInv, TokenInv, TokenOut, TypeOK, SemaTypeOK
<1>2. QED
  BY <1>1, CarriersFew DEF InFlight

\* Most steps change neither the count nor what it counts.
LEMMA SameCount ==
    ASSUME IInv, IInv', CountInv, Waiting' = Waiting, state'.waiters = state.waiters,
           state'.starving = state.starving,
           state.starving \/ (Carriers' = Carriers /\ val' = val)
    PROVE  CountInv'
BY DEF CountInv, WaiterCount, InFlight

\* A goroutine that cannot lock counts itself before it sleeps; if it switches to
\* starvation mode nobody is being woken.
LEMMA WaitCASCounts ==
    ASSUME IInv, IInv', CountInv, NEW g \in G, WaitCAS(g)
    PROVE  CountInv'
<1>1. /\ pc[g] = "loop" /\ pc' = [pc EXCEPT ![g] = "sema"]
      /\ call[g] = "none" /\ call' = [call EXCEPT ![g] = "acquire"]
      /\ state = old[g] /\ state'.waiters = state.waiters + 1
      /\ state'.starving <=> state.starving \/ (starving[g] /\ state.locked)
      /\ state'.locked <=> state.locked \/ ~state.starving
      /\ val' = val
      /\ pc \in [G -> Control] /\ call \in [G -> Stages]
  BY DEF WaitCAS, BeginAcquire, Goto, Desired, MustWait, Bits, IInv, TypeOK, SemaTypeOK
<1>2. Waiting' = Waiting \cup {g} /\ g \notin Waiting /\ Carriers' = Carriers
  BY <1>1 DEF Waiting, Carriers
<1>3. Counts(g, g)
  BY <1>2, OneMoves
<1>4. state.starving => state'.starving
  BY <1>1, <1>3 DEF Counts
<1>5. state'.starving /\ ~state.starving => InFlight = 0
  <2>1. InFlight' = InFlight
    BY <1>1, <1>2 DEF InFlight
  <2>2. state'.starving /\ ~state.starving => ~TokenOut'
    BY <1>1 DEF IInv, TokenInv
  <2>3. ~TokenOut' => InFlight' = 0
    <3>1. IInv' /\ ~TokenOut' => val' = 0 /\ Carriers' = {}
      BY DEF IInv, TokenInv, TokenOut, Carriers, Bearers, TypeOK, SemaTypeOK
    <3>2. QED
      BY <3>1, CarriersFew DEF InFlight
  <2>4. QED
    BY <2>1, <2>2, <2>3
<1>6. Cardinality(Waiting') = Cardinality(Waiting) + 1
  BY <1>2, <1>3 DEF Counts
<1>7. InFlight' = InFlight /\ InFlight \in Nat
  BY <1>1, <1>2, <1>3 DEF InFlight, Counts
<1>8. CASE state'.starving
  BY <1>1, <1>3, <1>5, <1>6, <1>7, <1>8 DEF CountInv, WaiterCount, Counts
<1>9. CASE ~state'.starving
  BY <1>1, <1>3, <1>4, <1>6, <1>7, <1>9 DEF CountInv, WaiterCount, Counts
<1>10. QED
  BY <1>8, <1>9

\* A permit or a ticket becomes a goroutine back from the semaphore.
LEMMA WakeFromSemaCounts ==
    ASSUME IInv, IInv', CountInv, NEW g \in G, WakeFromSema(g)
    PROVE  CountInv'
<1>1. /\ pc[g] = "sema" /\ pc' = [pc EXCEPT ![g] = "woke"] /\ state' = state
      /\ call' = [call EXCEPT ![g] = "none"]
      /\ \/ call[g] = "acquire" /\ val > 0 /\ val' = val - 1
         \/ call[g] = "ticket" /\ val' = val
      /\ pc \in [G -> Control] /\ call \in [G -> Stages]
  BY DEF WakeFromSema, Acquire, TakeTicket, Goto, IInv, TypeOK, SemaTypeOK
<1>2. /\ Waiting' = Waiting
      /\ Carriers' \ {g} = Carriers \ {g} /\ g \in Carriers'
      /\ g \in Carriers <=> call[g] = "ticket"
  BY <1>1 DEF Waiting, Carriers
<1>3. Counts(g, g)
  BY <1>2, OneMoves
<1>4. InFlight' = InFlight
  BY <1>1, <1>2, <1>3 DEF Counts, InFlight
<1>5. QED
  BY <1>1, <1>2, <1>4 DEF CountInv, WaiterCount

\* In normal mode it goes back to the loop, having been subtracted by its waker; in
\* starvation mode it is still counted.
LEMMA WokeCounts ==
    ASSUME IInv, IInv', CountInv, NEW g \in G, Woke(g)
    PROVE  CountInv'
<1>1. /\ pc[g] = "woke" /\ state' = state /\ val' = val /\ call' = call
      /\ pc \in [G -> Control] /\ call[g] = "none"
  BY DEF Woke, semaVars, IInv, TypeOK, SemaTypeOK, CallInv, Stages
<1>2. CASE state.starving /\ pc' = [pc EXCEPT ![g] = "handoff"]
  <2>1. Waiting' = Waiting
    BY <1>1, <1>2 DEF Waiting
  <2>2. QED
    BY <1>1, <1>2, <2>1, SameCount
<1>3. CASE ~state.starving /\ pc' = [pc EXCEPT ![g] = "loop"]
  <2>1. /\ Waiting' \ {g} = Waiting \ {g} /\ g \in Waiting /\ g \notin Waiting'
        /\ Carriers' \ {g} = Carriers \ {g} /\ g \in Carriers /\ g \notin Carriers'
    BY <1>1, <1>3 DEF Waiting, Carriers
  <2>2. Counts(g, g)
    BY <2>1, OneMoves
  <2>3. QED
    BY <1>1, <1>3, <2>1, <2>2 DEF CountInv, WaiterCount, InFlight, Counts
<1>4. QED
  BY <1>2, <1>3 DEF Woke, Goto

\* The goroutine the mutex is handed to takes itself off the count; when it ends
\* starvation mode nobody else is being woken.
LEMMA TakeOverCounts ==
    ASSUME IInv, IInv', CountInv, NEW g \in G, TakeOver(g)
    PROVE  CountInv'
<1>1. /\ pc[g] = "handoff" /\ pc' = [pc EXCEPT ![g] = "cs"] /\ val' = val /\ call' = call
      /\ state'.waiters = state.waiters - 1
      /\ pc \in [G -> Control] /\ call[g] = "none"
  BY DEF TakeOver, Goto, Bits, semaVars, IInv, TypeOK, SemaTypeOK, CallInv, Stages
<1>2. /\ Waiting' \ {g} = Waiting \ {g} /\ g \in Waiting /\ g \notin Waiting'
      /\ Carriers' = Carriers /\ g \notin Carriers
  BY <1>1 DEF Waiting, Carriers
<1>3. Counts(g, g)
  BY <1>2, OneMoves
<1>4. state.starving /\ Bearers = {g} /\ val = 0
  BY <1>1 DEF Bearers, IInv, TokenInv, TypeOK, SemaTypeOK
<1>5. InFlight' = 0
  BY <1>1, <1>2, <1>4, CarriersFew DEF InFlight
<1>6. QED
  BY <1>1, <1>2, <1>3, <1>4, <1>5 DEF CountInv, WaiterCount, Counts

\* Unlock in normal mode takes the one it is going to wake off the count.
LEMMA WakeCASCounts ==
    ASSUME IInv, IInv', CountInv, NEW g \in G, WakeCAS(g)
    PROVE  CountInv'
<1>1. /\ pc[g] = "unlockLoop" /\ pc' = [pc EXCEPT ![g] = "semrelease"] /\ val' = val
      /\ call[g] = "none" /\ call' = [call EXCEPT ![g] = "post"]
      /\ state'.waiters = state.waiters - 1
      /\ ~state.starving /\ ~state.woken /\ ~state'.starving
      /\ pc \in [G -> Control] /\ call \in [G -> Stages]
  BY DEF WakeCAS, BeginRelease, Goto, NobodyToWake, Bits, IInv, TypeOK, SemaTypeOK
<1>2. /\ Waiting' = Waiting
      /\ Carriers' \ {g} = Carriers \ {g} /\ g \notin Carriers /\ g \in Carriers'
  BY <1>1 DEF Waiting, Carriers
<1>3. Counts(g, g)
  BY <1>2, OneMoves
<1>4. QED
  BY <1>1, <1>2, <1>3 DEF CountInv, WaiterCount, InFlight, Counts

\* Semrelease turns the wakeup into a permit.
LEMMA PostCounts ==
    ASSUME IInv, IInv', CountInv, NEW g \in G, SemreleaseStep(g)
    PROVE  CountInv'
<1>1. pc' = pc /\ state' = state /\ pc[g] \in {"semrelease", "semhandoff"}
  BY DEF SemreleaseStep
<1>2. Waiting' = Waiting
  BY <1>1 DEF Waiting
<1>3. CASE Post(g)
  <2>1. /\ Carriers' \ {g} = Carriers \ {g} /\ g \in Carriers /\ g \notin Carriers'
        /\ val' = val + 1
    BY <1>1, <1>3 DEF Post, Carriers, IInv, TypeOK, SemaTypeOK
  <2>2. Counts(g, g)
    BY <1>2, <2>1, OneMoves
  <2>3. QED
    BY <1>1, <1>2, <2>1, <2>2 DEF CountInv, WaiterCount, InFlight, Counts
<1>4. CASE Dequeue(g)
  <2>1. Carriers' = Carriers /\ val' = val
    BY <1>1, <1>4 DEF Dequeue, Carriers, IInv, TypeOK, SemaTypeOK
  <2>2. QED
    BY <1>1, <1>2, <2>1, SameCount
<1>5. QED
  BY <1>3, <1>4 DEF SemreleaseStep

\* A handoff turns the permit into a ticket.
LEMMA ReadyCounts ==
    ASSUME IInv, IInv', CountInv, NEW g \in G, SemreleaseReturn(g)
    PROVE  CountInv'
<1>1. /\ pc[g] \in {"semrelease", "semhandoff"} /\ pc' = [pc EXCEPT ![g] = "idle"]
      /\ state' = state /\ pc \in [G -> Control] /\ call \in [G -> Stages]
  BY DEF SemreleaseReturn, Goto, IInv, TypeOK, SemaTypeOK
<1>2. Waiting' = Waiting
  BY <1>1 DEF Waiting
<1>3. CASE NoWaiter(g)
  <2>1. Carriers' = Carriers /\ val' = val
    BY <1>1, <1>3 DEF NoWaiter, Carriers
  <2>2. QED
    BY <1>1, <1>2, <2>1, SameCount
<1>4. CASE Ready(g, pc[g] = "semhandoff")
  <2> DEFINE h == hand[g]
             direct == pc[g] = "semhandoff" /\ val > 0
  <2>1. /\ call[g] = "hand" /\ h \in G /\ call[h] = "parked" /\ h # g
        /\ call' = [call EXCEPT ![g] = "none", ![h] = IF direct THEN "ticket" ELSE "acquire"]
        /\ val' = IF direct THEN val - 1 ELSE val
        /\ pc[h] = "sema"
    BY <1>4 DEF Ready, IInv, QueueInv, CallInv
  <2> HIDE DEF h
  <2>2. /\ Carriers' \ {h} = Carriers \ {h} /\ h \notin Carriers
        /\ h \in Carriers' <=> direct
    BY <1>1, <2>1 DEF Carriers
  <2>3. Counts(g, h)
    BY <1>2, <2>2, OneMoves
  <2>4. InFlight' = InFlight
    <3>1. CASE direct
      BY <2>1, <2>2, <2>3, <3>1 DEF InFlight, Counts
    <3>2. CASE ~direct
      BY <2>1, <2>2, <2>3, <3>2 DEF InFlight, Counts
    <3>3. QED
      BY <3>1, <3>2
  <2>5. QED
    BY <1>1, <1>2, <2>4 DEF CountInv, WaiterCount
<1>5. QED
  BY <1>3, <1>4 DEF SemreleaseReturn

\* Every other step leaves the count alone.
LEMMA OthersCount ==
    ASSUME IInv, IInv', CountInv, NEW g \in G,
           \/ LockFast(g) \/ LockSlow(g) \/ Spin(g) \/ LockRetry(g) \/ LockCAS(g)
           \/ SleepOnSema(g) \/ Unlock(g) \/ UnlockDone(g) \/ UnlockRetry(g)
    PROVE  CountInv'
<1>0. pc \in [G -> Control] /\ call \in [G -> Stages] /\ state \in State
  BY DEF IInv, TypeOK, SemaTypeOK
<1>1. CASE LockFast(g) \/ LockSlow(g) \/ UnlockDone(g) \/ UnlockRetry(g) \/ LockRetry(g)
  <2>1. /\ \A h \in G : \/ pc'[h] = pc[h]
                        \/ pc[h] \in {"idle", "unlockLoop"} /\ pc'[h] \in {"cs", "loop", "idle"}
        /\ call' = call /\ val' = val
    BY <1>0, <1>1 DEF LockFast, LockSlow, UnlockDone, UnlockRetry, LockRetry, Goto, semaVars
  <2>2. Waiting' = Waiting /\ Carriers' = Carriers
    BY <2>1 DEF Waiting, Carriers
  <2>3. state'.waiters = state.waiters /\ state'.starving = state.starving
    <3>1. CASE LockFast(g)
      BY <3>1 DEF LockFast, Bits, Unlocked
    <3>2. CASE LockSlow(g) \/ UnlockDone(g) \/ UnlockRetry(g) \/ LockRetry(g)
      BY <3>2 DEF LockSlow, UnlockDone, UnlockRetry, LockRetry
    <3>3. QED
      BY <1>1, <3>1, <3>2
  <2>4. QED
    BY <2>1, <2>2, <2>3, SameCount
<1>2. CASE Spin(g)
  <2>1. /\ Waiting' = Waiting /\ Carriers' = Carriers /\ val' = val
        /\ state'.waiters = state.waiters /\ state'.starving = state.starving
    BY <1>2 DEF Spin, semaVars, Waiting, Carriers, Bits
  <2>2. QED
    BY <2>1, SameCount
<1>3. CASE LockCAS(g)
  <2>1. pc[g] = "loop" /\ pc' = [pc EXCEPT ![g] = "cs"] /\ call' = call /\ val' = val
    BY <1>3 DEF LockCAS, Goto, semaVars
  <2>2. Waiting' = Waiting /\ Carriers' = Carriers
    BY <1>0, <2>1 DEF Waiting, Carriers
  <2>3. state'.waiters = state.waiters /\ ~state'.starving /\ ~state.starving
    BY <1>0, <1>3 DEF LockCAS, Desired, MustWait, Bits, IInv, TypeOK
  <2>4. state'.starving = state.starving
    <3>1. state'.starving \in BOOLEAN /\ state.starving \in BOOLEAN
      BY DEF IInv, TypeOK, State
    <3>2. QED
      BY <2>3, <3>1
  <2>5. QED
    BY <2>1, <2>2, <2>3, <2>4, SameCount
<1>4. CASE SleepOnSema(g)
  <2>1. Waiting' = Waiting /\ Carriers' = Carriers /\ val' = val /\ state' = state
    BY <1>0, <1>4 DEF SleepOnSema, Park, Waiting, Carriers
  <2>2. QED
    BY <2>1, SameCount
<1>5. CASE Unlock(g)
  <2>1. /\ pc[g] = "cs" /\ \A h \in G \ {g} : pc'[h] = pc[h]
        /\ pc'[g] \in {"idle", "unlockLoop", "semhandoff"}
        /\ val' = val
        /\ state'.waiters = state.waiters /\ state'.starving = state.starving
    BY <1>0, <1>5 DEF Unlock, Goto, Released, Bits
  <2>2. Waiting' = Waiting
    BY <2>1 DEF Waiting
  <2>3. ~state.starving => call' = call
    BY <1>5 DEF Unlock, Released, Bits
  <2>4. ~state.starving => Carriers' = Carriers
    BY <2>1, <2>3 DEF Carriers
  <2>5. QED
    BY <2>1, <2>2, <2>4, SameCount
<1>6. QED
  BY <1>1, <1>2, <1>3, <1>4, <1>5

\* Every step keeps the count exact.
LEMMA NextCounts == IInv /\ IInv' /\ CountInv /\ [Next]_vars => CountInv'
<1> SUFFICES ASSUME IInv, IInv', CountInv, [Next]_vars PROVE CountInv'
  OBVIOUS
<1>1. CASE Next
  <2>1. PICK g \in G : LockFast(g) \/ LockSlow(g) \/ Step(g)
    BY <1>1 DEF Next
  <2>2. CASE WaitCAS(g) \/ WakeFromSema(g) \/ Woke(g) \/ TakeOver(g)
    BY <2>2, WaitCASCounts, WakeFromSemaCounts, WokeCounts, TakeOverCounts
  <2>3. CASE WakeCAS(g) \/ SemreleaseStep(g) \/ SemreleaseReturn(g)
    BY <2>3, WakeCASCounts, PostCounts, ReadyCounts
  <2>4. CASE \/ LockFast(g) \/ LockSlow(g) \/ Spin(g) \/ LockRetry(g) \/ LockCAS(g)
             \/ SleepOnSema(g) \/ Unlock(g) \/ UnlockDone(g) \/ UnlockRetry(g)
    BY <2>4, OthersCount
  <2>5. QED
    BY <2>1, <2>2, <2>3, <2>4 DEF Step
<1>2. CASE UNCHANGED vars
  BY <1>2 DEF vars, semaVars, CountInv, WaiterCount, InFlight, Carriers, Waiting
<1>3. QED
  BY <1>1, <1>2

\* The waiter count of m.state is exact for any set of goroutines: a count that
\* drifts up would make an Unlock wake somebody who is not there, one that drifts
\* down would make it forget a sleeper.
THEOREM CountIsExact == Spec => []WaiterCount
<1>1. Init => CountInv
  <2> SUFFICES ASSUME Init PROVE CountInv
    OBVIOUS
  <2>1. Waiting = {} /\ Carriers = {} /\ val = 0 /\ state.waiters = 0
    BY DEF Init, SemaInit, Waiting, Carriers, Unlocked, Bits
  <2>2. QED
    BY <2>1, FS_EmptySet DEF CountInv, WaiterCount, InFlight
<1>2. CountInv => WaiterCount
  BY DEF CountInv
<1>3. QED
  BY <1>1, <1>2, NextCounts, Invariance, PTL DEF Spec

-----------------------------------------------------------------------------
\* Refinement of a counting semaphore.

\* How a step in which at most h is handed a ticket, or uses it, changes the
\* permits.
LEMMA PermitsMove ==
    ASSUME IInv, IInv', NEW h, Tickets' \ {h} = Tickets \ {h}
    PROVE  /\ Permits \in Nat /\ Permits >= val
           /\ Permits' = Permits + (val' - val) + (IF h \in Tickets' THEN 1 ELSE 0)
                                                - (IF h \in Tickets THEN 1 ELSE 0)
           /\ val \in Nat /\ val' \in Nat
           /\ h \in Tickets => Permits > 0
<1>1. /\ Cardinality(Tickets) \in Nat /\ Cardinality(Tickets') \in Nat
      /\ Cardinality(Tickets') = Cardinality(Tickets) + (IF h \in Tickets' THEN 1 ELSE 0)
                                                      - (IF h \in Tickets THEN 1 ELSE 0)
  BY CarriersFew, CardinalityStep
<1>2. h \in Tickets => Cardinality(Tickets) # 0
  BY CarriersFew, FS_EmptySet
<1>3. val \in Nat /\ val' \in Nat
  BY DEF IInv, TypeOK, SemaTypeOK
<1>4. QED
  BY <1>1, <1>2, <1>3 DEF Permits

SemaStep ==
    /\ Returning # {} => Counting!Take
    /\ Posting # {} => Counting!Release
    /\ Returning \cup Posting = {} => UNCHANGED Permits

\* A return from SemacquireMutex takes a permit, with a ticket or without.
LEMMA ReturnIsTake ==
    ASSUME IInv, IInv', NEW g \in G, WakeFromSema(g)
    PROVE  SemaStep
<1>1. /\ call' = [call EXCEPT ![g] = "none"]
      /\ \/ call[g] = "acquire" /\ val > 0 /\ val' = val - 1
         \/ call[g] = "ticket" /\ val' = val
      /\ call \in [G -> Stages]
  BY DEF WakeFromSema, Acquire, TakeTicket, IInv, TypeOK, SemaTypeOK
<1>2. /\ Returning = {g} /\ Posting = {}
      /\ Tickets' \ {g} = Tickets \ {g} /\ g \notin Tickets'
      /\ g \in Tickets <=> call[g] = "ticket"
  BY <1>1 DEF Returning, Posting, Tickets
<1>3. Permits > 0 /\ Permits' = Permits - 1
  <2>1. CASE call[g] = "acquire" /\ val > 0 /\ val' = val - 1
    <3>1. /\ Permits \in Nat /\ Permits >= val /\ val \in Nat
          /\ Permits' = Permits + (val' - val)
      BY <1>2, <2>1, PermitsMove
    <3>2. QED
      BY <2>1, <3>1
  <2>2. CASE call[g] = "ticket" /\ val' = val
    <3>1. /\ Permits \in Nat /\ Permits > 0 /\ val \in Nat
          /\ Permits' = Permits + (val' - val) - 1
      BY <1>2, <2>2, PermitsMove
    <3>2. QED
      BY <2>2, <3>1
  <2>3. QED
    BY <1>1, <2>1, <2>2
<1>4. QED
  BY <1>2, <1>3 DEF SemaStep, Counting!Take

\* The increment in Semrelease releases one; taking a waiter off the queue does
\* nothing.
LEMMA PostIsRelease ==
    ASSUME IInv, IInv', NEW g \in G, SemreleaseStep(g)
    PROVE  SemaStep
<1>1. CASE Post(g)
  <2>1. /\ Tickets' = Tickets /\ Returning = {} /\ Posting = {g} /\ val' = val + 1
    BY <1>1 DEF Post, Tickets, Returning, Posting, IInv, TypeOK, SemaTypeOK
  <2>2. /\ val \in Nat /\ Permits \in Nat
        /\ Permits' = Permits + (val' - val)
    BY <2>1, PermitsMove
  <2>3. Permits' = Permits + 1
    BY <2>1, <2>2
  <2>4. QED
    BY <2>1, <2>3 DEF SemaStep, Counting!Release
<1>2. CASE Dequeue(g)
  <2>1. Tickets' = Tickets /\ Returning = {} /\ Posting = {} /\ val' = val
    BY <1>2 DEF Dequeue, Tickets, Returning, Posting, IInv, TypeOK, SemaTypeOK
  <2>2. QED
    BY <2>1 DEF SemaStep, Permits
<1>3. QED
  BY <1>1, <1>2 DEF SemreleaseStep

\* A direct handoff moves a permit into a ticket; it makes none and loses none.
LEMMA HandoffKeepsPermits ==
    ASSUME IInv, IInv', NEW g \in G, SemreleaseReturn(g)
    PROVE  SemaStep
<1>1. CASE NoWaiter(g)
  <2>1. Tickets' = Tickets /\ Returning = {} /\ Posting = {} /\ val' = val
    BY <1>1 DEF NoWaiter, Tickets, Returning, Posting, IInv, TypeOK, SemaTypeOK
  <2>2. QED
    BY <2>1 DEF SemaStep, Permits
<1>2. CASE Ready(g, pc[g] = "semhandoff")
  <2> DEFINE h == hand[g]
             direct == pc[g] = "semhandoff" /\ val > 0
  <2>1. /\ call[g] = "hand" /\ h \in G /\ call[h] = "parked" /\ h # g
        /\ call' = [call EXCEPT ![g] = "none", ![h] = IF direct THEN "ticket" ELSE "acquire"]
        /\ val' = IF direct THEN val - 1 ELSE val
        /\ call \in [G -> Stages]
    BY <1>2 DEF Ready, IInv, QueueInv, TypeOK, SemaTypeOK
  <2> HIDE DEF h
  <2>2. /\ Tickets' \ {h} = Tickets \ {h} /\ h \notin Tickets
        /\ h \in Tickets' <=> direct
        /\ Returning = {} /\ Posting = {}
    BY <2>1 DEF Tickets, Returning, Posting
  <2>3. Permits' = Permits
    <3>1. CASE direct
      BY <2>1, <2>2, <3>1, PermitsMove
    <3>2. CASE ~direct
      BY <2>1, <2>2, <3>2, PermitsMove
    <3>3. QED
      BY <3>1, <3>2
  <2>4. QED
    BY <2>2, <2>3 DEF SemaStep
<1>3. QED
  BY <1>1, <1>2 DEF SemreleaseReturn

\* Any other step leaves the permits alone.
LEMMA OthersKeepPermits ==
    ASSUME IInv, NEW g \in G,
           \/ LockFast(g) \/ LockSlow(g) \/ Spin(g) \/ LockRetry(g) \/ LockCAS(g)
           \/ WaitCAS(g) \/ SleepOnSema(g) \/ Woke(g) \/ TakeOver(g)
           \/ Unlock(g) \/ UnlockDone(g) \/ UnlockRetry(g) \/ WakeCAS(g)
    PROVE  SemaStep
<1>0. call \in [G -> Stages]
  BY DEF IInv, TypeOK, SemaTypeOK
<1>1. /\ val' = val
      /\ \A h \in G : \/ call'[h] = call[h]
                      \/ call[h] = "none" /\ call'[h] \in {"acquire", "post"}
                      \/ call[h] = "acquire" /\ call'[h] = "parked"
  <2>1. CASE LockFast(g) \/ LockSlow(g) \/ Spin(g) \/ LockRetry(g) \/ LockCAS(g) \/ Woke(g)
             \/ TakeOver(g) \/ UnlockDone(g) \/ UnlockRetry(g)
    BY <2>1 DEF LockFast, LockSlow, Spin, LockRetry, LockCAS, Woke, TakeOver, UnlockDone,
       UnlockRetry, semaVars
  <2>2. CASE WaitCAS(g) \/ Unlock(g) \/ WakeCAS(g)
    BY <1>0, <2>2 DEF WaitCAS, Unlock, WakeCAS, BeginAcquire, BeginRelease
  <2>3. CASE SleepOnSema(g)
    BY <1>0, <2>3 DEF SleepOnSema, Park
  <2>4. QED
    BY <2>1, <2>2, <2>3
<1>2. Tickets' = Tickets /\ Returning = {} /\ Posting = {}
  BY <1>1 DEF Tickets, Returning, Posting
<1>3. QED
  BY <1>1, <1>2 DEF SemaStep, Permits

\* Every step is a step of the counting semaphore or leaves its permits alone.
LEMMA NextIsSemaStep == IInv /\ IInv' /\ [Next]_vars => [SemaStep]_semaVars
<1> SUFFICES ASSUME IInv, IInv', [Next]_vars PROVE SemaStep \/ UNCHANGED semaVars
  OBVIOUS
<1>1. CASE Next
  <2>1. PICK g \in G : LockFast(g) \/ LockSlow(g) \/ Step(g)
    BY <1>1 DEF Next
  <2>2. QED
    BY <2>1, ReturnIsTake, PostIsRelease, HandoffKeepsPermits, OthersKeepPermits DEF Step
<1>2. CASE UNCHANGED vars
  BY <1>2 DEF vars
<1>3. QED
  BY <1>1, <1>2

\* As sync.Mutex uses it, the runtime semaphore is a counting semaphore for any
\* set of goroutines: its queue, handoffs and futile wakeups make or lose no permit.
THEOREM SemaphoreRefinement == Spec => ImplementsSemaphore
<1>1. Init => Counting!Init
  <2> SUFFICES ASSUME Init PROVE Counting!Init
    OBVIOUS
  <2>1. val = 0 /\ Tickets = {}
    BY DEF Init, SemaInit, Tickets
  <2>2. QED
    BY <2>1, FS_EmptySet DEF Counting!Init, Permits
<1>2. QED
  BY <1>1, NextIsSemaStep, Invariance, PTL DEF Spec, ImplementsSemaphore, SemaStep
====
