---- MODULE WaitGroupProofs ----
(***************************************************************************)
(* Proofs about sync.WaitGroup (module WaitGroup), for any finite set of   *)
(* goroutines and any bound on the counter: rounds of Add, Done and Wait   *)
(* are kept apart.                                                         *)
(*                                                                         *)
(* What holds a round together is that a caller of Done or of an Add that  *)
(* may overlap with a Wait relies on a unit of the counter.  Once the      *)
(* counter is 0 while someone waits there is no such caller, so that from  *)
(* the last Done to the return of the last Wait nobody touches the counter *)
(* (lemma Quiet); everything else is an account of permits and sleepers.   *)
(***************************************************************************)
EXTENDS WaitGroup, Counting

Sleeping == Count(G, pc, "sleep")

Releasing(g) == pc[g] \in {"check", "reset", "release"}
Closing == \E g \in G : pc[g] \in {"check", "reset"}

Types ==
    /\ counter \in Nat /\ waiters \in Nat /\ sema \in Nat
    /\ pc \in [G -> Control]
    /\ delta \in [G -> -1..MaxCounter]
    /\ w \in [G -> Nat]
    /\ saw \in [G -> Nat \X (0..Cardinality(G))]
    /\ joins \subseteq G

\* The callers keep to the rules: every Done, and every Add that may overlap with a
\* Wait, relies on a unit of the counter; nobody panics.
CallerInv ==
    /\ counter >= Cardinality(Dropping) + Cardinality(joins)
    /\ (\E g \in G : InWait(g)) => Adding \subseteq joins
    /\ \A g \in G : /\ pc[g] = "add" <=> delta[g] # 0
                    /\ g \in joins => delta[g] > 0
                    /\ pc[g] = "cas" => saw[g][1] # 0
                    /\ pc[g] # "panic"

\* One goroutine at most releases waiters, and until the last of them has returned
\* the counter is 0.
RoundInv ==
    /\ \A g, h \in G : Releasing(g) /\ Releasing(h) => g = h
    /\ \A g \in G : IF Releasing(g) THEN w[g] > 0 ELSE w[g] = 0
    /\ (\E g \in G : Releasing(g) \/ pc[g] = "woken") \/ sema > 0 => counter = 0
    /\ (\E g \in G : pc[g] \in {"release", "woken"}) \/ sema > 0 => waiters = 0
    /\ waiters > 0 /\ ~Closing => counter > 0

\* Permits, given or still to be given, match the sleepers.
PermitInv ==
    /\ \A g \in G : pc[g] \in {"check", "reset"} =>
          waiters = w[g] /\ Sleeping = w[g] /\ sema = 0
    /\ \A g \in G : pc[g] = "release" => Sleeping = waiters + sema + w[g]
    /\ (\A g \in G : ~Releasing(g)) => Sleeping = waiters + sema

\* The inductive invariant.
IInv == Types /\ CallerInv /\ RoundInv /\ PermitInv

-----------------------------------------------------------------------------
\* The number of sleepers, and how a step from one label to another changes it.
LEMMA Sleepers ==
    /\ IsFiniteSet(G) /\ Cardinality(G) \in Nat
    /\ Sleeping \in Nat /\ Sleeping <= Cardinality(G)
    /\ Sleeping = 0 <=> \A g \in G : pc[g] # "sleep"
BY WGAssumption, FS_CardinalityType, CountType DEF Sleeping

\* What a goroutine that goes to l does to the control of all.
Moved(g, l) ==
    /\ Sleeping' = Sleeping + (IF l = "sleep" THEN 1 ELSE 0) - (IF pc[g] = "sleep" THEN 1 ELSE 0)
    /\ \A h \in G \ {g} : pc'[h] = pc[h]
    /\ pc'[g] = l

\* A goroutine that falls asleep or wakes up is counted.
LEMMA Move ==
    ASSUME pc \in [G -> Control], NEW g \in G, NEW l, Goto(g, l)
    PROVE  Moved(g, l)
<1>1. pc'[g] = l /\ \A h \in G \ {g} : pc'[h] = pc[h]
  BY DEF Goto
<1>2. Count(G, pc', "sleep") = Count(G, pc, "sleep") + (IF pc'[g] = "sleep" THEN 1 ELSE 0)
                                                    - (IF pc[g] = "sleep" THEN 1 ELSE 0)
  BY <1>1, WGAssumption, CountMove
<1>3. QED
  BY <1>1, <1>2 DEF Moved, Sleeping

\* Units of the counter that callers rely on are countable.
LEMMA Units ==
    ASSUME Types
    PROVE  /\ IsFiniteSet(Dropping) /\ IsFiniteSet(joins)
           /\ Cardinality(Dropping) \in Nat /\ Cardinality(joins) \in Nat
           /\ Cardinality(Dropping) = 0 <=> Dropping = {}
           /\ Cardinality(joins) = 0 <=> joins = {}
<1>1. Dropping \in SUBSET G /\ joins \in SUBSET G
  BY DEF Dropping, Types
<1>2. IsFiniteSet(Dropping) /\ IsFiniteSet(joins)
  BY <1>1, WGAssumption, FS_Subset
<1>3. QED
  BY <1>2, FS_CardinalityType, FS_EmptySet

\* While someone waits and the counter is 0, no Add or Done is under way and none
\* may begin.
LEMMA Quiet ==
    ASSUME Types, CallerInv, counter = 0, \E h \in G : InWait(h)
    PROVE  Spare = 0 /\ \A g \in G : pc[g] # "add"
<1>1. Dropping = {} /\ joins = {} /\ Spare = 0
  BY Units DEF CallerInv, Spare
<1>2. Adding = {}
  BY <1>1 DEF CallerInv
<1>3. QED
  BY <1>1, <1>2 DEF CallerInv, Types, Dropping, Adding

\* A waiter that is counted sleeps, and so does one that is to be released.
LEMMA Waiters ==
    ASSUME IInv, waiters > 0 \/ sema > 0 \/ \E g \in G : Releasing(g)
    PROVE  \E h \in G : pc[h] = "sleep"
<1>1. Sleeping > 0
  BY Sleepers DEF IInv, Types, RoundInv, PermitInv, Releasing
<1>2. QED
  BY <1>1, Sleepers

-----------------------------------------------------------------------------
\* A new WaitGroup.
LEMMA InitIInv == Init => IInv
<1> SUFFICES ASSUME Init PROVE IInv
  OBVIOUS
<1>1. Types
  BY Sleepers, WGAssumption DEF Init, Types, Control
<1>2. Sleeping = 0 /\ Dropping = {}
  BY Sleepers DEF Init, Dropping
<1>3. CallerInv
  BY <1>2, FS_EmptySet DEF Init, CallerInv, InWait
<1>4. RoundInv /\ PermitInv
  BY <1>2 DEF Init, RoundInv, PermitInv, Releasing, Closing
<1>5. QED
  BY <1>1, <1>3, <1>4 DEF IInv

\* An Add with a positive delta begins: while nobody waits, or relying on a unit.
LEMMA StartAddStep ==
    ASSUME NEW g \in G, NEW d \in 1..MaxCounter, IInv, StartAdd(g, d)
    PROVE  IInv'
<1> USE DEF StartAdd
<1>1. Moved(g, "add")
  BY Move DEF IInv, Types
<1>2. Types'
  BY WGAssumption DEF IInv, Types, Goto, Control
<1>3. CallerInv'
  <2>1. Dropping' = Dropping /\ Adding' = Adding \cup {g} /\ g \notin joins
    BY <1>1 DEF IInv, Types, CallerInv, Dropping, Adding, Moved
  <2>2. joins' = joins \/ (joins' = joins \cup {g} /\ Cardinality(joins') = Cardinality(joins) + 1)
    BY <2>1, Units, FS_AddElement DEF IInv
  <2>3. counter' >= Cardinality(Dropping') + Cardinality(joins')
    BY <2>1, <2>2, Units DEF IInv, CallerInv, Spare, Types
  <2>4. (\E h \in G : InWait(h)') => Adding' \subseteq joins'
    BY <1>1, <2>1, <2>2 DEF IInv, CallerInv, InWait, Moved
  <2>5. QED
    BY <1>1, <2>2, <2>3, <2>4 DEF IInv, CallerInv, Moved, Types
<1>4. RoundInv' /\ PermitInv'
  BY <1>1, Sleepers DEF IInv, Types, RoundInv, PermitInv, Releasing, Closing, Moved
<1>5. QED
  BY <1>2, <1>3, <1>4 DEF IInv

\* Done begins: its unit is one nobody else relies on.
LEMMA DoneStep == ASSUME NEW g \in G, IInv, Done(g) PROVE IInv'
<1> USE DEF Done
<1>1. Moved(g, "add")
  BY Move DEF IInv, Types
<1>2. Types'
  BY WGAssumption DEF IInv, Types, Goto, Control
<1>3. CallerInv'
  <2>1. Dropping' = Dropping \cup {g} /\ Adding' = Adding /\ g \notin Dropping
    BY <1>1 DEF IInv, Types, CallerInv, Dropping, Adding, Moved
  <2>2. Cardinality(Dropping') = Cardinality(Dropping) + 1
    BY <2>1, Units, FS_AddElement DEF IInv
  <2>3. counter' >= Cardinality(Dropping') + Cardinality(joins')
    BY <2>2, Units DEF IInv, CallerInv, Spare, Types
  <2>4. (\E h \in G : InWait(h)') => Adding' \subseteq joins'
    BY <1>1, <2>1 DEF IInv, CallerInv, InWait, Moved
  <2>5. QED
    BY <1>1, <2>3, <2>4 DEF IInv, CallerInv, Moved, Types
<1>4. RoundInv' /\ PermitInv'
  BY <1>1, Sleepers DEF IInv, Types, RoundInv, PermitInv, Releasing, Closing, Moved
<1>5. QED
  BY <1>2, <1>3, <1>4 DEF IInv

\* The AddUint64.  The panics are out of reach, and nobody is releasing waiters; if
\* the counter is now 0 the waiters it has counted are those that sleep.
LEMMA AddStep == ASSUME NEW g \in G, IInv, Add(g) PROVE IInv'
<1> DEFINE v == counter + delta[g]
<1>1. delta[g] \in Int /\ delta[g] >= -1 /\ delta[g] # 0 /\ pc[g] = "add"
  BY WGAssumption DEF IInv, Types, CallerInv, Add
<1>2. v >= 0 /\ ~(waiters # 0 /\ delta[g] > 0 /\ v = delta[g])
  <2>1. CASE delta[g] < 0
    <3>1. Dropping # {}
      BY <1>1, <2>1 DEF Dropping
    <3>2. Cardinality(Dropping) >= 1 /\ Cardinality(joins) >= 0
      BY <3>1, Units DEF IInv
    <3>3. counter >= 1
      BY <3>2, Units DEF IInv, CallerInv, Types
    <3>4. QED
      BY <1>1, <2>1, <3>3 DEF IInv, Types
  <2>2. CASE delta[g] > 0 /\ waiters # 0
    <3>1. \E h \in G : InWait(h)
      BY <2>2, Waiters DEF IInv, Types, InWait
    <3>2. joins # {}
      BY <1>1, <2>2, <3>1 DEF IInv, CallerInv, Adding
    <3>3. Cardinality(Dropping) >= 0 /\ Cardinality(joins) >= 1
      BY <3>2, Units DEF IInv
    <3>4. counter >= 1
      BY <3>3, Units DEF IInv, CallerInv, Types
    <3>5. QED
      BY <1>1, <2>2, <3>4 DEF IInv, Types
  <2>3. QED
    BY <1>1, <2>1, <2>2 DEF IInv, Types
<1>3. sema = 0 /\ Sleeping = waiters /\ \A h \in G : ~Releasing(h) /\ pc[h] # "woken"
  <2>1. ASSUME sema > 0 \/ \E h \in G : Releasing(h) \/ pc[h] = "woken" PROVE FALSE
    <3>1. counter = 0
      BY <2>1 DEF IInv, RoundInv
    <3>2. \E h \in G : InWait(h)
      BY <2>1, Waiters DEF InWait
    <3>3. QED
      BY <1>1, <3>1, <3>2, Quiet DEF IInv
  <2>2. QED
    BY <2>1, Sleepers DEF IInv, PermitInv, Types
<1>4. PICK l \in {"idle", "check"} :
        /\ Goto(g, l)
        /\ l = "idle" => NoneToWake(v) /\ w' = w
        /\ l = "check" => ~NoneToWake(v) /\ w' = [w EXCEPT ![g] = waiters]
  BY <1>2 DEF Add
<1>5. /\ counter' = v /\ joins' = joins \ {g} /\ delta' = [delta EXCEPT ![g] = 0]
      /\ UNCHANGED <<waiters, sema, saw>>
  BY DEF Add
<1>6. Moved(g, l)
  BY <1>4, Move DEF IInv, Types
<1>7. Types'
  BY <1>1, <1>2, <1>4, <1>5, WGAssumption DEF IInv, Types, Goto, Control
<1>8. CallerInv'
  <2>1. /\ Dropping' = Dropping \ {g} /\ Adding' = Adding \ {g}
        /\ g \in Dropping <=> delta[g] < 0
        /\ g \in joins => delta[g] > 0
    BY <1>1, <1>5, <1>6 DEF IInv, Types, CallerInv, Dropping, Adding, Moved
  <2>2. /\ Cardinality(Dropping') = Cardinality(Dropping) - (IF g \in Dropping THEN 1 ELSE 0)
        /\ Cardinality(joins') = Cardinality(joins) - (IF g \in joins THEN 1 ELSE 0)
    <3>1. /\ Cardinality(Dropping \ {g}) = IF g \in Dropping THEN Cardinality(Dropping) - 1
                                          ELSE Cardinality(Dropping)
          /\ Cardinality(joins \ {g}) = IF g \in joins THEN Cardinality(joins) - 1
                                       ELSE Cardinality(joins)
      BY Units, FS_RemoveElement DEF IInv
    <3>2. QED
      BY <1>5, <2>1, <3>1, Units DEF IInv
  <2>3. counter' >= Cardinality(Dropping') + Cardinality(joins')
    BY <1>1, <1>5, <2>1, <2>2, Units DEF IInv, CallerInv, Types
  <2>4. (\E h \in G : InWait(h)') => Adding' \subseteq joins'
    BY <1>5, <1>6, <2>1 DEF IInv, CallerInv, InWait, Moved
  <2>5. QED
    BY <1>5, <1>6, <2>3, <2>4 DEF IInv, CallerInv, Moved, Types
<1>9. RoundInv'
  BY <1>1, <1>2, <1>3, <1>4, <1>5, <1>6 DEF IInv, Types, RoundInv, Releasing, Closing, Moved, NoneToWake
<1>10. PermitInv'
  BY <1>1, <1>3, <1>4, <1>5, <1>6, Sleepers DEF IInv, Types, PermitInv, Releasing, Moved, NoneToWake
<1>11. QED
  BY <1>7, <1>8, <1>9, <1>10 DEF IInv

\* A step that is neither the start of an Add or Done nor the AddUint64 leaves what
\* callers rely on alone.
LEMMA SameCallers ==
    ASSUME NEW g \in G, IInv, NEW l, Moved(g, l), pc[g] # "add", l # "add", UNCHANGED <<delta, joins>>
    PROVE  Dropping' = Dropping /\ Adding' = Adding
BY DEF Dropping, Adding, Moved

\* The check of *statep finds what the AddUint64 left: nobody has joined since.
LEMMA SanityCheckStep == ASSUME NEW g \in G, IInv, SanityCheck(g) PROVE IInv'
<1>1. Goto(g, "reset") /\ Moved(g, "reset")
  BY Move DEF SanityCheck, IInv, Types, RoundInv, PermitInv, Releasing
<1>2. Types'
  BY <1>1 DEF SanityCheck, IInv, Types, Goto, Control
<1>3. CallerInv'
  BY <1>1, SameCallers DEF SanityCheck, IInv, CallerInv, InWait, Moved
<1>4. RoundInv' /\ PermitInv'
  BY <1>1, Sleepers DEF SanityCheck, IInv, Types, RoundInv, PermitInv, Releasing, Closing, Moved
<1>5. QED
  BY <1>2, <1>3, <1>4 DEF IInv

\* The reset of the waiter count: from now on the sleepers are owed permits.
LEMMA ResetStateStep == ASSUME NEW g \in G, IInv, ResetState(g) PROVE IInv'
<1>1. Goto(g, "release") /\ Moved(g, "release") /\ counter = 0
  BY Move DEF ResetState, IInv, Types, RoundInv, Releasing
<1>2. Types'
  BY <1>1 DEF ResetState, IInv, Types, Goto, Control
<1>3. CallerInv'
  BY <1>1, SameCallers DEF ResetState, IInv, CallerInv, InWait, Moved
<1>4. RoundInv' /\ PermitInv'
  BY <1>1, Sleepers DEF ResetState, IInv, Types, RoundInv, PermitInv, Releasing, Closing, Moved
<1>5. QED
  BY <1>2, <1>3, <1>4 DEF IInv

\* A permit for one of them.
LEMMA ReleaseWaiterStep == ASSUME NEW g \in G, IInv, ReleaseWaiter(g) PROVE IInv'
<1> DEFINE l == IF w[g] = 1 THEN "idle" ELSE "release"
<1>1. Goto(g, l) /\ Moved(g, l) /\ w[g] > 0 /\ w[g] \in Nat
  BY Move DEF ReleaseWaiter, LoopEnds, IInv, Types, RoundInv, Releasing
<1>2. w' = [w EXCEPT ![g] = w[g] - 1] /\ sema' = sema + 1
  <2>1. (IF LoopEnds(g) THEN 0 ELSE w[g] - 1) = w[g] - 1
    BY <1>1 DEF LoopEnds
  <2>2. QED
    BY <2>1 DEF ReleaseWaiter, Sema!Release, IInv, Types
<1>3. Types'
  BY <1>1, <1>2 DEF ReleaseWaiter, IInv, Types, Goto, Control
<1>4. CallerInv'
  BY <1>1, SameCallers DEF ReleaseWaiter, IInv, CallerInv, InWait, Moved
<1>5. RoundInv' /\ PermitInv'
  BY <1>1, <1>2, Sleepers DEF ReleaseWaiter, IInv, Types, RoundInv, PermitInv, Releasing, Closing, Moved
<1>6. QED
  BY <1>3, <1>4, <1>5 DEF IInv

\* Wait begins; an Add under way that does not rely on a unit is over by then.
LEMMA WaitStep == ASSUME NEW g \in G, IInv, Wait(g) PROVE IInv'
<1>1. Goto(g, "load") /\ Moved(g, "load")
  BY Move DEF Wait, IInv, Types
<1>2. Types'
  BY <1>1 DEF Wait, IInv, Types, Goto, Control
<1>3. CallerInv'
  BY <1>1, SameCallers DEF Wait, IInv, CallerInv, InWait, Moved
<1>4. RoundInv' /\ PermitInv'
  <2>1. RoundInv'
    BY <1>1 DEF Wait, IInv, Types, RoundInv, Releasing, Closing, Moved
  <2>2. PermitInv'
    BY <1>1, Sleepers DEF Wait, IInv, Types, PermitInv, Releasing, Moved
  <2>3. QED
    BY <2>1, <2>2
<1>5. QED
  BY <1>2, <1>3, <1>4 DEF IInv

\* Wait loads the state, and returns if the counter is 0.
LEMMA LoadStateStep == ASSUME NEW g \in G, IInv, LoadState(g) PROVE IInv'
<1> DEFINE l == IF counter = 0 THEN "idle" ELSE "cas"
<1>1. Goto(g, l) /\ Moved(g, l)
  BY Move DEF LoadState, IInv, Types
<1>2. waiters <= Cardinality(G)
  BY Sleepers DEF IInv, Types, PermitInv, Releasing
<1>3. Types'
  BY <1>1, <1>2, Sleepers DEF LoadState, IInv, Types, Goto, Control
<1>4. CallerInv'
  BY <1>1, SameCallers DEF LoadState, IInv, Types, CallerInv, InWait, Moved
<1>5. RoundInv' /\ PermitInv'
  BY <1>1, Sleepers DEF LoadState, IInv, Types, RoundInv, PermitInv, Releasing, Closing, Moved
<1>6. QED
  BY <1>3, <1>4, <1>5 DEF IInv

\* Wait counts itself if the state is as loaded; then the counter is not 0, and the
\* round is not over.
LEMMA CountWaiterStep == ASSUME NEW g \in G, IInv, CountWaiter(g) PROVE IInv'
<1> DEFINE l == IF StateAsLoaded(g) THEN "sleep" ELSE "load"
<1>1. Goto(g, l) /\ Moved(g, l)
  BY Move DEF CountWaiter, IInv, Types
<1>2. StateAsLoaded(g) => counter # 0
  BY DEF CountWaiter, StateAsLoaded, IInv, CallerInv
<1>3. Types'
  BY <1>1, Sleepers DEF CountWaiter, IInv, Types, Goto, Control
<1>4. CallerInv'
  BY <1>1, SameCallers DEF CountWaiter, IInv, CallerInv, InWait, Moved, Types
<1>5. RoundInv' /\ PermitInv'
  BY <1>1, <1>2, Sleepers DEF CountWaiter, IInv, Types, RoundInv, PermitInv, Releasing, Closing, Moved
<1>6. QED
  BY <1>3, <1>4, <1>5 DEF IInv

\* A sleeper takes a permit.
LEMMA SemacquireStep == ASSUME NEW g \in G, IInv, Semacquire(g) PROVE IInv'
<1>1. Goto(g, "woken") /\ Moved(g, "woken")
  BY Move DEF Semacquire, IInv, Types
<1>2. sema > 0 /\ sema' = sema - 1
  BY DEF Semacquire, Sema!Take
<1>3. Types'
  BY <1>1, <1>2 DEF Semacquire, IInv, Types, Goto, Control
<1>4. CallerInv'
  BY <1>1, SameCallers DEF Semacquire, IInv, CallerInv, InWait, Moved
<1>5. RoundInv' /\ PermitInv'
  <2>1. RoundInv'
    BY <1>1, <1>2 DEF Semacquire, IInv, Types, RoundInv, Releasing, Closing, Moved
  <2>2. /\ pc[g] = "sleep" /\ Sleeping' = Sleeping - 1 /\ Sleeping \in Nat
        /\ UNCHANGED <<waiters, w>>
    BY <1>1, Sleepers DEF Semacquire, Moved
  <2>3. \A h \in G : pc[h] \notin {"check", "reset"} /\ pc'[h] \notin {"check", "reset"}
    BY <1>1, <1>2 DEF IInv, Types, PermitInv, Moved
  <2>4. \A h \in G : pc'[h] = "release" <=> pc[h] = "release"
    BY <1>1, <2>2 DEF Moved
  <2>5. \A h \in G : pc'[h] = "release" => Sleeping' = waiters' + sema' + w'[h]
    <3> SUFFICES ASSUME NEW h \in G, pc'[h] = "release"
                 PROVE  Sleeping' = waiters' + sema' + w'[h]
      OBVIOUS
    <3>1. pc[h] = "release"
      BY <2>4
    <3>2. Sleeping = waiters + sema + w[h]
      BY <3>1 DEF IInv, PermitInv
    <3>3. waiters \in Nat /\ sema \in Nat /\ w[h] \in Nat
      BY DEF IInv, Types
    <3>4. QED
      BY <1>2, <2>2, <3>2, <3>3
  <2>6. (\A h \in G : ~Releasing(h)') => Sleeping' = waiters' + sema'
    BY <1>2, <2>2, <2>3, <2>4 DEF IInv, Types, PermitInv, Releasing
  <2>7. PermitInv'
    BY <2>3, <2>5, <2>6 DEF PermitInv
  <2>8. QED
    BY <2>1, <2>7
<1>6. QED
  BY <1>3, <1>4, <1>5 DEF IInv

\* A waiter that was woken finds the state 0 and returns.
LEMMA WaitReturnsStep == ASSUME NEW g \in G, IInv, WaitReturns(g) PROVE IInv'
<1>1. Goto(g, "idle") /\ Moved(g, "idle")
  BY Move DEF WaitReturns, IInv, Types, RoundInv
<1>2. Types'
  BY <1>1 DEF WaitReturns, IInv, Types, Goto, Control
<1>3. CallerInv'
  BY <1>1, SameCallers DEF WaitReturns, IInv, CallerInv, InWait, Moved
<1>4. RoundInv' /\ PermitInv'
  BY <1>1, Sleepers DEF WaitReturns, IInv, Types, RoundInv, PermitInv, Releasing, Closing, Moved
<1>5. QED
  BY <1>2, <1>3, <1>4 DEF IInv

\* Every step keeps the invariant.
LEMMA NextIInv == IInv /\ [Next]_vars => IInv'
<1> SUFFICES ASSUME IInv, [Next]_vars PROVE IInv'
  OBVIOUS
<1>1. CASE UNCHANGED vars
  BY <1>1 DEF vars, IInv, Types, CallerInv, RoundInv, PermitInv, Releasing, Closing, Sleeping,
              Dropping, Adding, InWait
<1>2. ASSUME NEW g \in G, NEW d \in 1..MaxCounter, StartAdd(g, d) PROVE IInv'
  BY <1>2, StartAddStep
<1>3. ASSUME NEW g \in G, Done(g) \/ Wait(g) \/ Step(g) PROVE IInv'
  BY <1>3, DoneStep, WaitStep, AddStep, SanityCheckStep, ResetStateStep, ReleaseWaiterStep,
     LoadStateStep, CountWaiterStep, SemacquireStep, WaitReturnsStep DEF Step
<1>4. QED
  BY <1>1, <1>2, <1>3 DEF Next

-----------------------------------------------------------------------------
\* The invariant keeps every count within the number of goroutines.
LEMMA Ranges == IInv => TypeOK
<1> SUFFICES ASSUME IInv PROVE TypeOK
  OBVIOUS
<1>1. waiters \in 0..Cardinality(G) /\ sema \in 0..Cardinality(G)
  BY Sleepers DEF IInv, Types, PermitInv, Releasing
<1>2. \A g \in G : w[g] \in 0..Cardinality(G)
  BY Sleepers DEF IInv, Types, PermitInv, RoundInv, Releasing
<1>3. QED
  BY <1>1, <1>2 DEF IInv, Types, TypeOK

\* Permits and sleepers match, with the CHOOSE of PermitsMatch resolved: at most one
\* goroutine releases waiters.
LEMMA Matching == IInv => PermitsMatch
<1> SUFFICES ASSUME IInv PROVE PermitsMatch
  OBVIOUS
<1> DEFINE R == {g \in G : pc[g] \in {"check", "reset", "release"}}
<1>1. Cardinality({g \in G : pc[g] = "sleep"}) = Sleeping
  BY DEF Sleeping, Count, AtLabel
<1>2. CASE R = {}
  <2>1. Cardinality(R) = 0
    BY <1>2, FS_EmptySet
  <2>2. Sleeping = waiters + sema + 0
    BY <1>2, Sleepers DEF IInv, Types, PermitInv, Releasing
  <2>3. QED
    BY <1>1, <1>2, <2>1, <2>2 DEF PermitsMatch
<1>3. ASSUME NEW g \in R PROVE PermitsMatch
  <2>1. R = {g}
    BY <1>3 DEF IInv, RoundInv, Releasing
  <2>2. Cardinality(R) = 1 /\ (CHOOSE h \in R : TRUE) = g
    BY <2>1, FS_Singleton
  <2>3. IF pc[g] # "release" THEN waiters = w[g] /\ Sleeping = w[g] /\ sema = 0
        ELSE Sleeping = waiters + sema + w[g]
    BY <1>3 DEF IInv, PermitInv
  <2>4. QED
    BY <1>1, <2>1, <2>2, <2>3 DEF PermitsMatch
<1>4. QED
  BY <1>2, <1>3

\* Rounds of Add, Done and Wait (waitgroup.go) do not mix: no misuse check goes off,
\* every permit is owed to one sleeper of its round, and a Wait that was woken finds
\* its round over.
THEOREM WaitGroupSafety == Spec => []RoundsKeptApart
<1>1. IInv => RoundsKeptApart
  BY Ranges, Matching DEF RoundsKeptApart, NoPanic, WaitMeansZero, IInv, CallerInv, RoundInv
<1>2. QED
  BY <1>1, InitIInv, NextIInv, PTL DEF Spec
====
