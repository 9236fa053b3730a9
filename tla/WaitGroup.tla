---- MODULE WaitGroup ----
(***************************************************************************)
(* sync/waitgroup.go: WaitGroup over a counting semaphore (module          *)
(* Semaphore, which SemaQueue implements).                                 *)
(*                                                                         *)
(* counter and waiters are the two halves of the 64-bit state and change   *)
(* together; each atomic operation, the plain read and the plain write of  *)
(* *statep in Add, and the read after the sleep in Wait are steps.         *)
(*                                                                         *)
(* The callers follow the rules in the comment of Add.  A positive Add is  *)
(* over before any Wait begins and begins after every Wait has returned,   *)
(* or its caller holds a unit of the counter, as a worker that adds more   *)
(* work does.  (The comment only asks for a positive counter in the second *)
(* case; if the last Done comes between the start of such an Add and its   *)
(* AddUint64 while a Wait sleeps, the Add panics.)  Done is called once    *)
(* for each unit added; Workers never call Wait.                           *)
(***************************************************************************)
EXTENDS Integers, FiniteSets, FiniteSetsExt

CONSTANTS G,
          Workers,     \* the goroutines that never call Wait
          MaxCounter   \* bound on the counter

ASSUME WGAssumption ==
    /\ IsFiniteSet(G)
    /\ Workers \subseteq G
    /\ MaxCounter \in Nat

VARIABLES counter, waiters,   \* the halves of *statep
          sema,        \* the permits of *semap
          pc,          \* control of each goroutine
          delta,       \* argument of an Add in progress
          w,           \* local w of Add
          saw,         \* the state loaded by Wait, <<v, w>>
          joins        \* callers of an Add that may overlap with a Wait

vars == <<counter, waiters, sema, pc, delta, w, saw, joins>>

Control == {"idle", "add", "check", "reset", "release", "load", "cas", "sleep",
            "woken", "panic"}

TypeOK ==
    /\ counter \in Nat
    /\ waiters \in 0..Cardinality(G)
    /\ sema \in 0..Cardinality(G)
    /\ pc \in [G -> Control]
    /\ delta \in [G -> -1..MaxCounter]
    /\ w \in [G -> 0..Cardinality(G)]
    /\ saw \in [G -> Nat \X (0..Cardinality(G))]
    /\ joins \subseteq G

Init ==
    /\ counter = 0 /\ waiters = 0 /\ sema = 0
    /\ pc = [g \in G |-> "idle"]
    /\ delta = [g \in G |-> 0]
    /\ w = [g \in G |-> 0]
    /\ saw = [g \in G |-> <<0, 0>>]
    /\ joins = {}

Goto(g, l) == pc' = [pc EXCEPT ![g] = l]

Sema == INSTANCE Semaphore WITH permits <- sema

InWait(g) == pc[g] \in {"load", "cas", "sleep", "woken"}
Adding == {g \in G : pc[g] = "add" /\ delta[g] > 0}
Dropping == {g \in G : pc[g] = "add" /\ delta[g] < 0}

\* Units that nobody has called Done for and that no caller of Add relies on.
Spare == counter - Cardinality(Dropping) - Cardinality(joins)

\* The bound: the counter and what is being added to it.
WithinBound(d) == counter + MapThenSumSet(LAMBDA h : delta[h], Adding) + d <= MaxCounter

-----------------------------------------------------------------------------
\* A call of Add with a positive delta.
StartAdd(g, d) ==
    /\ pc[g] = "idle"
    /\ WithinBound(d)
    /\ \/ /\ \A h \in G : ~InWait(h)
          /\ UNCHANGED joins
       \/ /\ Spare > 0
          /\ joins' = joins \cup {g}
    /\ delta' = [delta EXCEPT ![g] = d]
    /\ Goto(g, "add")
    /\ UNCHANGED <<counter, waiters, sema, w, saw>>

\* Done is Add(-1).
Done(g) ==
    /\ pc[g] = "idle"
    /\ Spare > 0
    /\ delta' = [delta EXCEPT ![g] = -1]
    /\ Goto(g, "add")
    /\ UNCHANGED <<counter, waiters, sema, w, saw, joins>>

\* v > 0 || w == 0
NoneToWake(v) == v > 0 \/ waiters = 0

\* The AddUint64 and what Add decides from its result.
Add(g) ==
    LET v == counter + delta[g]
    IN  /\ pc[g] = "add"
        /\ counter' = v
        /\ \/ /\ v < 0 \/ (waiters # 0 /\ delta[g] > 0 /\ v = delta[g])
              /\ Goto(g, "panic")
              /\ UNCHANGED w
           \/ /\ v >= 0 /\ ~(waiters # 0 /\ delta[g] > 0 /\ v = delta[g])
              /\ NoneToWake(v)
              /\ Goto(g, "idle")
              /\ UNCHANGED w
           \/ /\ v >= 0 /\ ~(waiters # 0 /\ delta[g] > 0 /\ v = delta[g])
              /\ ~NoneToWake(v)
              /\ w' = [w EXCEPT ![g] = waiters]
              /\ Goto(g, "check")
        /\ joins' = joins \ {g}
        /\ delta' = [delta EXCEPT ![g] = 0]
        /\ UNCHANGED <<waiters, sema, saw>>

\* if *statep != state { panic(...) }
SanityCheck(g) ==
    /\ pc[g] = "check"
    /\ Goto(g, IF counter = 0 /\ waiters = w[g] THEN "reset" ELSE "panic")
    /\ UNCHANGED <<counter, waiters, sema, delta, w, saw, joins>>

\* *statep = 0
ResetState(g) ==
    /\ pc[g] = "reset"
    /\ counter' = 0 /\ waiters' = 0
    /\ Goto(g, "release")
    /\ UNCHANGED <<sema, delta, w, saw, joins>>

\* Mutation: one waiter too few is released.
LoopEndsEarly(g) == w[g] <= 2
\* for ; w != 0; w--
LoopEnds(g) == w[g] = 1

ReleaseWaiter(g) ==
    /\ pc[g] = "release"
    /\ Sema!Release
    /\ w' = [w EXCEPT ![g] = IF LoopEnds(g) THEN 0 ELSE @ - 1]
    /\ Goto(g, IF LoopEnds(g) THEN "idle" ELSE "release")
    /\ UNCHANGED <<counter, waiters, delta, saw, joins>>

-----------------------------------------------------------------------------
Wait(g) ==
    /\ pc[g] = "idle"
    /\ g \notin Workers
    /\ Adding \subseteq joins
    /\ Goto(g, "load")
    /\ UNCHANGED <<counter, waiters, sema, delta, w, saw, joins>>

\* "Counter is 0, no need to wait", or try to count as a waiter.
LoadState(g) ==
    /\ pc[g] = "load"
    /\ \/ counter = 0 /\ Goto(g, "idle") /\ UNCHANGED saw
       \/ counter # 0 /\ Goto(g, "cas") /\ saw' = [saw EXCEPT ![g] = <<counter, waiters>>]
    /\ UNCHANGED <<counter, waiters, sema, delta, w, joins>>

\* Mutation: the waiter count is incremented whatever the counter is by now.
WaitersAsLoaded(g) == waiters = saw[g][2]
StateAsLoaded(g) == saw[g] = <<counter, waiters>>

\* CompareAndSwapUint64(statep, state, state+1)
CountWaiter(g) ==
    /\ pc[g] = "cas"
    /\ \/ StateAsLoaded(g) /\ waiters' = waiters + 1 /\ Goto(g, "sleep")
       \/ ~StateAsLoaded(g) /\ Goto(g, "load") /\ UNCHANGED waiters
    /\ saw' = [saw EXCEPT ![g] = <<0, 0>>]
    /\ UNCHANGED <<counter, sema, delta, w, joins>>

\* runtime_Semacquire(semap)
Semacquire(g) ==
    /\ pc[g] = "sleep"
    /\ Sema!Take
    /\ Goto(g, "woken")
    /\ UNCHANGED <<counter, waiters, delta, w, saw, joins>>

\* if *statep != 0 { panic(...) }
WaitReturns(g) ==
    /\ pc[g] = "woken"
    /\ Goto(g, IF counter = 0 /\ waiters = 0 THEN "idle" ELSE "panic")
    /\ UNCHANGED <<counter, waiters, sema, delta, w, saw, joins>>

-----------------------------------------------------------------------------
Step(g) ==
    \/ Add(g) \/ SanityCheck(g) \/ ResetState(g) \/ ReleaseWaiter(g)
    \/ LoadState(g) \/ CountWaiter(g) \/ Semacquire(g) \/ WaitReturns(g)

Next ==
    \E g \in G :
        \/ \E d \in 1..MaxCounter : StartAdd(g, d)
        \/ Done(g) \/ Wait(g) \/ Step(g)

Spec == Init /\ [][Next]_vars

\* The scheduler runs every goroutine that is in a call.
FairSpec == Spec /\ \A g \in G : WF_vars(Step(g))

-----------------------------------------------------------------------------
\* No call panics: neither of the misuse checks in Add, nor the one at the end
\* of Wait, nor the one for a negative counter, goes off on callers that follow
\* the rules.
NoPanic == \A g \in G : pc[g] # "panic"

\* Permits and sleepers match: every waiter the last Done saw gets a permit, and
\* none is left over for the next round.  Between the AddUint64 and the reset
\* nobody joins.
PermitsMatch ==
    LET sleeping == Cardinality({g \in G : pc[g] = "sleep"})
        releasing == {g \in G : pc[g] \in {"check", "reset", "release"}}
        owed == IF releasing = {} THEN 0 ELSE w[CHOOSE g \in releasing : TRUE]
    IN  /\ Cardinality(releasing) <= 1
        /\ IF \E g \in releasing : pc[g] # "release"
           THEN waiters = owed /\ sleeping = owed /\ sema = 0
           ELSE sleeping = waiters + sema + owed

\* "Wait blocks until the WaitGroup counter is zero": a waiter that has been
\* woken finds the work of its round finished.
WaitMeansZero == \A g \in G : pc[g] = "woken" => counter = 0

\* Rounds of Add, Done and Wait do not mix: no misuse check of Add or Wait goes off,
\* every permit is owed to one sleeper of its round, and a Wait that was woken finds
\* its round over.
RoundsKeptApart == TypeOK /\ NoPanic /\ PermitsMatch /\ WaitMeansZero

\* Once the counter is zero every sleeping Wait returns.
WaitersReturn == \A g \in G : (pc[g] = "sleep" /\ counter = 0) ~> pc[g] = "idle"
====
