---- MODULE SemaQueue ----
(***************************************************************************)
(* The contract of the runtime's sleeping semaphore, for one address.      *)
(*                                                                         *)
(* sync.Mutex, sync.RWMutex, sync.WaitGroup and poll.fdMutex sleep on      *)
(* semaphores through runtime_SemacquireMutex and runtime_Semrelease       *)
(* (sync/runtime.go).  This module says what those two calls promise,      *)
(* without the lock, the waiter count and the shared root they are         *)
(* implemented with; module SemaRoot is that implementation and is shown   *)
(* to refine this one.  The actions take the caller's arguments (lifo,     *)
(* handoff) as parameters so that a client module can conjoin them with    *)
(* its own control.                                                        *)
(***************************************************************************)
EXTENDS Naturals, Sequences, FiniteSets

CONSTANTS G,      \* the goroutines
          NoG     \* "no goroutine"

ASSUME NoGAssumption == NoG \notin G

VARIABLES val,    \* *addr, the number of free permits
          waitq,  \* goroutines parked on addr, the next one to wake first
          call,   \* how far each goroutine is through a semaphore call
          hand    \* the waiter a releasing goroutine took off waitq

semaVars == <<val, waitq, call, hand>>

Stages == {"none", "acquire", "parked", "ticket", "post", "wake", "hand"}

SemaInit ==
    /\ val = 0
    /\ waitq = <<>>
    /\ call = [g \in G |-> "none"]
    /\ hand = [g \in G |-> NoG]

SemaTypeOK ==
    /\ val \in Nat
    /\ waitq \in Seq(G)
    /\ call \in [G -> Stages]
    /\ hand \in [G -> G \cup {NoG}]

-----------------------------------------------------------------------------
\* A goroutine enters runtime_SemacquireMutex, or runtime_Semrelease.
BeginAcquire(g) == call[g] = "none" /\ call' = [call EXCEPT ![g] = "acquire"]
BeginRelease(g) == call[g] = "none" /\ call' = [call EXCEPT ![g] = "post"]

\* A running acquirer, newly arrived or just woken, takes a free permit.
Acquire(g) ==
    /\ call[g] = "acquire"
    /\ val > 0
    /\ val' = val - 1
    /\ call' = [call EXCEPT ![g] = "none"]
    /\ UNCHANGED <<waitq, hand>>

\* A woken waiter returns with the permit the releaser set aside for it.
TakeTicket(g) ==
    /\ call[g] = "ticket"
    /\ call' = [call EXCEPT ![g] = "none"]
    /\ UNCHANGED <<val, waitq, hand>>

\* There is no permit: go to sleep, first in line when lifo, last otherwise.
Pushed(q, g, lifo) == IF lifo THEN <<g>> \o q ELSE Append(q, g)

Park(g, lifo) ==
    /\ call[g] = "acquire"
    /\ val = 0
    /\ waitq' = Pushed(waitq, g, lifo)
    /\ call' = [call EXCEPT ![g] = "parked"]
    /\ UNCHANGED <<val, hand>>

\* The releaser publishes the permit; anyone running may now take it.
Post(r) ==
    /\ call[r] = "post"
    /\ val' = val + 1
    /\ call' = [call EXCEPT ![r] = "wake"]
    /\ UNCHANGED <<waitq, hand>>

\* It may return without waking anyone only when no one is parked.
NoWaiter(r) ==
    /\ call[r] = "wake"
    /\ waitq = <<>>
    /\ call' = [call EXCEPT ![r] = "none"]
    /\ UNCHANGED <<val, waitq, hand>>

Dequeue(r) ==
    /\ call[r] = "wake"
    /\ waitq # <<>>
    /\ hand' = [hand EXCEPT ![r] = Head(waitq)]
    /\ waitq' = Tail(waitq)
    /\ call' = [call EXCEPT ![r] = "hand"]
    /\ UNCHANGED val

\* Mutation: a permit that is handed over stays free.
ReadyKeepsPermit(r, handoff) ==
    LET direct == handoff /\ val > 0
    IN  /\ call[r] = "hand"
        /\ call' = [call EXCEPT ![r] = "none",
                                ![hand[r]] = IF direct THEN "ticket" ELSE "acquire"]
        /\ hand' = [hand EXCEPT ![r] = NoG]
        /\ UNCHANGED <<val, waitq>>
\* Ready the dequeued waiter.  With handoff, and if the permit has not been
\* taken by someone else meanwhile, the waiter gets it as a ticket.
Ready(r, handoff) ==
    LET direct == handoff /\ val > 0
    IN  /\ call[r] = "hand"
        /\ val' = IF direct THEN val - 1 ELSE val
        /\ call' = [call EXCEPT ![r] = "none",
                                ![hand[r]] = IF direct THEN "ticket" ELSE "acquire"]
        /\ hand' = [hand EXCEPT ![r] = NoG]
        /\ UNCHANGED waitq

-----------------------------------------------------------------------------
SemaNext ==
    \E g \in G :
        \/ (BeginAcquire(g) \/ BeginRelease(g)) /\ UNCHANGED <<val, waitq, hand>>
        \/ Acquire(g)
        \/ TakeTicket(g)
        \/ \E lifo \in BOOLEAN : Park(g, lifo)
        \/ Post(g)
        \/ NoWaiter(g)
        \/ Dequeue(g)
        \/ \E handoff \in BOOLEAN : Ready(g, handoff)

SemaSpec == SemaInit /\ [][SemaNext]_semaVars

-----------------------------------------------------------------------------
\* The free permits, counting those set aside for a waiter that has been woken.
Tickets == {g \in G : call[g] = "ticket"}
Permits == val + Cardinality(Tickets)

Counting == INSTANCE Semaphore WITH permits <- Permits

Returning == {g \in G : call[g] \in {"acquire", "ticket"} /\ call'[g] = "none"}
Posting == {g \in G : call[g] = "post" /\ call'[g] = "wake"}

\* With its queue, its tickets and its wakeups it is still a counting
\* semaphore: runtime_Semrelease adds one permit, a runtime_SemacquireMutex that
\* returns uses up exactly one, handed over or not, and no other step, such as
\* a handoff or a futile wakeup, makes or loses one.
ImplementsSemaphore ==
    /\ Counting!Init
    /\ [][/\ Returning # {} => Counting!Take
          /\ Posting # {} => Counting!Release
          /\ Returning \cup Posting = {} => UNCHANGED Permits]_semaVars
====
