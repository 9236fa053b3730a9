---- MODULE RWMutex ----
(***************************************************************************)
(* sync/rwmutex.go: RWMutex, over a sync.Locker for w (module OwnedLock,   *)
(* which Mutex implements) and counting semaphores for readerSem and       *)
(* writerSem (module Semaphore, which SemaQueue implements).               *)
(*                                                                         *)
(* Each atomic operation and each semaphore call is a step.  MaxReaders    *)
(* stands for rwmutexMaxReaders; the code takes 1 << 30, anything above    *)
(* the number of goroutines behaves the same.                              *)
(***************************************************************************)
EXTENDS Integers, FiniteSets

CONSTANTS G, NoG,
          MaxReaders   \* rwmutexMaxReaders

ASSUME RWAssumption ==
    /\ NoG \notin G
    /\ IsFiniteSet(G)
    /\ MaxReaders \in Nat
    /\ Cardinality(G) < MaxReaders

VARIABLES w,           \* owner of rw.w
          writerSem, readerSem, readerCount, readerWait,   \* the other fields
          pc,          \* control of each goroutine
          r            \* the local r of Lock, or what Unlock has left to release

fields == <<w, writerSem, readerSem, readerCount, readerWait>>
vars == <<fields, pc, r>>

Control == {"idle", "rwait", "reading", "rslow", "rpost",
            "announce", "addwait", "wwait", "writing", "drain"}

TypeOK ==
    /\ w \in G \cup {NoG}
    /\ writerSem \in 0..1
    /\ readerSem \in 0..Cardinality(G)
    /\ readerCount \in (-MaxReaders)..Cardinality(G)
    /\ readerWait \in (-Cardinality(G))..Cardinality(G)
    /\ pc \in [G -> Control]
    /\ r \in [G -> 0..Cardinality(G)]

Init ==
    /\ w = NoG
    /\ writerSem = 0 /\ readerSem = 0
    /\ readerCount = 0 /\ readerWait = 0
    /\ pc = [g \in G |-> "idle"]
    /\ r = [g \in G |-> 0]

Goto(g, l) == pc' = [pc EXCEPT ![g] = l]

WLock == INSTANCE OwnedLock WITH owner <- w
WriterSem == INSTANCE Semaphore WITH permits <- writerSem
ReaderSem == INSTANCE Semaphore WITH permits <- readerSem

\* "RUnlock of unlocked RWMutex", "Unlock of unlocked RWMutex".
Throws(g) ==
    \/ pc[g] = "reading" /\ readerCount \in {0, -MaxReaders}
    \/ pc[g] = "writing" /\ readerCount >= 0

-----------------------------------------------------------------------------
RLock(g) ==
    /\ pc[g] = "idle"
    /\ readerCount' = readerCount + 1
    /\ \/ readerCount' >= 0 /\ Goto(g, "reading")
       \/ readerCount' < 0 /\ Goto(g, "rwait")
    /\ UNCHANGED <<w, writerSem, readerSem, readerWait, r>>

\* "A writer is pending, wait for it."
AcquireReaderSem(g) ==
    /\ pc[g] = "rwait"
    /\ ReaderSem!Take
    /\ Goto(g, "reading")
    /\ UNCHANGED <<w, writerSem, readerCount, readerWait, r>>

RUnlock(g) ==
    /\ pc[g] = "reading"
    /\ ~Throws(g)
    /\ readerCount' = readerCount - 1
    /\ Goto(g, IF readerCount' < 0 THEN "rslow" ELSE "idle")
    /\ UNCHANGED <<w, writerSem, readerSem, readerWait, r>>

\* Mutation: the writer is released by the last but one reader.
LastButOneToLeave == readerWait' = 1
\* "The last reader unblocks the writer."
LastToLeave == readerWait' = 0

rUnlockSlow(g) ==
    /\ pc[g] = "rslow"
    /\ readerWait' = readerWait - 1
    /\ Goto(g, IF LastToLeave THEN "rpost" ELSE "idle")
    /\ UNCHANGED <<w, writerSem, readerSem, readerCount, r>>

ReleaseWriterSem(g) ==
    /\ pc[g] = "rpost"
    /\ WriterSem!Release
    /\ Goto(g, "idle")
    /\ UNCHANGED <<w, readerSem, readerCount, readerWait, r>>

-----------------------------------------------------------------------------
\* "First, resolve competition with other writers."
Lock(g) ==
    /\ pc[g] = "idle"
    /\ WLock!Lock(g)
    /\ Goto(g, "announce")
    /\ UNCHANGED <<writerSem, readerSem, readerCount, readerWait, r>>

\* "Announce to readers there is a pending writer."
AnnounceWriter(g) ==
    /\ pc[g] = "announce"
    /\ readerCount' = readerCount - MaxReaders
    /\ r' = [r EXCEPT ![g] = readerCount]
    /\ Goto(g, IF readerCount = 0 THEN "writing" ELSE "addwait")
    /\ UNCHANGED <<w, writerSem, readerSem, readerWait>>

\* atomic.AddInt32(&rw.readerWait, r) != 0
ReadersLeft(g) == readerWait' # 0

\* "Wait for active readers."
AddReaderWait(g) ==
    /\ pc[g] = "addwait"
    /\ readerWait' = readerWait + r[g]
    /\ Goto(g, IF ReadersLeft(g) THEN "wwait" ELSE "writing")
    /\ UNCHANGED <<w, writerSem, readerSem, readerCount, r>>

AcquireWriterSem(g) ==
    /\ pc[g] = "wwait"
    /\ WriterSem!Take
    /\ Goto(g, "writing")
    /\ UNCHANGED <<w, readerSem, readerCount, readerWait, r>>

\* "Announce to readers there is no active writer."
Unlock(g) ==
    /\ pc[g] = "writing"
    /\ ~Throws(g)
    /\ readerCount' = readerCount + MaxReaders
    /\ r' = [r EXCEPT ![g] = readerCount']
    /\ Goto(g, "drain")
    /\ UNCHANGED <<w, writerSem, readerSem, readerWait>>

\* "Unblock blocked readers, if any."
ReleaseReaderSem(g) ==
    /\ pc[g] = "drain"
    /\ r[g] > 0
    /\ ReaderSem!Release
    /\ r' = [r EXCEPT ![g] = @ - 1]
    /\ UNCHANGED <<w, writerSem, readerCount, readerWait, pc>>

\* Mutation: other writers may proceed before the readers are released.
UnlockEarly(g) ==
    /\ pc[g] = "drain"
    /\ WLock!Unlock(g)
    /\ Goto(g, "idle")
    /\ r' = [r EXCEPT ![g] = 0]
    /\ UNCHANGED <<writerSem, readerSem, readerCount, readerWait>>
\* "Allow other writers to proceed."
UnlockW(g) ==
    /\ pc[g] = "drain"
    /\ r[g] = 0
    /\ WLock!Unlock(g)
    /\ Goto(g, "idle")
    /\ UNCHANGED <<writerSem, readerSem, readerCount, readerWait, r>>

-----------------------------------------------------------------------------
\* The steps of a goroutine that is in a call or holds the lock.
Step(g) ==
    \/ AcquireReaderSem(g) \/ RUnlock(g) \/ rUnlockSlow(g) \/ ReleaseWriterSem(g)
    \/ AnnounceWriter(g) \/ AddReaderWait(g) \/ AcquireWriterSem(g)
    \/ Unlock(g) \/ ReleaseReaderSem(g) \/ UnlockW(g)

Next == \E g \in G : RLock(g) \/ Lock(g) \/ Step(g)

Spec == Init /\ [][Next]_vars

\* Goroutines run, holders unlock, and a permit reaches someone who waits.
FairSpec == Spec /\ \A g \in G : WF_vars(Step(g))

-----------------------------------------------------------------------------
At(l) == {g \in G : pc[g] \in l}

\* A writer excludes readers and other writers, whoever the semaphore permits
\* went to and however many readers left between the two AddInt32 calls of Lock.
Exclusion ==
    \A g \in G : pc[g] = "writing" => At({"reading", "writing"}) = {g}

\* The throws of RUnlock and Unlock are unreachable.
NoThrow == \A g \in G : ~Throws(g)

Announced == readerCount < 0

\* readerWait and writerSem account for the readers the pending writer waits
\* for: the writer is woken exactly once, by the last of them, and nothing is
\* left over for the next writer.  Readers it waits for either read, are about
\* to get a permit of the previous writer, or are leaving.
WriterAccount ==
    LET waiting == At({"addwait", "wwait"})
        leaving == Cardinality(At({"rslow"}))
        owed == Cardinality(At({"reading", "rslow"})) + readerSem
    IN  /\ waiting = {} => readerWait = 0 /\ leaving = 0
        /\ waiting = {} => writerSem = 0 /\ At({"rpost"}) = {}
        /\ \A g \in waiting :
              IF pc[g] = "addwait"
              THEN readerWait + r[g] = owed /\ writerSem = 0
              ELSE /\ readerWait = owed
                   /\ writerSem + Cardinality(At({"rpost"})) = (IF owed = 0 THEN 1 ELSE 0)

\* Every reader that sleeps on readerSem is counted by the writer that will
\* release it: permits, given or still to be given, match the sleepers that do
\* not wait for the current writer.
ReaderPermits ==
    LET sleeping == Cardinality(At({"rwait"}))
        draining == At({"drain"})
        toGive == IF draining = {} THEN 0 ELSE r[CHOOSE g \in draining : TRUE]
    IN  IF Announced THEN readerSem <= sleeping
        ELSE readerSem + toGive = sleeping

\* The accounts of RWMutex balance in every interleaving of RLock, RUnlock, Lock and
\* Unlock: counts stay in range, no throw is reached, and the permits of both
\* semaphores are owed to exactly those that wait for them.
Accounts == TypeOK /\ NoThrow /\ WriterAccount /\ ReaderPermits

\* A writer that has announced itself gets the lock: the readers it waits for
\* leave, and the last of them wakes it.
WriterGetsIn == \A g \in G : pc[g] \in {"addwait", "wwait"} ~> pc[g] = "writing"
====
