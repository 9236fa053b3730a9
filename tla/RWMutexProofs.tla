---- MODULE RWMutexProofs ----
(***************************************************************************)
(* Proofs about sync.RWMutex (module RWMutex), for any finite set of       *)
(* goroutines below MaxReaders: a writer excludes everyone, no throw is    *)
(* reachable, and the counts and permits balance.                          *)
(*                                                                         *)
(* Exclusion rests on the accounts: a writer goes on when readerWait says  *)
(* that nobody it waits for is left, and readers are told that a writer is *)
(* pending by the sign of readerCount.  The accounts rest on each other,   *)
(* and on w, so that there is one writer to keep them.                     *)
(***************************************************************************)
EXTENDS RWMutex, Counting

Reading == Count(G, pc, "reading")
Sleeping == Count(G, pc, "rwait")
Leaving == Count(G, pc, "rslow")
Posting == Count(G, pc, "rpost")

\* The stage of the goroutine that has rw.w, and its r.
Stage == IF w = NoG THEN "none" ELSE pc[w]
Copy == IF w = NoG THEN 0 ELSE r[w]

\* What a pending writer waits for: readers that read, leave, or are about to get a
\* permit of the writer before.
Owed == Reading + Leaving + readerSem

WriterPc == {"announce", "addwait", "wwait", "writing", "drain"}
Pending == Stage \in {"addwait", "wwait", "writing"}

Types ==
    /\ w \in G \cup {NoG}
    /\ writerSem \in Nat /\ readerSem \in Nat
    /\ readerCount \in Int /\ readerWait \in Int
    /\ pc \in [G -> Control]
    /\ r \in [G -> 0..Cardinality(G)]

\* rw.w is held from the start of Lock to the end of Unlock.
HolderInv == \A g \in G : pc[g] \in WriterPc <=> w = g

\* readerCount is the number of readers that read or sleep, less MaxReaders while a
\* writer is pending; the sleepers have permits, or are owed them by the writer that
\* drains, or by the pending one.
ReaderBooks ==
    /\ readerCount = Reading + Sleeping - (IF Pending THEN MaxReaders ELSE 0)
    /\ IF Pending THEN readerSem <= Sleeping
       ELSE readerSem + (IF Stage = "drain" THEN Copy ELSE 0) = Sleeping

\* readerWait and writerSem at each stage of the pending writer.
WriterBooks ==
    /\ Stage \notin {"addwait", "wwait"} =>
          readerWait = 0 /\ Leaving = 0 /\ writerSem = 0 /\ Posting = 0
    /\ Stage = "addwait" =>
          readerWait + Copy = Owed /\ readerWait <= 0 /\ writerSem = 0 /\ Posting = 0
    /\ Stage = "wwait" =>
          readerWait = Owed /\ writerSem + Posting = (IF Owed = 0 THEN 1 ELSE 0)
    /\ Stage = "writing" => Owed = 0

\* The inductive invariant.
IInv == Types /\ HolderInv /\ ReaderBooks /\ WriterBooks

-----------------------------------------------------------------------------
\* The numbers are natural, and goroutines at different labels are different.
LEMMA Numbers ==
    /\ Reading \in Nat /\ Sleeping \in Nat /\ Leaving \in Nat /\ Posting \in Nat
    /\ Cardinality(G) \in Nat
    /\ Reading + Sleeping + Leaving <= Cardinality(G)
    /\ Reading = 0 <=> \A g \in G : pc[g] # "reading"
    /\ Sleeping = 0 <=> \A g \in G : pc[g] # "rwait"
    /\ Leaving = 0 <=> \A g \in G : pc[g] # "rslow"
    /\ Posting = 0 <=> \A g \in G : pc[g] # "rpost"
<1>1. IsFiniteSet(G) /\ Cardinality(G) \in Nat
  BY RWAssumption, FS_CardinalityType
<1>2. QED
  BY <1>1, CountType, CountThree DEF Reading, Sleeping, Leaving, Posting

Moves(from, to, l) == (IF to = l THEN 1 ELSE 0) - (IF from = l THEN 1 ELSE 0)

\* What a step of a goroutine from one label to another does to the numbers.
Moved(g, l) ==
    /\ Reading' = Reading + Moves(pc[g], l, "reading")
    /\ Sleeping' = Sleeping + Moves(pc[g], l, "rwait")
    /\ Leaving' = Leaving + Moves(pc[g], l, "rslow")
    /\ Posting' = Posting + Moves(pc[g], l, "rpost")
    /\ Reading' + Sleeping' + Leaving' <= Cardinality(G)
    /\ \A h \in G \ {g} : pc'[h] = pc[h]
    /\ pc'[g] = l

\* A step of one goroutine changes the numbers by what it leaves and what it enters.
LEMMA Move ==
    ASSUME pc \in [G -> Control], NEW g \in G, NEW l, Goto(g, l)
    PROVE  Moved(g, l)
<1>1. pc'[g] = l /\ \A h \in G \ {g} : pc'[h] = pc[h]
  BY DEF Goto
<1>2. IsFiniteSet(G)
  BY RWAssumption
<1>3. \A x : Count(G, pc', x) = Count(G, pc, x) + (IF pc'[g] = x THEN 1 ELSE 0)
                                             - (IF pc[g] = x THEN 1 ELSE 0)
  BY <1>1, <1>2, CountMove
<1>4. \A x : Count(G, pc, x) \in Nat
  BY <1>2, CountType
<1>5. \A x : Count(G, pc', x) = Count(G, pc, x) + Moves(pc[g], l, x)
  BY <1>1, <1>3, <1>4 DEF Moves
<1>6. Reading' + Sleeping' + Leaving' <= Cardinality(G)
  BY <1>2, CountThree DEF Reading, Sleeping, Leaving
<1>7. QED
  BY <1>1, <1>5, <1>6 DEF Moved, Reading, Sleeping, Leaving, Posting

\* The step of a goroutine that has nothing to do with rw.w leaves the writer where
\* it is; the others are those of the writer.
LEMMA Stages ==
    ASSUME Types, HolderInv, NEW g \in G, NEW l, Goto(g, l)
    PROVE  /\ pc[g] \notin WriterPc /\ UNCHANGED <<w, r>> => UNCHANGED <<Stage, Copy>>
           /\ pc[g] \in WriterPc => w = g /\ Stage = pc[g] /\ Copy = r[g]
           /\ w' = g => Stage' = l /\ Copy' = r'[g]
           /\ Copy \in 0..Cardinality(G)
BY RWAssumption, Numbers DEF Types, HolderInv, Stage, Copy, Goto

\* RLock counts the reader; with a writer pending it is to sleep.
LEMMA RLockStep == ASSUME NEW g \in G, IInv, RLock(g) PROVE IInv'
<1> DEFINE l == IF Pending THEN "rwait" ELSE "reading"
<1>1. Goto(g, l)
  BY RWAssumption, Numbers, Move, Stages
  DEF RLock, IInv, Types, ReaderBooks, WriterBooks, Owed, Pending, Moved, Moves, WriterPc
<1>2. Moved(g, l)
  BY <1>1, Move DEF IInv, Types
<1>3. Types' /\ HolderInv'
  BY <1>1, <1>2, Numbers, RWAssumption DEF RLock, IInv, Types, HolderInv, Moved, WriterPc, Goto, Control
<1>4. Stage' = Stage /\ Copy' = Copy /\ Copy \in Nat
  BY <1>1, Stages, Numbers DEF IInv, WriterPc, RLock
<1>5. ReaderBooks'
  BY <1>2, <1>4, Numbers, RWAssumption
  DEF RLock, IInv, Types, ReaderBooks, WriterBooks, Owed, Pending, Moved, Moves
<1>6. WriterBooks'
  BY <1>2, <1>4, Numbers, RWAssumption
  DEF RLock, IInv, Types, ReaderBooks, WriterBooks, Owed, Pending, Moved, Moves
<1>7. QED
  BY <1>3, <1>5, <1>6 DEF IInv

\* A reader gets a permit: it goes on to read, and is owed no more.
LEMMA AcquireReaderSemStep == ASSUME NEW g \in G, IInv, AcquireReaderSem(g) PROVE IInv'
<1> DEFINE l == "reading"
<1>1. Goto(g, l)
  BY RWAssumption, Numbers, Move, Stages
  DEF AcquireReaderSem, ReaderSem!Take, IInv, Types, ReaderBooks, WriterBooks, Owed, Pending, Moved, Moves, WriterPc
<1>2. Moved(g, l)
  BY <1>1, Move DEF IInv, Types
<1>3. Types' /\ HolderInv'
  BY <1>1, <1>2, Numbers, RWAssumption DEF AcquireReaderSem, ReaderSem!Take, IInv, Types, HolderInv, Moved, WriterPc, Goto, Control
<1>4. Stage' = Stage /\ Copy' = Copy /\ Copy \in Nat
  BY <1>1, Stages, Numbers DEF IInv, WriterPc, AcquireReaderSem
<1>5. ReaderBooks'
  BY <1>2, <1>4, Numbers, RWAssumption
  DEF AcquireReaderSem, ReaderSem!Take, IInv, Types, ReaderBooks, WriterBooks, Owed, Pending, Moved, Moves
<1>6. WriterBooks'
  BY <1>2, <1>4, Numbers, RWAssumption
  DEF AcquireReaderSem, ReaderSem!Take, IInv, Types, ReaderBooks, WriterBooks, Owed, Pending, Moved, Moves
<1>7. QED
  BY <1>3, <1>5, <1>6 DEF IInv

\* RUnlock, which leaves for rUnlockSlow while a writer is pending.
LEMMA RUnlockStep == ASSUME NEW g \in G, IInv, RUnlock(g) PROVE IInv'
<1> DEFINE l == IF Pending THEN "rslow" ELSE "idle"
<1>1. Goto(g, l)
  BY RWAssumption, Numbers, Move, Stages
  DEF RUnlock, Throws, IInv, Types, ReaderBooks, WriterBooks, Owed, Pending, Moved, Moves, WriterPc
<1>2. Moved(g, l)
  BY <1>1, Move DEF IInv, Types
<1>3. Types' /\ HolderInv'
  BY <1>1, <1>2, Numbers, RWAssumption DEF RUnlock, Throws, IInv, Types, HolderInv, Moved, WriterPc, Goto, Control
<1>4. Stage' = Stage /\ Copy' = Copy /\ Copy \in Nat
  BY <1>1, Stages, Numbers DEF IInv, WriterPc, RUnlock
<1>5. ReaderBooks'
  BY <1>2, <1>4, Numbers, RWAssumption
  DEF RUnlock, Throws, IInv, Types, ReaderBooks, WriterBooks, Owed, Pending, Moved, Moves
<1>6. WriterBooks'
  BY <1>2, <1>4, Numbers, RWAssumption
  DEF RUnlock, Throws, IInv, Types, ReaderBooks, WriterBooks, Owed, Pending, Moved, Moves
<1>7. QED
  BY <1>3, <1>5, <1>6 DEF IInv

\* A reader has left; the last one the writer waits for is to wake it.
LEMMA rUnlockSlowStep == ASSUME NEW g \in G, IInv, rUnlockSlow(g) PROVE IInv'
<1> DEFINE l == IF readerWait = 1 THEN "rpost" ELSE "idle"
<1>1. Goto(g, l)
  BY RWAssumption, Numbers, Move, Stages
  DEF rUnlockSlow, LastToLeave, IInv, Types, ReaderBooks, WriterBooks, Owed, Pending, Moved, Moves, WriterPc
<1>2. Moved(g, l)
  BY <1>1, Move DEF IInv, Types
<1>3. Types' /\ HolderInv'
  BY <1>1, <1>2, Numbers, RWAssumption DEF rUnlockSlow, LastToLeave, IInv, Types, HolderInv, Moved, WriterPc, Goto, Control
<1>4. Stage' = Stage /\ Copy' = Copy /\ Copy \in Nat
  BY <1>1, Stages, Numbers DEF IInv, WriterPc, rUnlockSlow
<1>5. ReaderBooks'
  BY <1>2, <1>4, Numbers, RWAssumption
  DEF rUnlockSlow, LastToLeave, IInv, Types, ReaderBooks, WriterBooks, Owed, Pending, Moved, Moves
<1>6. WriterBooks'
  BY <1>2, <1>4, Numbers, RWAssumption
  DEF rUnlockSlow, LastToLeave, IInv, Types, ReaderBooks, WriterBooks, Owed, Pending, Moved, Moves
<1>7. QED
  BY <1>3, <1>5, <1>6 DEF IInv

\* The last reader posts the writer's permit.
LEMMA ReleaseWriterSemStep == ASSUME NEW g \in G, IInv, ReleaseWriterSem(g) PROVE IInv'
<1> DEFINE l == "idle"
<1>1. Goto(g, l)
  BY RWAssumption, Numbers, Move, Stages
  DEF ReleaseWriterSem, WriterSem!Release, IInv, Types, ReaderBooks, WriterBooks, Owed, Pending, Moved, Moves, WriterPc
<1>2. Moved(g, l)
  BY <1>1, Move DEF IInv, Types
<1>3. Types' /\ HolderInv'
  BY <1>1, <1>2, Numbers, RWAssumption DEF ReleaseWriterSem, WriterSem!Release, IInv, Types, HolderInv, Moved, WriterPc, Goto, Control
<1>4. Stage' = Stage /\ Copy' = Copy /\ Copy \in Nat
  BY <1>1, Stages, Numbers DEF IInv, WriterPc, ReleaseWriterSem
<1>5. ReaderBooks'
  BY <1>2, <1>4, Numbers, RWAssumption
  DEF ReleaseWriterSem, WriterSem!Release, IInv, Types, ReaderBooks, WriterBooks, Owed, Pending, Moved, Moves
<1>6. WriterBooks'
  BY <1>2, <1>4, Numbers, RWAssumption
  DEF ReleaseWriterSem, WriterSem!Release, IInv, Types, ReaderBooks, WriterBooks, Owed, Pending, Moved, Moves
<1>7. QED
  BY <1>3, <1>5, <1>6 DEF IInv

\* A writer gets rw.w.
LEMMA LockStep == ASSUME NEW g \in G, IInv, Lock(g) PROVE IInv'
<1> DEFINE l == "announce"
<1>1. Goto(g, l)
  BY RWAssumption, Numbers, Move, Stages
  DEF Lock, WLock!Lock, WLock!Passes, IInv, Types, ReaderBooks, WriterBooks, Owed, Pending, Moved, Moves, WriterPc
<1>2. Moved(g, l)
  BY <1>1, Move DEF IInv, Types
<1>3. Types' /\ HolderInv'
  BY <1>1, <1>2, Numbers, RWAssumption DEF Lock, WLock!Lock, WLock!Passes, IInv, Types, HolderInv, Moved, WriterPc, Goto, Control
<1>4. Stage = "none" /\ Stage' = "announce"
  BY <1>1, Stages, RWAssumption DEF IInv, Stage, Lock, WLock!Lock, WLock!Passes
<1>5. ReaderBooks'
  BY <1>2, <1>4, Numbers, RWAssumption
  DEF Lock, WLock!Lock, WLock!Passes, IInv, Types, ReaderBooks, WriterBooks, Owed, Pending, Moved, Moves
<1>6. WriterBooks'
  BY <1>2, <1>4, Numbers, RWAssumption
  DEF Lock, WLock!Lock, WLock!Passes, IInv, Types, ReaderBooks, WriterBooks, Owed, Pending, Moved, Moves
<1>7. QED
  BY <1>3, <1>5, <1>6 DEF IInv

\* The writer announces itself and takes a copy of readerCount.
LEMMA AnnounceWriterStep == ASSUME NEW g \in G, IInv, AnnounceWriter(g) PROVE IInv'
<1> DEFINE l == IF readerCount = 0 THEN "writing" ELSE "addwait"
<1>1. Goto(g, l)
  BY RWAssumption, Numbers, Move, Stages
  DEF AnnounceWriter, IInv, Types, ReaderBooks, WriterBooks, Owed, Pending, Moved, Moves, WriterPc
<1>2. Moved(g, l)
  BY <1>1, Move DEF IInv, Types
<1>3. Stage = pc[g] /\ Copy = r[g] /\ Stage' = l /\ Copy' = r'[g] /\ Copy \in Nat
  BY <1>1, Stages, Numbers DEF IInv, WriterPc, AnnounceWriter
<1>4. readerCount \in 0..Cardinality(G)
  BY <1>3, Numbers, RWAssumption DEF AnnounceWriter, IInv, Types, ReaderBooks, Pending
<1>5. Types' /\ HolderInv'
  BY <1>1, <1>2, <1>4 DEF AnnounceWriter, IInv, Types, HolderInv, Moved, WriterPc, Goto, Control
<1>6. ReaderBooks'
  BY <1>2, <1>3, Numbers, RWAssumption
  DEF AnnounceWriter, IInv, Types, ReaderBooks, WriterBooks, Owed, Pending, Moved, Moves
<1>7. WriterBooks'
  BY <1>2, <1>3, Numbers, RWAssumption
  DEF AnnounceWriter, IInv, Types, ReaderBooks, WriterBooks, Owed, Pending, Moved, Moves
<1>8. QED
  BY <1>5, <1>6, <1>7 DEF IInv

\* The copy is added to what the readers that left meanwhile have subtracted.
LEMMA AddReaderWaitStep == ASSUME NEW g \in G, IInv, AddReaderWait(g) PROVE IInv'
<1> DEFINE l == IF Owed = 0 THEN "writing" ELSE "wwait"
<1>1. Goto(g, l)
  BY RWAssumption, Numbers, Move, Stages
  DEF AddReaderWait, ReadersLeft, IInv, Types, ReaderBooks, WriterBooks, Owed, Pending, Moved, Moves, WriterPc
<1>2. Moved(g, l)
  BY <1>1, Move DEF IInv, Types
<1>3. Types' /\ HolderInv'
  BY <1>1, <1>2, Numbers, RWAssumption DEF AddReaderWait, ReadersLeft, IInv, Types, HolderInv, Moved, WriterPc, Goto, Control
<1>4. Stage = pc[g] /\ Copy = r[g] /\ Stage' = l /\ Copy' = r'[g] /\ Copy \in Nat
  BY <1>1, Stages, Numbers DEF IInv, WriterPc, AddReaderWait
<1>5. ReaderBooks'
  BY <1>2, <1>4, Numbers, RWAssumption
  DEF AddReaderWait, ReadersLeft, IInv, Types, ReaderBooks, WriterBooks, Owed, Pending, Moved, Moves
<1>6. WriterBooks'
  BY <1>2, <1>4, Numbers, RWAssumption
  DEF AddReaderWait, ReadersLeft, IInv, Types, ReaderBooks, WriterBooks, Owed, Pending, Moved, Moves
<1>7. QED
  BY <1>3, <1>5, <1>6 DEF IInv

\* The writer gets the permit: nobody it waited for is left.
LEMMA AcquireWriterSemStep == ASSUME NEW g \in G, IInv, AcquireWriterSem(g) PROVE IInv'
<1> DEFINE l == "writing"
<1>1. Goto(g, l)
  BY RWAssumption, Numbers, Move, Stages
  DEF AcquireWriterSem, WriterSem!Take, IInv, Types, ReaderBooks, WriterBooks, Owed, Pending, Moved, Moves, WriterPc
<1>2. Moved(g, l)
  BY <1>1, Move DEF IInv, Types
<1>3. Types' /\ HolderInv'
  BY <1>1, <1>2, Numbers, RWAssumption DEF AcquireWriterSem, WriterSem!Take, IInv, Types, HolderInv, Moved, WriterPc, Goto, Control
<1>4. Stage = pc[g] /\ Copy = r[g] /\ Stage' = l /\ Copy' = r'[g] /\ Copy \in Nat
  BY <1>1, Stages, Numbers DEF IInv, WriterPc, AcquireWriterSem
<1>5. ReaderBooks'
  BY <1>2, <1>4, Numbers, RWAssumption
  DEF AcquireWriterSem, WriterSem!Take, IInv, Types, ReaderBooks, WriterBooks, Owed, Pending, Moved, Moves
<1>6. WriterBooks'
  BY <1>2, <1>4, Numbers, RWAssumption
  DEF AcquireWriterSem, WriterSem!Take, IInv, Types, ReaderBooks, WriterBooks, Owed, Pending, Moved, Moves
<1>7. QED
  BY <1>3, <1>5, <1>6 DEF IInv

\* The writer withdraws its announcement and counts those that sleep.
LEMMA UnlockStep == ASSUME NEW g \in G, IInv, Unlock(g) PROVE IInv'
<1> DEFINE l == "drain"
<1>1. Goto(g, l)
  BY RWAssumption, Numbers, Move, Stages
  DEF Unlock, Throws, IInv, Types, ReaderBooks, WriterBooks, Owed, Pending, Moved, Moves, WriterPc
<1>2. Moved(g, l)
  BY <1>1, Move DEF IInv, Types
<1>3. Stage = pc[g] /\ Copy = r[g] /\ Stage' = l /\ Copy' = r'[g] /\ Copy \in Nat
  BY <1>1, Stages, Numbers DEF IInv, WriterPc, Unlock
<1>4. readerCount' \in 0..Cardinality(G)
  BY <1>3, Numbers, RWAssumption DEF Unlock, Throws, IInv, Types, ReaderBooks, Pending
<1>5. Types' /\ HolderInv'
  BY <1>1, <1>2, <1>4 DEF Unlock, Throws, IInv, Types, HolderInv, Moved, WriterPc, Goto, Control
<1>6. ReaderBooks'
  BY <1>2, <1>3, Numbers, RWAssumption
  DEF Unlock, Throws, IInv, Types, ReaderBooks, WriterBooks, Owed, Pending, Moved, Moves
<1>7. WriterBooks'
  BY <1>2, <1>3, Numbers, RWAssumption
  DEF Unlock, Throws, IInv, Types, ReaderBooks, WriterBooks, Owed, Pending, Moved, Moves
<1>8. QED
  BY <1>5, <1>6, <1>7 DEF IInv

\* All permits are given; other writers may proceed.
LEMMA UnlockWStep == ASSUME NEW g \in G, IInv, UnlockW(g) PROVE IInv'
<1> DEFINE l == "idle"
<1>1. Goto(g, l)
  BY RWAssumption, Numbers, Move, Stages
  DEF UnlockW, WLock!Unlock, WLock!Passes, IInv, Types, ReaderBooks, WriterBooks, Owed, Pending, Moved, Moves, WriterPc
<1>2. Moved(g, l)
  BY <1>1, Move DEF IInv, Types
<1>3. Types' /\ HolderInv'
  BY <1>1, <1>2, Numbers, RWAssumption DEF UnlockW, WLock!Unlock, WLock!Passes, IInv, Types, HolderInv, Moved, WriterPc, Goto, Control
<1>4. Stage = "drain" /\ Stage' = "none" /\ Copy = 0
  BY <1>1, Stages, RWAssumption DEF IInv, Stage, WriterPc, UnlockW, WLock!Unlock, WLock!Passes
<1>5. ReaderBooks'
  BY <1>2, <1>4, Numbers, RWAssumption
  DEF UnlockW, WLock!Unlock, WLock!Passes, IInv, Types, ReaderBooks, WriterBooks, Owed, Pending, Moved, Moves
<1>6. WriterBooks'
  BY <1>2, <1>4, Numbers, RWAssumption
  DEF UnlockW, WLock!Unlock, WLock!Passes, IInv, Types, ReaderBooks, WriterBooks, Owed, Pending, Moved, Moves
<1>7. QED
  BY <1>3, <1>5, <1>6 DEF IInv

\* A new RWMutex.
LEMMA InitIInv == Init => IInv
<1> SUFFICES ASSUME Init PROVE IInv
  OBVIOUS
<1>1. Reading = 0 /\ Sleeping = 0 /\ Leaving = 0 /\ Posting = 0
  BY Numbers DEF Init
<1>2. Types /\ HolderInv
  BY RWAssumption, Numbers DEF Init, Types, HolderInv, WriterPc, Control
<1>3. ReaderBooks /\ WriterBooks
  BY <1>1 DEF Init, ReaderBooks, WriterBooks, Owed, Pending, Stage, Copy
<1>4. QED
  BY <1>2, <1>3 DEF IInv

\* A permit for one of the sleepers, in the loop of Unlock.
LEMMA ReleaseReaderSemStep == ASSUME NEW g \in G, IInv, ReleaseReaderSem(g) PROVE IInv'
<1> USE DEF ReleaseReaderSem, ReaderSem!Release
<1>1. UNCHANGED <<Reading, Sleeping, Leaving, Posting>>
  BY DEF Reading, Sleeping, Leaving, Posting
<1>2. Types' /\ HolderInv'
  BY Numbers DEF IInv, Types, HolderInv
<1>3. Stage = "drain" /\ Stage' = Stage /\ Copy = r[g] /\ Copy' = Copy - 1
  BY RWAssumption DEF IInv, Types, HolderInv, WriterPc, Stage, Copy
<1>4. ReaderBooks' /\ WriterBooks'
  BY <1>1, <1>3, Numbers DEF IInv, Types, ReaderBooks, WriterBooks, Pending
<1>5. QED
  BY <1>2, <1>4 DEF IInv

\* Every step keeps the invariant.
LEMMA NextIInv == IInv /\ [Next]_vars => IInv'
<1> SUFFICES ASSUME IInv, [Next]_vars PROVE IInv'
  OBVIOUS
<1>1. CASE UNCHANGED vars
  BY <1>1 DEF vars, fields, IInv, Types, HolderInv, ReaderBooks, WriterBooks, Owed, Pending, Stage, Copy,
              Reading, Sleeping, Leaving, Posting
<1>2. ASSUME NEW g \in G, RLock(g) \/ Lock(g) \/ Step(g) PROVE IInv'
  BY <1>2, RLockStep, AcquireReaderSemStep, RUnlockStep, rUnlockSlowStep, ReleaseWriterSemStep,
     LockStep, AnnounceWriterStep, AddReaderWaitStep, AcquireWriterSemStep, UnlockStep,
     ReleaseReaderSemStep, UnlockWStep DEF Step
<1>3. QED
  BY <1>1, <1>2 DEF Next

\* The invariant holds in every reachable state.
THEOREM Invariance == Spec => []IInv
BY InitIInv, NextIInv, PTL DEF Spec

-----------------------------------------------------------------------------
\* A writer excludes readers and other writers: when one has come through Lock of
\* rwmutex.go, its Owed is 0, and so is the number of readers.
THEOREM WriterExclusion == Spec => []Exclusion
<1>1. IInv => Exclusion
  BY Numbers, RWAssumption DEF IInv, Exclusion, At, HolderInv, WriterPc, WriterBooks, Owed, Types, Stage
<1>2. QED
  BY <1>1, Invariance, PTL

\* Neither RUnlock nor Unlock of rwmutex.go throws.
LEMMA Unthrown == IInv => NoThrow
<1> SUFFICES ASSUME IInv, NEW g \in G PROVE ~Throws(g)
  BY DEF NoThrow
<1>1. readerCount = Reading + Sleeping - (IF Pending THEN MaxReaders ELSE 0)
  BY DEF IInv, ReaderBooks
<1>2. CASE pc[g] = "reading"
  <2>1. Reading > 0
    BY <1>2, Numbers
  <2>2. QED
    BY <1>1, <1>2, <2>1, Numbers, RWAssumption DEF Throws
<1>3. CASE pc[g] = "writing"
  <2>1. Pending
    BY <1>3, RWAssumption DEF IInv, HolderInv, WriterPc, Pending, Stage
  <2>2. QED
    BY <1>1, <1>3, <2>1, Numbers, RWAssumption DEF Throws
<1>4. QED
  BY <1>2, <1>3 DEF Throws

\* The counts are in range: a count never exceeds the number of goroutines.
LEMMA Ranges == IInv => TypeOK
<1> SUFFICES ASSUME IInv PROVE TypeOK
  OBVIOUS
<1> USE Numbers, RWAssumption DEF IInv, Types
<1>1. Copy \in 0..Cardinality(G)
  BY DEF Copy
<1>2. readerSem \in 0..Cardinality(G) /\ readerCount \in (-MaxReaders)..Cardinality(G)
  BY <1>1 DEF ReaderBooks
<1>3. Owed \in 0..Cardinality(G)
  BY <1>1 DEF ReaderBooks, Owed
<1>4. readerWait \in (-Cardinality(G))..Cardinality(G) /\ writerSem \in 0..1
  BY <1>1, <1>3 DEF WriterBooks
<1>5. QED
  BY <1>2, <1>4 DEF TypeOK

\* readerWait and writerSem account for the readers a writer waits for.
LEMMA WriterAccounts == IInv => WriterAccount
<1> SUFFICES ASSUME IInv PROVE WriterAccount
  OBVIOUS
<1>1. IsFiniteSet(G)
  BY RWAssumption
<1>2. /\ Cardinality(At({"rslow"})) = Leaving
      /\ Cardinality(At({"rpost"})) = Posting
      /\ At({"rpost"}) = {} <=> Posting = 0
  <2>1. At({"rslow"}) = AtLabel(G, pc, "rslow") /\ At({"rpost"}) = AtLabel(G, pc, "rpost")
    BY DEF At, AtLabel
  <2>2. QED
    BY <2>1, Numbers DEF Leaving, Posting, Count, AtLabel
<1>3. Cardinality(At({"reading", "rslow"})) = Reading + Leaving
  BY <1>1, CountTwo DEF At, Reading, Leaving
<1>4. \A g \in G : pc[g] \in WriterPc => Stage = pc[g] /\ Copy = r[g]
  BY RWAssumption DEF IInv, HolderInv, Stage, Copy
<1>5. At({"addwait", "wwait"}) = {} <=> Stage \notin {"addwait", "wwait"}
  BY <1>4, RWAssumption DEF At, WriterPc, Stage, IInv, Types
<1>6. QED
  BY <1>2, <1>3, <1>4, <1>5 DEF WriterAccount, IInv, WriterBooks, Owed, WriterPc, At

\* Every permit of readerSem, given or to be given, is owed to one sleeper.
LEMMA PermitsOwed == IInv => ReaderPermits
<1> SUFFICES ASSUME IInv PROVE ReaderPermits
  OBVIOUS
<1>1. Cardinality(At({"rwait"})) = Sleeping
  <2>1. At({"rwait"}) = AtLabel(G, pc, "rwait")
    BY DEF At, AtLabel
  <2>2. QED
    BY <2>1 DEF Sleeping, Count
<1>2. Announced <=> Pending
  BY Numbers, RWAssumption DEF IInv, ReaderBooks, Announced
<1>3. CASE Stage = "drain"
  <2>1. At({"drain"}) = {w} /\ Copy = r[w]
    BY <1>3, RWAssumption DEF IInv, HolderInv, Types, Stage, Copy, At, WriterPc
  <2>2. (CHOOSE g \in {w} : TRUE) = w
    OBVIOUS
  <2>3. QED
    BY <1>1, <1>2, <1>3, <2>1, <2>2 DEF IInv, ReaderBooks, ReaderPermits, Pending
<1>4. CASE Stage # "drain"
  <2>1. At({"drain"}) = {}
    BY <1>4, RWAssumption DEF IInv, HolderInv, Stage, At, WriterPc
  <2>2. QED
    BY <1>1, <1>2, <1>4, <2>1, Numbers DEF IInv, ReaderBooks, ReaderPermits, Types
<1>5. QED
  BY <1>3, <1>4

\* The accounts of RWMutex balance in every interleaving: counts in range, no throw,
\* and permits owed to exactly those that wait for them.
THEOREM AccountsBalance == Spec => []Accounts
<1>1. IInv => Accounts
  BY Ranges, Unthrown, WriterAccounts, PermitsOwed DEF Accounts
<1>2. QED
  BY <1>1, Invariance, PTL
====
