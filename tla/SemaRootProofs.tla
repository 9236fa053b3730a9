---- MODULE SemaRootProofs ----
(***************************************************************************)
(* Proofs about the sleeping semaphore of runtime/sema.go (module          *)
(* SemaRoot), for any finite set of goroutines, any addresses and any      *)
(* bound: the root and its lists stay consistent, no wakeup is lost, and   *)
(* every address implements the contract SemaQueue, which sync.Mutex is    *)
(* proved over.                                                            *)
(*                                                                         *)
(* semrelease1 skips the search for a waiter when it reads nwait = 0       *)
(* without the lock.  That is right because nwait is exact: it counts      *)
(* everyone from the increment before the second cansemacquire until it is *)
(* off its list (CountInv).  To keep it exact, every sudog must be on one  *)
(* list or in one hand (OwnedInv), and to keep that, the lists may only    *)
(* change under the lock (ControlInv).                                     *)
(***************************************************************************)
EXTENDS SemaRoot, Counting, TLAPS

Control == {"idle"} \cup Acquiring \cup Releasing

Types ==
    /\ val \in [Addr -> Nat]
    /\ queue \in [Addr -> Seq(G)]
    /\ nwait \in Nat
    /\ lock \in G \cup {NoG}
    /\ pc \in [G -> Control]
    /\ addr \in [G -> Addr \cup {NoAddr}]
    /\ flag \in [G -> BOOLEAN]
    /\ ticket \in [G -> BOOLEAN]
    /\ s \in [G -> G \cup {NoG}]

\* Where the locals and the lock are in use.
ControlInv ==
    \A g \in G :
        /\ lock = g <=> pc[g] \in {"recheck", "undo", "enqueue", "dequeue"}
        /\ addr[g] = NoAddr <=> pc[g] = "idle"
        /\ s[g] # NoG <=> pc[g] = "ready"
        /\ ticket[g] => pc[g] = "resumed"

Distinct(q) == \A i, j \in DOMAIN q : q[i] = q[j] => i = j
In(x, q) == \E i \in DOMAIN q : q[i] = x

\* ParkedOwnedOnce, in the words of these proofs.
OwnedInv ==
    /\ \A a \in Addr : Distinct(queue[a])
    /\ \A a \in Addr, g \in G : In(g, queue[a]) => pc[g] = "parked" /\ addr[g] = a
    /\ \A a \in Addr, r \in G : ~In(s[r], queue[a])
    /\ \A r \in G : s[r] # NoG => pc[s[r]] = "parked" /\ addr[s[r]] = addr[r]
    /\ \A q, r \in G : s[r] # NoG /\ s[q] = s[r] => q = r
    /\ \A g \in G : pc[g] = "parked" => In(g, queue[addr[g]]) \/ \E r \in G : s[r] = g

\* Those nwait counts: from the increment to the decrement, or on a list.
Counted ==
    {g \in G : \/ pc[g] \in {"recheck", "undo", "enqueue"}
               \/ pc[g] = "parked" /\ In(g, queue[addr[g]])}

CountInv == nwait = Cardinality(Counted)

\* The inductive invariant.
IInv == Types /\ ControlInv /\ OwnedInv /\ CountInv

-----------------------------------------------------------------------------
\* A goroutine that is queued, first or last, is on the list with the others.
LEMMA QueuedList ==
    ASSUME NEW q \in Seq(G), NEW g \in G, NEW lf \in BOOLEAN
    PROVE  /\ Queued(q, g, lf) \in Seq(G)
           /\ \A x : In(x, Queued(q, g, lf)) <=> x = g \/ In(x, q)
           /\ Distinct(q) /\ ~In(g, q) => Distinct(Queued(q, g, lf))
<1>1. CASE lf
  <2> DEFINE p == <<g>> \o q
  <2>1. /\ p \in Seq(G) /\ Queued(q, g, lf) = p
        /\ DOMAIN q = 1 .. Len(q) /\ Len(q) \in Nat
        /\ DOMAIN p = 1 .. Len(q) + 1
        /\ p[1] = g
        /\ \A i \in 2 .. Len(q) + 1 : p[i] = q[i - 1] /\ i - 1 \in DOMAIN q
    BY <1>1 DEF Queued
  <2>2. \A i \in DOMAIN q : i + 1 \in DOMAIN p /\ p[i + 1] = q[i]
    BY <2>1
  <2>3. \A i \in DOMAIN p : i = 1 \/ i \in 2 .. Len(q) + 1
    BY <2>1
  <2> HIDE DEF p
  <2>4. \A x : In(x, p) <=> x = g \/ In(x, q)
    <3> SUFFICES ASSUME NEW x PROVE In(x, p) <=> x = g \/ In(x, q)
      OBVIOUS
    <3>1. In(x, p) => x = g \/ In(x, q)
      BY <2>1, <2>3 DEF In
    <3>2. x = g => In(x, p)
      BY <2>1 DEF In
    <3>3. In(x, q) => In(x, p)
      BY <2>2 DEF In
    <3>4. QED
      BY <3>1, <3>2, <3>3
  <2>5. ASSUME Distinct(q), ~In(g, q) PROVE Distinct(p)
    <3> SUFFICES ASSUME NEW i \in DOMAIN p, NEW j \in DOMAIN p, p[i] = p[j] PROVE i = j
      BY DEF Distinct
    <3>1. CASE i = 1
      BY <2>1, <2>3, <2>5, <3>1 DEF In
    <3>2. CASE j = 1
      BY <2>1, <2>3, <2>5, <3>2 DEF In
    <3>3. CASE i \in 2 .. Len(q) + 1 /\ j \in 2 .. Len(q) + 1
      <4>1. q[i - 1] = q[j - 1] /\ i - 1 \in DOMAIN q /\ j - 1 \in DOMAIN q
        BY <2>1, <3>3
      <4>2. i - 1 = j - 1
        BY <2>5, <4>1 DEF Distinct
      <4>3. QED
        BY <3>3, <4>2
    <3>4. QED
      BY <2>3, <3>1, <3>2, <3>3
  <2>6. QED
    BY <2>1, <2>4, <2>5
<1>2. CASE ~lf
  <2> DEFINE p == Append(q, g)
  <2>1. /\ p \in Seq(G) /\ Queued(q, g, lf) = p
        /\ DOMAIN q = 1 .. Len(q) /\ Len(q) \in Nat
        /\ DOMAIN p = 1 .. Len(q) + 1
        /\ p[Len(q) + 1] = g
        /\ \A i \in 1 .. Len(q) : p[i] = q[i]
    BY <1>2 DEF Queued
  <2>2. \A i \in DOMAIN p : i = Len(q) + 1 \/ i \in DOMAIN q
    BY <2>1
  <2> HIDE DEF p
  <2>3. \A x : In(x, p) <=> x = g \/ In(x, q)
    <3> SUFFICES ASSUME NEW x PROVE In(x, p) <=> x = g \/ In(x, q)
      OBVIOUS
    <3>1. In(x, p) => x = g \/ In(x, q)
      BY <2>1, <2>2 DEF In
    <3>2. x = g => In(x, p)
      BY <2>1 DEF In
    <3>3. In(x, q) => In(x, p)
      BY <2>1 DEF In
    <3>4. QED
      BY <3>1, <3>2, <3>3
  <2>4. Distinct(q) /\ ~In(g, q) => Distinct(p)
    BY <2>1, <2>2 DEF Distinct, In
  <2>5. QED
    BY <2>1, <2>3, <2>4
<1>3. QED
  BY <1>1, <1>2

\* The waiter that is dequeued was on the list, and no other leaves it.
LEMMA DequeuedList ==
    ASSUME NEW q \in Seq(G), q # <<>>, Distinct(q)
    PROVE  /\ Dequeued(q) \in Seq(G) /\ Distinct(Dequeued(q))
           /\ Head(q) \in G /\ In(Head(q), q)
           /\ \A x : In(x, Dequeued(q)) <=> In(x, q) /\ x # Head(q)
<1> DEFINE p == Tail(q)
<1>1. /\ p \in Seq(G) /\ Head(q) \in G /\ Head(q) = q[1] /\ Len(q) \in Nat /\ Len(q) > 0
      /\ DOMAIN q = 1 .. Len(q) /\ DOMAIN p = 1 .. Len(q) - 1
      /\ \A i \in 1 .. Len(q) - 1 : p[i] = q[i + 1]
  OBVIOUS
<1> HIDE DEF p
<1>2. In(Head(q), q)
  BY <1>1 DEF In
<1>3. Distinct(p)
  <2> SUFFICES ASSUME NEW i \in DOMAIN p, NEW j \in DOMAIN p, p[i] = p[j] PROVE i = j
    BY DEF Distinct
  <2>1. q[i + 1] = q[j + 1] /\ i + 1 \in DOMAIN q /\ j + 1 \in DOMAIN q
    BY <1>1
  <2>2. i + 1 = j + 1
    BY <2>1 DEF Distinct
  <2>3. QED
    BY <1>1, <2>2
<1>4. \A x : In(x, p) <=> In(x, q) /\ x # Head(q)
  <2> SUFFICES ASSUME NEW x PROVE In(x, p) <=> In(x, q) /\ x # Head(q)
    OBVIOUS
  <2>1. ASSUME In(x, p) PROVE In(x, q) /\ x # Head(q)
    <3>1. PICK i \in DOMAIN p : p[i] = x
      BY <2>1 DEF In
    <3>2. i + 1 \in DOMAIN q /\ q[i + 1] = x /\ i + 1 # 1 /\ 1 \in DOMAIN q
      BY <1>1, <3>1
    <3>3. QED
      BY <1>1, <3>2 DEF In, Distinct
  <2>2. ASSUME In(x, q), x # Head(q) PROVE In(x, p)
    <3>1. PICK i \in DOMAIN q : q[i] = x
      BY <2>2 DEF In
    <3>2. i # 1 /\ i - 1 \in DOMAIN p /\ p[i - 1] = x
      BY <1>1, <2>2, <3>1
    <3>3. QED
      BY <3>2 DEF In
  <2>3. QED
    BY <2>1, <2>2
<1>5. QED
  BY <1>1, <1>2, <1>3, <1>4 DEF Dequeued, p

\* An empty list has nobody on it.
LEMMA EmptyList ==
    ASSUME NEW q \in Seq(G)
    PROVE  q = <<>> <=> \A g \in G : ~In(g, q)
<1>1. q = <<>> => \A g \in G : ~In(g, q)
  BY DEF In
<1>2. q # <<>> => In(Head(q), q) /\ Head(q) \in G
  <2> SUFFICES ASSUME q # <<>> PROVE 1 \in DOMAIN q /\ Head(q) = q[1] /\ q[1] \in G
    BY DEF In
  <2>1. QED
    OBVIOUS
<1>3. QED
  BY <1>1, <1>2

-----------------------------------------------------------------------------
\* nwait follows what happens to the one goroutine that a step counts or uncounts.
LEMMA CountedMoves ==
    ASSUME NEW g, Counted' \ {g} = Counted \ {g}
    PROVE  /\ Cardinality(Counted) \in Nat /\ Cardinality(Counted') \in Nat
           /\ Cardinality(Counted') = Cardinality(Counted) + (IF g \in Counted' THEN 1 ELSE 0)
                                                           - (IF g \in Counted THEN 1 ELSE 0)
<1>1. Counted \in SUBSET G
  BY DEF Counted
<1>2. IsFiniteSet(Counted)
  BY <1>1, RootAssumption, FS_Subset
<1>3. QED
  BY <1>2, CardinalityStep

\* While nwait is 0 nobody is on a list or on the way to one.
LEMMA NobodyWaits ==
    ASSUME IInv, nwait = 0
    PROVE  /\ \A g \in G : pc[g] \notin {"recheck", "undo", "enqueue"}
           /\ \A a \in Addr : queue[a] = <<>>
<1>1. Counted \in SUBSET G
  BY DEF Counted
<1>2. IsFiniteSet(Counted)
  BY <1>1, RootAssumption, FS_Subset
<1>3. Counted = {}
  BY <1>2, FS_EmptySet DEF IInv, CountInv
<1>4. \A a \in Addr, g \in G : ~In(g, queue[a])
  BY <1>3 DEF Counted, IInv, OwnedInv
<1>5. QED
  BY <1>3, <1>4, EmptyList DEF Counted, IInv, Types

\* The control of the goroutines other than g.
Others(g) == \A h \in G \ {g} : pc'[h] = pc[h] /\ addr'[h] = addr[h]

Announced(l) == l \in {"recheck", "undo", "enqueue"}

\* A step of a goroutine that has no sudog on a list or in a hand, and that leaves
\* the lists alone.
LEMMA SameOwners ==
    ASSUME IInv, NEW g \in G, Others(g), queue' = queue, s' = s,
           pc[g] # "parked", pc[g] # "ready", pc'[g] # "parked"
    PROVE  OwnedInv'
<1>1. \A h \in G : /\ pc[h] = "parked" => pc'[h] = "parked" /\ addr'[h] = addr[h]
                   /\ pc'[h] = "parked" => pc[h] = "parked"
                   /\ pc[h] = "ready" => addr'[h] = addr[h]
  BY DEF Others
<1>2. \A a \in Addr, h \in G : In(h, queue'[a]) => pc'[h] = "parked" /\ addr'[h] = a
  <2> SUFFICES ASSUME NEW a \in Addr, NEW h \in G, In(h, queue[a])
               PROVE  pc'[h] = "parked" /\ addr'[h] = a
    OBVIOUS
  <2>1. pc[h] = "parked" /\ addr[h] = a
    BY DEF IInv, OwnedInv
  <2>2. QED
    BY <1>1, <2>1
<1>3. \A r \in G : s'[r] # NoG => pc'[s'[r]] = "parked" /\ addr'[s'[r]] = addr'[r]
  <2> SUFFICES ASSUME NEW r \in G, s[r] # NoG
               PROVE  pc'[s[r]] = "parked" /\ addr'[s[r]] = addr'[r]
    OBVIOUS
  <2>1. pc[s[r]] = "parked" /\ addr[s[r]] = addr[r] /\ s[r] \in G /\ pc[r] = "ready"
    BY DEF IInv, OwnedInv, Types, ControlInv
  <2>2. QED
    BY <1>1, <2>1
<1>4. \A h \in G : pc'[h] = "parked" => In(h, queue'[addr'[h]]) \/ \E r \in G : s'[r] = h
  BY <1>1 DEF IInv, OwnedInv
<1>5. /\ \A a \in Addr : Distinct(queue'[a])
      /\ \A a \in Addr, r \in G : ~In(s'[r], queue'[a])
      /\ \A q, r \in G : s'[r] # NoG /\ s'[q] = s'[r] => q = r
  BY DEF IInv, OwnedInv
<1>6. QED
  BY <1>2, <1>3, <1>4, <1>5 DEF OwnedInv

\* A step of g that touches neither the lists nor the count.
LEMMA QuietStep ==
    ASSUME IInv, NEW g \in G, Others(g), queue' = queue, s' = s, nwait' = nwait,
           pc[g] # "parked", pc[g] # "ready", pc'[g] # "parked",
           Announced(pc'[g]) <=> Announced(pc[g])
    PROVE  OwnedInv' /\ CountInv'
<1>1. OwnedInv'
  BY SameOwners
<1>2. Counted' = Counted
  BY DEF Counted, Others, Announced
<1>3. QED
  BY <1>1, <1>2 DEF IInv, CountInv

\* A call begins.
LEMMA CallStep ==
    ASSUME IInv, NEW g \in G, NEW a \in Addr, NEW f \in BOOLEAN,
           NEW l \in {"easy", "xadd"}, Call(g, a, f, l)
    PROVE  IInv'
<1>1. /\ pc[g] = "idle" /\ pc'[g] = l /\ Others(g)
      /\ UNCHANGED <<val, queue, nwait, lock, ticket, s>>
  BY DEF Call, Goto, Others, IInv, Types
<1>2. Types'
  BY DEF Call, Goto, IInv, Types, Control, Acquiring, Releasing
<1>3. ControlInv'
  BY <1>1, RootAssumption DEF Call, IInv, Types, ControlInv, Others
<1>4. OwnedInv' /\ CountInv'
  BY <1>1, QuietStep DEF Announced
<1>5. QED
  BY <1>2, <1>3, <1>4 DEF IInv

\* The permit that cansemacquire takes is there.
LEMMA TakeType ==
    ASSUME Types, NEW g \in G, addr[g] \in Addr, CanAcquire(g), TakePermit(g)
    PROVE  val' \in [Addr -> Nat]
<1>1. val[addr[g]] - 1 \in Nat
  BY DEF Types, CanAcquire
<1>2. QED
  BY <1>1 DEF Types, TakePermit

\* A goroutine in a call has an address.
LEMMA HasAddress ==
    ASSUME Types, ControlInv, NEW g \in G, pc[g] # "idle"
    PROVE  addr[g] \in Addr
BY DEF Types, ControlInv

\* The easy case of semacquire1.
LEMMA EasyAcquireStep == ASSUME IInv, NEW g \in G, EasyAcquire(g) PROVE IInv'
<1>0. addr[g] \in Addr /\ pc[g] = "easy"
  BY HasAddress DEF IInv, EasyAcquire
<1>1. /\ pc'[g] \in {"idle", "lock"} /\ Others(g)
      /\ addr'[g] = (IF pc'[g] = "idle" THEN NoAddr ELSE addr[g])
      /\ UNCHANGED <<queue, nwait, lock, ticket, s>>
  BY DEF EasyAcquire, Return, Stay, Goto, Others, IInv, Types
<1>2. Types'
  BY <1>0, TakeType DEF EasyAcquire, Return, Stay, Goto, IInv, Types, Control, Acquiring, Releasing
<1>3. ControlInv'
  BY <1>0, <1>1, RootAssumption DEF IInv, Types, ControlInv, Others
<1>4. OwnedInv' /\ CountInv'
  BY <1>0, <1>1, QuietStep DEF Announced
<1>5. QED
  BY <1>2, <1>3, <1>4 DEF IInv

\* The second cansemacquire, under the lock.
LEMMA RecheckStep == ASSUME IInv, NEW g \in G, Recheck(g) PROVE IInv'
<1>0. addr[g] \in Addr /\ pc[g] = "recheck"
  BY HasAddress DEF IInv, Recheck
<1>1. /\ pc'[g] \in {"undo", "enqueue"} /\ Others(g) /\ addr' = addr
      /\ UNCHANGED <<queue, nwait, lock, ticket, s>>
  BY DEF Recheck, Stay, Goto, Others, IInv, Types
<1>2. Types'
  BY <1>0, TakeType DEF Recheck, Stay, Goto, IInv, Types, Control, Acquiring, Releasing
<1>3. ControlInv'
  BY <1>0, <1>1 DEF IInv, Types, ControlInv, Others
<1>4. OwnedInv' /\ CountInv'
  BY <1>0, <1>1, QuietStep DEF Announced
<1>5. QED
  BY <1>2, <1>3, <1>4 DEF IInv

\* Back from goparkunlock.
LEMMA ResumeStep == ASSUME IInv, NEW g \in G, Resume(g) PROVE IInv'
<1>0. addr[g] \in Addr /\ pc[g] = "resumed"
  BY HasAddress DEF IInv, Resume
<1>1. /\ pc'[g] \in {"idle", "lock"} /\ Others(g)
      /\ addr'[g] = (IF pc'[g] = "idle" THEN NoAddr ELSE addr[g])
      /\ ticket' = [ticket EXCEPT ![g] = FALSE]
      /\ UNCHANGED <<queue, nwait, lock, s>>
  BY DEF Resume, Return, Stay, Goto, Others, IInv, Types
<1>2. Types'
  BY <1>0, TakeType DEF Resume, Return, Stay, Goto, IInv, Types, Control, Acquiring, Releasing
<1>3. ControlInv'
  BY <1>0, <1>1, RootAssumption DEF IInv, Types, ControlInv, Others
<1>4. OwnedInv' /\ CountInv'
  BY <1>0, <1>1, QuietStep DEF Announced
<1>5. QED
  BY <1>2, <1>3, <1>4 DEF IInv

\* semrelease1 up to its search for a waiter.
LEMMA XaddPermitStep == ASSUME IInv, NEW g \in G, XaddPermit(g) PROVE IInv'
<1>0. addr[g] \in Addr /\ pc[g] = "xadd"
  BY HasAddress DEF IInv, XaddPermit
<1>1. /\ pc'[g] = "load" /\ Others(g) /\ addr' = addr
      /\ UNCHANGED <<queue, nwait, lock, ticket, s>>
  BY DEF XaddPermit, Stay, Goto, Others, IInv, Types
<1>2. Types'
  BY <1>0 DEF XaddPermit, Stay, Goto, IInv, Types, Control, Acquiring, Releasing
<1>3. ControlInv'
  BY <1>0, <1>1 DEF IInv, Types, ControlInv, Others
<1>4. OwnedInv' /\ CountInv'
  BY <1>0, <1>1, QuietStep DEF Announced
<1>5. QED
  BY <1>2, <1>3, <1>4 DEF IInv

\* The unlocked read of nwait.
LEMMA LoadNwaitStep == ASSUME IInv, NEW g \in G, LoadNwait(g) PROVE IInv'
<1>1. /\ pc[g] = "load" /\ pc'[g] \in {"idle", "rlock"} /\ Others(g)
      /\ addr'[g] = (IF pc'[g] = "idle" THEN NoAddr ELSE addr[g])
      /\ UNCHANGED <<queue, nwait, lock, ticket, s>>
  BY DEF LoadNwait, Return, Stay, Goto, Others, IInv, Types
<1>2. Types'
  BY DEF LoadNwait, Return, Stay, Goto, IInv, Types, Control, Acquiring, Releasing
<1>3. ControlInv'
  BY <1>1, RootAssumption DEF IInv, Types, ControlInv, Others
<1>4. OwnedInv' /\ CountInv'
  BY <1>1, QuietStep DEF Announced
<1>5. QED
  BY <1>2, <1>3, <1>4 DEF IInv

\* The lock for the search.
LEMMA LockToWakeStep == ASSUME IInv, NEW g \in G, LockToWake(g) PROVE IInv'
<1>1. /\ pc[g] = "rlock" /\ pc'[g] = "dequeue" /\ Others(g) /\ addr' = addr
      /\ lock = NoG /\ lock' = g
      /\ UNCHANGED <<queue, nwait, ticket, s>>
  BY DEF LockToWake, Lock, Stay, Goto, Others, IInv, Types
<1>2. Types'
  BY <1>1 DEF LockToWake, Stay, Goto, IInv, Types, Control, Acquiring, Releasing
<1>3. ControlInv'
  BY <1>1, RootAssumption DEF IInv, Types, ControlInv, Others
<1>4. OwnedInv' /\ CountInv'
  BY <1>1, QuietStep DEF Announced
<1>5. QED
  BY <1>2, <1>3, <1>4 DEF IInv

\* A waiter locks the root and counts itself.
LEMMA AnnounceWaiterStep == ASSUME IInv, NEW g \in G, AnnounceWaiter(g) PROVE IInv'
<1>1. /\ pc[g] = "lock" /\ pc'[g] = "recheck" /\ Others(g) /\ addr' = addr
      /\ lock = NoG /\ lock' = g /\ nwait' = nwait + 1
      /\ UNCHANGED <<queue, ticket, s>>
  BY DEF AnnounceWaiter, CountWaiter, Lock, Stay, Goto, Others, IInv, Types
<1>2. Types'
  BY <1>1 DEF AnnounceWaiter, Stay, Goto, IInv, Types, Control, Acquiring, Releasing
<1>3. ControlInv'
  BY <1>1, RootAssumption DEF IInv, Types, ControlInv, Others
<1>4. OwnedInv'
  BY <1>1, SameOwners
<1>5. Counted' \ {g} = Counted \ {g} /\ g \in Counted' /\ g \notin Counted
  BY <1>1 DEF Counted, Others
<1>6. CountInv'
  BY <1>1, <1>5, CountedMoves DEF IInv, CountInv
<1>7. QED
  BY <1>2, <1>3, <1>4, <1>6 DEF IInv

\* It uncounts itself after all, having got a permit.
LEMMA UndoAnnounceStep == ASSUME IInv, NEW g \in G, UndoAnnounce(g) PROVE IInv'
<1>1. /\ pc[g] = "undo" /\ pc'[g] = "idle" /\ Others(g) /\ addr'[g] = NoAddr
      /\ lock = g /\ lock' = NoG /\ nwait' = nwait - 1
      /\ UNCHANGED <<queue, ticket, s>>
  BY DEF UndoAnnounce, Return, Unlock, Goto, Others, IInv, Types
<1>2. Counted' \ {g} = Counted \ {g} /\ g \notin Counted' /\ g \in Counted
  BY <1>1 DEF Counted, Others
<1>3. CountInv' /\ nwait' \in Nat
  BY <1>1, <1>2, CountedMoves DEF IInv, CountInv
<1>4. Types'
  BY <1>1, <1>3 DEF UndoAnnounce, Return, Goto, IInv, Types, Control, Acquiring, Releasing
<1>5. ControlInv'
  BY <1>1, RootAssumption DEF IInv, Types, ControlInv, Others
<1>6. OwnedInv'
  BY <1>1, SameOwners
<1>7. QED
  BY <1>3, <1>4, <1>5, <1>6 DEF IInv

\* A waiter goes on its list, and is parked when the lock is free again.
LEMMA QueueAndParkStep == ASSUME IInv, NEW g \in G, QueueAndPark(g) PROVE IInv'
<1> DEFINE a == addr[g]
<1>0. a \in Addr
  BY HasAddress DEF IInv, QueueAndPark
<1>1. /\ pc[g] = "enqueue" /\ pc'[g] = "parked" /\ Others(g) /\ addr' = addr
      /\ lock = g /\ lock' = NoG
      /\ UNCHANGED <<val, nwait, ticket, s, flag>>
  BY DEF QueueAndPark, Unlock, Stay, Goto, Others, IInv, Types
<1>2. /\ queue[a] \in Seq(G) /\ Distinct(queue[a]) /\ ~In(g, queue[a]) /\ flag[g] \in BOOLEAN
      /\ \A r \in G : s[r] # g
  BY <1>0, <1>1, RootAssumption DEF IInv, OwnedInv, Types
<1>3. /\ queue'[a] \in Seq(G) /\ Distinct(queue'[a])
      /\ \A x : In(x, queue'[a]) <=> x = g \/ In(x, queue[a])
      /\ \A b \in Addr \ {a} : queue'[b] = queue[b]
      /\ queue' = [queue EXCEPT ![a] = Queued(queue[a], g, flag[g])]
  BY <1>0, <1>2, QueuedList DEF QueueAndPark, IInv, Types
<1> HIDE DEF a
<1>4. Types'
  <2>1. queue' \in [Addr -> Seq(G)]
    BY <1>0, <1>3 DEF IInv, Types
  <2>2. QED
    BY <1>1, <2>1 DEF QueueAndPark, Goto, IInv, Types, Control, Acquiring, Releasing
<1>5. ControlInv'
  BY <1>1, RootAssumption DEF IInv, Types, ControlInv, Others
<1>6. OwnedInv'
  <2>1. \A b \in Addr : Distinct(queue'[b])
    BY <1>3 DEF IInv, OwnedInv
  <2>2. \A b \in Addr, h \in G : In(h, queue'[b]) => pc'[h] = "parked" /\ addr'[h] = b
    <3> SUFFICES ASSUME NEW b \in Addr, NEW h \in G, In(h, queue'[b])
                 PROVE  pc'[h] = "parked" /\ addr'[h] = b
      OBVIOUS
    <3>1. CASE h = g /\ b = a
      BY <1>1, <3>1 DEF a
    <3>2. CASE In(h, queue[b])
      <4>1. pc[h] = "parked" /\ addr[h] = b
        BY <3>2 DEF IInv, OwnedInv
      <4>2. QED
        BY <1>1, <4>1 DEF Others
    <3>3. QED
      BY <1>3, <3>1, <3>2
  <2>3. \A b \in Addr, r \in G : ~In(s'[r], queue'[b])
    BY <1>1, <1>2, <1>3 DEF IInv, OwnedInv
  <2>4. \A r \in G : s'[r] # NoG => pc'[s'[r]] = "parked" /\ addr'[s'[r]] = addr'[r]
    BY <1>1, <1>2 DEF IInv, OwnedInv, Types, Others
  <2>5. \A q, r \in G : s'[r] # NoG /\ s'[q] = s'[r] => q = r
    BY <1>1 DEF IInv, OwnedInv
  <2>6. \A h \in G : pc'[h] = "parked" => In(h, queue'[addr'[h]]) \/ \E r \in G : s'[r] = h
    <3> SUFFICES ASSUME NEW h \in G, pc'[h] = "parked", \A r \in G : s'[r] # h
                 PROVE  In(h, queue'[addr'[h]])
      OBVIOUS
    <3>1. CASE h = g
      BY <1>1, <1>3, <3>1 DEF a
    <3>2. CASE h # g
      <4>1. pc[h] = "parked" /\ In(h, queue[addr[h]]) /\ addr[h] \in Addr
        BY <1>1, <3>2, HasAddress DEF IInv, OwnedInv, Others
      <4>2. QED
        BY <1>1, <1>3, <4>1
    <3>3. QED
      BY <3>1, <3>2
  <2>7. QED
    BY <2>1, <2>2, <2>3, <2>4, <2>5, <2>6 DEF OwnedInv
<1>7. Counted' = Counted
  <2>1. g \in Counted /\ g \in Counted'
    BY <1>1, <1>3 DEF Counted, a
  <2>2. ASSUME NEW h \in G \ {g} PROVE h \in Counted' <=> h \in Counted
    <3>1. pc'[h] = pc[h] /\ addr'[h] = addr[h]
      BY <1>1 DEF Others
    <3>2. pc[h] = "parked" => (In(h, queue'[addr[h]]) <=> In(h, queue[addr[h]]))
      BY <1>3, HasAddress DEF IInv
    <3>3. QED
      BY <3>1, <3>2 DEF Counted
  <2>3. Counted \subseteq G /\ Counted' \subseteq G
    BY DEF Counted
  <2>4. QED
    BY <2>1, <2>2, <2>3
<1>8. CountInv'
  BY <1>1, <1>7 DEF IInv, CountInv
<1>9. QED
  BY <1>4, <1>5, <1>6, <1>8 DEF IInv

\* semrelease1 finds nobody on its list and returns.
LEMMA DequeueNobodyStep ==
    ASSUME IInv, NEW g \in G, DequeueWaiter(g), NoWaiters \/ queue[addr[g]] = <<>>
    PROVE  IInv'
<1>1. /\ pc[g] = "dequeue" /\ pc'[g] = "idle" /\ Others(g) /\ addr'[g] = NoAddr
      /\ lock = g /\ lock' = NoG
      /\ UNCHANGED <<val, queue, nwait, ticket, s>>
  BY DEF DequeueWaiter, UncountWaiter, Return, Unlock, Goto, Others, IInv, Types
<1>2. Types'
  BY <1>1 DEF DequeueWaiter, Return, Goto, IInv, Types, Control, Acquiring, Releasing
<1>3. ControlInv'
  BY <1>1, RootAssumption DEF IInv, Types, ControlInv, Others
<1>4. OwnedInv' /\ CountInv'
  BY <1>1, QuietStep DEF Announced
<1>5. QED
  BY <1>2, <1>3, <1>4 DEF IInv

\* It takes the first waiter off the list, which nobody else can do meanwhile.
LEMMA DequeueSomebodyStep ==
    ASSUME IInv, NEW g \in G, DequeueWaiter(g), ~(NoWaiters \/ queue[addr[g]] = <<>>)
    PROVE  IInv'
<1> DEFINE a == addr[g]
           w == Head(queue[a])
<1>0. a \in Addr /\ queue[a] \in Seq(G) /\ Distinct(queue[a]) /\ queue[a] # <<>>
  BY HasAddress DEF IInv, DequeueWaiter, Types, OwnedInv
<1>1. /\ pc[g] = "dequeue" /\ pc'[g] = "ready" /\ Others(g) /\ addr' = addr
      /\ lock = g /\ lock' = NoG
      /\ s' = [s EXCEPT ![g] = w]
      /\ nwait' = nwait - 1
      /\ queue' = [queue EXCEPT ![a] = Dequeued(queue[a])]
      /\ UNCHANGED <<val, ticket, flag>>
  BY DEF DequeueWaiter, UncountWaiter, Stay, Unlock, Goto, Others, IInv, Types
<1>2. /\ queue'[a] \in Seq(G) /\ Distinct(queue'[a])
      /\ w \in G /\ In(w, queue[a])
      /\ \A x : In(x, queue'[a]) <=> In(x, queue[a]) /\ x # w
      /\ \A b \in Addr \ {a} : queue'[b] = queue[b]
  BY <1>0, <1>1, DequeuedList DEF IInv, Types
<1> HIDE DEF a, w
<1>3. /\ pc[w] = "parked" /\ addr[w] = a /\ w # g
      /\ \A r \in G : s[r] # w
      /\ \A b \in Addr : ~In(w, queue'[b])
  <2>1. pc[w] = "parked" /\ addr[w] = a /\ \A r \in G : s[r] # w
    BY <1>0, <1>2 DEF IInv, OwnedInv
  <2>2. \A b \in Addr \ {a} : ~In(w, queue[b])
    BY <1>2, <2>1 DEF IInv, OwnedInv
  <2>3. QED
    BY <1>1, <1>2, <2>1, <2>2
<1>4. /\ s'[g] = w /\ s[g] = NoG
      /\ \A r \in G \ {g} : s'[r] = s[r]
  BY <1>1 DEF IInv, Types, ControlInv
<1>5. Counted' \ {w} = Counted \ {w} /\ w \in Counted /\ w \notin Counted'
  <2>1. w \in Counted /\ w \notin Counted'
    BY <1>1, <1>2, <1>3 DEF Counted, Others, a
  <2>2. g \notin Counted /\ g \notin Counted'
    BY <1>1 DEF Counted
  <2>3. ASSUME NEW h \in G \ {g, w} PROVE h \in Counted' <=> h \in Counted
    <3>1. pc'[h] = pc[h] /\ addr'[h] = addr[h]
      BY <1>1 DEF Others
    <3>2. pc[h] = "parked" => (In(h, queue'[addr[h]]) <=> In(h, queue[addr[h]]))
      BY <1>2, HasAddress DEF IInv
    <3>3. QED
      BY <3>1, <3>2 DEF Counted
  <2>4. Counted \subseteq G /\ Counted' \subseteq G
    BY DEF Counted
  <2>5. QED
    BY <2>1, <2>2, <2>3, <2>4
<1>6. CountInv' /\ nwait' \in Nat
  BY <1>1, <1>5, CountedMoves DEF IInv, CountInv
<1>7. Types'
  <2>1. queue' \in [Addr -> Seq(G)]
    BY <1>0, <1>1, <1>2 DEF IInv, Types
  <2>2. s' \in [G -> G \cup {NoG}]
    BY <1>1, <1>2 DEF IInv, Types
  <2>3. QED
    BY <1>1, <1>6, <2>1, <2>2 DEF DequeueWaiter, Goto, Return, IInv, Types, Control, Acquiring, Releasing
<1>8. ControlInv'
  BY <1>1, <1>2, <1>4, RootAssumption DEF IInv, Types, ControlInv, Others
<1>9. OwnedInv'
  <2>1. \A b \in Addr : Distinct(queue'[b])
    BY <1>2 DEF IInv, OwnedInv
  <2>2. \A b \in Addr, h \in G : In(h, queue'[b]) => In(h, queue[b])
    BY <1>2
  <2>3. \A b \in Addr, h \in G : In(h, queue'[b]) => pc'[h] = "parked" /\ addr'[h] = b
    <3> SUFFICES ASSUME NEW b \in Addr, NEW h \in G, In(h, queue'[b])
                 PROVE  pc'[h] = "parked" /\ addr'[h] = b
      OBVIOUS
    <3>1. pc[h] = "parked" /\ addr[h] = b
      BY <2>2 DEF IInv, OwnedInv
    <3>2. QED
      BY <1>1, <3>1 DEF Others
  <2>4. \A b \in Addr, r \in G : ~In(s'[r], queue'[b])
    <3> SUFFICES ASSUME NEW b \in Addr, NEW r \in G PROVE ~In(s'[r], queue'[b])
      OBVIOUS
    <3>1. CASE r = g
      BY <1>3, <1>4, <3>1
    <3>2. CASE r # g
      <4>1. ~In(s[r], queue[b]) /\ s'[r] = s[r]
        BY <1>4, <3>2 DEF IInv, OwnedInv
      <4>2. QED
        BY <1>2, <4>1
    <3>3. QED
      BY <3>1, <3>2
  <2>5. \A r \in G : s'[r] # NoG => pc'[s'[r]] = "parked" /\ addr'[s'[r]] = addr'[r]
    <3> SUFFICES ASSUME NEW r \in G, s'[r] # NoG
                 PROVE  pc'[s'[r]] = "parked" /\ addr'[s'[r]] = addr'[r]
      OBVIOUS
    <3>1. CASE r = g
      BY <1>1, <1>2, <1>3, <1>4, <3>1 DEF Others, a
    <3>2. CASE r # g
      <4>1. /\ s'[r] = s[r] /\ s[r] \in G /\ pc[s[r]] = "parked" /\ addr[s[r]] = addr[r]
        BY <1>4, <3>2 DEF IInv, OwnedInv, Types
      <4>2. QED
        BY <1>1, <4>1 DEF Others
    <3>3. QED
      BY <3>1, <3>2
  <2>6. \A q, r \in G : s'[r] # NoG /\ s'[q] = s'[r] => q = r
    BY <1>3, <1>4 DEF IInv, OwnedInv
  <2>7. \A h \in G : pc'[h] = "parked" => In(h, queue'[addr'[h]]) \/ \E r \in G : s'[r] = h
    <3> SUFFICES ASSUME NEW h \in G, pc'[h] = "parked", \A r \in G : s'[r] # h
                 PROVE  In(h, queue'[addr'[h]])
      OBVIOUS
    <3>1. h # g /\ h # w /\ pc[h] = "parked"
      BY <1>1, <1>4 DEF Others
    <3>2. \A r \in G : s[r] # h
      BY <1>4, <3>1, RootAssumption
    <3>3. In(h, queue[addr[h]]) /\ addr[h] \in Addr
      BY <3>1, <3>2, HasAddress DEF IInv, OwnedInv
    <3>4. QED
      BY <1>1, <1>2, <3>1, <3>3
  <2>8. QED
    BY <2>1, <2>3, <2>4, <2>5, <2>6, <2>7 DEF OwnedInv
<1>10. QED
  BY <1>6, <1>7, <1>8, <1>9 DEF IInv

\* It readies the waiter in its hand, with a ticket or without.
LEMMA ReadyWaiterStep == ASSUME IInv, NEW g \in G, ReadyWaiter(g) PROVE IInv'
<1> DEFINE w == s[g]
           direct == flag[g] /\ CanAcquire(g)
<1>0. addr[g] \in Addr /\ pc[g] = "ready"
  BY HasAddress DEF IInv, ReadyWaiter
<1>1. w \in G /\ pc[w] = "parked" /\ w # g /\ \A r \in G \ {g} : s[r] # w
  BY <1>0 DEF IInv, Types, ControlInv, OwnedInv
<1>2. /\ pc'[g] = "idle" /\ pc'[w] = "resumed"
      /\ \A h \in G \ {g, w} : pc'[h] = pc[h]
      /\ addr'[g] = NoAddr /\ \A h \in G \ {g} : addr'[h] = addr[h]
      /\ s'[g] = NoG /\ \A h \in G \ {g} : s'[h] = s[h]
      /\ ticket' = [ticket EXCEPT ![w] = direct]
      /\ flag' = [flag EXCEPT ![g] = FALSE]
      /\ val' = IF direct THEN [val EXCEPT ![addr[g]] = @ - 1] ELSE val
      /\ UNCHANGED <<queue, nwait, lock>>
  BY <1>0, <1>1 DEF ReadyWaiter, IInv, Types
<1>3. Types'
  <2>1. val' \in [Addr -> Nat]
    <3>1. CASE direct
      <4>1. val[addr[g]] - 1 \in Nat
        BY <1>0, <3>1 DEF CanAcquire, IInv, Types
      <4>2. QED
        BY <1>2, <3>1, <4>1 DEF IInv, Types
    <3>2. CASE ~direct
      BY <1>2, <3>2 DEF IInv, Types
    <3>3. QED
      BY <3>1, <3>2
  <2>2. ticket' \in [G -> BOOLEAN] /\ flag' \in [G -> BOOLEAN]
    <3>1. direct \in BOOLEAN
      BY DEF IInv, Types
    <3> HIDE DEF direct
    <3>2. QED
      BY <1>2, <3>1 DEF IInv, Types
  <2>3. /\ pc' \in [G -> Control] /\ addr' \in [G -> Addr \cup {NoAddr}]
        /\ s' \in [G -> G \cup {NoG}]
    BY DEF ReadyWaiter, IInv, Types, Control, Acquiring, Releasing
  <2>4. QED
    BY <1>2, <2>1, <2>2, <2>3 DEF IInv, Types
<1>4. ControlInv'
  <2> SUFFICES ASSUME NEW h \in G
               PROVE  /\ lock' = h <=> pc'[h] \in {"recheck", "undo", "enqueue", "dequeue"}
                      /\ addr'[h] = NoAddr <=> pc'[h] = "idle"
                      /\ s'[h] # NoG <=> pc'[h] = "ready"
                      /\ ticket'[h] => pc'[h] = "resumed"
    BY DEF ControlInv
  <2>1. CASE h = g
    BY <1>0, <1>1, <1>2, <2>1 DEF IInv, ControlInv, Types
  <2>2. CASE h = w
    BY <1>0, <1>1, <1>2, <2>2, RootAssumption DEF IInv, ControlInv, Types
  <2>3. CASE h # g /\ h # w
    BY <1>1, <1>2, <2>3 DEF IInv, ControlInv, Types
  <2>4. QED
    BY <2>1, <2>2, <2>3
<1> HIDE DEF w
<1>5. \A b \in Addr : ~In(w, queue[b])
  BY DEF IInv, OwnedInv, w
<1>6. OwnedInv'
  <2>1. \A b \in Addr, h \in G : In(h, queue'[b]) => pc'[h] = "parked" /\ addr'[h] = b
    <3> SUFFICES ASSUME NEW b \in Addr, NEW h \in G, In(h, queue[b])
                 PROVE  pc'[h] = "parked" /\ addr'[h] = b
      BY <1>2
    <3>1. pc[h] = "parked" /\ addr[h] = b /\ h # g /\ h # w
      BY <1>0, <1>5 DEF IInv, OwnedInv
    <3>2. QED
      BY <1>2, <3>1
  <2>2. \A r \in G : s'[r] # NoG => s'[r] = s[r] /\ r # g
    BY <1>2
  <2>3. \A b \in Addr, r \in G : ~In(s'[r], queue'[b])
    <3> SUFFICES ASSUME NEW b \in Addr, NEW r \in G PROVE ~In(s'[r], queue[b])
      BY <1>2
    <3>1. CASE r = g
      <4>1. ~In(NoG, queue[b])
        BY RootAssumption DEF In, IInv, Types
      <4>2. QED
        BY <1>2, <3>1, <4>1
    <3>2. CASE r # g
      BY <1>2, <3>2 DEF IInv, OwnedInv
    <3>3. QED
      BY <3>1, <3>2
  <2>4. \A r \in G : s'[r] # NoG => pc'[s'[r]] = "parked" /\ addr'[s'[r]] = addr'[r]
    <3> SUFFICES ASSUME NEW r \in G, s'[r] # NoG
                 PROVE  pc'[s'[r]] = "parked" /\ addr'[s'[r]] = addr'[r]
      OBVIOUS
    <3>1. /\ s'[r] = s[r] /\ s[r] \in G /\ pc[s[r]] = "parked" /\ addr[s[r]] = addr[r]
          /\ r # g /\ s[r] # w /\ s[r] # g
      BY <1>0, <1>1, <2>2 DEF IInv, OwnedInv, Types
    <3>2. QED
      BY <1>2, <3>1
  <2>5. \A q, r \in G : s'[r] # NoG /\ s'[q] = s'[r] => q = r
    BY <2>2 DEF IInv, OwnedInv
  <2>6. \A h \in G : pc'[h] = "parked" => In(h, queue'[addr'[h]]) \/ \E r \in G : s'[r] = h
    <3> SUFFICES ASSUME NEW h \in G, pc'[h] = "parked", \A r \in G : s'[r] # h
                 PROVE  In(h, queue'[addr'[h]])
      OBVIOUS
    <3>1. h # g /\ h # w /\ pc[h] = "parked"
      BY <1>2
    <3>2. \A r \in G : s[r] # h
      BY <1>2, <3>1 DEF w
    <3>3. In(h, queue[addr[h]])
      BY <3>1, <3>2 DEF IInv, OwnedInv
    <3>4. QED
      BY <1>2, <3>1, <3>3
  <2>7. \A b \in Addr : Distinct(queue'[b])
    BY <1>2 DEF IInv, OwnedInv
  <2>8. QED
    BY <2>1, <2>3, <2>4, <2>5, <2>6, <2>7 DEF OwnedInv
<1>7. Counted' = Counted
  <2>1. {g, w} \cap (Counted \cup Counted') = {}
    <3>1. ~In(w, queue[addr[w]])
      BY <1>1, <1>5, HasAddress DEF IInv
    <3>2. QED
      BY <1>0, <1>1, <1>2, <3>1 DEF Counted
  <2>2. \A h \in G \ {g, w} : h \in Counted' <=> h \in Counted
    BY <1>2 DEF Counted
  <2>3. Counted \subseteq G /\ Counted' \subseteq G
    BY DEF Counted
  <2>4. QED
    BY <2>1, <2>2, <2>3
<1>8. CountInv'
  BY <1>2, <1>7 DEF IInv, CountInv
<1>9. QED
  BY <1>3, <1>4, <1>6, <1>8 DEF IInv

\* An unused root.
LEMMA InitIInv == Init => IInv
<1> SUFFICES ASSUME Init PROVE IInv
  OBVIOUS
<1>1. Types /\ ControlInv
  BY RootAssumption DEF Init, Types, ControlInv, Control
<1>2. \A a \in Addr : queue[a] = <<>> /\ \A x : ~In(x, queue[a])
  BY DEF Init, In
<1>3. OwnedInv
  BY <1>2 DEF Init, OwnedInv, Distinct
<1>4. Counted = {}
  BY DEF Init, Counted
<1>5. CountInv
  BY <1>4, FS_EmptySet DEF Init, CountInv
<1>6. QED
  BY <1>1, <1>3, <1>5 DEF IInv

\* Every step keeps the invariant.
LEMMA NextIInv == IInv /\ [Next]_vars => IInv'
<1> SUFFICES ASSUME IInv, [Next]_vars PROVE IInv'
  OBVIOUS
<1>1. CASE UNCHANGED vars
  BY <1>1 DEF vars, IInv, Types, ControlInv, OwnedInv, CountInv, Counted
<1>2. CASE Next
  <2>1. PICK g \in G : \/ \E a \in Addr, f \in BOOLEAN : semacquire1(g, a, f) \/ semrelease1(g, a, f)
                       \/ Step(g)
    BY <1>2 DEF Next
  <2>2. CASE \E a \in Addr, f \in BOOLEAN : semacquire1(g, a, f) \/ semrelease1(g, a, f)
    BY <2>2, CallStep DEF semacquire1, semrelease1
  <2>3. CASE EasyAcquire(g) \/ AnnounceWaiter(g) \/ Recheck(g) \/ UndoAnnounce(g)
    BY <2>3, EasyAcquireStep, AnnounceWaiterStep, RecheckStep, UndoAnnounceStep
  <2>4. CASE QueueAndPark(g) \/ Resume(g) \/ XaddPermit(g) \/ LoadNwait(g) \/ LockToWake(g)
    BY <2>4, QueueAndParkStep, ResumeStep, XaddPermitStep, LoadNwaitStep, LockToWakeStep
  <2>5. CASE DequeueWaiter(g) \/ ReadyWaiter(g)
    BY <2>5, DequeueNobodyStep, DequeueSomebodyStep, ReadyWaiterStep
  <2>6. QED
    BY <2>1, <2>2, <2>3, <2>4, <2>5 DEF Step
<1>3. QED
  BY <1>1, <1>2

\* The invariant holds throughout.
THEOREM Invariance == Spec => []IInv
BY InitIInv, NextIInv, PTL DEF Spec

\* The root is consistent for any goroutines and addresses: nwait stays in range and
\* every sleeper is on the one list of its address or in one releaser's hand.
THEOREM RootSafety == Spec => []RootInvariant
<1>1. IInv => RootInvariant
  <2> SUFFICES ASSUME IInv PROVE RootInvariant
    OBVIOUS
  <2>1. nwait \in 0..Cardinality(G)
    <3>1. Counted \in SUBSET G
      BY DEF Counted
    <3>2. Cardinality(Counted) <= Cardinality(G) /\ Cardinality(G) \in Nat
      BY <3>1, RootAssumption, FS_Subset, FS_CardinalityType
    <3>3. QED
      BY <3>2 DEF IInv, CountInv, Types
  <2>2. TypeOK
    BY <2>1 DEF IInv, Types, TypeOK, Control
  <2>3. \A a \in Addr, g \in G : In(g, queue[a]) => \A r \in G : s[r] # g
    BY DEF IInv, OwnedInv
  <2>4. ParkedOwnedOnce
    BY <2>3 DEF IInv, OwnedInv, ParkedOwnedOnce, Distinct, In, On
  <2>5. QED
    BY <2>2, <2>4 DEF RootInvariant
<1>2. QED
  BY <1>1, Invariance, PTL

-----------------------------------------------------------------------------
\* No lost wakeup.

Moving(g, a) ==
    /\ addr[g] = a
    /\ \/ pc[g] \in {"easy", "lock", "recheck", "load", "rlock", "dequeue", "ready"}
       \/ pc[g] = "resumed" /\ ~ticket[g]

\* NoLostWakeup for one address.
Safe(a) == HasWaiter(a) => val[a] <= Cardinality(Movers(a))

\* How a step of g changes the number of movers of an address.
LEMMA MoversStep ==
    ASSUME NEW g \in G, NEW a, Others(g), \A h \in G \ {g} : ticket'[h] = ticket[h]
    PROVE  /\ Cardinality(Movers(a)) \in Nat /\ Cardinality(Movers(a))' \in Nat
           /\ Cardinality(Movers(a))' = Cardinality(Movers(a)) + (IF Moving(g, a)' THEN 1 ELSE 0)
                                                               - (IF Moving(g, a) THEN 1 ELSE 0)
<1>1. /\ Movers(a)' \ {g} = Movers(a) \ {g}
      /\ g \in Movers(a) <=> Moving(g, a)
      /\ g \in Movers(a)' <=> Moving(g, a)'
  BY DEF Movers, Moving, Others
<1>2. Movers(a) \in SUBSET G
  BY DEF Movers
<1>3. IsFiniteSet(Movers(a))
  BY <1>2, RootAssumption, FS_Subset
<1>4. /\ Cardinality(Movers(a)) \in Nat /\ Cardinality(Movers(a)') \in Nat
      /\ Cardinality(Movers(a)') = Cardinality(Movers(a)) + (IF g \in Movers(a)' THEN 1 ELSE 0)
                                                          - (IF g \in Movers(a) THEN 1 ELSE 0)
  BY <1>1, <1>3, CardinalityStep
<1>5. QED
  BY <1>1, <1>4

\* A step of g that makes nobody a waiter, and that turns a permit into a mover or
\* takes both away.
LEMMA BalancedStep ==
    ASSUME NEW g \in G, NEW a \in Addr, Others(g), \A h \in G \ {g} : ticket'[h] = ticket[h],
           Safe(a), HasWaiter(a)' => HasWaiter(a), val[a] \in Nat, val'[a] \in Nat,
           val'[a] + (IF Moving(g, a) THEN 1 ELSE 0) <= val[a] + (IF Moving(g, a)' THEN 1 ELSE 0)
    PROVE  Safe(a)'
<1> DEFINE n == Cardinality(Movers(a))
           x == IF Moving(g, a) THEN 1 ELSE 0
           y == IF Moving(g, a)' THEN 1 ELSE 0
<1>1. n \in Nat /\ n' \in Nat /\ n' = n + y - x /\ x \in Nat /\ y \in Nat
  BY MoversStep
<1>2. val'[a] + x <= val[a] + y
  OBVIOUS
<1>3. HasWaiter(a) => val[a] <= n
  BY DEF Safe
<1> HIDE DEF n, x, y
<1>4. HasWaiter(a)' => val'[a] <= n'
  BY <1>1, <1>2, <1>3
<1>5. QED
  BY <1>4 DEF Safe, n

\* Whether someone waits does not change while the lists stay the same and g is
\* not about to queue.
LEMMA SameWaiters ==
    ASSUME NEW g \in G, NEW a, Others(g), queue' = queue, pc[g] # "enqueue", pc'[g] # "enqueue"
    PROVE  HasWaiter(a)' <=> HasWaiter(a)
BY DEF HasWaiter, Others

\* The permits of the other addresses are left alone.
LEMMA TakenHere ==
    ASSUME Types, NEW g \in G, addr[g] \in Addr, TakePermit(g), NEW a \in Addr
    PROVE  val'[a] = IF a = addr[g] THEN val[a] - 1 ELSE val[a]
BY DEF Types, TakePermit

\* Steps of semacquire1 that count or take a permit.
LEMMA AcquireSafe ==
    ASSUME IInv, IInv', NEW g \in G, NEW a \in Addr, Safe(a),
           EasyAcquire(g) \/ AnnounceWaiter(g) \/ UndoAnnounce(g) \/ Resume(g)
    PROVE  Safe(a)'
<1>0. /\ addr[g] \in Addr /\ pc[g] # "enqueue" /\ pc'[g] # "enqueue" /\ Others(g)
      /\ \A h \in G \ {g} : ticket'[h] = ticket[h]
      /\ queue' = queue
      /\ val[a] \in Nat /\ val'[a] \in Nat
  <2>1. val[a] \in Nat /\ val'[a] \in Nat /\ (pc[g] # "idle" => addr[g] \in Addr)
    BY HasAddress DEF IInv, Types
  <2>2. QED
    BY <2>1 DEF EasyAcquire, AnnounceWaiter, UndoAnnounce, Resume, Return, Stay, Goto, Others, IInv, Types
<1>1. HasWaiter(a)' => HasWaiter(a)
  BY <1>0, SameWaiters
<1>2. CASE \/ pc[g] = "easy" /\ CanAcquire(g) /\ TakePermit(g) /\ Return(g)
           \/ pc[g] = "resumed" /\ ~ticket[g] /\ CanAcquire(g) /\ TakePermit(g) /\ Return(g)
  <2>1. Moving(g, a) <=> a = addr[g]
    BY <1>2 DEF Moving
  <2>2. val'[a] = IF a = addr[g] THEN val[a] - 1 ELSE val[a]
    BY <1>0, <1>2, TakenHere DEF IInv
  <2>3. val'[a] + (IF Moving(g, a) THEN 1 ELSE 0) <= val[a] + (IF Moving(g, a)' THEN 1 ELSE 0)
    BY <1>0, <2>1, <2>2
  <2>4. QED
    BY <1>0, <1>1, <2>3, BalancedStep
<1>3. CASE val' = val /\ (Moving(g, a) => Moving(g, a)')
  <2>1. val'[a] + (IF Moving(g, a) THEN 1 ELSE 0) <= val[a] + (IF Moving(g, a)' THEN 1 ELSE 0)
    BY <1>0, <1>3
  <2>2. QED
    BY <1>0, <1>1, <2>1, BalancedStep
<1>4. CASE EasyAcquire(g)
  <2>1. CASE CanAcquire(g) /\ TakePermit(g) /\ Return(g)
    BY <1>2, <1>4, <2>1 DEF EasyAcquire
  <2>2. CASE val' = val /\ addr' = addr /\ pc'[g] = "lock"
    BY <1>3, <2>2 DEF Moving
  <2>3. QED
    BY <1>4, <2>1, <2>2 DEF EasyAcquire, Goto, Stay, IInv, Types
<1>5. CASE AnnounceWaiter(g) \/ UndoAnnounce(g)
  <2>1. val' = val /\ (Moving(g, a) => Moving(g, a)')
    BY <1>5 DEF AnnounceWaiter, UndoAnnounce, Goto, Stay, Moving, IInv, Types
  <2>2. QED
    BY <1>3, <2>1
<1>6. CASE Resume(g)
  <2>1. CASE ticket[g] /\ val' = val
    BY <1>3, <1>6, <2>1 DEF Resume, Moving
  <2>2. CASE ~ticket[g] /\ CanAcquire(g) /\ TakePermit(g) /\ Return(g)
    BY <1>2, <1>6, <2>2 DEF Resume
  <2>3. CASE val' = val /\ addr' = addr /\ pc'[g] = "lock"
    BY <1>3, <2>3 DEF Moving
  <2>4. QED
    BY <1>6, <2>1, <2>2, <2>3 DEF Resume, Goto, Stay, IInv, Types
<1>7. QED
  BY <1>4, <1>5, <1>6

\* Whoever decides to sleep has just seen that there is no permit.
LEMMA RecheckSafe ==
    ASSUME IInv, IInv', NEW g \in G, NEW a \in Addr, Safe(a), Recheck(g)
    PROVE  Safe(a)'
<1>0. /\ addr[g] \in Addr /\ pc[g] = "recheck" /\ Others(g) /\ addr' = addr
      /\ ticket' = ticket /\ queue' = queue
      /\ val[a] \in Nat /\ val'[a] \in Nat
  BY HasAddress DEF Recheck, Stay, Goto, Others, IInv, Types
<1>1. CASE CanAcquire(g) /\ TakePermit(g) /\ pc'[g] = "undo"
  <2>1. HasWaiter(a)' => HasWaiter(a)
    BY <1>0, <1>1, SameWaiters
  <2>2. Moving(g, a) <=> a = addr[g]
    BY <1>0 DEF Moving
  <2>3. val'[a] = IF a = addr[g] THEN val[a] - 1 ELSE val[a]
    BY <1>0, <1>1, TakenHere DEF IInv
  <2>4. val'[a] + (IF Moving(g, a) THEN 1 ELSE 0) <= val[a] + (IF Moving(g, a)' THEN 1 ELSE 0)
    BY <1>0, <2>2, <2>3
  <2>5. QED
    BY <1>0, <2>1, <2>4, BalancedStep
<1>2. CASE ~CanAcquire(g) /\ val' = val /\ pc'[g] = "enqueue"
  <2>1. CASE a = addr[g]
    <3>1. val'[a] = 0
      BY <1>0, <1>2, <2>1 DEF CanAcquire
    <3>2. Cardinality(Movers(a))' \in Nat
      BY <1>0, MoversStep
    <3>3. QED
      BY <3>1, <3>2 DEF Safe
  <2>2. CASE a # addr[g]
    <3>1. ~Moving(g, a)
      BY <2>2 DEF Moving
    <3>2. HasWaiter(a)' => HasWaiter(a)
      BY <1>0, <2>2 DEF HasWaiter, Others
    <3>3. val'[a] + (IF Moving(g, a) THEN 1 ELSE 0) <= val[a] + (IF Moving(g, a)' THEN 1 ELSE 0)
      BY <1>0, <1>2, <3>1
    <3>4. QED
      BY <1>0, <3>2, <3>3, BalancedStep
  <2>3. QED
    BY <2>1, <2>2
<1>3. QED
  BY <1>0, <1>1, <1>2 DEF Recheck, Goto, IInv, Types

\* Who goes on the list was a waiter already.
LEMMA QueueAndParkSafe ==
    ASSUME IInv, IInv', NEW g \in G, NEW a \in Addr, Safe(a), QueueAndPark(g)
    PROVE  Safe(a)'
<1>0. /\ addr[g] \in Addr /\ pc[g] = "enqueue" /\ Others(g) /\ pc'[g] = "parked"
      /\ ticket' = ticket /\ val' = val /\ val[a] \in Nat /\ val'[a] \in Nat
      /\ \A b \in Addr \ {addr[g]} : queue'[b] = queue[b]
  BY HasAddress DEF QueueAndPark, Stay, Goto, Others, IInv, Types
<1>1. HasWaiter(a)' => HasWaiter(a)
  <2>1. CASE a = addr[g]
    BY <1>0, <2>1 DEF HasWaiter
  <2>2. CASE a # addr[g]
    BY <1>0, <2>2 DEF HasWaiter, Others
  <2>3. QED
    BY <2>1, <2>2
<1>2. ~Moving(g, a)
  BY <1>0 DEF Moving
<1>3. val'[a] + (IF Moving(g, a) THEN 1 ELSE 0) <= val[a] + (IF Moving(g, a)' THEN 1 ELSE 0)
  BY <1>0, <1>2
<1>4. QED
  BY <1>0, <1>1, <1>3, BalancedStep

\* A releaser is a mover from its Xadd on; it gives up when nwait is 0, that is when
\* nobody waits on any address.
LEMMA ReleaseSafe ==
    ASSUME IInv, IInv', NEW g \in G, NEW a \in Addr, Safe(a),
           XaddPermit(g) \/ LoadNwait(g) \/ LockToWake(g)
    PROVE  Safe(a)'
<1>0. /\ addr[g] \in Addr /\ pc[g] # "enqueue" /\ pc'[g] # "enqueue" /\ Others(g)
      /\ ticket' = ticket /\ queue' = queue /\ val[a] \in Nat /\ val'[a] \in Nat
  <2>1. val[a] \in Nat /\ val'[a] \in Nat /\ (pc[g] # "idle" => addr[g] \in Addr)
    BY HasAddress DEF IInv, Types
  <2>2. QED
    BY <2>1 DEF XaddPermit, LoadNwait, LockToWake, Return, Stay, Goto, Others, IInv, Types
<1>1. HasWaiter(a)' <=> HasWaiter(a)
  BY <1>0, SameWaiters
<1>2. CASE XaddPermit(g)
  <2>1. val'[a] = IF a = addr[g] THEN val[a] + 1 ELSE val[a]
    BY <1>0, <1>2 DEF XaddPermit, IInv, Types
  <2>2. ~Moving(g, a) /\ (Moving(g, a)' <=> a = addr[g])
    BY <1>0, <1>2 DEF XaddPermit, Stay, Goto, Moving, IInv, Types
  <2>3. val'[a] + (IF Moving(g, a) THEN 1 ELSE 0) <= val[a] + (IF Moving(g, a)' THEN 1 ELSE 0)
    BY <1>0, <2>1, <2>2
  <2>4. QED
    BY <1>0, <1>1, <2>3, BalancedStep
<1>3. CASE LoadNwait(g) /\ NoWaiters
  <2>1. ~HasWaiter(a)
    BY <1>3, NobodyWaits DEF HasWaiter, NoWaiters
  <2>2. QED
    BY <1>1, <2>1 DEF Safe
<1>4. CASE LockToWake(g) \/ (LoadNwait(g) /\ ~NoWaiters)
  <2>1. val' = val /\ (Moving(g, a) <=> a = addr[g]) /\ (Moving(g, a)' <=> a = addr[g])
    BY <1>4 DEF LockToWake, LoadNwait, Stay, Goto, Moving, IInv, Types
  <2>2. val'[a] + (IF Moving(g, a) THEN 1 ELSE 0) <= val[a] + (IF Moving(g, a)' THEN 1 ELSE 0)
    BY <1>0, <2>1
  <2>3. QED
    BY <1>0, <1>1, <2>2, BalancedStep
<1>5. QED
  BY <1>2, <1>3, <1>4

\* It gives up too when, under the lock, there is nobody on the list: then nobody is
\* on the way there either.
LEMMA DequeueSafe ==
    ASSUME IInv, IInv', NEW g \in G, NEW a \in Addr, Safe(a), DequeueWaiter(g)
    PROVE  Safe(a)'
<1> DEFINE b == addr[g]
<1>0. /\ b \in Addr /\ pc[g] = "dequeue" /\ pc'[g] \in {"idle", "ready"} /\ Others(g)
      /\ ticket' = ticket /\ val' = val /\ val[a] \in Nat /\ val'[a] \in Nat
  BY HasAddress DEF DequeueWaiter, Return, Stay, Goto, Others, IInv, Types
<1>1. \A h \in G : pc[h] # "enqueue" /\ pc'[h] # "enqueue"
  BY <1>0 DEF IInv, ControlInv, Others
<1>2. CASE NoWaiters \/ queue[b] = <<>>
  <2>1. queue[b] = <<>> /\ queue' = queue /\ addr'[g] = NoAddr
    BY <1>0, <1>2, NobodyWaits DEF DequeueWaiter, NoWaiters, Return, IInv, Types
  <2>2. CASE a = b
    BY <1>1, <2>1, <2>2 DEF Safe, HasWaiter
  <2>3. CASE a # b
    <3>1. ~Moving(g, a)
      BY <2>3 DEF Moving
    <3>2. HasWaiter(a)' => HasWaiter(a)
      BY <1>0, <1>1, <2>1, SameWaiters
    <3>3. val'[a] + (IF Moving(g, a) THEN 1 ELSE 0) <= val[a] + (IF Moving(g, a)' THEN 1 ELSE 0)
      BY <1>0, <3>1
    <3>4. QED
      BY <1>0, <3>2, <3>3, BalancedStep
  <2>4. QED
    BY <2>2, <2>3
<1>3. CASE ~(NoWaiters \/ queue[b] = <<>>)
  <2>1. /\ pc'[g] = "ready" /\ addr' = addr
        /\ \A c \in Addr \ {b} : queue'[c] = queue[c]
    BY <1>0, <1>3 DEF DequeueWaiter, Stay, Goto, IInv, Types
  <2>2. HasWaiter(a)' => HasWaiter(a)
    BY <1>1, <1>3, <2>1 DEF HasWaiter
  <2>3. Moving(g, a) <=> Moving(g, a)'
    BY <1>0, <2>1 DEF Moving
  <2>4. val'[a] + (IF Moving(g, a) THEN 1 ELSE 0) <= val[a] + (IF Moving(g, a)' THEN 1 ELSE 0)
    BY <1>0, <2>3
  <2>5. QED
    BY <1>0, <2>2, <2>4, BalancedStep
<1>4. QED
  BY <1>2, <1>3

\* The releaser is replaced as a mover by the waiter it readies, unless it hands it
\* the permit.
LEMMA ReadySafe ==
    ASSUME IInv, IInv', NEW g \in G, NEW a \in Addr, Safe(a), ReadyWaiter(g)
    PROVE  Safe(a)'
<1> DEFINE w == s[g]
           direct == flag[g] /\ CanAcquire(g)
           M == Movers(a)
<1>0. addr[g] \in Addr /\ pc[g] = "ready" /\ val[a] \in Nat /\ val'[a] \in Nat
  BY HasAddress DEF IInv, ReadyWaiter, Types
<1>1. w \in G /\ pc[w] = "parked" /\ w # g /\ addr[w] = addr[g]
  BY <1>0 DEF IInv, Types, ControlInv, OwnedInv
<1>2. /\ pc'[g] = "idle" /\ pc'[w] = "resumed"
      /\ \A h \in G \ {g, w} : pc'[h] = pc[h]
      /\ addr'[g] = NoAddr /\ \A h \in G \ {g} : addr'[h] = addr[h]
      /\ ticket'[w] = direct /\ \A h \in G \ {w} : ticket'[h] = ticket[h]
      /\ val' = IF direct THEN [val EXCEPT ![addr[g]] = @ - 1] ELSE val
      /\ queue' = queue
  BY <1>0, <1>1 DEF ReadyWaiter, IInv, Types
<1>3. val'[a] = IF a = addr[g] /\ direct THEN val[a] - 1 ELSE val[a]
  BY <1>0, <1>2 DEF IInv, Types
<1> HIDE DEF w, direct
<1>4. HasWaiter(a)' => HasWaiter(a)
  BY <1>2 DEF HasWaiter
<1>5. /\ M' \ {g, w} = M \ {g, w}
      /\ g \in M <=> a = addr[g]
      /\ w \notin M
      /\ g \notin M'
      /\ w \in M' <=> a = addr[g] /\ ~direct
  <2>1. M' \ {g, w} = M \ {g, w}
    BY <1>2 DEF Movers
  <2>2. (g \in M <=> a = addr[g]) /\ w \notin M
    BY <1>0, <1>1 DEF Movers
  <2>3. g \notin M'
    BY <1>2 DEF Movers
  <2>4. w \in M' <=> a = addr[g] /\ ~direct
    BY <1>1, <1>2 DEF Movers
  <2>5. QED
    BY <2>1, <2>2, <2>3, <2>4
<1>6. IsFiniteSet(M)
  <2>1. M \in SUBSET G
    BY DEF Movers
  <2>2. QED
    BY <2>1, RootAssumption, FS_Subset
<1>7. /\ Cardinality(M) \in Nat /\ Cardinality(M') \in Nat
      /\ Cardinality(M') = Cardinality(M) + (IF w \in M' THEN 1 ELSE 0) - (IF g \in M THEN 1 ELSE 0)
  <2> DEFINE N == M \ {g}
  <2> HIDE DEF M
  <2>1. N \ {g} = M \ {g} /\ g \notin N /\ w \notin N /\ M' \ {w} = N \ {w}
    BY <1>5
  <2> HIDE DEF N
  <2>2. /\ IsFiniteSet(N) /\ Cardinality(M) \in Nat /\ Cardinality(N) \in Nat
        /\ Cardinality(N) = Cardinality(M) + (IF g \in N THEN 1 ELSE 0) - (IF g \in M THEN 1 ELSE 0)
    BY <1>6, <2>1, CardinalityStep
  <2>3. /\ Cardinality(M') \in Nat
        /\ Cardinality(M') = Cardinality(N) + (IF w \in M' THEN 1 ELSE 0) - (IF w \in N THEN 1 ELSE 0)
    BY <2>1, <2>2, CardinalityStep
  <2>4. QED
    BY <2>1, <2>2, <2>3
<1>8. HasWaiter(a) => val[a] <= Cardinality(M)
  BY DEF Safe
<1> HIDE DEF M
<1>9. HasWaiter(a)' => val'[a] <= Cardinality(M')
  <2>1. CASE a = addr[g]
    BY <1>0, <1>3, <1>4, <1>5, <1>7, <1>8, <2>1
  <2>2. CASE a # addr[g]
    BY <1>0, <1>3, <1>4, <1>5, <1>7, <1>8, <2>2
  <2>3. QED
    BY <2>1, <2>2
<1>10. QED
  BY <1>9 DEF Safe, M

\* A call that begins adds a mover or, before its Xadd, nothing.
LEMMA CallSafe ==
    ASSUME IInv, NEW g \in G, NEW a \in Addr, Safe(a),
           NEW b \in Addr, NEW f \in BOOLEAN, NEW l \in {"easy", "xadd"}, Call(g, b, f, l)
    PROVE  Safe(a)'
<1>0. /\ pc[g] = "idle" /\ pc'[g] = l /\ Others(g)
      /\ val' = val /\ queue' = queue /\ ticket' = ticket /\ val[a] \in Nat
  BY DEF Call, Goto, Others, IInv, Types
<1>1. ~Moving(g, a) /\ (HasWaiter(a)' => HasWaiter(a))
  BY <1>0, SameWaiters DEF Moving
<1>2. val'[a] + (IF Moving(g, a) THEN 1 ELSE 0) <= val[a] + (IF Moving(g, a)' THEN 1 ELSE 0)
  BY <1>0, <1>1
<1>3. QED
  BY <1>0, <1>1, <1>2, BalancedStep

\* Every step keeps every address safe.
LEMMA NextSafe == IInv /\ IInv' /\ NoLostWakeup /\ [Next]_vars => NoLostWakeup'
<1> SUFFICES ASSUME IInv, IInv', NoLostWakeup, [Next]_vars, NEW a \in Addr PROVE Safe(a)'
  BY DEF NoLostWakeup, Safe
<1>0. Safe(a)
  BY DEF NoLostWakeup, Safe
<1>1. CASE UNCHANGED vars
  BY <1>0, <1>1 DEF vars, Safe, HasWaiter, Movers
<1>2. CASE Next
  <2>1. PICK g \in G : \/ \E b \in Addr, f \in BOOLEAN : semacquire1(g, b, f) \/ semrelease1(g, b, f)
                       \/ Step(g)
    BY <1>2 DEF Next
  <2>2. CASE \E b \in Addr, f \in BOOLEAN : semacquire1(g, b, f) \/ semrelease1(g, b, f)
    BY <1>0, <2>2, CallSafe DEF semacquire1, semrelease1
  <2>3. CASE EasyAcquire(g) \/ AnnounceWaiter(g) \/ UndoAnnounce(g) \/ Resume(g)
    BY <1>0, <2>3, AcquireSafe
  <2>4. CASE Recheck(g) \/ QueueAndPark(g)
    BY <1>0, <2>4, RecheckSafe, QueueAndParkSafe
  <2>5. CASE XaddPermit(g) \/ LoadNwait(g) \/ LockToWake(g)
    BY <1>0, <2>5, ReleaseSafe
  <2>6. CASE DequeueWaiter(g) \/ ReadyWaiter(g)
    BY <1>0, <2>6, DequeueSafe, ReadySafe
  <2>7. QED
    BY <2>1, <2>2, <2>3, <2>4, <2>5, <2>6 DEF Step
<1>3. QED
  BY <1>1, <1>2

\* No wakeup is lost for any goroutines and addresses: while someone sleeps, or has
\* decided to, no permit is left that nobody will announce or take.
THEOREM WakeupsKept == Spec => []NoLostWakeup
<1>1. Init => NoLostWakeup
  BY DEF Init, NoLostWakeup, HasWaiter
<1>2. QED
  BY <1>1, NextSafe, Invariance, PTL DEF Spec

-----------------------------------------------------------------------------
\* Refinement of the contract SemaQueue by the address Focus.

Calls == [g \in G |-> Stage(g)]
Hands == [g \in G |-> IF addr[g] = Focus THEN s[g] ELSE NoG]

\* A step of the contract, or one that it does not see.
Refined == Contract!SemaNext \/ UNCHANGED Contract!semaVars

\* A call on another address has no stage.
LEMMA NoStage ==
    ASSUME NEW p, NEW a, NEW t, a # Focus
    PROVE  StageOf(p, a, t) = "none"
BY DEF StageOf

\* The stages by label.
LEMMA StageTable ==
    ASSUME NEW p, NEW t
    PROVE  /\ p \in {"idle", "undo"} => StageOf(p, Focus, t) = "none"
           /\ p \in {"easy", "lock", "recheck"} => StageOf(p, Focus, t) = "acquire"
           /\ p \in {"enqueue", "parked"} => StageOf(p, Focus, t) = "parked"
           /\ p = "resumed" /\ t => StageOf(p, Focus, t) = "ticket"
           /\ p = "resumed" /\ ~t => StageOf(p, Focus, t) = "acquire"
           /\ p = "xadd" => StageOf(p, Focus, t) = "post"
           /\ p \in {"load", "rlock", "dequeue"} => StageOf(p, Focus, t) = "wake"
           /\ p = "ready" => StageOf(p, Focus, t) = "hand"
<1>2. p \in {"idle", "undo"} => StageOf(p, Focus, t) = "none"
  BY DEF StageOf
<1>3. p \in {"easy", "lock", "recheck"} => StageOf(p, Focus, t) = "acquire"
  BY DEF StageOf
<1>4. p \in {"enqueue", "parked"} => StageOf(p, Focus, t) = "parked"
  BY DEF StageOf
<1>5. p = "resumed" /\ t => StageOf(p, Focus, t) = "ticket"
  BY DEF StageOf
<1>6. p = "resumed" /\ ~t => StageOf(p, Focus, t) = "acquire"
  BY DEF StageOf
<1>7. p = "xadd" => StageOf(p, Focus, t) = "post"
  BY DEF StageOf
<1>8. p \in {"load", "rlock", "dequeue"} => StageOf(p, Focus, t) = "wake"
  BY DEF StageOf
<1>9. p = "ready" => StageOf(p, Focus, t) = "hand"
  BY DEF StageOf
<1>10. QED
  BY <1>2, <1>3, <1>4, <1>5, <1>6, <1>7, <1>8, <1>9

\* Stage in terms of StageOf, before and after a step.
LEMMA StageIs ==
    ASSUME NEW g \in G
    PROVE  /\ Calls[g] = StageOf(pc[g], addr[g], ticket[g])
           /\ Calls'[g] = StageOf(pc'[g], addr'[g], ticket'[g])
           /\ Stage(g) = Calls[g]
BY DEF Calls, Stage

\* A step of g changes the stage of g only.
LEMMA CallsStep ==
    ASSUME NEW g \in G, Others(g), \A h \in G \ {g} : ticket'[h] = ticket[h]
    PROVE  Calls' = [Calls EXCEPT ![g] = StageOf(pc'[g], addr'[g], ticket'[g])]
<1>1. \A h \in G \ {g} : Calls'[h] = Calls[h]
  BY StageIs DEF Others
<1>2. Calls'[g] = StageOf(pc'[g], addr'[g], ticket'[g])
  BY StageIs
<1>3. Calls' = [h \in G |-> Calls'[h]] /\ Calls = [h \in G |-> Calls[h]]
  BY DEF Calls
<1> HIDE DEF Calls
<1>4. QED
  BY <1>1, <1>2, <1>3

\* The hands stay as they are.
LEMMA SameHands ==
    ASSUME IInv, NEW g \in G, Others(g), s' = s, pc[g] # "ready"
    PROVE  Hands' = Hands
<1>1. s[g] = NoG
  BY DEF IInv, ControlInv
<1>2. \A h \in G : (IF addr'[h] = Focus THEN s'[h] ELSE NoG) = (IF addr[h] = Focus THEN s[h] ELSE NoG)
  BY <1>1 DEF Others
<1>3. QED
  BY <1>2 DEF Hands

\* The queue stays as it is while the list does and the same goroutine, if any, is
\* about to go on it.
LEMMA SameWaitq ==
    ASSUME IInv, IInv', queue'[Focus] = queue[Focus],
           \A h \in G : pc[h] = "enqueue" <=> pc'[h] = "enqueue",
           \A h \in G : pc[h] = "enqueue" => addr'[h] = addr[h] /\ flag'[h] = flag[h]
    PROVE  Waitq' = Waitq
<1>1. CASE \E h \in G : pc[h] = "enqueue"
  <2>1. PICK h \in G : pc[h] = "enqueue"
    BY <1>1
  <2>2. pc'[h] = "enqueue" /\ lock = h /\ lock' = h /\ addr'[h] = addr[h] /\ flag'[h] = flag[h]
    BY <2>1 DEF IInv, ControlInv
  <2>3. QED
    BY <2>1, <2>2 DEF Waitq
<1>2. CASE \A h \in G : pc[h] # "enqueue"
  <2>1. \A h \in G : pc'[h] # "enqueue"
    BY <1>2
  <2>2. Waitq = queue[Focus] /\ Waitq' = queue'[Focus]
    BY <1>2, <2>1 DEF Waitq
  <2>3. QED
    BY <2>2
<1>3. QED
  BY <1>1, <1>2

\* The queue when nobody is about to go on it.
LEMMA WaitqIsList ==
    ASSUME \A h \in G : pc[h] # "enqueue"
    PROVE  Waitq = queue[Focus]
BY DEF Waitq

\* What a step of g that is not about queueing changes of the contract's state.
LEMMA PlainStep ==
    ASSUME IInv, IInv', NEW g \in G, Others(g), \A h \in G \ {g} : flag'[h] = flag[h],
           \A h \in G \ {g} : ticket'[h] = ticket[h], queue' = queue, s' = s,
           pc[g] # "enqueue", pc'[g] # "enqueue", pc[g] # "ready"
    PROVE  /\ Waitq' = Waitq /\ Hands' = Hands
           /\ Calls' = [Calls EXCEPT ![g] = StageOf(pc'[g], addr'[g], ticket'[g])]
<1>1. /\ \A h \in G : pc[h] = "enqueue" <=> pc'[h] = "enqueue"
      /\ \A h \in G : pc[h] = "enqueue" => addr'[h] = addr[h] /\ flag'[h] = flag[h]
  BY DEF Others
<1>2. QED
  BY <1>1, SameWaitq, SameHands, CallsStep

\* Steps of the contract, in terms of its state.
LEMMA IsStutter ==
    ASSUME val'[Focus] = val[Focus], Waitq' = Waitq, Calls' = Calls, Hands' = Hands
    PROVE  Refined
BY DEF Refined, Contract!semaVars, Calls, Hands

\* A call begins.
LEMMA IsBegin ==
    ASSUME NEW g \in G, Calls[g] = "none", NEW c \in {"acquire", "post"},
           Calls' = [Calls EXCEPT ![g] = c],
           val'[Focus] = val[Focus], Waitq' = Waitq, Hands' = Hands
    PROVE  Refined
BY DEF Refined, Contract!SemaNext, Contract!BeginAcquire, Contract!BeginRelease, Calls, Hands

\* A permit is taken.
LEMMA IsAcquire ==
    ASSUME NEW g \in G, Calls[g] = "acquire", Calls' = [Calls EXCEPT ![g] = "none"],
           val[Focus] > 0, val'[Focus] = val[Focus] - 1, Waitq' = Waitq, Hands' = Hands
    PROVE  Refined
BY DEF Refined, Contract!SemaNext, Contract!Acquire, Calls, Hands

\* A ticket is taken.
LEMMA IsTakeTicket ==
    ASSUME NEW g \in G, Calls[g] = "ticket", Calls' = [Calls EXCEPT ![g] = "none"],
           val'[Focus] = val[Focus], Waitq' = Waitq, Hands' = Hands
    PROVE  Refined
BY DEF Refined, Contract!SemaNext, Contract!TakeTicket, Calls, Hands

\* A goroutine goes to sleep.
LEMMA IsPark ==
    ASSUME NEW g \in G, NEW lf \in BOOLEAN, Calls[g] = "acquire",
           Calls' = [Calls EXCEPT ![g] = "parked"], val[Focus] = 0, val'[Focus] = val[Focus],
           Waitq' = Queued(Waitq, g, lf), Hands' = Hands
    PROVE  Refined
<1>1. Contract!Park(g, lf)
  BY DEF Contract!Park, Contract!Pushed, Queued, Calls, Hands
<1>2. QED
  BY <1>1 DEF Refined, Contract!SemaNext

\* A permit is published.
LEMMA IsPost ==
    ASSUME NEW g \in G, Calls[g] = "post", Calls' = [Calls EXCEPT ![g] = "wake"],
           val'[Focus] = val[Focus] + 1, Waitq' = Waitq, Hands' = Hands
    PROVE  Refined
BY DEF Refined, Contract!SemaNext, Contract!Post, Calls, Hands

\* A releaser returns since nobody is parked.
LEMMA IsNoWaiter ==
    ASSUME NEW g \in G, Calls[g] = "wake", Waitq = <<>>, Calls' = [Calls EXCEPT ![g] = "none"],
           val'[Focus] = val[Focus], Waitq' = Waitq, Hands' = Hands
    PROVE  Refined
BY DEF Refined, Contract!SemaNext, Contract!NoWaiter, Calls, Hands

\* A releaser takes the first waiter.
LEMMA IsDequeue ==
    ASSUME NEW g \in G, Calls[g] = "wake", Waitq # <<>>, Calls' = [Calls EXCEPT ![g] = "hand"],
           Hands' = [Hands EXCEPT ![g] = Head(Waitq)], Waitq' = Tail(Waitq),
           val'[Focus] = val[Focus]
    PROVE  Refined
BY DEF Refined, Contract!SemaNext, Contract!Dequeue, Calls, Hands

\* A releaser readies it.
LEMMA IsReady ==
    ASSUME NEW g \in G, NEW ho \in BOOLEAN, Calls[g] = "hand",
           val'[Focus] = IF ho /\ val[Focus] > 0 THEN val[Focus] - 1 ELSE val[Focus],
           Calls' = [Calls EXCEPT ![g] = "none",
                                  ![Hands[g]] = IF ho /\ val[Focus] > 0 THEN "ticket" ELSE "acquire"],
           Hands' = [Hands EXCEPT ![g] = NoG], Waitq' = Waitq
    PROVE  Refined
<1>1. Contract!Ready(g, ho)
  BY DEF Contract!Ready, Calls, Hands
<1>2. QED
  BY <1>1 DEF Refined, Contract!SemaNext

-----------------------------------------------------------------------------
\* Each step of an address is a step of the contract.

\* What happens on another address is not seen.
LEMMA Elsewhere ==
    ASSUME IInv, IInv', NEW g \in G, Others(g), \A h \in G \ {g} : flag'[h] = flag[h],
           \A h \in G \ {g} : ticket'[h] = ticket[h], queue' = queue, s' = s,
           pc[g] # "enqueue", pc'[g] # "enqueue", pc[g] # "ready",
           addr[g] # Focus, addr'[g] # Focus, val'[Focus] = val[Focus]
    PROVE  Refined
<1>1. /\ Waitq' = Waitq /\ Hands' = Hands
      /\ Calls' = [Calls EXCEPT ![g] = StageOf(pc'[g], addr'[g], ticket'[g])]
  BY PlainStep
<1>2. Calls[g] = "none" /\ StageOf(pc'[g], addr'[g], ticket'[g]) = "none"
  BY NoStage, StageIs
<1>3. Calls' = Calls
  BY <1>1, <1>2 DEF Calls
<1>4. QED
  BY <1>1, <1>3, IsStutter

\* Steps that leave the stage of g as it is.
LEMMA SameStage ==
    ASSUME NEW g \in G, Calls' = [Calls EXCEPT ![g] = Calls[g]]
    PROVE  Calls' = Calls
BY DEF Calls

\* A call on Focus begins.
LEMMA CallRefines ==
    ASSUME IInv, IInv', NEW g \in G, NEW a \in Addr, NEW f \in BOOLEAN,
           NEW l \in {"easy", "xadd"}, Call(g, a, f, l)
    PROVE  Refined
<1>0. /\ pc[g] = "idle" /\ pc'[g] = l /\ Others(g) /\ addr'[g] = a /\ addr[g] = NoAddr
      /\ \A h \in G \ {g} : flag'[h] = flag[h]
      /\ UNCHANGED <<val, queue, ticket, s>>
  BY DEF Call, Goto, Others, IInv, Types, ControlInv
<1>1. CASE a # Focus
  BY <1>0, <1>1, Elsewhere, RootAssumption
<1>2. CASE a = Focus
  <2>1. /\ Waitq' = Waitq /\ Hands' = Hands
        /\ Calls' = [Calls EXCEPT ![g] = StageOf(pc'[g], addr'[g], ticket'[g])]
    BY <1>0, PlainStep
  <2>2. Calls[g] = "none"
    BY <1>0, NoStage, StageIs, RootAssumption
  <2>3. StageOf(pc'[g], addr'[g], ticket'[g]) \in {"acquire", "post"}
    BY <1>0, <1>2, StageTable
  <2>4. QED
    BY <1>0, <2>1, <2>2, <2>3, IsBegin
<1>3. QED
  BY <1>1, <1>2

\* cansemacquire succeeds, in one of its three places, and semacquire1 is done with
\* the permits.
LEMMA TakeRefines ==
    ASSUME IInv, IInv', NEW g \in G, Others(g), \A h \in G \ {g} : flag'[h] = flag[h],
           \A h \in G \ {g} : ticket'[h] = ticket[h], queue' = queue, s' = s,
           pc[g] \in {"easy", "recheck"} \/ (pc[g] = "resumed" /\ ~ticket[g]),
           \/ pc'[g] = "idle" /\ addr'[g] = NoAddr
           \/ pc'[g] = "undo" /\ addr'[g] = addr[g],
           CanAcquire(g), TakePermit(g)
    PROVE  Refined
<1>0. addr[g] \in Addr
  BY HasAddress DEF IInv
<1>1. CASE addr[g] # Focus
  <2>1. val'[Focus] = val[Focus]
    BY <1>0, <1>1, TakenHere, RootAssumption DEF IInv
  <2>2. QED
    BY <1>1, <2>1, Elsewhere, RootAssumption
<1>2. CASE addr[g] = Focus
  <2>1. /\ Waitq' = Waitq /\ Hands' = Hands
        /\ Calls' = [Calls EXCEPT ![g] = StageOf(pc'[g], addr'[g], ticket'[g])]
    BY PlainStep
  <2>2. Calls[g] = "acquire"
    BY <1>2, StageTable, StageIs
  <2>3. StageOf(pc'[g], addr'[g], ticket'[g]) = "none"
    BY <1>2, StageTable, NoStage, RootAssumption
  <2>4. val[Focus] > 0 /\ val'[Focus] = val[Focus] - 1
    BY <1>0, <1>2, TakenHere DEF IInv, CanAcquire
  <2>5. QED
    BY <2>1, <2>2, <2>3, <2>4, IsAcquire
<1>3. QED
  BY <1>1, <1>2

\* Steps that the contract does not see, on whatever address.
LEMMA InnerRefines ==
    ASSUME IInv, IInv', NEW g \in G, Others(g), \A h \in G \ {g} : flag'[h] = flag[h],
           \A h \in G \ {g} : ticket'[h] = ticket[h], queue' = queue, s' = s, val' = val,
           \/ /\ pc[g] \in {"easy", "lock"} \/ (pc[g] = "resumed" /\ ~ticket[g])
              /\ pc'[g] \in {"lock", "recheck"} /\ addr'[g] = addr[g]
           \/ pc[g] = "undo" /\ pc'[g] = "idle" /\ addr'[g] = NoAddr
           \/ pc[g] \in {"load", "rlock"} /\ pc'[g] \in {"rlock", "dequeue"} /\ addr'[g] = addr[g]
    PROVE  Refined
<1>1. /\ Waitq' = Waitq /\ Hands' = Hands
      /\ Calls' = [Calls EXCEPT ![g] = StageOf(pc'[g], addr'[g], ticket'[g])]
  BY PlainStep
<1>2. StageOf(pc'[g], addr'[g], ticket'[g]) = Calls[g]
  <2>1. CASE addr[g] # Focus
    <3>1. addr'[g] # Focus
      BY <2>1, RootAssumption
    <3>2. QED
      BY <2>1, <3>1, NoStage, StageIs
  <2>2. CASE addr[g] = Focus
    <3>1. CASE pc[g] = "undo"
      BY <2>2, <3>1, StageTable, NoStage, StageIs, RootAssumption
    <3>2. CASE pc[g] # "undo"
      <4>1. addr'[g] = Focus
        BY <2>2, <3>2
      <4>2. QED
        BY <2>2, <3>2, <4>1, StageTable, StageIs
    <3>3. QED
      BY <3>1, <3>2
  <2>3. QED
    BY <2>1, <2>2
<1>3. Calls' = Calls
  BY <1>1, <1>2, SameStage
<1>4. QED
  BY <1>1, <1>3, IsStutter

\* semacquire1 up to the list.
LEMMA AcquireRefines ==
    ASSUME IInv, IInv', NEW g \in G,
           EasyAcquire(g) \/ AnnounceWaiter(g) \/ UndoAnnounce(g)
    PROVE  Refined
<1>1. CASE EasyAcquire(g)
  <2>1. /\ Others(g) /\ \A h \in G \ {g} : flag'[h] = flag[h]
        /\ UNCHANGED <<queue, ticket, s>> /\ pc[g] = "easy"
        /\ \/ CanAcquire(g) /\ TakePermit(g) /\ pc'[g] = "idle" /\ addr'[g] = NoAddr
           \/ val' = val /\ pc'[g] = "lock" /\ addr'[g] = addr[g]
    BY <1>1 DEF EasyAcquire, Return, Stay, Goto, Others, IInv, Types
  <2>2. CASE CanAcquire(g) /\ TakePermit(g) /\ pc'[g] = "idle" /\ addr'[g] = NoAddr
    <3>1. /\ queue' = queue /\ s' = s /\ Others(g)
          /\ \A h \in G \ {g} : flag'[h] = flag[h]
          /\ \A h \in G \ {g} : ticket'[h] = ticket[h]
      BY <2>1
    <3>2. QED
      BY <2>1, <2>2, <3>1, TakeRefines
  <2>3. CASE val' = val /\ pc'[g] = "lock" /\ addr'[g] = addr[g]
    BY <2>1, <2>3, InnerRefines
  <2>4. QED
    BY <2>1, <2>2, <2>3
<1>2. CASE AnnounceWaiter(g)
  <2>1. /\ Others(g) /\ UNCHANGED <<queue, ticket, s, val, addr, flag>>
        /\ pc[g] = "lock" /\ pc'[g] = "recheck"
    BY <1>2 DEF AnnounceWaiter, Stay, Goto, Others, IInv, Types
  <2>2. QED
    BY <2>1, InnerRefines
<1>3. CASE UndoAnnounce(g)
  <2>1. /\ Others(g) /\ \A h \in G \ {g} : flag'[h] = flag[h]
        /\ UNCHANGED <<queue, ticket, s, val>>
        /\ pc[g] = "undo" /\ pc'[g] = "idle" /\ addr'[g] = NoAddr
    BY <1>3 DEF UndoAnnounce, Return, Goto, Others, IInv, Types
  <2>2. QED
    BY <2>1, InnerRefines
<1>4. QED
  BY <1>1, <1>2, <1>3

\* The second cansemacquire decides between a permit and a place in the queue.
LEMMA RecheckRefines ==
    ASSUME IInv, IInv', NEW g \in G, Recheck(g)
    PROVE  Refined
<1>0. /\ Others(g) /\ UNCHANGED <<queue, nwait, lock, ticket, s, addr, flag>>
      /\ pc[g] = "recheck" /\ addr[g] \in Addr /\ lock = g
      /\ \/ CanAcquire(g) /\ TakePermit(g) /\ pc'[g] = "undo"
         \/ ~CanAcquire(g) /\ val' = val /\ pc'[g] = "enqueue"
  BY HasAddress DEF Recheck, Stay, Goto, Others, IInv, Types, ControlInv
<1>1. CASE CanAcquire(g) /\ TakePermit(g) /\ pc'[g] = "undo"
  BY <1>0, <1>1, TakeRefines
<1>2. CASE ~CanAcquire(g) /\ val' = val /\ pc'[g] = "enqueue"
  <2>0. \A h \in G : pc[h] # "enqueue"
    BY <1>0 DEF IInv, ControlInv
  <2>1. /\ Hands' = Hands
        /\ Calls' = [Calls EXCEPT ![g] = StageOf(pc'[g], addr'[g], ticket'[g])]
    BY <1>0, SameHands, CallsStep
  <2>2. Waitq = queue[Focus]
    BY <2>0, WaitqIsList
  <2>3. CASE addr[g] # Focus
    <3>1. Waitq' = Waitq
      BY <1>0, <2>2, <2>3 DEF Waitq
    <3>2. Calls[g] = "none" /\ StageOf(pc'[g], addr'[g], ticket'[g]) = "none"
      BY <1>0, <2>3, NoStage, StageIs
    <3>3. Calls' = Calls
      BY <2>1, <3>2, SameStage
    <3>4. QED
      BY <1>2, <2>1, <3>1, <3>3, IsStutter
  <2>4. CASE addr[g] = Focus
    <3>1. Waitq' = Queued(Waitq, g, flag[g])
      BY <1>0, <1>2, <2>2, <2>4 DEF Waitq
    <3>2. Calls[g] = "acquire" /\ StageOf(pc'[g], addr'[g], ticket'[g]) = "parked"
      BY <1>0, <1>2, <2>4, StageTable, StageIs
    <3>3. val[Focus] = 0
      BY <1>0, <1>2, <2>4 DEF CanAcquire, IInv, Types
    <3>4. flag[g] \in BOOLEAN
      BY DEF IInv, Types
    <3>5. QED
      BY <1>2, <2>1, <3>1, <3>2, <3>3, <3>4, IsPark
  <2>5. QED
    BY <2>3, <2>4
<1>3. QED
  BY <1>0, <1>1, <1>2

\* Going on the list is what the contract has seen already.
LEMMA QueueAndParkRefines ==
    ASSUME IInv, IInv', NEW g \in G, QueueAndPark(g)
    PROVE  Refined
<1>0. /\ Others(g) /\ UNCHANGED <<val, ticket, s, addr, flag>>
      /\ pc[g] = "enqueue" /\ pc'[g] = "parked" /\ addr[g] \in Addr /\ lock = g /\ lock' = NoG
      /\ queue' = [queue EXCEPT ![addr[g]] = Queued(queue[addr[g]], g, flag[g])]
  BY HasAddress DEF QueueAndPark, Unlock, Stay, Goto, Others, IInv, Types
<1>1. /\ Hands' = Hands
      /\ Calls' = [Calls EXCEPT ![g] = StageOf(pc'[g], addr'[g], ticket'[g])]
  BY <1>0, SameHands, CallsStep
<1>2. StageOf(pc'[g], addr'[g], ticket'[g]) = Calls[g]
  <2>1. CASE addr[g] # Focus
    BY <1>0, <2>1, NoStage, StageIs
  <2>2. CASE addr[g] = Focus
    BY <1>0, <2>2, StageTable, StageIs
  <2>3. QED
    BY <2>1, <2>2
<1>3. Calls' = Calls
  BY <1>1, <1>2, SameStage
<1>4. Waitq' = Waitq
  <2>1. Waitq' = queue'[Focus]
    BY <1>0, RootAssumption DEF Waitq
  <2>2. CASE addr[g] = Focus
    BY <1>0, <2>1, <2>2 DEF Waitq, IInv, Types
  <2>3. CASE addr[g] # Focus
    BY <1>0, <2>1, <2>3, RootAssumption DEF Waitq, IInv, Types
  <2>4. QED
    BY <2>2, <2>3
<1>5. QED
  BY <1>0, <1>1, <1>3, <1>4, IsStutter

\* Back from goparkunlock with a ticket, for a permit, or to queue again.
LEMMA ResumeRefines ==
    ASSUME IInv, IInv', NEW g \in G, Resume(g)
    PROVE  Refined
<1>0. /\ Others(g) /\ \A h \in G \ {g} : flag'[h] = flag[h] /\ ticket'[h] = ticket[h]
      /\ UNCHANGED <<queue, s>> /\ pc[g] = "resumed"
      /\ \/ ticket[g] /\ val' = val /\ pc'[g] = "idle" /\ addr'[g] = NoAddr
         \/ ~ticket[g] /\ CanAcquire(g) /\ TakePermit(g) /\ pc'[g] = "idle" /\ addr'[g] = NoAddr
         \/ ~ticket[g] /\ val' = val /\ pc'[g] = "lock" /\ addr'[g] = addr[g]
  BY DEF Resume, Return, Stay, Goto, Others, IInv, Types
<1>1. CASE ticket[g] /\ val' = val /\ pc'[g] = "idle" /\ addr'[g] = NoAddr
  <2>1. CASE addr[g] # Focus
    BY <1>0, <1>1, <2>1, Elsewhere, RootAssumption
  <2>2. CASE addr[g] = Focus
    <3>1. /\ Waitq' = Waitq /\ Hands' = Hands
          /\ Calls' = [Calls EXCEPT ![g] = StageOf(pc'[g], addr'[g], ticket'[g])]
      BY <1>0, <1>1, PlainStep
    <3>2. Calls[g] = "ticket"
      BY <1>0, <1>1, <2>2, StageTable, StageIs
    <3>3. StageOf(pc'[g], addr'[g], ticket'[g]) = "none"
      BY <1>1, NoStage, RootAssumption
    <3>4. QED
      BY <1>1, <3>1, <3>2, <3>3, IsTakeTicket
  <2>3. QED
    BY <2>1, <2>2
<1>2. CASE ~ticket[g] /\ CanAcquire(g) /\ TakePermit(g) /\ pc'[g] = "idle" /\ addr'[g] = NoAddr
  <2>1. /\ queue' = queue /\ s' = s /\ Others(g)
        /\ \A h \in G \ {g} : flag'[h] = flag[h]
        /\ \A h \in G \ {g} : ticket'[h] = ticket[h]
    BY <1>0
  <2>2. QED
    BY <1>0, <1>2, <2>1, TakeRefines
<1>3. CASE ~ticket[g] /\ val' = val /\ pc'[g] = "lock" /\ addr'[g] = addr[g]
  BY <1>0, <1>3, InnerRefines
<1>4. QED
  BY <1>0, <1>1, <1>2, <1>3

\* A permit is published, and a releaser that reads nwait = 0 returns rightly.
LEMMA ReleaseRefines ==
    ASSUME IInv, IInv', NEW g \in G, XaddPermit(g) \/ LoadNwait(g) \/ LockToWake(g)
    PROVE  Refined
<1>1. CASE XaddPermit(g)
  <2>1. /\ Others(g) /\ UNCHANGED <<queue, ticket, s, addr, flag>> /\ addr[g] \in Addr
        /\ pc[g] = "xadd" /\ pc'[g] = "load"
        /\ val' = [val EXCEPT ![addr[g]] = @ + 1]
    BY <1>1, HasAddress DEF XaddPermit, Stay, Goto, Others, IInv, Types
  <2>2. CASE addr[g] # Focus
    <3>1. val'[Focus] = val[Focus]
      BY <2>1, <2>2, RootAssumption DEF IInv, Types
    <3>2. QED
      BY <2>1, <2>2, <3>1, Elsewhere
  <2>3. CASE addr[g] = Focus
    <3>1. /\ Waitq' = Waitq /\ Hands' = Hands
          /\ Calls' = [Calls EXCEPT ![g] = StageOf(pc'[g], addr'[g], ticket'[g])]
      BY <2>1, PlainStep
    <3>2. Calls[g] = "post" /\ StageOf(pc'[g], addr'[g], ticket'[g]) = "wake"
      BY <2>1, <2>3, StageTable, StageIs
    <3>3. val'[Focus] = val[Focus] + 1
      BY <2>1, <2>3 DEF IInv, Types
    <3>4. QED
      BY <3>1, <3>2, <3>3, IsPost
  <2>4. QED
    BY <2>2, <2>3
<1>2. CASE LoadNwait(g) /\ NoWaiters
  <2>1. /\ Others(g) /\ \A h \in G \ {g} : flag'[h] = flag[h]
        /\ UNCHANGED <<val, queue, ticket, s>>
        /\ pc[g] = "load" /\ pc'[g] = "idle" /\ addr'[g] = NoAddr
    BY <1>2 DEF LoadNwait, Return, Goto, Others, IInv, Types
  <2>2. CASE addr[g] # Focus
    BY <2>1, <2>2, Elsewhere, RootAssumption
  <2>3. CASE addr[g] = Focus
    <3>1. /\ Waitq' = Waitq /\ Hands' = Hands
          /\ Calls' = [Calls EXCEPT ![g] = StageOf(pc'[g], addr'[g], ticket'[g])]
      BY <2>1, PlainStep
    <3>2. Calls[g] = "wake"
      BY <2>1, <2>3, StageTable, StageIs
    <3>3. StageOf(pc'[g], addr'[g], ticket'[g]) = "none"
      BY <2>1, NoStage, RootAssumption
    <3>4. Waitq = <<>>
      BY <1>2, NobodyWaits, WaitqIsList, RootAssumption DEF NoWaiters
    <3>5. QED
      BY <2>1, <3>1, <3>2, <3>3, <3>4, IsNoWaiter
  <2>4. QED
    BY <2>2, <2>3
<1>3. CASE LockToWake(g) \/ (LoadNwait(g) /\ ~NoWaiters)
  <2>1. /\ Others(g) /\ UNCHANGED <<val, queue, ticket, s, addr, flag>>
        /\ pc[g] \in {"load", "rlock"} /\ pc'[g] \in {"rlock", "dequeue"}
    BY <1>3 DEF LockToWake, LoadNwait, Stay, Goto, Others, IInv, Types
  <2>2. QED
    BY <2>1, InnerRefines
<1>4. QED
  BY <1>1, <1>2, <1>3

\* Under the lock the releaser takes the first in the queue, or nobody is there.
LEMMA DequeueRefines ==
    ASSUME IInv, IInv', NEW g \in G, DequeueWaiter(g)
    PROVE  Refined
<1> DEFINE a == addr[g]
<1>0. /\ Others(g) /\ pc[g] = "dequeue" /\ a \in Addr /\ val' = val /\ ticket' = ticket
      /\ \A h \in G \ {g} : flag'[h] = flag[h]
      /\ pc'[g] \in {"idle", "ready"}
  BY HasAddress DEF DequeueWaiter, Return, Stay, Goto, Others, IInv, Types
<1>1. \A h \in G : pc[h] # "enqueue" /\ pc'[h] # "enqueue"
  BY <1>0 DEF IInv, ControlInv, Others
<1>2. Waitq = queue[Focus] /\ Waitq' = queue'[Focus]
  BY <1>1 DEF Waitq
<1>3. Calls' = [Calls EXCEPT ![g] = StageOf(pc'[g], addr'[g], ticket'[g])]
  BY <1>0, CallsStep
<1>4. CASE NoWaiters \/ queue[a] = <<>>
  <2>1. queue[a] = <<>> /\ queue' = queue /\ s' = s /\ pc'[g] = "idle" /\ addr'[g] = NoAddr
    BY <1>0, <1>4, NobodyWaits DEF DequeueWaiter, NoWaiters, Return, Goto, IInv, Types
  <2>2. CASE a # Focus
    BY <1>0, <1>1, <2>1, <2>2, Elsewhere, RootAssumption
  <2>3. CASE a = Focus
    <3>1. Hands' = Hands
      BY <1>0, <2>1, SameHands
    <3>2. Calls[g] = "wake"
      BY <1>0, <2>3, StageTable, StageIs
    <3>3. StageOf(pc'[g], addr'[g], ticket'[g]) = "none"
      BY <2>1, NoStage, RootAssumption
    <3>4. QED
      BY <1>0, <1>2, <1>3, <2>1, <2>3, <3>1, <3>2, <3>3, IsNoWaiter
  <2>4. QED
    BY <2>2, <2>3
<1>5. CASE ~(NoWaiters \/ queue[a] = <<>>)
  <2>1. /\ pc'[g] = "ready" /\ addr' = addr
        /\ s' = [s EXCEPT ![g] = Head(queue[a])]
        /\ queue' = [queue EXCEPT ![a] = Tail(queue[a])]
    BY <1>5 DEF DequeueWaiter, Dequeued, Stay, Goto, IInv, Types
  <2>2. CASE a # Focus
    <3>1. Waitq' = Waitq
      BY <1>2, <2>1, <2>2, RootAssumption DEF IInv, Types
    <3>2. StageOf(pc'[g], addr'[g], ticket'[g]) = "none" /\ Calls[g] = "none"
      BY <2>1, <2>2, NoStage, StageIs
    <3>3. Calls' = Calls
      BY <1>3, <3>2, SameStage
    <3>4. Hands' = Hands
      <4>1. \A h \in G : (IF addr'[h] = Focus THEN s'[h] ELSE NoG) = (IF addr[h] = Focus THEN s[h] ELSE NoG)
        BY <2>1, <2>2 DEF IInv, Types
      <4>2. QED
        BY <4>1 DEF Hands
    <3>5. QED
      BY <1>0, <3>1, <3>3, <3>4, IsStutter
  <2>3. CASE a = Focus
    <3>1. Waitq # <<>> /\ Waitq' = Tail(Waitq)
      BY <1>2, <1>5, <2>1, <2>3, RootAssumption DEF IInv, Types
    <3>2. Calls[g] = "wake" /\ StageOf(pc'[g], addr'[g], ticket'[g]) = "hand"
      BY <1>0, <2>1, <2>3, StageTable, StageIs
    <3>3. Hands' = [Hands EXCEPT ![g] = Head(Waitq)]
      <4>1. \A h \in G : (IF addr'[h] = Focus THEN s'[h] ELSE NoG)
                         = IF h = g THEN Head(Waitq) ELSE (IF addr[h] = Focus THEN s[h] ELSE NoG)
        BY <1>2, <2>1, <2>3 DEF IInv, Types
      <4>2. QED
        BY <4>1 DEF Hands
    <3>4. QED
      BY <1>0, <1>3, <3>1, <3>2, <3>3, IsDequeue
  <2>4. QED
    BY <2>2, <2>3
<1>6. QED
  BY <1>4, <1>5

\* The waiter in hand is readied, with the permit as its ticket or to compete for it.
LEMMA ReadyRefines ==
    ASSUME IInv, IInv', NEW g \in G, ReadyWaiter(g)
    PROVE  Refined
<1> DEFINE w == s[g]
           direct == flag[g] /\ CanAcquire(g)
<1>0. addr[g] \in Addr /\ pc[g] = "ready"
  BY HasAddress DEF IInv, ReadyWaiter
<1>1. w \in G /\ pc[w] = "parked" /\ w # g /\ addr[w] = addr[g]
  BY <1>0 DEF IInv, Types, ControlInv, OwnedInv
<1>2. /\ pc'[g] = "idle" /\ pc'[w] = "resumed"
      /\ \A h \in G \ {g, w} : pc'[h] = pc[h]
      /\ addr'[g] = NoAddr /\ \A h \in G \ {g} : addr'[h] = addr[h]
      /\ s'[g] = NoG /\ \A h \in G \ {g} : s'[h] = s[h]
      /\ \A h \in G \ {g} : flag'[h] = flag[h]
      /\ ticket'[w] = direct /\ \A h \in G \ {w} : ticket'[h] = ticket[h]
      /\ val' = IF direct THEN [val EXCEPT ![addr[g]] = @ - 1] ELSE val
      /\ queue' = queue
  BY <1>0, <1>1 DEF ReadyWaiter, IInv, Types
<1> HIDE DEF w
<1>3. Waitq' = Waitq
  <2>1. /\ \A h \in G : pc[h] = "enqueue" <=> pc'[h] = "enqueue"
        /\ \A h \in G : pc[h] = "enqueue" => addr'[h] = addr[h] /\ flag'[h] = flag[h]
    BY <1>0, <1>1, <1>2
  <2>2. QED
    BY <1>2, <2>1, SameWaitq
<1>4. /\ \A h \in G \ {g, w} : Calls'[h] = Calls[h]
      /\ Calls'[g] = "none"
  <2>1. \A h \in G \ {g, w} : Calls'[h] = Calls[h]
    BY <1>2, StageIs
  <2>2. Calls'[g] = "none"
    BY <1>2, NoStage, StageIs, RootAssumption
  <2>3. QED
    BY <2>1, <2>2
<1>5. Calls' = [h \in G |-> Calls'[h]] /\ Calls = [h \in G |-> Calls[h]]
  BY DEF Calls
<1>6. CASE addr[g] # Focus
  <2>1. Calls[g] = "none" /\ Calls[w] = "none"
    BY <1>1, <1>6, NoStage, StageIs
  <2>2. Calls'[w] = "none"
    BY <1>1, <1>2, <1>6, NoStage, StageIs
  <2>3. Calls' = Calls
    BY <1>4, <1>5, <2>1, <2>2
  <2>4. Hands' = Hands
    <3>1. \A h \in G : (IF addr'[h] = Focus THEN s'[h] ELSE NoG) = (IF addr[h] = Focus THEN s[h] ELSE NoG)
      BY <1>2, <1>6
    <3>2. QED
      BY <3>1 DEF Hands
  <2>5. val'[Focus] = val[Focus]
    BY <1>2, <1>6, RootAssumption DEF IInv, Types
  <2>6. QED
    BY <1>3, <2>3, <2>4, <2>5, IsStutter
<1>7. CASE addr[g] = Focus
  <2>1. Calls[g] = "hand"
    BY <1>0, <1>7, StageTable, StageIs
  <2>2. flag[g] \in BOOLEAN /\ (direct <=> flag[g] /\ val[Focus] > 0)
    BY <1>7 DEF CanAcquire, IInv, Types
  <2>3. Calls'[w] = IF direct THEN "ticket" ELSE "acquire"
    <3>1. addr'[w] = Focus /\ pc'[w] = "resumed" /\ ticket'[w] = direct
      BY <1>1, <1>2, <1>7
    <3>2. CASE direct
      <4>1. ticket'[w]
        BY <3>1, <3>2
      <4>2. QED
        BY <1>1, <3>1, <3>2, <4>1, StageTable, StageIs
    <3>3. CASE ~direct
      <4>1. ~ticket'[w]
        BY <3>1, <3>3
      <4>2. QED
        BY <1>1, <3>1, <3>3, <4>1, StageTable, StageIs
    <3>4. QED
      BY <3>2, <3>3
  <2>4. Hands[g] = w
    BY <1>7 DEF Hands, w
  <2>5. Calls' = [Calls EXCEPT ![g] = "none", ![w] = IF direct THEN "ticket" ELSE "acquire"]
    <3> HIDE DEF direct
    <3>1. QED
      BY <1>1, <1>4, <1>5, <2>3
  <2>6. Hands' = [Hands EXCEPT ![g] = NoG]
    <3>1. \A h \in G : (IF addr'[h] = Focus THEN s'[h] ELSE NoG)
                       = IF h = g THEN NoG ELSE (IF addr[h] = Focus THEN s[h] ELSE NoG)
      BY <1>2
    <3>2. QED
      BY <3>1 DEF Hands
  <2>7. val'[Focus] = IF direct THEN val[Focus] - 1 ELSE val[Focus]
    BY <1>2, <1>7, RootAssumption DEF IInv, Types
  <2>8. QED
    <3> HIDE DEF direct
    <3>1. /\ val'[Focus] = IF flag[g] /\ val[Focus] > 0 THEN val[Focus] - 1 ELSE val[Focus]
          /\ Calls' = [Calls EXCEPT ![g] = "none",
                                    ![Hands[g]] = IF flag[g] /\ val[Focus] > 0 THEN "ticket" ELSE "acquire"]
      BY <2>2, <2>4, <2>5, <2>7
    <3>2. QED
      BY <1>3, <2>1, <2>2, <2>6, <3>1, IsReady
<1>8. QED
  BY <1>6, <1>7

\* Every step is a step of the contract or not seen by it.
LEMMA NextRefines == IInv /\ IInv' /\ [Next]_vars => [Contract!SemaNext]_Contract!semaVars
<1> SUFFICES ASSUME IInv, IInv', [Next]_vars PROVE Refined
  BY DEF Refined
<1>1. CASE UNCHANGED vars
  <2>1. UNCHANGED <<val, Waitq, Calls, Hands>>
    BY <1>1 DEF vars, Waitq, Calls, Stage, Hands
  <2>2. QED
    BY <2>1, IsStutter
<1>2. CASE Next
  <2>1. PICK g \in G : \/ \E a \in Addr, f \in BOOLEAN : semacquire1(g, a, f) \/ semrelease1(g, a, f)
                       \/ Step(g)
    BY <1>2 DEF Next
  <2>2. CASE \E a \in Addr, f \in BOOLEAN : semacquire1(g, a, f) \/ semrelease1(g, a, f)
    BY <2>2, CallRefines DEF semacquire1, semrelease1
  <2>3. CASE EasyAcquire(g) \/ AnnounceWaiter(g) \/ UndoAnnounce(g)
    BY <2>3, AcquireRefines
  <2>4. CASE Recheck(g) \/ QueueAndPark(g) \/ Resume(g)
    BY <2>4, RecheckRefines, QueueAndParkRefines, ResumeRefines
  <2>5. CASE XaddPermit(g) \/ LoadNwait(g) \/ LockToWake(g)
    BY <2>5, ReleaseRefines
  <2>6. CASE DequeueWaiter(g) \/ ReadyWaiter(g)
    BY <2>6, DequeueRefines, ReadyRefines
  <2>7. QED
    BY <2>1, <2>2, <2>3, <2>4, <2>5, <2>6 DEF Step
<1>3. QED
  BY <1>1, <1>2

\* An unused address is an unused semaphore.
LEMMA InitRefines == Init => Contract!SemaInit
<1> SUFFICES ASSUME Init PROVE Contract!SemaInit
  OBVIOUS
<1>1. val[Focus] = 0 /\ Waitq = <<>>
  BY RootAssumption DEF Init, Waitq
<1>2. \A g \in G : Stage(g) = "none"
  BY NoStage, RootAssumption DEF Init, Stage
<1>3. [g \in G |-> Stage(g)] = [g \in G |-> "none"]
  BY <1>2
<1>4. [g \in G |-> IF addr[g] = Focus THEN s[g] ELSE NoG] = [g \in G |-> NoG]
  BY DEF Init
<1>5. QED
  BY <1>1, <1>3, <1>4 DEF Contract!SemaInit

\* Every address of a root implements the contract SemaQueue, for any goroutines and
\* whatever happens on the other addresses: the lock, the count and the easy cases
\* of sema.go are an implementation detail.
THEOREM ContractRefinement == Spec => ImplementsContract
BY InitRefines, NextRefines, Invariance, PTL DEF Spec, ImplementsContract, Contract!SemaSpec
====
