---- MODULE ChanProofs ----
(***************************************************************************)
(* Proofs about Chan, for any number of goroutines and channels, any       *)
(* buffer sizes and any program.                                           *)
(*                                                                         *)
(* The inductive invariant IInv says, besides types: which goroutines are  *)
(* in which queue (Placed, OnceEach), that those that wait could not go on *)
(* (Reason), what is known of a call at each point of its control (Begun,  *)
(* Decided), where the values are in a ring (Ring), which locks a select   *)
(* may hold (Locked), and why a non-blocking call may fail (Refused).      *)
(* There is one lemma per action, and under those of the critical sections *)
(* one per way in which a case goes on (GiveStep, PutStep, ...).  The four *)
(* invariants of Chan follow from IInv.                                    *)
(*                                                                         *)
(* The last part shows that each channel implements FifoChannel: first     *)
(* what the operations on rings and queues do to the line of values (as    *)
(* facts about sequences), then that every step is a step of the FIFO.     *)
(***************************************************************************)
EXTENDS Chan, FiniteSetTheorems, SequenceTheorems, TLAPS

\* No element occurs twice.
Distinct(s) == \A i, j \in DOMAIN s : s[i] = s[j] => i = j

\* The sudogs in the queue w of goroutines that have not been won by another case, the
\* sleepers a dequeue may find there, and those about to be readied.
Standing(w) == {x \in ToSet(q[w]) : ~selectDone[x[1]]}
Waiters(w) == {x[1] : x \in Standing(w)}
Held(lists, g) == \E h \in G : g \in ToSet(lists[h])
InHand(g) == Held(glist, g)

\* The calls that are not selects.
Plain == {"send", "recv", "nbsend", "nbrecv", "close"}

\* The types that do not depend on a channel's size.
Typed ==
    /\ dataqsiz \in [C -> Nat] /\ calls \subseteq Call
    /\ qcount \in [C -> Nat] /\ sendx \in [C -> Nat] /\ recvx \in [C -> Nat]
    /\ buf = [c \in C |-> buf[c]]
    /\ closed \in [C -> BOOLEAN]
    /\ q \in [Queue -> Seq(Sudog)]
    /\ lock \in [C -> G \cup {NoG}]
    /\ pc \in [G -> Control]
    /\ op \in [G -> {"none", "send", "recv", "nbsend", "nbrecv", "close"} \cup Selecting]
    /\ cases \in [G -> SUBSET Case]
    /\ val = [g \in G |-> val[g]]
    /\ elem \in [G -> Val \cup {Zero, NoVal}]
    /\ param \in [G -> Case \cup {NoCase}]
    /\ selectDone \in [G -> BOOLEAN]
    /\ glist \in [G -> Seq(G)]
    /\ refusable \subseteq G
    /\ moved \in [G -> 0..1]

\* How far slot i is from slot x, going round a ring of n slots.
Offset(x, i, n) == IF i >= x THEN i - x ELSE i - x + n

\* A ring of n slots with cnt values from slot r on, the next one to be put into slot s.
RingOf(n, cnt, b, s, r) ==
    /\ cnt <= n
    /\ b \in [0..n - 1 -> Val \cup {Zero}]
    /\ n = 0 => r = 0 /\ s = 0
    /\ n > 0 => /\ r < n
                /\ s = IF r + cnt < n THEN r + cnt ELSE r + cnt - n
                /\ \A i \in 0..n - 1 : b[i] = Zero <=> Offset(r, i, n) >= cnt
Ring(c) == RingOf(dataqsiz[c], qcount[c], buf[c], sendx[c], recvx[c])

\* The call in progress and where its control may be.
Begun(g) ==
    /\ val[g] \in [Sends(cases[g]) -> Val]
    /\ pc[g] = "idle" => param[g] = NoCase /\ moved[g] = 0 /\ cases[g] = {} /\ op[g] = "none"
    /\ pc[g] # "idle" =>
          /\ op[g] \in Selecting \cup Plain
          /\ op[g] \in Plain => \E c \in C, i \in Nr : cases[g] = {<<c, Direction[op[g]], i>>}
    /\ pc[g] \in {"sfast", "sready", "sclosed"} => op[g] = "nbsend"
    /\ pc[g] \in {"rfast", "rclosed"} => op[g] = "nbrecv"
    /\ pc[g] = "lock" => op[g] \notin Selecting
    /\ pc[g] = "sellock" => op[g] \in Selecting
    /\ pc[g] \in {"parked", "woken"} => op[g] \in {"send", "recv", "select"}
    /\ pc[g] = "relock" => op[g] = "select"
    /\ pc[g] # "throw"

\* Before a case has been decided on, afterwards, and in between for a sleeper.
Decided(g) ==
    /\ pc[g] \in {"sfast", "sready", "sclosed", "rfast", "rclosed", "lock", "sellock", "false", "panic"} =>
          param[g] = NoCase
    /\ pc[g] \in {"ready", "true"} /\ op[g] # "close" => param[g] # NoCase
    /\ op[g] = "close" => param[g] = NoCase
    /\ param[g] \in cases[g] \cup {NoCase}
    /\ moved[g] = 1 => param[g] # NoCase
    /\ moved[g] = 0 /\ param[g] # NoCase => elem[g] = Zero
    /\ pc[g] = "parked" /\ ~InHand(g) => param[g] = NoCase
    /\ (pc[g] = "woken" \/ InHand(g)) /\ param[g] = NoCase /\ op[g] = "recv" =>
          elem[g] = Zero /\ \A k \in cases[g] : closed[k[1]] /\ qcount[k[1]] = 0
    /\ (pc[g] = "woken" \/ InHand(g)) /\ param[g] = NoCase /\ op[g] = "send" =>
          \A k \in cases[g] : closed[k[1]]

\* Where a goroutine may be: a sleeper has a sudog in the queue of each of its cases or is
\* in a list of goroutines to be readied; one that is no longer asleep, or in a list, may be in queues
\* only as the sudog of a select that has been won.
Placed(g) ==
    /\ InHand(g) => pc[g] = "parked"
    /\ pc[g] # "ready" => glist[g] = <<>>
    /\ selectDone[g] <=> op[g] = "select" /\ (InHand(g) \/ pc[g] \in {"woken", "relock"})
    /\ \A w \in Queue : \A x \in ToSet(q[w]) : x[1] = g =>
          /\ x[2] \in cases[g] /\ Way(x[2]) = w
          /\ selectDone[g] \/ (pc[g] = "parked" /\ ~InHand(g))
    /\ pc[g] = "parked" /\ ~InHand(g) => \A k \in cases[g] : <<g, k>> \in ToSet(q[Way(k)])

\* No queue has a sudog twice, no list a goroutine, and no goroutine is in two lists.
OnceEach ==
    /\ \A w \in Queue : Distinct(q[w])
    /\ \A h \in G : Distinct(glist[h])
    /\ \A h1, h2 \in G : \A g \in ToSet(glist[h1]) : g \in ToSet(glist[h2]) => h1 = h2

\* Nobody waits in the queue w who could go on.
Reason(w) ==
    /\ closed[w[1]] => q[w] = <<>>
    /\ \A g \in Waiters(w) :
          /\ Waiters(Partner(w)) \subseteq {g}
          /\ qcount[w[1]] = IF w[2] = "send" THEN dataqsiz[w[1]] ELSE 0

\* A select holds the locks of its channels up to some address.
Locked(g) ==
    \A c \in Holds(g) :
        /\ pc[g] \in {"sellock", "relock"} /\ c \in Channels(g)
        /\ \A d \in Channels(g) \ Holds(g) : c < d

\* The channel has a buffer, which is full.
FilledUp(c) == dataqsiz[c] > 0 /\ qcount[c] = dataqsiz[c]

\* The exception in RefusalJustified.
ClosedUnbuffered(g) == op[g] = "nbsend" /\ closed[Only(g)[1]] /\ dataqsiz[Only(g)[1]] = 0

\* A non-blocking call during which its channel has been open and not ready is known
\* to be so; one that has read a field that made it fail was right.  A buffer that is
\* full although the channel has been closed meanwhile was so before.
Refused(g) ==
    /\ pc[g] = "idle" => g \notin refusable
    /\ pc[g] # "idle" /\ op[g] \in {"nbsend", "nbrecv"} =>
          /\ ~Proceeds(Only(g)) => g \in refusable
          /\ pc[g] \in {"sclosed", "rclosed"} => g \in refusable \/ closed[Only(g)[1]]
          /\ pc[g] = "sready" /\ closed[Only(g)[1]] => g \in refusable \/ ~FilledUp(Only(g)[1])
          /\ pc[g] = "false" => g \in refusable \/ ClosedUnbuffered(g)

\* The inductive invariant.
IInv ==
    /\ Typed
    /\ OnceEach
    /\ \A c \in C : Ring(c)
    /\ \A w \in Queue : Reason(w)
    /\ \A g \in G : Begun(g) /\ Decided(g) /\ Placed(g) /\ Locked(g) /\ Refused(g)

-----------------------------------------------------------------------------
\* Subsequences.

\* The elements of S up to i.
Upto(S, i) == {j \in S : j <= i}

\* Going up in a finite set, the number of elements seen grows; it takes every
\* value from 1 to the cardinality of the set once.
LEMMA Ranks ==
    ASSUME NEW S \in SUBSET Int, IsFiniteSet(S)
    PROVE  /\ Cardinality(S) \in Nat
           /\ \A i \in S : Cardinality(Upto(S, i)) \in 1..Cardinality(S)
           /\ \A i, j \in S : i < j => Cardinality(Upto(S, i)) < Cardinality(Upto(S, j))
           /\ \A n \in 1..Cardinality(S) : \E i \in S : Cardinality(Upto(S, i)) = n
<1>1. Cardinality(S) \in Nat
  BY FS_CardinalityType
<1>2. \A i \in S : /\ IsFiniteSet(Upto(S, i)) /\ Cardinality(Upto(S, i)) \in Nat
                   /\ Cardinality(Upto(S, i)) <= Cardinality(S)
  <2>1. TAKE i \in S
  <2>2. Upto(S, i) \in SUBSET S
    BY DEF Upto
  <2>3. IsFiniteSet(Upto(S, i)) /\ Cardinality(Upto(S, i)) <= Cardinality(S)
    BY <2>2, FS_Subset
  <2>4. QED
    BY <2>3, FS_CardinalityType
<1>3. \A i \in S : Cardinality(Upto(S, i)) \in 1..Cardinality(S)
  <2>1. TAKE i \in S
  <2>2. Upto(S, i) # {}
    BY DEF Upto
  <2>3. Cardinality(Upto(S, i)) # 0
    BY <1>2, <2>2, FS_EmptySet
  <2>4. QED
    BY <1>1, <1>2, <2>3
<1>4. \A i, j \in S : i < j => Cardinality(Upto(S, i)) < Cardinality(Upto(S, j))
  <2>1. SUFFICES ASSUME NEW i \in S, NEW j \in S, i < j
                 PROVE  Cardinality(Upto(S, i)) < Cardinality(Upto(S, j))
    OBVIOUS
  <2>2. Upto(S, i) \in SUBSET Upto(S, j) /\ Upto(S, j) # Upto(S, i)
    <3>1. i \in Int /\ j \in Int /\ \A x \in S : x \in Int
      OBVIOUS
    <3>2. \A x \in Upto(S, i) : x \in Upto(S, j)
      BY <2>1, <3>1 DEF Upto
    <3>3. j \in Upto(S, j) /\ j \notin Upto(S, i)
      BY <2>1, <3>1 DEF Upto
    <3>4. QED
      BY <3>2, <3>3
  <2>3. /\ Cardinality(Upto(S, i)) <= Cardinality(Upto(S, j))
        /\ Cardinality(Upto(S, j)) # Cardinality(Upto(S, i))
    BY <1>2, <2>2, FS_Subset
  <2>4. QED
    BY <1>2, <2>3
<1>5. \A n \in 1..Cardinality(S) : \E i \in S : Cardinality(Upto(S, i)) = n
  <2> DEFINE T == 1..Cardinality(S)
             f == [i \in S |-> Cardinality(Upto(S, i))]
  <2>1. \A i, j \in S : f[i] = f[j] => i = j
    BY <1>2, <1>4
  <2>2. f \in Injection(S, T)
    BY <1>3, <2>1 DEF Injection, IsInjective
  <2>3. IsFiniteSet(T) /\ Cardinality(T) = Cardinality(S)
    <3>1. 1 \in Int /\ Cardinality(S) \in Int
      BY <1>1
    <3>2. IsFiniteSet(T) /\ Cardinality(T) = IF 1 > Cardinality(S) THEN 0 ELSE Cardinality(S) - 1 + 1
      BY <3>1, FS_Interval
    <3>3. QED
      BY <1>1, <3>2
  <2>4. f \in Surjection(S, T)
    BY <2>2, <2>3, FS_Injection
  <2>5. QED
    BY <2>4 DEF Surjection
<1>6. QED
  BY <1>1, <1>3, <1>4, <1>5

\* The elements of a finite set are listed by Nth, in their order, each once.
LEMMA NthLists ==
    ASSUME NEW S \in SUBSET Int, IsFiniteSet(S)
    PROVE  /\ Cardinality(S) \in Nat
           /\ \A n \in 1..Cardinality(S) : Nth(S, n) \in S
           /\ \A m, n \in 1..Cardinality(S) : m < n => Nth(S, m) < Nth(S, n)
           /\ \A i \in S : \E n \in 1..Cardinality(S) : Nth(S, n) = i
<1>1. \A n \in 1..Cardinality(S) : Nth(S, n) \in S /\ Cardinality(Upto(S, Nth(S, n))) = n
  <2>1. TAKE n \in 1..Cardinality(S)
  <2>2. \E i \in S : Cardinality({j \in S : j <= i}) = n
    BY Ranks DEF Upto
  <2>3. QED
    BY <2>2 DEF Nth, Upto
<1>2. \A m, n \in 1..Cardinality(S) : m < n => Nth(S, m) < Nth(S, n)
  <2>1. SUFFICES ASSUME NEW m \in 1..Cardinality(S), NEW n \in 1..Cardinality(S), m < n,
                        ~(Nth(S, m) < Nth(S, n))
                 PROVE  FALSE
    OBVIOUS
  <2>2. Nth(S, m) \in S /\ Nth(S, n) \in S /\ Nth(S, m) \in Int /\ Nth(S, n) \in Int
    BY <1>1
  <2>3. CASE Nth(S, m) = Nth(S, n)
    BY <1>1, <2>1, <2>3
  <2>4. CASE Nth(S, n) < Nth(S, m)
    <3>1. Cardinality(Upto(S, Nth(S, n))) < Cardinality(Upto(S, Nth(S, m)))
      BY <2>2, <2>4, Ranks
    <3>2. QED
      BY <1>1, <2>1, <3>1, Ranks
  <2>5. QED
    BY <2>1, <2>2, <2>3, <2>4
<1>3. \A i \in S : \E n \in 1..Cardinality(S) : Nth(S, n) = i
  <2>1. TAKE i \in S
  <2>2. PICK n \in 1..Cardinality(S) : Cardinality(Upto(S, i)) = n
    BY Ranks
  <2>3. /\ Nth(S, n) \in S /\ Cardinality(Upto(S, Nth(S, n))) = n
        /\ Nth(S, n) \in Int /\ i \in Int
    BY <1>1
  <2>4. ~(Nth(S, n) < i)
    <3>1. Nth(S, n) < i => Cardinality(Upto(S, Nth(S, n))) < Cardinality(Upto(S, i))
      BY <2>3, Ranks
    <3>2. QED
      BY <2>2, <2>3, <3>1, Ranks
  <2>5. ~(i < Nth(S, n))
    <3>1. i < Nth(S, n) => Cardinality(Upto(S, i)) < Cardinality(Upto(S, Nth(S, n)))
      BY <2>3, Ranks
    <3>2. QED
      BY <2>2, <2>3, <3>1, Ranks
  <2>6. QED
    BY <2>3, <2>4, <2>5
<1>4. QED
  BY <1>1, <1>2, <1>3, Ranks

\* What At gives of a sequence.
LEMMA AtProperties ==
    ASSUME NEW D, NEW s \in Seq(D), NEW S \in SUBSET DOMAIN s
    PROVE  /\ IsFiniteSet(S) /\ Cardinality(S) \in Nat
           /\ At(s, S) \in Seq(D) /\ Len(At(s, S)) = Cardinality(S)
           /\ DOMAIN At(s, S) = 1..Cardinality(S)
           /\ \A n \in 1..Cardinality(S) : Nth(S, n) \in S /\ At(s, S)[n] = s[Nth(S, n)]
           /\ ToSet(At(s, S)) = {s[i] : i \in S}
           /\ At(s, S) = <<>> <=> S = {}
           /\ Distinct(s) => Distinct(At(s, S))
           /\ S # {} => /\ Nth(S, 1) \in S /\ \A i \in S : Nth(S, 1) <= i
                        /\ Head(At(s, S)) = s[Nth(S, 1)]
<1>1. Len(s) \in Nat /\ DOMAIN s = 1..Len(s) /\ \A i \in DOMAIN s : s[i] \in D
  OBVIOUS
<1>2. IsFiniteSet(DOMAIN s)
  <2>1. 1 \in Int /\ Len(s) \in Int
    BY <1>1
  <2>2. IsFiniteSet(1..Len(s))
    BY <2>1, FS_Interval
  <2>3. QED
    BY <1>1, <2>2
<1>3. IsFiniteSet(S) /\ S \in SUBSET Int
  BY <1>1, <1>2, FS_Subset
<1>4. /\ Cardinality(S) \in Nat
      /\ \A n \in 1..Cardinality(S) : Nth(S, n) \in S
      /\ \A m, n \in 1..Cardinality(S) : m < n => Nth(S, m) < Nth(S, n)
      /\ \A i \in S : \E n \in 1..Cardinality(S) : Nth(S, n) = i
  BY <1>3, NthLists
<1>5. DOMAIN At(s, S) = 1..Cardinality(S) /\ \A n \in 1..Cardinality(S) : At(s, S)[n] = s[Nth(S, n)]
  BY DEF At
<1>6. \A n \in 1..Cardinality(S) : At(s, S)[n] \in D
  BY <1>1, <1>4, <1>5
<1>7. At(s, S) \in [1..Cardinality(S) -> D]
  BY <1>6 DEF At
<1>8. At(s, S) \in Seq(D) /\ Len(At(s, S)) = Cardinality(S)
  BY <1>4, <1>5, <1>7
<1>9. ToSet(At(s, S)) = {s[i] : i \in S}
  <2>1. ToSet(At(s, S)) = {s[Nth(S, n)] : n \in 1..Cardinality(S)}
    BY <1>5 DEF ToSet
  <2>2. QED
    BY <1>4, <2>1
<1>10. Cardinality(S) = 0 <=> S = {}
  BY <1>3, FS_EmptySet
<1>11. At(s, S) = <<>> <=> S = {}
  BY <1>4, <1>8, <1>10
<1>12. Distinct(s) => Distinct(At(s, S))
  <2>1. SUFFICES ASSUME Distinct(s), NEW m \in 1..Cardinality(S), NEW n \in 1..Cardinality(S),
                        At(s, S)[m] = At(s, S)[n]
                 PROVE  m = n
    BY <1>5 DEF Distinct
  <2>2. Nth(S, m) = Nth(S, n)
    BY <1>4, <1>5, <2>1 DEF Distinct
  <2>3. Nth(S, m) \in Int /\ Nth(S, n) \in Int
    BY <1>3, <1>4
  <2>4. ~(m < n) /\ ~(n < m)
    BY <1>4, <2>2, <2>3
  <2>5. QED
    BY <1>4, <2>4
<1>13. S # {} => /\ Nth(S, 1) \in S /\ \A i \in S : Nth(S, 1) <= i
                 /\ Head(At(s, S)) = s[Nth(S, 1)]
  <2>1. SUFFICES ASSUME S # {}
                 PROVE  /\ Nth(S, 1) \in S /\ \A i \in S : Nth(S, 1) <= i
                        /\ Head(At(s, S)) = s[Nth(S, 1)]
    OBVIOUS
  <2>2. 1 \in 1..Cardinality(S)
    BY <1>4, <1>10, <2>1
  <2>3. Nth(S, 1) \in S
    BY <1>4, <2>2
  <2>4. ASSUME NEW i \in S PROVE Nth(S, 1) <= i
    <3>1. PICK n \in 1..Cardinality(S) : Nth(S, n) = i
      BY <1>4
    <3>2. n = 1 \/ 1 < n
      BY <1>4
    <3>3. i \in Int /\ Nth(S, 1) \in Int
      BY <1>3, <2>3
    <3>4. QED
      BY <1>4, <2>2, <3>1, <3>2, <3>3
  <2>5. Head(At(s, S)) = At(s, S)[1]
    BY <1>8
  <2>6. QED
    BY <1>5, <2>2, <2>3, <2>4, <2>5
<1>14. QED
  BY <1>3, <1>4, <1>5, <1>8, <1>9, <1>11, <1>12, <1>13

\* Where s has the first sudog of a goroutine that is not done: Waiting, for any selectDone.
LiveAt(s, done) ==
    {i \in DOMAIN s : ~done[s[i][1]] /\ \A j \in 1..i - 1 : s[j][1] # s[i][1]}

\* The sudogs of s that are not done.
Undone(s, done) == {x \in ToSet(s) : ~done[x[1]]}

\* No goroutine has two sudogs.
OwnersDiffer(s) == \A i, j \in DOMAIN s : s[i][1] = s[j][1] => i = j

\* The first sudog of a goroutine.
LEMMA FirstOne ==
    ASSUME NEW s \in Seq(Sudog), NEW i \in DOMAIN s
    PROVE  \E j \in DOMAIN s : /\ j <= i /\ s[j][1] = s[i][1]
                               /\ \A m \in 1..j - 1 : s[m][1] # s[j][1]
<1> DEFINE S == {j \in DOMAIN s : s[j][1] = s[i][1]}
<1>1. S \in SUBSET DOMAIN s /\ i \in S
  OBVIOUS
<1>2. PICK n \in S : \A j \in S : n <= j
  BY <1>1, AtProperties
<1>3. n \in DOMAIN s /\ s[n][1] = s[i][1] /\ n <= i
  BY <1>1, <1>2
<1>4. ASSUME NEW m \in 1..n - 1, s[m][1] = s[n][1] PROVE FALSE
  <2>1. DOMAIN s = 1..Len(s) /\ Len(s) \in Nat
    OBVIOUS
  <2>2. m \in DOMAIN s /\ m < n /\ m \in Int /\ n \in Int
    BY <1>3, <2>1
  <2>3. m \in S
    BY <1>3, <1>4, <2>2
  <2>4. QED
    BY <1>2, <2>2, <2>3
<1>5. QED
  BY <1>3, <1>4

LEMMA FirstOnes ==
    ASSUME NEW s \in Seq(Sudog)
    PROVE  \A i \in DOMAIN s : \E j \in DOMAIN s : /\ j <= i /\ s[j][1] = s[i][1]
                                                   /\ \A m \in 1..j - 1 : s[m][1] # s[j][1]
<1>1. TAKE i \in DOMAIN s
<1>2. QED
  BY FirstOne

\* Each goroutine has one sudog at most that is live.
LEMMA LiveFirst ==
    ASSUME NEW s \in Seq(Sudog), NEW done
    PROVE  /\ LiveAt(s, done) \in SUBSET DOMAIN s
           /\ \A i, j \in LiveAt(s, done) : s[i][1] = s[j][1] => i = j
<1>1. LiveAt(s, done) \in SUBSET DOMAIN s
  BY DEF LiveAt
<1>2. DOMAIN s = 1..Len(s) /\ Len(s) \in Nat
  OBVIOUS
<1>3. ASSUME NEW i \in LiveAt(s, done), NEW j \in LiveAt(s, done), i < j, s[i][1] = s[j][1] PROVE FALSE
  <2>1. i \in 1..j - 1
    BY <1>1, <1>2, <1>3
  <2>2. QED
    BY <1>3, <2>1 DEF LiveAt
<1>4. QED
  BY <1>1, <1>2, <1>3

\* The owners of a subsequence.
LEMMA OwnersAt ==
    ASSUME NEW s \in Seq(Sudog), NEW S \in SUBSET DOMAIN s, \A i, j \in S : s[i][1] = s[j][1] => i = j
    PROVE  OwnersDiffer(At(s, S))
<1>1. /\ IsFiniteSet(S) /\ S \in SUBSET Int /\ Cardinality(S) \in Nat
      /\ DOMAIN At(s, S) = 1..Cardinality(S)
      /\ \A n \in 1..Cardinality(S) : Nth(S, n) \in S /\ At(s, S)[n] = s[Nth(S, n)]
  BY AtProperties
<1>2. SUFFICES ASSUME NEW m \in 1..Cardinality(S), NEW n \in 1..Cardinality(S),
                      At(s, S)[m][1] = At(s, S)[n][1]
               PROVE  m = n
  BY <1>1 DEF OwnersDiffer
<1>3. Nth(S, m) = Nth(S, n)
  BY <1>1, <1>2
<1>4. \A a, b \in 1..Cardinality(S) : a < b => Nth(S, a) < Nth(S, b)
  BY <1>1, NthLists
<1>5. Nth(S, m) \in Int /\ Nth(S, n) \in Int
  BY <1>1
<1>6. ~(m < n) /\ ~(n < m)
  BY <1>3, <1>4, <1>5
<1>7. QED
  BY <1>1, <1>6

\* The live sudogs of a queue, for any state of selectDone.
LEMMA LiveSeq ==
    ASSUME NEW s \in Seq(Sudog), NEW done
    PROVE  LET t == At(s, LiveAt(s, done))
           IN  /\ t \in Seq(Sudog)
               /\ ToSet(t) \subseteq Undone(s, done)
               /\ {x[1] : x \in ToSet(t)} = {x[1] : x \in Undone(s, done)}
               /\ t = <<>> <=> Undone(s, done) = {}
               /\ LiveAt(s, done) = {} <=> Undone(s, done) = {}
               /\ t # <<>> => Head(t) \in Undone(s, done)
               /\ OwnersDiffer(t)
<1> DEFINE S == LiveAt(s, done)
<1>1. S \in SUBSET DOMAIN s
  BY DEF LiveAt
<1>2. \A i \in S : s[i] \in Undone(s, done)
  BY DEF LiveAt, Undone, ToSet
<1>3. ASSUME NEW x \in Undone(s, done) PROVE \E i \in S : s[i][1] = x[1]
  <2>1. PICK i \in DOMAIN s : s[i] = x
    BY DEF Undone, ToSet
  <2>2. PICK j \in DOMAIN s : s[j][1] = s[i][1] /\ \A m \in 1..j - 1 : s[m][1] # s[j][1]
    BY FirstOne
  <2>3. QED
    BY <2>1, <2>2 DEF LiveAt, Undone
<1>4. \A i, j \in S : s[i][1] = s[j][1] => i = j
  BY LiveFirst
<1> HIDE DEF S
<1>5. /\ At(s, S) \in Seq(Sudog)
      /\ ToSet(At(s, S)) = {s[i] : i \in S}
      /\ At(s, S) = <<>> <=> S = {}
      /\ S # {} => Head(At(s, S)) \in {s[i] : i \in S}
      /\ DOMAIN At(s, S) = 1..Cardinality(S)
      /\ \A n \in 1..Cardinality(S) : Nth(S, n) \in S /\ At(s, S)[n] = s[Nth(S, n)]
  BY <1>1, AtProperties
<1>6. {x[1] : x \in ToSet(At(s, S))} = {x[1] : x \in Undone(s, done)}
  BY <1>2, <1>3, <1>5
<1>7. S = {} <=> Undone(s, done) = {}
  BY <1>2, <1>3
<1>8. OwnersDiffer(At(s, S))
  BY <1>1, <1>4, OwnersAt
<1>9. QED
  BY <1>2, <1>5, <1>6, <1>7, <1>8 DEF S

\* What a dequeue leaves: the sudogs after the first live one.
LEMMA DequeueSeq ==
    ASSUME NEW s \in Seq(Sudog), NEW done, Distinct(s), LiveAt(s, done) # {}
    PROVE  LET t == SubSeq(s, Nth(LiveAt(s, done), 1) + 1, Len(s))
               p == Head(At(s, LiveAt(s, done)))
           IN  /\ t \in Seq(Sudog) /\ Distinct(t)
               /\ ToSet(t) \subseteq ToSet(s) \ {p}
               /\ \A x \in Undone(s, done) : x # p => x \in ToSet(t)
<1> DEFINE S == LiveAt(s, done)
           n == Nth(S, 1)
           t == SubSeq(s, n + 1, Len(s))
<1>1. S \in SUBSET DOMAIN s
  BY DEF LiveAt
<1>2. n \in S /\ (\A i \in S : n <= i) /\ Head(At(s, S)) = s[n]
  BY <1>1, AtProperties
<1>3. n \in 1..Len(s) /\ Len(s) \in Nat
  BY <1>1, <1>2
<1> HIDE DEF n
<1>4. /\ t \in Seq(Sudog) /\ Len(t) = Len(s) - n
      /\ \A i \in 1..Len(s) - n : t[i] = s[n + i]
  BY <1>3
<1>5. DOMAIN t = 1..Len(s) - n /\ DOMAIN s = 1..Len(s)
  BY <1>3, <1>4
<1> HIDE DEF t
<1>6. \A i \in DOMAIN t : n + i \in DOMAIN s /\ n + i # n /\ t[i] = s[n + i]
  BY <1>3, <1>4, <1>5
<1>7. \A i, j \in DOMAIN t : n + i = n + j => i = j
  BY <1>3, <1>5
<1>8. n \in DOMAIN s
  BY <1>3, <1>5
<1>9. Distinct(t)
  BY <1>6, <1>7 DEF Distinct
<1>10. ToSet(t) \subseteq ToSet(s) \ {s[n]}
  BY <1>6, <1>8 DEF ToSet, Distinct
<1>11. ASSUME NEW x \in Undone(s, done), x # s[n] PROVE x \in ToSet(t)
  <2>1. PICK i \in DOMAIN s : x = s[i]
    BY DEF Undone, ToSet
  <2>2. PICK j \in DOMAIN s : j <= i /\ s[j][1] = s[i][1] /\ \A m \in 1..j - 1 : s[m][1] # s[j][1]
    BY FirstOne
  <2>3. j \in S
    BY <2>1, <2>2 DEF LiveAt, Undone
  <2>4. n <= j
    BY <1>2, <2>3
  <2>5. n < i
    BY <1>3, <1>5, <1>11, <2>1, <2>2, <2>4
  <2>6. i - n \in DOMAIN t /\ t[i - n] = x
    BY <1>3, <1>4, <1>5, <2>1, <2>5
  <2>7. QED
    BY <2>6 DEF ToSet
<1>12. QED
  BY <1>2, <1>4, <1>9, <1>10, <1>11 DEF t, n, S

-----------------------------------------------------------------------------
\* Cases and calls.

\* A queue and the queue of the partners.
LEMMA QueueFacts ==
    /\ \A c \in C : <<c, "send">> \in Queue /\ <<c, "recv">> \in Queue
    /\ \A w \in Queue : /\ w[1] \in C /\ w[2] \in {"send", "recv"} /\ w = <<w[1], w[2]>>
                        /\ Partner(w) \in Queue /\ Partner(w)[1] = w[1]
                        /\ Partner(w) = IF w[2] = "send" THEN <<w[1], "recv">> ELSE <<w[1], "send">>
                        /\ Partner(w)[2] = IF w[2] = "send" THEN "recv" ELSE "send"
                        /\ Partner(w) # w /\ Partner(Partner(w)) = w
<1>1. \A c \in C : <<c, "send">> \in Queue /\ <<c, "recv">> \in Queue
  BY DEF Queue
<1>2. ASSUME NEW w \in Queue
      PROVE  /\ w[1] \in C /\ w[2] \in {"send", "recv"} /\ w = <<w[1], w[2]>>
             /\ Partner(w) \in Queue /\ Partner(w)[1] = w[1]
             /\ Partner(w) = IF w[2] = "send" THEN <<w[1], "recv">> ELSE <<w[1], "send">>
             /\ Partner(w)[2] = IF w[2] = "send" THEN "recv" ELSE "send"
             /\ Partner(w) # w /\ Partner(Partner(w)) = w
  <2>1. PICK c \in C, d \in {"send", "recv"} : w = <<c, d>>
    BY DEF Queue
  <2>2. w[1] = c /\ w[2] = d
    BY <2>1
  <2>3. Partner(w) = <<c, IF d = "send" THEN "recv" ELSE "send">>
    BY <2>2 DEF Partner
  <2>4. Partner(w) \in Queue
    BY <2>3 DEF Queue
  <2>5. Partner(w)[1] = c /\ Partner(w)[2] = IF d = "send" THEN "recv" ELSE "send"
    BY <2>3
  <2>6. Partner(Partner(w)) = <<c, d>>
    BY <2>5 DEF Partner
  <2>7. QED
    BY <2>1, <2>2, <2>3, <2>4, <2>5, <2>6
<1>3. QED
  BY <1>1, <1>2

\* A case, its queue and its partners'.
LEMMA CaseFacts ==
    /\ NoCase \notin Case
    /\ \A k \in Case : /\ k[1] \in C /\ k[2] \in {"send", "recv"}
                       /\ Way(k) \in Queue /\ Way(k) = <<k[1], k[2]>>
                       /\ Way(k)[1] = k[1] /\ Way(k)[2] = k[2]
                       /\ Partner(k) \in Queue /\ Partner(k)[1] = k[1]
                       /\ Partner(k) = Partner(Way(k)) /\ Partner(Partner(k)) = Way(k)
                       /\ Partner(k) # Way(k)
                       /\ Partner(k) = IF k[2] = "send" THEN <<k[1], "recv">> ELSE <<k[1], "send">>
                       /\ Partner(k)[2] = IF k[2] = "send" THEN "recv" ELSE "send"
<1>1. NoCase \notin Case
  BY DEF NoCase, Case
<1>2. ASSUME NEW k \in Case
      PROVE  /\ k[1] \in C /\ k[2] \in {"send", "recv"}
             /\ Way(k) \in Queue /\ Way(k) = <<k[1], k[2]>>
             /\ Way(k)[1] = k[1] /\ Way(k)[2] = k[2]
             /\ Partner(k) = Partner(Way(k))
  <2>1. PICK c \in C, d \in {"send", "recv"}, i \in Nr : k = <<c, d, i>>
    BY DEF Case
  <2>2. k[1] = c /\ k[2] = d
    BY <2>1
  <2>3. Way(k) = <<c, d>> /\ Way(k)[1] = c /\ Way(k)[2] = d
    BY <2>2 DEF Way
  <2>4. Way(k) \in Queue
    BY <2>3 DEF Queue
  <2>5. Partner(k) = Partner(Way(k))
    BY <2>2, <2>3 DEF Partner
  <2>6. QED
    BY <2>2, <2>3, <2>4, <2>5
<1>3. ASSUME NEW k \in Case
      PROVE  /\ Partner(k) \in Queue /\ Partner(k)[1] = k[1]
             /\ Partner(Partner(k)) = Way(k) /\ Partner(k) # Way(k)
             /\ Partner(k) = IF k[2] = "send" THEN <<k[1], "recv">> ELSE <<k[1], "send">>
             /\ Partner(k)[2] = IF k[2] = "send" THEN "recv" ELSE "send"
  BY <1>2, QueueFacts
<1>4. QED
  BY <1>1, <1>2, <1>3

\* A sudog.
LEMMA SudogFacts ==
    /\ \A x \in Sudog : x[1] \in G /\ x[2] \in Case /\ x = <<x[1], x[2]>>
    /\ \A g \in G, k \in Case : <<g, k>> \in Sudog /\ <<g, k>>[1] = g /\ <<g, k>>[2] = k
BY DEF Sudog

\* The sudogs in a queue.
LEMMA InQueue ==
    ASSUME Typed, NEW w \in Queue
    PROVE  q[w] \in Seq(Sudog) /\ ToSet(q[w]) \subseteq Sudog
<1>1. q[w] \in Seq(Sudog)
  BY DEF Typed
<1>2. QED
  BY <1>1 DEF ToSet

\* The shape of a call.
LEMMA CallFacts ==
    ASSUME NEW k \in Call
    PROVE  /\ k.op \in Selecting \cup Plain /\ k.cases \subseteq Case
           /\ k.op \in Plain => \E c \in C, i \in Nr : k.cases = {<<c, Direction[k.op], i>>}
<1>1. CASE k \in [op : Selecting, cases : SUBSET Case]
  BY <1>1 DEF Selecting, Plain
<1>2. CASE k \in {[op |-> o, cases |-> {<<c, Direction[o], i>>}] :
                    o \in DOMAIN Direction, c \in C, i \in Nr}
  <2>1. PICK o \in DOMAIN Direction, c \in C, i \in Nr : k = [op |-> o, cases |-> {<<c, Direction[o], i>>}]
    BY <1>2
  <2>2. o \in Plain
    BY DEF Direction, Plain
  <2>3. Direction[o] \in {"send", "recv"}
    BY <2>2 DEF Direction, Plain
  <2>4. k.op = o /\ k.cases = {<<c, Direction[o], i>>}
    BY <2>1
  <2>5. <<c, Direction[o], i>> \in Case
    BY <2>3 DEF Case
  <2>6. QED
    BY <2>2, <2>4, <2>5
<1>3. QED
  BY <1>1, <1>2 DEF Call

\* The only case of a plain call.
LEMMA OnlyCase ==
    ASSUME Typed, NEW g \in G, Begun(g), pc[g] # "idle", op[g] \in Plain
    PROVE  /\ Only(g) \in Case /\ cases[g] = {Only(g)} /\ Only(g)[1] \in C
           /\ Only(g)[2] = Direction[op[g]]
<1>1. PICK c \in C, i \in Nr : cases[g] = {<<c, Direction[op[g]], i>>}
  BY DEF Begun
<1>2. Only(g) = <<c, Direction[op[g]], i>>
  BY <1>1 DEF Only
<1>3. cases[g] \subseteq Case
  BY DEF Typed
<1>4. QED
  BY <1>1, <1>2, <1>3

\* The queue w: its live sudogs, and what a dequeue leaves of it.
LEMMA LiveOf ==
    ASSUME Typed, OnceEach, NEW w \in Queue
    PROVE  /\ Live(q[w]) \in Seq(Sudog) /\ OwnersDiffer(Live(q[w]))
           /\ ToSet(Live(q[w])) \subseteq Standing(w) /\ Owners(Live(q[w])) = Waiters(w)
           /\ Live(q[w]) = <<>> <=> Waiters(w) = {}
           /\ Standing(w) = {} <=> Waiters(w) = {}
           /\ Waiters(w) # {} => Head(Live(q[w])) \in Standing(w) /\ Head(Live(q[w]))[1] \in Waiters(w)
           /\ Waiters(w) \subseteq G
           /\ AfterDequeue(q[w]) \in Seq(Sudog) /\ Distinct(AfterDequeue(q[w]))
           /\ Waiters(w) = {} => AfterDequeue(q[w]) = <<>>
           /\ ToSet(AfterDequeue(q[w])) \subseteq ToSet(q[w])
           /\ Waiters(w) # {} =>
                /\ Head(Live(q[w])) \notin ToSet(AfterDequeue(q[w]))
                /\ Standing(w) \ {Head(Live(q[w]))} \subseteq ToSet(AfterDequeue(q[w]))
<1>1. q[w] \in Seq(Sudog) /\ Distinct(q[w])
  BY DEF Typed, OnceEach
<1>2. Waiting(q[w]) = LiveAt(q[w], selectDone)
  BY DEF Waiting, LiveAt
<1>3. Standing(w) = Undone(q[w], selectDone)
  BY DEF Standing, Undone
<1>4. /\ Live(q[w]) \in Seq(Sudog) /\ OwnersDiffer(Live(q[w]))
      /\ ToSet(Live(q[w])) \subseteq Standing(w)
      /\ {x[1] : x \in ToSet(Live(q[w]))} = {x[1] : x \in Standing(w)}
      /\ Live(q[w]) = <<>> <=> Standing(w) = {}
      /\ LiveAt(q[w], selectDone) = {} <=> Standing(w) = {}
      /\ Live(q[w]) # <<>> => Head(Live(q[w])) \in Standing(w)
  BY <1>1, <1>2, <1>3, LiveSeq DEF Live
<1>5. Waiters(w) \subseteq G
  <2>1. \A i \in DOMAIN q[w] : q[w][i] \in Sudog
    BY <1>1
  <2>2. \A x \in Sudog : x[1] \in G
    BY DEF Sudog
  <2>3. QED
    BY <2>1, <2>2 DEF Waiters, Standing, ToSet
<1>6. Waiters(w) = {} <=> Standing(w) = {}
  BY DEF Waiters
<1>7. Owners(Live(q[w])) = Waiters(w)
  BY <1>4 DEF Owners, Waiters, ToSet
<1>8. \A x \in Standing(w) : x[1] \in Waiters(w)
  BY DEF Waiters
<1>9. CASE Waiters(w) = {}
  <2>1. AfterDequeue(q[w]) = <<>>
    BY <1>2, <1>4, <1>6, <1>9 DEF AfterDequeue
  <2>2. <<>> \in Seq(Sudog) /\ Distinct(<<>>) /\ ToSet(<<>>) = {}
    BY DEF Distinct, ToSet
  <2>3. QED
    BY <1>4, <1>5, <1>6, <1>7, <1>9, <2>1, <2>2
<1>10. CASE Waiters(w) # {}
  <2>1. AfterDequeue(q[w]) = SubSeq(q[w], Nth(LiveAt(q[w], selectDone), 1) + 1, Len(q[w]))
    BY <1>2, <1>4, <1>6, <1>10 DEF AfterDequeue
  <2>2. Live(q[w]) = At(q[w], LiveAt(q[w], selectDone))
    BY <1>2 DEF Live
  <2>3. LiveAt(q[w], selectDone) # {}
    BY <1>4, <1>6, <1>10
  <2>4. /\ AfterDequeue(q[w]) \in Seq(Sudog) /\ Distinct(AfterDequeue(q[w]))
        /\ ToSet(AfterDequeue(q[w])) \subseteq ToSet(q[w]) \ {Head(Live(q[w]))}
        /\ \A x \in Standing(w) : x # Head(Live(q[w])) => x \in ToSet(AfterDequeue(q[w]))
    BY <1>1, <1>3, <2>1, <2>2, <2>3, DequeueSeq
  <2>5. QED
    BY <1>4, <1>5, <1>6, <1>7, <1>8, <1>10, <2>4
<1>11. QED
  BY <1>9, <1>10

\* When case k can go on.
LEMMA ProceedsMeans ==
    ASSUME Typed, OnceEach, NEW k \in Case
    PROVE  Proceeds(k) <=> \/ closed[k[1]]
                           \/ Waiters(Partner(k)) # {}
                           \/ k[2] = "send" /\ qcount[k[1]] < dataqsiz[k[1]]
                           \/ k[2] = "recv" /\ qcount[k[1]] > 0
<1>1. Partner(k) \in Queue
  BY CaseFacts
<1>2. Live(q[Partner(k)]) = <<>> <=> Waiters(Partner(k)) = {}
  BY <1>1, LiveOf
<1>3. QED
  BY <1>2 DEF Proceeds

-----------------------------------------------------------------------------
\* Goroutines that take no part in a step.

\* What Placed, Begun and Decided say of g.
Kept(g) == Begun(g) /\ Decided(g) /\ Placed(g)

\* The step leaves the variables of h alone.
SameLocals(h) ==
    /\ pc'[h] = pc[h] /\ op'[h] = op[h] /\ cases'[h] = cases[h] /\ val'[h] = val[h]
    /\ elem'[h] = elem[h] /\ param'[h] = param[h] /\ selectDone'[h] = selectDone[h]
    /\ moved'[h] = moved[h] /\ glist'[h] = glist[h]

\* Channels stay closed, and empty once they are closed and empty; closing does not fill
\* them, and they are not filled afterwards.
ClosedStay ==
    \A c \in C : /\ closed[c] => closed'[c] /\ (qcount[c] = 0 => qcount'[c] = 0)
                 /\ closed'[c] /\ qcount'[c] = dataqsiz[c] => qcount[c] = dataqsiz[c]
                 /\ dataqsiz'[c] = dataqsiz[c]

\* h is taken out of queues by others only when its select is over.
SamePlaces(h) ==
    /\ InHand(h)' <=> InHand(h)
    /\ \A w \in Queue : \A x \in ToSet(q'[w]) : x[1] = h => x \in ToSet(q[w])
    /\ ~selectDone[h] => \A w \in Queue : \A x \in ToSet(q[w]) : x[1] = h => x \in ToSet(q'[w])

\* A step of others does not disturb what is known of h.
LEMMA Bystander ==
    ASSUME Typed, NEW h \in G, Kept(h), SameLocals(h), SamePlaces(h), ClosedStay
    PROVE  Kept(h)'
<1>1. Begun(h)'
  BY DEF Kept, Begun, SameLocals
<1>2. cases[h] \subseteq Case /\ \A k \in cases[h] : k[1] \in C /\ Way(k) \in Queue
  BY CaseFacts DEF Typed
<1>3. Decided(h)'
  BY <1>2 DEF Kept, Decided, SameLocals, SamePlaces, ClosedStay
<1>4. Placed(h)'
  <2>1. pc'[h] = "parked" /\ ~InHand(h)' => \A k \in cases'[h] : <<h, k>> \in ToSet(q'[Way(k)])
    <3>1. SUFFICES ASSUME pc'[h] = "parked", ~InHand(h)', NEW k \in cases'[h]
                   PROVE  <<h, k>> \in ToSet(q'[Way(k)])
      OBVIOUS
    <3>2. pc[h] = "parked" /\ ~InHand(h) /\ k \in cases[h]
      BY <3>1 DEF SameLocals, SamePlaces
    <3>3. <<h, k>> \in ToSet(q[Way(k)]) /\ ~selectDone[h]
      BY <3>2 DEF Kept, Placed
    <3>4. <<h, k>>[1] = h /\ Way(k) \in Queue
      BY <1>2, <3>2
    <3>5. QED
      BY <3>3, <3>4 DEF SamePlaces
  <2>2. \A w \in Queue : \A x \in ToSet(q'[w]) : x[1] = h =>
          /\ x[2] \in cases'[h] /\ Way(x[2]) = w
          /\ selectDone'[h] \/ (pc'[h] = "parked" /\ ~InHand(h)')
    BY DEF Kept, Placed, SameLocals, SamePlaces
  <2>3. QED
    BY <2>1, <2>2 DEF Kept, Placed, SameLocals, SamePlaces
<1>5. QED
  BY <1>1, <1>3, <1>4 DEF Kept

\* What a step has to do with the refusals of h.
Refusing(h) ==
    /\ pc[h] # "idle" /\ pc'[h] # "idle" => op'[h] = op[h] /\ cases'[h] = cases[h]
    /\ pc[h] = "idle" => pc'[h] \notin {"sready", "sclosed", "rclosed", "false"}
    /\ pc[h] # "idle" /\ op[h] \in {"nbsend", "nbrecv"} =>
          /\ closed[Only(h)[1]] => closed'[Only(h)[1]]
          /\ pc'[h] \in {"sclosed", "rclosed"} /\ pc[h] # pc'[h] =>
                h \in refusable \/ closed[Only(h)[1]]
          /\ pc'[h] = "sready" /\ pc[h] # pc'[h] => ~closed'[Only(h)[1]]
          /\ pc'[h] = "false" /\ pc[h] # pc'[h] => h \in refusable \/ ClosedUnbuffered(h)

\* A channel that looks full, or empty, to a fast path is not ready, or it is closed.
LEMMA NotReady ==
    ASSUME IInv, NEW g \in G, pc[g] # "idle",
           \/ op[g] = "nbsend" /\ FullForSend(Only(g)[1])
           \/ op[g] = "nbrecv" /\ EmptyForRecv(Only(g)[1])
    PROVE  g \in refusable \/ closed[Only(g)[1]]
<1>1. Typed /\ OnceEach /\ Begun(g) /\ Refused(g)
  BY DEF IInv
<1>2. PICK k \in Case : k = Only(g) /\ k[2] = Direction[op[g]]
  BY <1>1, OnlyCase DEF Plain
<1>3. k[2] = IF op[g] = "nbsend" THEN "send" ELSE "recv"
  BY <1>2 DEF Direction
<1>4. /\ k[1] \in C /\ Partner(k) \in Queue /\ Partner(k)[1] = k[1]
      /\ Partner(k) = IF k[2] = "send" THEN <<k[1], "recv">> ELSE <<k[1], "send">>
      /\ Partner(k)[2] = IF k[2] = "send" THEN "recv" ELSE "send"
  BY CaseFacts
<1>5. q[Partner(k)] = <<>> => Waiters(Partner(k)) = {}
  BY DEF Waiters, Standing, ToSet
<1>6. Reason(Partner(k)) /\ Ring(k[1])
  BY <1>4 DEF IInv
<1>7. dataqsiz[k[1]] \in Nat /\ qcount[k[1]] \in Nat /\ qcount[k[1]] <= dataqsiz[k[1]]
  BY <1>1, <1>4, <1>6 DEF Typed, Ring, RingOf
<1>8. CASE op[g] = "nbsend"
  <2>1. IF dataqsiz[k[1]] = 0 THEN q[Partner(k)] = <<>> ELSE qcount[k[1]] = dataqsiz[k[1]]
    BY <1>2, <1>3, <1>4, <1>8 DEF FullForSend
  <2>2. Waiters(Partner(k)) = {}
    BY <1>3, <1>4, <1>5, <1>6, <1>7, <1>8, <2>1 DEF Reason
  <2>3. Proceeds(k) => closed[k[1]]
    BY <1>1, <1>3, <1>7, <1>8, <2>1, <2>2, ProceedsMeans
  <2>4. QED
    BY <1>1, <1>2, <1>8, <2>3 DEF Refused
<1>9. CASE op[g] = "nbrecv"
  <2>1. IF dataqsiz[k[1]] = 0 THEN q[Partner(k)] = <<>> ELSE qcount[k[1]] = 0
    BY <1>2, <1>3, <1>4, <1>9 DEF EmptyForRecv
  <2>2. Waiters(Partner(k)) = {}
    BY <1>3, <1>4, <1>5, <1>6, <1>7, <1>9, <2>1 DEF Reason
  <2>3. Proceeds(k) => closed[k[1]]
    BY <1>1, <1>3, <1>7, <1>9, <2>1, <2>2, ProceedsMeans
  <2>4. QED
    BY <1>1, <1>2, <1>9, <2>3 DEF Refused
<1>10. QED
  BY <1>8, <1>9

\* The witness of a refusal is kept until the call returns.
LEMMA RefusedStep ==
    ASSUME IInv, ClosedStay, NEW h \in G, Refusing(h), Witness
    PROVE  Refused(h)'
<1> DEFINE inCall == {g \in G : pc'[g] # "idle"}
           now == {g \in inCall : op'[g] \in {"nbsend", "nbrecv"} /\ ~Proceeds(Only(g))'}
<1>0. Typed /\ Begun(h) /\ Refused(h)
  BY DEF IInv
<1>1. refusable' = (refusable \cap inCall) \cup now
  BY DEF Witness
<1>2. CASE pc'[h] = "idle"
  <2>1. h \notin refusable'
    BY <1>1, <1>2
  <2>2. QED
    BY <1>2, <2>1 DEF Refused
<1>3. CASE pc'[h] # "idle" /\ op'[h] \in {"nbsend", "nbrecv"}
  <2>1. ~Proceeds(Only(h))' => h \in refusable'
    BY <1>1, <1>3
  <2>2. h \in refusable => h \in refusable'
    BY <1>1, <1>3
  <2>3. CASE pc[h] = "idle"
    BY <1>3, <2>1, <2>3 DEF Refused, Refusing
  <2>4. CASE pc[h] # "idle"
    <3>1. op'[h] = op[h] /\ Only(h)' = Only(h)
      BY <1>3, <2>4 DEF Refusing, Only
    <3>2. pc'[h] \in {"sclosed", "rclosed"} => h \in refusable \/ closed[Only(h)[1]]
      BY <1>0, <1>3, <2>4, <3>1 DEF Refused, Refusing
    <3>3. pc'[h] = "false" => h \in refusable \/ ClosedUnbuffered(h)
      BY <1>0, <1>3, <2>4, <3>1 DEF Refused, Refusing
    <3>4. closed[Only(h)[1]] => closed'[Only(h)'[1]]
      BY <1>3, <2>4, <3>1 DEF Refusing
    <3>5. Only(h)[1] \in C
      BY <1>0, <1>3, <2>4, <3>1, OnlyCase DEF Plain
    <3>6. ClosedUnbuffered(h) => ClosedUnbuffered(h)'
      BY <3>1, <3>4, <3>5 DEF ClosedUnbuffered, ClosedStay
    <3>7. ASSUME pc'[h] = "sready", closed'[Only(h)'[1]], FilledUp(Only(h)[1])' PROVE h \in refusable
      <4>1. pc[h] = "sready"
        BY <1>3, <2>4, <3>1, <3>7 DEF Refusing
      <4>2. FilledUp(Only(h)[1])
        BY <3>1, <3>5, <3>7 DEF FilledUp, ClosedStay
      <4>3. CASE closed[Only(h)[1]]
        BY <1>0, <1>3, <2>4, <3>1, <4>1, <4>2, <4>3 DEF Refused
      <4>4. CASE ~closed[Only(h)[1]]
        <5>1. op[h] = "nbsend"
          BY <1>0, <4>1 DEF Begun
        <5>2. dataqsiz[Only(h)[1]] \in Nat
          BY <1>0, <3>5 DEF Typed
        <5>3. FullForSend(Only(h)[1])
          BY <4>2, <5>2 DEF FilledUp, FullForSend
        <5>4. QED
          BY <2>4, <4>4, <5>1, <5>3, NotReady
      <4>5. QED
        BY <4>3, <4>4
    <3>8. QED
      BY <1>3, <2>1, <2>2, <3>1, <3>2, <3>3, <3>4, <3>6, <3>7 DEF Refused
  <2>5. QED
    BY <2>3, <2>4
<1>4. CASE pc'[h] # "idle" /\ op'[h] \notin {"nbsend", "nbrecv"}
  BY <1>4 DEF Refused
<1>5. QED
  BY <1>2, <1>3, <1>4

\* Goroutines that stay where they are have nothing to do with refusals.
LEMMA RefusingSame ==
    ASSUME NEW h \in G, Typed, Kept(h), ClosedStay, SameLocals(h)
    PROVE  Refusing(h)
<1>1. CASE op[h] \in {"nbsend", "nbrecv"} /\ pc[h] # "idle"
  <2>1. Only(h)[1] \in C
    BY <1>1, OnlyCase DEF Kept, Plain
  <2>2. QED
    BY <1>1, <2>1 DEF Refusing, SameLocals, ClosedStay
<1>2. CASE pc[h] = "idle"
  BY <1>2 DEF Refusing, SameLocals
<1>3. CASE op[h] \notin {"nbsend", "nbrecv"} /\ pc[h] # "idle"
  BY <1>3 DEF Refusing, SameLocals
<1>4. QED
  BY <1>1, <1>2, <1>3

\* Whoever holds no lock, and whoever keeps its locks, keeps to the order.
LEMMA LockedKept ==
    ASSUME NEW h \in G, Locked(h),
           Holds(h)' = {} \/ (Holds(h)' = Holds(h) /\ cases'[h] = cases[h] /\ pc'[h] \in {"sellock", "relock"})
    PROVE  Locked(h)'
<1>1. CASE Holds(h)' = {}
  BY <1>1 DEF Locked
<1>2. CASE Holds(h)' = Holds(h) /\ cases'[h] = cases[h] /\ pc'[h] \in {"sellock", "relock"}
  <2>1. Channels(h)' = Channels(h)
    BY <1>2 DEF Channels
  <2>2. QED
    BY <1>2, <2>1 DEF Locked
<1>3. QED
  BY <1>1, <1>2

\* Steps that leave the locks alone, or release those of g.
LEMMA LocksReleased ==
    ASSUME NEW g \in G, NEW h \in G, Typed, Locked(h), h # g => SameLocals(h), selunlock(g)
    PROVE  Locked(h)'
<1>1. NoG \notin G
  BY ChanAssumption
<1>2. \A c \in C : lock'[c] = IF lock[c] = g THEN NoG ELSE lock[c]
  BY DEF selunlock
<1>3. CASE h = g
  <2>1. Holds(h)' = {}
    BY <1>1, <1>2, <1>3 DEF Holds
  <2>2. QED
    BY <2>1, LockedKept
<1>4. CASE h # g
  <2>1. Holds(h)' = Holds(h)
    BY <1>1, <1>2, <1>4 DEF Holds
  <2>2. Holds(h) # {} => pc[h] \in {"sellock", "relock"}
    BY DEF Locked
  <2>3. QED
    BY <1>4, <2>1, <2>2, LockedKept DEF SameLocals
<1>5. QED
  BY <1>3, <1>4

\* A goroutine that is not locking holds no lock, so releasing changes nothing.
LEMMA HoldsNothing ==
    ASSUME Typed, NEW g \in G, Locked(g), pc[g] \notin {"sellock", "relock"}, UNCHANGED lock
    PROVE  selunlock(g)
<1>1. \A c \in C : lock[c] # g
  BY DEF Locked, Holds
<1>2. lock \in [C -> G \cup {NoG}]
  BY DEF Typed
<1>3. QED
  BY <1>1, <1>2 DEF selunlock

\* The reasons of the sleepers that remain hold as long as the channel does not change.
LEMMA ReasonKept ==
    ASSUME NEW k \in Queue, Reason(k),
           closed'[k[1]] => q'[k] = <<>>,
           Waiters(k)' \subseteq Waiters(k), Waiters(Partner(k))' \subseteq Waiters(Partner(k)),
           Waiters(k)' # {} => qcount'[k[1]] = qcount[k[1]] /\ dataqsiz'[k[1]] = dataqsiz[k[1]]
    PROVE  Reason(k)'
<1>1. ASSUME NEW g \in Waiters(k)'
      PROVE  /\ Waiters(Partner(k))' \subseteq {g}
             /\ qcount'[k[1]] = IF k[2] = "send" THEN dataqsiz'[k[1]] ELSE 0
  <2>1. g \in Waiters(k) /\ Waiters(k)' # {}
    BY <1>1
  <2>2. /\ Waiters(Partner(k)) \subseteq {g}
        /\ qcount[k[1]] = IF k[2] = "send" THEN dataqsiz[k[1]] ELSE 0
    BY <2>1 DEF Reason
  <2>3. QED
    BY <2>1, <2>2
<1>2. QED
  BY <1>1 DEF Reason

\* Nothing happens to the channels and to the goroutines other than g.
Private(g) ==
    /\ UNCHANGED <<ring, dataqsiz, closed, q, selectDone, glist>>
    /\ \A h \in G \ {g} : SameLocals(h)

\* Such a step preserves the invariant if what is known of g still holds.
LEMMA PrivateStep ==
    ASSUME IInv, NEW g \in G, Private(g), Typed', Begun(g)', Decided(g)',
           \/ pc[g] \notin {"parked", "woken", "relock", "ready"} /\ pc'[g] \notin {"parked", "woken", "relock"}
           \/ Placed(g)',
           \A h \in G : Locked(h)', Refusing(g), Witness
    PROVE  IInv'
<1>1. UNCHANGED <<qcount, buf, sendx, recvx, dataqsiz, closed, q, selectDone, glist>>
  BY DEF Private, ring
<1>2. OnceEach'
  BY <1>1 DEF OnceEach, IInv
<1>3. \A c \in C : Ring(c)'
  BY <1>1 DEF Ring, IInv
<1>4. \A w \in Queue : Reason(w)'
  <2>1. \A w : Waiters(w)' = Waiters(w)
    BY <1>1 DEF Waiters, Standing
  <2>2. QED
    BY <1>1, <2>1 DEF Reason, IInv
<1>5. \A h \in G : InHand(h)' <=> InHand(h)
  BY <1>1 DEF InHand
<1>6. ClosedStay
  BY <1>1 DEF ClosedStay
<1>7. ASSUME NEW h \in G, h # g PROVE Kept(h)' /\ Refusing(h)
  <2>1. SamePlaces(h)
    BY <1>1, <1>5 DEF SamePlaces
  <2>2. SameLocals(h)
    BY <1>7 DEF Private
  <2>3. Kept(h)
    BY DEF IInv, Kept
  <2>4. Typed
    BY DEF IInv
  <2>5. QED
    BY <1>6, <2>1, <2>2, <2>3, <2>4, Bystander, RefusingSame
<1>8. Placed(g)'
  <2>1. SUFFICES ASSUME pc[g] \notin {"parked", "woken", "relock", "ready"},
                        pc'[g] \notin {"parked", "woken", "relock"}
                 PROVE  Placed(g)'
    OBVIOUS
  <2>2. Placed(g)
    BY DEF IInv
  <2>3. ~InHand(g) /\ ~selectDone[g] /\ glist[g] = <<>> /\ \A w \in Queue : \A x \in ToSet(q[w]) : x[1] # g
    BY <2>1, <2>2 DEF Placed
  <2>4. QED
    BY <1>1, <1>5, <2>1, <2>3 DEF Placed
<1>9. \A h \in G : Refused(h)'
  <2>1. TAKE h \in G
  <2>2. Refusing(h)
    BY <1>7
  <2>3. QED
    BY <1>6, <2>2, RefusedStep
<1>10. \A h \in G : Kept(h)'
  BY <1>7, <1>8 DEF Kept
<1>11. QED
  BY <1>2, <1>3, <1>4, <1>9, <1>10 DEF IInv, Kept

-----------------------------------------------------------------------------
\* The steps of one goroutine.

\* Nobody else's variables are touched by EXCEPT ![g].
LEMMA OthersSame ==
    ASSUME Typed, NEW g \in G, NEW h \in G, h # g,
           \/ UNCHANGED pc \/ \E x : pc' = [pc EXCEPT ![g] = x],
           \/ UNCHANGED op \/ \E x : op' = [op EXCEPT ![g] = x],
           \/ UNCHANGED cases \/ \E x : cases' = [cases EXCEPT ![g] = x],
           \/ UNCHANGED val \/ \E x : val' = [val EXCEPT ![g] = x],
           \/ UNCHANGED elem \/ \E x : elem' = [elem EXCEPT ![g] = x],
           \/ UNCHANGED param \/ \E x : param' = [param EXCEPT ![g] = x],
           \/ UNCHANGED selectDone \/ \E x : selectDone' = [selectDone EXCEPT ![g] = x],
           \/ UNCHANGED moved \/ \E x : moved' = [moved EXCEPT ![g] = x],
           \/ UNCHANGED glist \/ \E x : glist' = [glist EXCEPT ![g] = x]
    PROVE  SameLocals(h)
BY DEF Typed, SameLocals

\* Where a call starts.
LEMMA EntryFacts ==
    ASSUME NEW o \in Plain \cup Selecting
    PROVE  Entry[o] = IF o = "nbsend" THEN "sfast" ELSE IF o = "nbrecv" THEN "rfast"
                      ELSE IF o \in Selecting THEN "sellock" ELSE "lock"
BY DEF Entry, Plain, Selecting

\* Begin.
LEMMA BeginStep == ASSUME IInv, NEW g \in G, Begin(g) PROVE IInv'
<1>1. pc[g] = "idle"
  BY DEF Begin
<1>2. PICK k \in calls :
          /\ op' = [op EXCEPT ![g] = k.op]
          /\ cases' = [cases EXCEPT ![g] = k.cases]
          /\ pc' = [pc EXCEPT ![g] = Entry[k.op]]
          /\ \E v \in [Sends(k.cases) -> Val] : val' = [val EXCEPT ![g] = v]
  BY DEF Begin, Goto
<1>3. /\ UNCHANGED <<qcount, buf, sendx, recvx, dataqsiz, closed, q, lock, calls>>
      /\ UNCHANGED <<elem, param, selectDone, glist, moved>>
      /\ Witness
  BY DEF Begin, hchan, ring
<1>4. Typed /\ Begun(g) /\ Decided(g)
  BY DEF IInv
<1>5. k \in Call
  BY <1>4 DEF Typed
<1>6. /\ k.op \in Selecting \cup Plain /\ k.cases \subseteq Case
      /\ k.op \in Plain => \E c \in C, i \in Nr : k.cases = {<<c, Direction[k.op], i>>}
  BY <1>5, CallFacts
<1>7. pc'[g] = Entry[k.op] /\ op'[g] = k.op /\ cases'[g] = k.cases
  BY <1>2, <1>4 DEF Typed
<1>8. pc'[g] = IF k.op = "nbsend" THEN "sfast" ELSE IF k.op = "nbrecv" THEN "rfast"
               ELSE IF k.op \in Selecting THEN "sellock" ELSE "lock"
  BY <1>6, <1>7, EntryFacts
<1>9. pc'[g] \in {"sfast", "rfast", "sellock", "lock"}
  BY <1>8
<1>10. Witness => refusable' \subseteq G
  BY <1>4 DEF Witness, Typed
<1>11. Typed'
  <2>1. pc' \in [G -> Control]
    BY <1>2, <1>4, <1>7, <1>9 DEF Typed, Control
  <2>2. op' \in [G -> {"none", "send", "recv", "nbsend", "nbrecv", "close"} \cup Selecting]
    BY <1>2, <1>4, <1>6 DEF Typed, Plain
  <2>3. cases' \in [G -> SUBSET Case]
    BY <1>2, <1>4, <1>6 DEF Typed
  <2>4. val' = [h \in G |-> val'[h]]
    BY <1>2, <1>4 DEF Typed
  <2>5. QED
    BY <1>3, <1>4, <1>10, <2>1, <2>2, <2>3, <2>4 DEF Typed
<1>12. \A h \in G \ {g} : SameLocals(h)
  BY <1>2, <1>3, <1>4, OthersSame
<1>13. Private(g)
  BY <1>3, <1>12 DEF Private, ring
<1>14. Begun(g)'
  <2>1. val'[g] \in [Sends(cases'[g]) -> Val]
    BY <1>2, <1>4, <1>7 DEF Typed
  <2>2. QED
    BY <1>6, <1>7, <1>8, <2>1 DEF Begun, Plain, Selecting
<1>15. Decided(g)'
  <2>1. param'[g] = NoCase /\ moved'[g] = 0
    BY <1>1, <1>3, <1>4 DEF Begun
  <2>2. ~InHand(g)'
    BY <1>1, <1>3 DEF IInv, Placed, InHand
  <2>3. QED
    BY <1>9, <2>1, <2>2 DEF Decided
<1>16. Refusing(g)
  BY <1>1, <1>9 DEF Refusing
<1>17. ASSUME NEW h \in G PROVE Locked(h)'
  <2>1. Locked(h) /\ Locked(g)
    BY DEF IInv
  <2>2. selunlock(g)
    BY <1>1, <1>3, <1>4, <2>1, HoldsNothing
  <2>3. QED
    BY <1>4, <1>12, <2>1, <2>2, LocksReleased
<1>18. QED
  BY <1>1, <1>3, <1>9, <1>11, <1>13, <1>14, <1>15, <1>16, <1>17, PrivateStep

\* One read of a fast path.
LEMMA LoadStep ==
    ASSUME IInv, NEW g \in G, NEW from, NEW refuses \in BOOLEAN, NEW next, Load(g, from, refuses, next),
           \/ op[g] = "nbsend" /\ from \in {"sfast", "sready", "sclosed"} /\ next \in {"sready", "sclosed", "false"}
           \/ op[g] = "nbrecv" /\ from \in {"rfast", "rclosed"} /\ next \in {"rclosed", "false"},
           refuses /\ next \in {"sclosed", "rclosed"} => g \in refusable \/ closed[Only(g)[1]],
           refuses /\ next = "sready" => ~closed[Only(g)[1]],
           refuses /\ next = "false" => g \in refusable \/ ClosedUnbuffered(g)
    PROVE  IInv'
<1>1. /\ pc[g] = from /\ pc' = [pc EXCEPT ![g] = IF refuses THEN next ELSE "lock"]
      /\ UNCHANGED <<qcount, buf, sendx, recvx, dataqsiz, closed, q, lock, calls>>
      /\ UNCHANGED <<op, cases, val, elem, param, selectDone, glist, moved>>
      /\ Witness
  BY DEF Load, Goto, hchan, ring, call
<1>2. Typed /\ Begun(g) /\ Decided(g) /\ Placed(g) /\ Refused(g)
  BY DEF IInv
<1>3. pc'[g] = IF refuses THEN next ELSE "lock"
  BY <1>1, <1>2 DEF Typed
<1>4. refusable' \subseteq G
  BY <1>1, <1>2 DEF Witness, Typed
<1>5. Typed'
  <2>1. pc' \in [G -> Control]
    BY <1>1, <1>2 DEF Typed, Control
  <2>2. QED
    BY <1>1, <1>2, <1>4, <2>1 DEF Typed
<1>6. \A h \in G \ {g} : SameLocals(h)
  BY <1>1, <1>2, OthersSame
<1>7. Private(g)
  BY <1>1, <1>6 DEF Private, ring
<1>8. Begun(g)'
  BY <1>1, <1>2, <1>3 DEF Begun, Selecting
<1>9. InHand(g)' <=> InHand(g)
  BY <1>1 DEF InHand
<1>10. ~InHand(g)
  BY <1>1, <1>2 DEF Placed
<1>11. Decided(g)'
  BY <1>1, <1>2, <1>3, <1>9, <1>10 DEF Decided
<1>12. Refusing(g)
  BY <1>1, <1>2, <1>3 DEF Refusing
<1>13. ASSUME NEW h \in G PROVE Locked(h)'
  <2>1. Locked(h) /\ Locked(g)
    BY DEF IInv
  <2>2. selunlock(g)
    BY <1>1, <1>2, <2>1, HoldsNothing
  <2>3. QED
    BY <1>2, <1>6, <2>1, <2>2, LocksReleased
<1>14. pc[g] \notin {"parked", "woken", "relock", "ready"} /\ pc'[g] \notin {"parked", "woken", "relock"}
  BY <1>1, <1>3
<1>15. QED
  BY <1>1, <1>5, <1>7, <1>8, <1>11, <1>12, <1>13, <1>14, PrivateStep

\* SendFast.
LEMMA SendFastStep == ASSUME IInv, NEW g \in G, SendFast(g) PROVE IInv'
<1>1. Begun(g) /\ Refused(g) /\ Typed
  BY DEF IInv
<1>2. pc[g] \in {"sfast", "sready", "sclosed"}
  BY DEF SendFast, Load
<1>3. op[g] = "nbsend" /\ pc[g] # "idle"
  BY <1>1, <1>2 DEF Begun
<1>4. FullForSend(Only(g)[1]) => g \in refusable \/ closed[Only(g)[1]]
  BY <1>3, NotReady
<1>5. Only(g)[1] \in C
  BY <1>1, <1>3, OnlyCase DEF Plain
<1>6. (~closed[Only(g)[1]]) \in BOOLEAN /\ FullForSend(Only(g)[1]) \in BOOLEAN
  BY DEF FullForSend
<1>7. CASE Load(g, "sfast", ~closed[Only(g)[1]], "sready")
  BY <1>3, <1>6, <1>7, LoadStep
<1>8. CASE Load(g, "sready", FullForSend(Only(g)[1]), "false")
  <2>1. pc[g] = "sready"
    BY <1>8 DEF Load
  <2>2. dataqsiz[Only(g)[1]] \in Nat
    BY <1>1, <1>5 DEF Typed
  <2>3. FullForSend(Only(g)[1]) => FilledUp(Only(g)[1]) \/ dataqsiz[Only(g)[1]] = 0
    BY <2>2 DEF FullForSend, FilledUp
  <2>4. FullForSend(Only(g)[1]) => g \in refusable \/ ClosedUnbuffered(g)
    BY <1>1, <1>3, <1>4, <2>1, <2>3 DEF Refused, ClosedUnbuffered
  <2>5. QED
    BY <1>3, <1>6, <1>8, <2>4, LoadStep
<1>9. CASE Load(g, "sfast", FullForSend(Only(g)[1]), "sclosed")
  BY <1>3, <1>4, <1>6, <1>9, LoadStep
<1>10. CASE Load(g, "sclosed", ~closed[Only(g)[1]], "false")
  <2>1. pc[g] = "sclosed"
    BY <1>10 DEF Load
  <2>2. g \in refusable \/ closed[Only(g)[1]]
    BY <1>1, <1>3, <2>1 DEF Refused
  <2>3. QED
    BY <1>3, <1>6, <1>10, <2>2, LoadStep
<1>11. QED
  BY <1>7, <1>8, <1>9, <1>10 DEF SendFast

\* RecvFast.
LEMMA RecvFastStep == ASSUME IInv, NEW g \in G, RecvFast(g) PROVE IInv'
<1>1. Begun(g) /\ Refused(g) /\ Typed
  BY DEF IInv
<1>2. pc[g] \in {"rfast", "rclosed"}
  BY DEF RecvFast, Load
<1>3. op[g] = "nbrecv" /\ pc[g] # "idle"
  BY <1>1, <1>2 DEF Begun
<1>4. EmptyForRecv(Only(g)[1]) => g \in refusable \/ closed[Only(g)[1]]
  BY <1>3, NotReady
<1>5. (~closed[Only(g)[1]]) \in BOOLEAN /\ EmptyForRecv(Only(g)[1]) \in BOOLEAN
  BY DEF EmptyForRecv
<1>6. CASE Load(g, "rfast", EmptyForRecv(Only(g)[1]), "rclosed")
  BY <1>3, <1>4, <1>5, <1>6, LoadStep
<1>7. CASE Load(g, "rclosed", ~closed[Only(g)[1]], "false")
  <2>1. pc[g] = "rclosed"
    BY <1>7 DEF Load
  <2>2. g \in refusable \/ closed[Only(g)[1]]
    BY <1>1, <1>3, <2>1 DEF Refused
  <2>3. QED
    BY <1>3, <1>5, <1>7, <2>2, LoadStep
<1>8. QED
  BY <1>6, <1>7 DEF RecvFast

\* Resume.
LEMMA ResumeStep == ASSUME IInv, NEW g \in G, Resume(g) PROVE IInv'
<1>1. /\ pc[g] = "woken"
      /\ pc' = [pc EXCEPT ![g] = IF op[g] \in Selecting THEN "relock"
               ELSE IF op[g] = "recv" \/ param[g] # NoCase THEN "true"
               ELSE IF closed[Only(g)[1]] THEN "panic" ELSE "throw"]
      /\ param' = [param EXCEPT ![g] = IF op[g] = "recv" THEN Only(g) ELSE @]
      /\ UNCHANGED <<qcount, buf, sendx, recvx, dataqsiz, closed, q, lock, calls>>
      /\ UNCHANGED <<op, cases, val, elem, selectDone, glist, moved>>
      /\ Witness
  BY DEF Resume, Goto, hchan, ring, call
<1>2. Typed /\ Begun(g) /\ Decided(g) /\ Placed(g)
  BY DEF IInv
<1>3. op[g] \in {"send", "recv", "select"}
  BY <1>1, <1>2 DEF Begun
<1>4. op[g] \in Plain => Only(g) \in Case /\ cases[g] = {Only(g)}
  BY <1>1, <1>2, OnlyCase
<1>5. ~InHand(g) /\ (InHand(g)' <=> InHand(g))
  BY <1>1, <1>2 DEF Placed, InHand
<1>6. op[g] = "send" /\ param[g] = NoCase => closed[Only(g)[1]]
  BY <1>1, <1>2, <1>4 DEF Decided, Plain
<1>7. pc'[g] = IF op[g] = "select" THEN "relock"
               ELSE IF op[g] = "recv" \/ param[g] # NoCase THEN "true" ELSE "panic"
  BY <1>1, <1>2, <1>3, <1>6 DEF Typed, Selecting
<1>8. param'[g] = IF op[g] = "recv" THEN Only(g) ELSE param[g]
  BY <1>1, <1>2 DEF Typed
<1>9. refusable' \subseteq G
  BY <1>1, <1>2 DEF Witness, Typed
<1>10. Typed'
  <2>1. pc'[g] \in Control
    BY <1>7 DEF Control
  <2>2. pc' \in [G -> Control]
    BY <1>1, <1>2, <1>7, <2>1 DEF Typed
  <2>3. param' \in [G -> Case \cup {NoCase}]
    BY <1>1, <1>2, <1>4 DEF Typed, Plain
  <2>4. QED
    BY <1>1, <1>2, <1>9, <2>2, <2>3 DEF Typed
<1>11. \A h \in G \ {g} : SameLocals(h)
  BY <1>1, <1>2, OthersSame
<1>12. Private(g)
  BY <1>1, <1>11 DEF Private, ring
<1>13. Begun(g)'
  BY <1>1, <1>2, <1>3, <1>7 DEF Begun, Selecting, Plain
<1>14. op[g] = "recv" => Only(g) \in cases[g] /\ Only(g) # NoCase
  BY <1>4, CaseFacts DEF Plain
<1>15. Decided(g)'
  <2>1. CASE op[g] = "recv"
    <3>1. pc'[g] = "true" /\ param'[g] # NoCase /\ param'[g] \in cases'[g]
      BY <1>1, <1>7, <1>8, <1>14, <2>1
    <3>2. moved[g] = 0 => elem[g] = Zero
      BY <1>1, <1>2, <2>1 DEF Decided
    <3>3. QED
      BY <1>1, <1>5, <2>1, <3>1, <3>2 DEF Decided
  <2>2. CASE op[g] # "recv"
    <3>1. param'[g] = param[g]
      BY <1>8, <2>2
    <3>2. QED
      BY <1>1, <1>2, <1>3, <1>5, <1>7, <2>2, <3>1 DEF Decided
  <2>3. QED
    BY <2>1, <2>2
<1>16. Placed(g)'
  BY <1>1, <1>2, <1>3, <1>5, <1>7 DEF Placed
<1>17. Refusing(g)
  BY <1>1, <1>3, <1>7 DEF Refusing
<1>18. ASSUME NEW h \in G PROVE Locked(h)'
  <2>1. Locked(h) /\ Locked(g)
    BY DEF IInv
  <2>2. selunlock(g)
    BY <1>1, <1>2, <2>1, HoldsNothing
  <2>3. QED
    BY <1>2, <1>11, <2>1, <2>2, LocksReleased
<1>19. QED
  BY <1>1, <1>10, <1>12, <1>13, <1>15, <1>16, <1>17, <1>18, PrivateStep

\* Return.
LEMMA ReturnStep == ASSUME IInv, NEW g \in G, Return(g) PROVE IInv'
<1>1. /\ pc[g] \in {"true", "false", "panic"}
      /\ pc' = [pc EXCEPT ![g] = "idle"]
      /\ op' = [op EXCEPT ![g] = "none"]
      /\ cases' = [cases EXCEPT ![g] = {}]
      /\ val' = [val EXCEPT ![g] = <<>>]
      /\ elem' = [elem EXCEPT ![g] = NoVal]
      /\ param' = [param EXCEPT ![g] = NoCase]
      /\ moved' = [moved EXCEPT ![g] = 0]
      /\ UNCHANGED <<qcount, buf, sendx, recvx, dataqsiz, closed, q, lock, calls, selectDone, glist>>
      /\ Witness
  BY DEF Return, Goto, hchan, ring
<1>2. Typed /\ Begun(g) /\ Decided(g) /\ Placed(g)
  BY DEF IInv
<1>3. /\ pc'[g] = "idle" /\ op'[g] = "none" /\ cases'[g] = {} /\ param'[g] = NoCase /\ moved'[g] = 0
  BY <1>1, <1>2 DEF Typed
<1>4. refusable' \subseteq G
  BY <1>1, <1>2 DEF Witness, Typed
<1>5. Typed'
  <2>1. pc' \in [G -> Control] /\ op' \in [G -> {"none", "send", "recv", "nbsend", "nbrecv", "close"} \cup Selecting]
    BY <1>1, <1>2 DEF Typed, Control
  <2>2. val' = [h \in G |-> val'[h]]
    BY <1>1, <1>2 DEF Typed
  <2>3. /\ cases' \in [G -> SUBSET Case]
        /\ elem' \in [G -> Val \cup {Zero, NoVal}]
        /\ param' \in [G -> Case \cup {NoCase}] /\ moved' \in [G -> 0..1]
    BY <1>1, <1>2 DEF Typed
  <2>4. QED
    BY <1>1, <1>2, <1>4, <2>1, <2>2, <2>3 DEF Typed
<1>6. \A h \in G \ {g} : SameLocals(h)
  BY <1>1, <1>2, OthersSame
<1>7. Private(g)
  BY <1>1, <1>6 DEF Private, ring
<1>8. Begun(g)'
  <2>1. val'[g] = <<>>
    BY <1>1, <1>2 DEF Typed
  <2>2. Sends(cases'[g]) = {}
    BY <1>3 DEF Sends
  <2>3. <<>> \in [{} -> Val]
    OBVIOUS
  <2>4. QED
    BY <1>3, <2>1, <2>2, <2>3 DEF Begun
<1>9. ~InHand(g)'
  BY <1>1, <1>2 DEF Placed, InHand
<1>10. Decided(g)'
  BY <1>3, <1>9 DEF Decided
<1>11. Refusing(g)
  <2>1. pc[g] # "idle" /\ op[g] \in {"nbsend", "nbrecv"} /\ closed[Only(g)[1]] => closed'[Only(g)[1]]
    BY <1>1
  <2>2. QED
    BY <1>1, <1>3, <2>1 DEF Refusing
<1>12. ASSUME NEW h \in G PROVE Locked(h)'
  <2>1. Locked(h) /\ Locked(g)
    BY DEF IInv
  <2>2. selunlock(g)
    BY <1>1, <1>2, <2>1, HoldsNothing
  <2>3. QED
    BY <1>2, <1>6, <2>1, <2>2, LocksReleased
<1>13. QED
  BY <1>1, <1>3, <1>5, <1>7, <1>8, <1>10, <1>11, <1>12, PrivateStep

\* sellock.
LEMMA SellockStep == ASSUME IInv, NEW g \in G, sellock(g) PROVE IInv'
<1>1. PICK c \in LockNext(g) : lock[c] = NoG /\ lock' = [lock EXCEPT ![c] = g]
  BY DEF sellock
<1>2. /\ pc[g] \in {"sellock", "relock"}
      /\ UNCHANGED <<qcount, buf, sendx, recvx, dataqsiz, closed, q, calls>>
      /\ UNCHANGED <<pc, op, cases, val, elem, param, selectDone, glist, moved>>
      /\ Witness
  BY DEF sellock, ring, call
<1>3. Typed /\ Begun(g) /\ Decided(g) /\ Placed(g) /\ Locked(g)
  BY DEF IInv
<1>4. \A d \in Channels(g) : d \in C /\ d \in Nat
  BY <1>3, CaseFacts, ChanAssumption DEF Channels, Typed
<1>5. c \in Channels(g) /\ c \in C /\ c \in Nat /\ c \notin Holds(g)
      /\ \A d \in Channels(g) \ Holds(g) : c <= d
  BY <1>1, <1>4 DEF LockNext
<1>6. refusable' \subseteq G
  BY <1>2, <1>3 DEF Witness, Typed
<1>7. Typed'
  <2>1. lock' \in [C -> G \cup {NoG}]
    BY <1>1, <1>3, <1>5 DEF Typed
  <2>2. QED
    BY <1>2, <1>3, <1>6, <2>1 DEF Typed
<1>8. \A h \in G \ {g} : SameLocals(h)
  BY <1>2 DEF SameLocals
<1>9. Private(g)
  BY <1>2, <1>8 DEF Private, ring
<1>10. InHand(g)' <=> InHand(g)
  BY <1>2 DEF InHand
<1>11. Begun(g)' /\ Decided(g)' /\ Placed(g)'
  BY <1>2, <1>3, <1>10 DEF Begun, Decided, Placed
<1>12. Refusing(g)
  BY <1>2 DEF Refusing
<1>13. \A d \in C : lock'[d] = IF d = c THEN g ELSE lock[d]
  BY <1>1, <1>3 DEF Typed
<1>14. ASSUME NEW h \in G PROVE Locked(h)'
  <2>1. CASE h = g
    <3>1. Holds(g)' = Holds(g) \cup {c}
      BY <1>5, <1>13 DEF Holds
    <3>2. Channels(g)' = Channels(g)
      BY <1>2 DEF Channels
    <3>3. ASSUME NEW b \in Holds(g) \cup {c}
          PROVE  b \in Channels(g) /\ \A d \in Channels(g) \ (Holds(g) \cup {c}) : b < d
      <4>1. CASE b \in Holds(g)
        BY <1>3, <4>1 DEF Locked
      <4>2. CASE b = c
        BY <1>4, <1>5, <4>2
      <4>3. QED
        BY <3>3, <4>1, <4>2
    <3>4. QED
      BY <1>2, <2>1, <3>1, <3>2, <3>3 DEF Locked
  <2>2. CASE h # g
    <3>1. Holds(h)' = Holds(h)
      BY <1>1, <1>13, <2>2, ChanAssumption DEF Holds
    <3>2. Locked(h)
      BY DEF IInv
    <3>3. Holds(h) # {} => pc[h] \in {"sellock", "relock"}
      BY <3>2 DEF Locked
    <3>4. QED
      BY <1>2, <3>1, <3>2, <3>3, LockedKept
  <2>3. QED
    BY <2>1, <2>2
<1>15. QED
  BY <1>2, <1>7, <1>9, <1>11, <1>12, <1>14, PrivateStep

-----------------------------------------------------------------------------
\* goready.

\* The head of a list without repetitions, and the rest.
LEMMA HeadAndTail ==
    ASSUME NEW s \in Seq(G), s # <<>>, Distinct(s)
    PROVE  /\ Head(s) \in ToSet(s) /\ Head(s) \in G
           /\ Tail(s) \in Seq(G) /\ Distinct(Tail(s))
           /\ ToSet(Tail(s)) = ToSet(s) \ {Head(s)}
<1>1. /\ Len(s) \in Nat /\ Len(s) >= 1 /\ DOMAIN s = 1..Len(s) /\ Head(s) = s[1]
      /\ \A i \in 1..Len(s) : s[i] \in G
  OBVIOUS
<1> DEFINE t == Tail(s)
<1>2. /\ t \in Seq(G) /\ DOMAIN t = 1..Len(s) - 1
      /\ \A i \in 1..Len(s) - 1 : t[i] = s[i + 1]
  BY <1>1
<1> HIDE DEF t
<1>3. 1 \in DOMAIN s
  BY <1>1
<1>4. \A i \in DOMAIN t : i + 1 \in DOMAIN s /\ i + 1 # 1 /\ t[i] = s[i + 1]
  BY <1>1, <1>2
<1>5. \A i \in DOMAIN s : i = 1 \/ (i - 1 \in DOMAIN t /\ t[i - 1] = s[i])
  BY <1>1, <1>2
<1>6. \A i, j \in DOMAIN t : i + 1 = j + 1 => i = j
  BY <1>1, <1>2
<1>7. Distinct(t)
  BY <1>4, <1>6 DEF Distinct
<1>8. ToSet(t) \subseteq ToSet(s) \ {Head(s)}
  BY <1>1, <1>3, <1>4 DEF ToSet, Distinct
<1>9. ToSet(s) \ {Head(s)} \subseteq ToSet(t)
  BY <1>1, <1>5 DEF ToSet
<1>10. QED
  BY <1>1, <1>2, <1>3, <1>7, <1>8, <1>9 DEF t, ToSet

\* Ready, with goroutines left.
LEMMA ReadyOne ==
    ASSUME IInv, NEW g \in G, pc[g] = "ready", glist[g] # <<>>,
           pc' = [pc EXCEPT ![Head(glist[g])] = "woken"],
           glist' = [glist EXCEPT ![g] = Tail(@)],
           UNCHANGED <<hchan, calls, call, elem, param, selectDone, moved>>, Witness
    PROVE  IInv'
<1>1. /\ UNCHANGED <<qcount, buf, sendx, recvx, dataqsiz, closed, q, lock, calls>>
      /\ UNCHANGED <<op, cases, val, elem, param, selectDone, moved>>
  BY DEF hchan, ring, call
<1>2. Typed /\ OnceEach
  BY DEF IInv
<1>3. glist[g] \in Seq(G) /\ Distinct(glist[g])
  BY <1>2 DEF Typed, OnceEach
<1>4. PICK p \in G : p = Head(glist[g])
  BY <1>3, HeadAndTail
<1>5. PICK t \in Seq(G) : t = Tail(glist[g])
  BY <1>3, HeadAndTail
<1>6. p \in ToSet(glist[g]) /\ Distinct(t) /\ ToSet(t) = ToSet(glist[g]) \ {p}
  BY <1>3, <1>4, <1>5, HeadAndTail
<1>7. pc' = [pc EXCEPT ![p] = "woken"] /\ glist' = [glist EXCEPT ![g] = t]
  BY <1>2, <1>4, <1>5 DEF Typed
<1>8. \A h \in G : glist'[h] = IF h = g THEN t ELSE glist[h]
  BY <1>2, <1>7 DEF Typed
<1>9. \A h \in G : pc'[h] = IF h = p THEN "woken" ELSE pc[h]
  BY <1>2, <1>7 DEF Typed
<1>10. InHand(p)
  BY <1>6 DEF InHand, Held
<1>11. Kept(p) /\ Kept(g)
  BY DEF IInv, Kept
<1>12. pc[p] = "parked" /\ p # g
  BY <1>10, <1>11 DEF Kept, Placed
<1>13. \A h \in G \ {g} : p \notin ToSet(glist[h])
  BY <1>2, <1>6 DEF OnceEach
<1>14. \A h \in G : InHand(h)' <=> InHand(h) /\ h # p
  <2>1. ASSUME NEW h \in G PROVE InHand(h)' <=> InHand(h) /\ h # p
    <3>1. \A r \in G : h \in ToSet(glist'[r]) <=> h \in ToSet(glist[r]) /\ h # p
      BY <1>6, <1>8, <1>13
    <3>2. QED
      BY <3>1 DEF InHand, Held
  <2>2. QED
    BY <2>1
<1>15. refusable' \subseteq G
  BY <1>2 DEF Witness, Typed
<1>16. Typed'
  <2>1. pc' \in [G -> Control]
    BY <1>2, <1>7 DEF Typed, Control
  <2>2. glist' \in [G -> Seq(G)]
    BY <1>2, <1>5, <1>7 DEF Typed
  <2>3. QED
    BY <1>1, <1>2, <1>15, <2>1, <2>2 DEF Typed
<1>17. OnceEach'
  BY <1>1, <1>2, <1>6, <1>8 DEF OnceEach
<1>18. \A c \in C : Ring(c)'
  BY <1>1 DEF Ring, IInv
<1>19. \A w \in Queue : Reason(w)'
  <2>1. \A w : Waiters(w)' = Waiters(w)
    BY <1>1 DEF Waiters, Standing
  <2>2. QED
    BY <1>1, <2>1 DEF Reason, IInv
<1>20. ClosedStay
  BY <1>1 DEF ClosedStay
<1>21. ASSUME NEW h \in G, h # p, h # g PROVE Kept(h)' /\ Refusing(h)
  <2>1. SamePlaces(h)
    BY <1>1, <1>14, <1>21 DEF SamePlaces
  <2>2. SameLocals(h)
    BY <1>1, <1>8, <1>9, <1>21 DEF SameLocals
  <2>3. Kept(h)
    BY DEF IInv, Kept
  <2>4. QED
    BY <1>2, <1>20, <2>1, <2>2, <2>3, Bystander, RefusingSame
<1>22. Kept(p)' /\ Refusing(p)
  <2>1. pc'[p] = "woken" /\ ~InHand(p)' /\ glist'[p] = glist[p]
    BY <1>8, <1>9, <1>12, <1>14
  <2>2. Begun(p)'
    BY <1>1, <1>11, <1>12, <2>1 DEF Kept, Begun
  <2>3. Decided(p)'
    BY <1>1, <1>10, <1>11, <1>12, <2>1 DEF Kept, Decided
  <2>4. Placed(p)'
    BY <1>1, <1>10, <1>11, <1>12, <2>1 DEF Kept, Placed
  <2>5. op[p] \in {"send", "recv", "select"}
    BY <1>11, <1>12 DEF Kept, Begun
  <2>6. Refusing(p)
    BY <1>1, <1>12, <2>1, <2>5 DEF Refusing
  <2>7. QED
    BY <2>2, <2>3, <2>4, <2>6 DEF Kept
<1>23. Kept(g)' /\ Refusing(g)
  <2>1. pc'[g] = pc[g] /\ (InHand(g)' <=> InHand(g))
    BY <1>9, <1>12, <1>14
  <2>2. Begun(g)'
    BY <1>1, <1>11, <2>1 DEF Kept, Begun
  <2>3. Decided(g)'
    BY <1>1, <1>11, <2>1 DEF Kept, Decided
  <2>4. Placed(g)'
    BY <1>1, <1>11, <2>1 DEF Kept, Placed
  <2>5. Refusing(g)
    BY <1>1, <2>1 DEF Refusing
  <2>6. QED
    BY <2>2, <2>3, <2>4, <2>5 DEF Kept
<1>24. \A h \in G : Kept(h)' /\ Refusing(h)
  BY <1>21, <1>22, <1>23
<1>25. ASSUME NEW h \in G PROVE Locked(h)'
  <2>1. Locked(h)
    BY DEF IInv
  <2>2. Holds(h)' = Holds(h)
    BY <1>1 DEF Holds
  <2>3. Holds(h) # {} => pc[h] \in {"sellock", "relock"}
    BY <2>1 DEF Locked
  <2>4. QED
    BY <1>1, <1>9, <1>12, <2>1, <2>2, <2>3, LockedKept
<1>26. \A h \in G : Refused(h)'
  BY <1>20, <1>24, RefusedStep
<1>27. QED
  BY <1>16, <1>17, <1>18, <1>19, <1>24, <1>25, <1>26 DEF IInv, Kept

\* Ready.
LEMMA ReadyStep == ASSUME IInv, NEW g \in G, Ready(g) PROVE IInv'
<1>1. pc[g] = "ready" /\ UNCHANGED <<hchan, calls, call, elem, param, selectDone, moved>> /\ Witness
  BY DEF Ready
<1>2. CASE glist[g] # <<>> /\ pc' = [pc EXCEPT ![Head(glist[g])] = "woken"] /\ glist' = [glist EXCEPT ![g] = Tail(@)]
  BY <1>1, <1>2, ReadyOne
<1>3. CASE glist[g] = <<>> /\ pc' = [pc EXCEPT ![g] = "true"] /\ UNCHANGED glist
  <2>1. /\ UNCHANGED <<qcount, buf, sendx, recvx, dataqsiz, closed, q, lock, calls>>
        /\ UNCHANGED <<op, cases, val, elem, param, selectDone, moved, glist>>
    BY <1>1, <1>3 DEF hchan, ring, call
  <2>2. Typed /\ Begun(g) /\ Decided(g) /\ Placed(g)
    BY DEF IInv
  <2>3. pc'[g] = "true"
    BY <1>3, <2>2 DEF Typed
  <2>4. refusable' \subseteq G
    BY <1>1, <2>2 DEF Witness, Typed
  <2>5. Typed'
    <3>1. pc' \in [G -> Control]
      BY <1>3, <2>2 DEF Typed, Control
    <3>2. QED
      BY <2>1, <2>2, <2>4, <3>1 DEF Typed
  <2>6. \A h \in G \ {g} : SameLocals(h)
    BY <1>3, <2>1, <2>2, OthersSame
  <2>7. Private(g)
    BY <2>1, <2>6 DEF Private, ring
  <2>8. ~InHand(g) /\ ~InHand(g)'
    BY <1>1, <2>1, <2>2 DEF Placed, InHand
  <2>9. Begun(g)' /\ Decided(g)' /\ Placed(g)'
    BY <1>1, <1>3, <2>1, <2>2, <2>3, <2>8 DEF Begun, Decided, Placed
  <2>10. Refusing(g)
    BY <1>1, <2>1, <2>3 DEF Refusing
  <2>11. ASSUME NEW h \in G PROVE Locked(h)'
    <3>1. Locked(h) /\ Locked(g)
      BY DEF IInv
    <3>2. selunlock(g)
      BY <1>1, <2>1, <2>2, <3>1, HoldsNothing
    <3>3. QED
      BY <2>2, <2>6, <3>1, <3>2, LocksReleased
  <2>12. QED
    BY <1>1, <2>5, <2>7, <2>9, <2>10, <2>11, PrivateStep
<1>4. QED
  BY <1>2, <1>3 DEF Ready, Goto

-----------------------------------------------------------------------------
\* Steps that change the queues.

\* The parts of the invariant, put together again.
LEMMA Assembled ==
    ASSUME IInv, Typed', OnceEach', \A c \in C : Ring(c)', \A w \in Queue : Reason(w)',
           ClosedStay, \A h \in G : Kept(h)', \A h \in G : Locked(h)', \A h \in G : Refusing(h), Witness
    PROVE  IInv'
<1>1. \A h \in G : Refused(h)'
  BY RefusedStep
<1>2. QED
  BY <1>1 DEF IInv, Kept

\* What DropLosers does to the queues.
LEMMA Dropped ==
    ASSUME IInv, NEW g \in G
    PROVE  /\ DropLosers(g) \in [Queue -> Seq(Sudog)]
           /\ \A w \in Queue : /\ Distinct(DropLosers(g)[w])
                               /\ ToSet(DropLosers(g)[w]) = {x \in ToSet(q[w]) : x[1] # g}
                               /\ q[w] = <<>> => DropLosers(g)[w] = <<>>
<1>1. Typed /\ OnceEach /\ Placed(g)
  BY DEF IInv
<1>2. ASSUME NEW w \in Queue
      PROVE  /\ DropLosers(g)[w] \in Seq(Sudog) /\ Distinct(DropLosers(g)[w])
             /\ ToSet(DropLosers(g)[w]) = {x \in ToSet(q[w]) : x[1] # g}
             /\ q[w] = <<>> => DropLosers(g)[w] = <<>>
  <2>1. q[w] \in Seq(Sudog) /\ Distinct(q[w]) /\ ToSet(q[w]) \subseteq Sudog
    BY <1>1, InQueue DEF OnceEach
  <2> DEFINE S == {i \in DOMAIN q[w] : q[w][i] \notin {g} \X cases[g]}
  <2>2. DropLosers(g)[w] = At(q[w], S)
    BY DEF DropLosers
  <2>3. S \in SUBSET DOMAIN q[w]
    OBVIOUS
  <2>4. \A x \in ToSet(q[w]) : x \in {g} \X cases[g] <=> x[1] = g
    <3>1. TAKE x \in ToSet(q[w])
    <3>2. x = <<x[1], x[2]>>
      BY <2>1, SudogFacts
    <3>3. x[1] = g => x[2] \in cases[g]
      BY <1>1 DEF Placed
    <3>4. QED
      BY <3>2, <3>3
  <2>5. {q[w][i] : i \in S} = {x \in ToSet(q[w]) : x[1] # g}
    BY <2>4 DEF ToSet
  <2>6. q[w] = <<>> => S = {}
    OBVIOUS
  <2> HIDE DEF S
  <2>7. /\ At(q[w], S) \in Seq(Sudog) /\ Distinct(At(q[w], S))
        /\ ToSet(At(q[w], S)) = {q[w][i] : i \in S}
        /\ At(q[w], S) = <<>> <=> S = {}
    BY <2>1, <2>3, AtProperties
  <2>8. QED
    BY <2>2, <2>5, <2>6, <2>7
<1>3. DropLosers(g) = [w \in Queue |-> DropLosers(g)[w]]
  BY DEF DropLosers
<1>4. QED
  BY <1>2, <1>3

\* PassThree.
LEMMA PassThreeStep == ASSUME IInv, NEW g \in G, PassThree(g) PROVE IInv'
<1>1. /\ pc[g] = "relock"
      /\ selectDone' = [selectDone EXCEPT ![g] = FALSE]
      /\ q' = DropLosers(g)
      /\ UNCHANGED <<qcount, buf, sendx, recvx, dataqsiz, closed, calls>>
      /\ UNCHANGED <<op, cases, val, elem, param, glist, moved>>
      /\ Witness
  BY DEF PassThree, ring, call
<1>2. IF param[g] = NoCase THEN pc' = [pc EXCEPT ![g] = "sellock"] /\ UNCHANGED lock
                           ELSE pc' = [pc EXCEPT ![g] = "true"] /\ selunlock(g)
  BY DEF PassThree, Goto
<1>3. Typed /\ OnceEach /\ Begun(g) /\ Decided(g) /\ Placed(g) /\ Locked(g)
  BY DEF IInv
<1>4. op[g] = "select" /\ selectDone[g] /\ ~InHand(g)
  BY <1>1, <1>3 DEF Begun, Placed
<1>5. pc'[g] = IF param[g] = NoCase THEN "sellock" ELSE "true"
  BY <1>2, <1>3 DEF Typed
<1>6. \A h \in G : selectDone'[h] = IF h = g THEN FALSE ELSE selectDone[h]
  BY <1>1, <1>3 DEF Typed
<1>7. /\ q' \in [Queue -> Seq(Sudog)]
      /\ \A w \in Queue : /\ Distinct(q'[w]) /\ ToSet(q'[w]) = {x \in ToSet(q[w]) : x[1] # g}
                          /\ q[w] = <<>> => q'[w] = <<>>
  BY <1>1, Dropped
<1>8. \A w \in Queue : \A x \in ToSet(q[w]) : x[1] \in G
  BY <1>3, InQueue, SudogFacts
<1>9. \A w \in Queue : Waiters(w)' = Waiters(w)
  <2>1. TAKE w \in Queue
  <2>2. Standing(w) = {x \in ToSet(q[w]) : ~selectDone[x[1]]}
    BY DEF Standing
  <2>3. Standing(w)' = {x \in ToSet(q'[w]) : ~selectDone'[x[1]]}
    BY DEF Standing
  <2>4. Standing(w)' = Standing(w)
    BY <1>4, <1>6, <1>7, <1>8, <2>2, <2>3
  <2>5. QED
    BY <2>4 DEF Waiters
<1>10. refusable' \subseteq G
  BY <1>1, <1>3 DEF Witness, Typed
<1>11. Typed'
  <2>1. pc' \in [G -> Control]
    BY <1>2, <1>3 DEF Typed, Control
  <2>2. lock' \in [C -> G \cup {NoG}]
    BY <1>2, <1>3 DEF Typed, selunlock
  <2>3. selectDone' \in [G -> BOOLEAN]
    BY <1>1, <1>3 DEF Typed
  <2>4. QED
    BY <1>1, <1>3, <1>7, <1>10, <2>1, <2>2, <2>3 DEF Typed
<1>12. OnceEach'
  BY <1>1, <1>3, <1>7 DEF OnceEach
<1>13. \A c \in C : Ring(c)'
  BY <1>1 DEF Ring, IInv
<1>14. \A w \in Queue : Reason(w)'
  <2>1. TAKE k \in Queue
  <2>2. Reason(k) /\ Partner(k) \in Queue
    BY QueueFacts DEF IInv
  <2>3. closed'[k[1]] => q'[k] = <<>>
    BY <1>1, <1>7, <2>2 DEF Reason
  <2>4. QED
    BY <1>1, <1>9, <2>2, <2>3, ReasonKept
<1>15. ClosedStay
  BY <1>1 DEF ClosedStay
<1>16. \A h \in G : InHand(h)' <=> InHand(h)
  BY <1>1 DEF InHand
<1>17. \A h \in G \ {g} : SameLocals(h)
  BY <1>1, <1>2, <1>3, OthersSame
<1>18. ASSUME NEW h \in G, h # g PROVE Kept(h)' /\ Refusing(h)
  <2>1. SamePlaces(h)
    <3>1. \A w \in Queue : \A x \in ToSet(q'[w]) : x[1] = h => x \in ToSet(q[w])
      BY <1>7
    <3>2. \A w \in Queue : \A x \in ToSet(q[w]) : x[1] = h => x \in ToSet(q'[w])
      BY <1>7, <1>18
    <3>3. QED
      BY <1>16, <1>18, <3>1, <3>2 DEF SamePlaces
  <2>2. SameLocals(h)
    BY <1>17, <1>18
  <2>3. Kept(h)
    BY DEF IInv, Kept
  <2>4. QED
    BY <1>3, <1>15, <2>1, <2>2, <2>3, Bystander, RefusingSame
<1>19. Kept(g)' /\ Refusing(g)
  <2>1. ~InHand(g)' /\ ~selectDone'[g] /\ \A w \in Queue : \A x \in ToSet(q'[w]) : x[1] # g
    <3>1. \A w \in Queue : \A x \in ToSet(q'[w]) : x[1] # g
      BY <1>7
    <3>2. QED
      BY <1>4, <1>6, <1>16, <3>1
  <2>2. Begun(g)'
    BY <1>1, <1>3, <1>4, <1>5 DEF Begun, Selecting
  <2>3. Decided(g)'
    BY <1>1, <1>3, <1>4, <1>5, <2>1 DEF Decided
  <2>4. Placed(g)'
    BY <1>1, <1>3, <1>5, <2>1 DEF Placed
  <2>5. Refusing(g)
    BY <1>1, <1>4, <1>5 DEF Refusing
  <2>6. QED
    BY <2>2, <2>3, <2>4, <2>5 DEF Kept
<1>20. \A h \in G : Kept(h)' /\ Refusing(h)
  BY <1>18, <1>19
<1>21. ASSUME NEW h \in G PROVE Locked(h)'
  <2>1. Locked(h)
    BY DEF IInv
  <2>2. CASE param[g] = NoCase
    <3>1. Holds(h)' = Holds(h)
      BY <1>2, <2>2 DEF Holds
    <3>2. Holds(h) # {} => pc[h] \in {"sellock", "relock"}
      BY <2>1 DEF Locked
    <3>3. Holds(h) # {} => pc'[h] \in {"sellock", "relock"}
      BY <1>5, <1>17, <2>2, <3>2 DEF SameLocals
    <3>4. QED
      BY <1>1, <2>1, <3>1, <3>3, LockedKept
  <2>3. CASE param[g] # NoCase
    BY <1>2, <1>3, <1>17, <2>1, <2>3, LocksReleased
  <2>4. QED
    BY <2>2, <2>3
<1>22. QED
  BY <1>1, <1>11, <1>12, <1>13, <1>14, <1>20, <1>21, <1>15, Assembled

-----------------------------------------------------------------------------
\* The ring.

\* The next index: Inc, for any ring.
Wrap(x, n) == IF x + 1 = n THEN 0 ELSE x + 1

\* The slot at the send index is free, the one at the receive index is in use.
LEMMA RingSlots ==
    ASSUME NEW n \in Nat, NEW cnt \in Nat, NEW b, NEW s \in Nat, NEW r \in Nat, RingOf(n, cnt, b, s, r)
    PROVE  /\ cnt < n => s \in 0..n - 1
           /\ n > 0 => s \in 0..n - 1 /\ r \in 0..n - 1
           /\ cnt > 0 => r \in 0..n - 1 /\ b[r] \in Val /\ n > 0
<1>1. cnt > 0 => n > 0
  BY DEF RingOf
<1>2. n > 0 => r \in 0..n - 1 /\ s \in 0..n - 1
  BY DEF RingOf
<1>3. n > 0 => Offset(r, r, n) = 0
  BY DEF Offset
<1>4. n > 0 /\ cnt > 0 => b[r] # Zero
  BY <1>2, <1>3 DEF RingOf
<1>5. n > 0 => b[r] \in Val \cup {Zero}
  BY <1>2 DEF RingOf
<1>6. QED
  BY <1>1, <1>2, <1>4, <1>5

\* A value is put at the send index.
LEMMA RingPut ==
    ASSUME NEW n \in Nat, NEW cnt \in Nat, NEW b, NEW s \in Nat, NEW r \in Nat, RingOf(n, cnt, b, s, r),
           cnt < n, NEW v \in Val
    PROVE  RingOf(n, cnt + 1, [b EXCEPT ![s] = v], Wrap(s, n), r)
<1>1. n > 0 /\ s \in 0..n - 1 /\ r \in 0..n - 1 /\ r < n
  BY RingSlots DEF RingOf
<1>2. b \in [0..n - 1 -> Val \cup {Zero}] /\ \A i \in 0..n - 1 : b[i] = Zero <=> Offset(r, i, n) >= cnt
  BY <1>1 DEF RingOf
<1>3. v # Zero
  BY ChanAssumption
<1>4. Offset(r, s, n) = cnt /\ \A i \in 0..n - 1 : Offset(r, i, n) = cnt => i = s
  BY <1>1 DEF RingOf, Offset
<1>5. \A i \in 0..n - 1 : Offset(r, i, n) \in Nat
  BY <1>1 DEF Offset
<1> DEFINE d == [b EXCEPT ![s] = v]
<1>6. d \in [0..n - 1 -> Val \cup {Zero}] /\ \A i \in 0..n - 1 : d[i] = IF i = s THEN v ELSE b[i]
  BY <1>1, <1>2
<1>7. \A i \in 0..n - 1 : d[i] = Zero <=> Offset(r, i, n) >= cnt + 1
  BY <1>2, <1>3, <1>4, <1>5, <1>6
<1>8. Wrap(s, n) = IF r + (cnt + 1) < n THEN r + (cnt + 1) ELSE r + (cnt + 1) - n
  BY <1>1 DEF RingOf, Wrap
<1>9. QED
  BY <1>1, <1>6, <1>7, <1>8 DEF RingOf

\* The value at the receive index is taken.
LEMMA RingTake ==
    ASSUME NEW n \in Nat, NEW cnt \in Nat, NEW b, NEW s \in Nat, NEW r \in Nat, RingOf(n, cnt, b, s, r),
           cnt > 0
    PROVE  RingOf(n, cnt - 1, [b EXCEPT ![r] = Zero], s, Wrap(r, n))
<1>1. n > 0 /\ s \in 0..n - 1 /\ r \in 0..n - 1 /\ r < n /\ cnt <= n
  BY RingSlots DEF RingOf
<1>2. b \in [0..n - 1 -> Val \cup {Zero}] /\ \A i \in 0..n - 1 : b[i] = Zero <=> Offset(r, i, n) >= cnt
  BY <1>1 DEF RingOf
<1>3. \A i \in 0..n - 1 : IF i = r THEN Offset(Wrap(r, n), i, n) = n - 1
                          ELSE Offset(Wrap(r, n), i, n) = Offset(r, i, n) - 1
  BY <1>1 DEF Offset, Wrap
<1>4. \A i \in 0..n - 1 : Offset(r, i, n) \in Nat
  BY <1>1 DEF Offset
<1> DEFINE d == [b EXCEPT ![r] = Zero]
<1>5. d \in [0..n - 1 -> Val \cup {Zero}] /\ \A i \in 0..n - 1 : d[i] = IF i = r THEN Zero ELSE b[i]
  BY <1>1, <1>2
<1>6. \A i \in 0..n - 1 : d[i] = Zero <=> Offset(Wrap(r, n), i, n) >= cnt - 1
  BY <1>1, <1>2, <1>3, <1>4, <1>5
<1>7. /\ Wrap(r, n) < n
      /\ s = IF Wrap(r, n) + (cnt - 1) < n THEN Wrap(r, n) + (cnt - 1) ELSE Wrap(r, n) + (cnt - 1) - n
  BY <1>1 DEF RingOf, Wrap
<1>8. QED
  BY <1>1, <1>5, <1>6, <1>7 DEF RingOf

\* In a full ring the oldest value is replaced.
LEMMA RingSwap ==
    ASSUME NEW n \in Nat, NEW cnt \in Nat, NEW b, NEW s \in Nat, NEW r \in Nat, RingOf(n, cnt, b, s, r),
           cnt = n, n > 0, NEW v \in Val
    PROVE  RingOf(n, cnt, [b EXCEPT ![r] = v], Wrap(r, n), Wrap(r, n))
<1>1. n > 0 /\ s \in 0..n - 1 /\ r \in 0..n - 1 /\ r < n
  BY RingSlots DEF RingOf
<1>2. b \in [0..n - 1 -> Val \cup {Zero}] /\ \A i \in 0..n - 1 : b[i] = Zero <=> Offset(r, i, n) >= cnt
  BY <1>1 DEF RingOf
<1>3. v # Zero
  BY ChanAssumption
<1>4. \A i \in 0..n - 1 : Offset(r, i, n) < n /\ Offset(Wrap(r, n), i, n) < n
                          /\ Offset(r, i, n) \in Nat /\ Offset(Wrap(r, n), i, n) \in Nat
  BY <1>1 DEF Offset, Wrap
<1> DEFINE d == [b EXCEPT ![r] = v]
<1>5. d \in [0..n - 1 -> Val \cup {Zero}] /\ \A i \in 0..n - 1 : d[i] = IF i = r THEN v ELSE b[i]
  BY <1>1, <1>2
<1>6. \A i \in 0..n - 1 : d[i] = Zero <=> Offset(Wrap(r, n), i, n) >= cnt
  BY <1>2, <1>3, <1>4, <1>5
<1>7. Wrap(r, n) < n /\ Wrap(r, n) = IF Wrap(r, n) + cnt < n THEN Wrap(r, n) + cnt ELSE Wrap(r, n) + cnt - n
  BY <1>1 DEF Wrap
<1>8. QED
  BY <1>1, <1>5, <1>6, <1>7 DEF RingOf

-----------------------------------------------------------------------------
\* The queues after cases have been looked at and after a dequeue.

\* Only dead sudogs are removed, and closed channels have none.
Thins(Q) ==
    /\ Q \in [Queue -> Seq(Sudog)]
    /\ \A w \in Queue : /\ Distinct(Q[w]) /\ ToSet(Q[w]) \subseteq ToSet(q[w])
                        /\ closed[w[1]] => Q[w] = <<>>

\* Looking at cases that are not ready removes nobody who waits.
LEMMA LookedQueues ==
    ASSUME IInv, NEW looked \in SUBSET Case, \A j \in looked : ~Proceeds(j)
    PROVE  /\ Thins(LookedAt(looked))
           /\ \A w \in Queue :
                 /\ Standing(w) \subseteq ToSet(LookedAt(looked)[w])
                 /\ LookedAt(looked)[w] = IF \E j \in looked : Partner(j) = w THEN <<>> ELSE q[w]
<1>1. Typed /\ OnceEach
  BY DEF IInv
<1>2. \A w \in Queue : LookedAt(looked)[w] = IF \E j \in looked : Partner(j) = w THEN <<>> ELSE q[w]
  BY DEF LookedAt
<1>3. <<>> \in Seq(Sudog) /\ Distinct(<<>>) /\ ToSet(<<>>) = {}
  BY DEF Distinct, ToSet
<1>4. ASSUME NEW w \in Queue
      PROVE  /\ LookedAt(looked)[w] \in Seq(Sudog) /\ Distinct(LookedAt(looked)[w])
             /\ ToSet(LookedAt(looked)[w]) \subseteq ToSet(q[w])
             /\ closed[w[1]] => LookedAt(looked)[w] = <<>>
             /\ Standing(w) \subseteq ToSet(LookedAt(looked)[w])
  <2>1. ASSUME NEW j \in looked, Partner(j) = w PROVE Standing(w) = {}
    <3>1. Waiters(w) = {}
      BY <1>1, <2>1, ProceedsMeans
    <3>2. QED
      BY <1>1, <3>1, LiveOf
  <2>2. q[w] \in Seq(Sudog) /\ Distinct(q[w]) /\ Standing(w) \subseteq ToSet(q[w])
    BY <1>1 DEF Typed, OnceEach, Standing
  <2>3. closed[w[1]] => q[w] = <<>>
    BY DEF IInv, Reason
  <2>4. CASE \E j \in looked : Partner(j) = w
    BY <1>2, <1>3, <2>1, <2>4
  <2>5. CASE ~\E j \in looked : Partner(j) = w
    BY <1>2, <2>2, <2>3, <2>5
  <2>6. QED
    BY <2>4, <2>5
<1>5. LookedAt(looked) = [w \in Queue |-> LookedAt(looked)[w]]
  BY DEF LookedAt
<1>6. QED
  BY <1>2, <1>4, <1>5 DEF Thins

\* A dequeue for k takes out the first live sudog, if there is one.
LEMMA DequeuedQueues ==
    ASSUME IInv, NEW k \in Case, NEW looked \in SUBSET Case, \A j \in looked : ~Proceeds(j),
           DequeueFor(k, looked)
    PROVE  /\ Thins(q')
           /\ \A w \in Queue : w # Partner(k) => Standing(w) \subseteq ToSet(q'[w])
           /\ Waiters(Partner(k)) # {} =>
                 /\ Head(Live(q[Partner(k)])) \in Standing(Partner(k))
                 /\ Head(Live(q[Partner(k)])) \notin ToSet(q'[Partner(k)])
                 /\ Standing(Partner(k)) \ {Head(Live(q[Partner(k)]))} \subseteq ToSet(q'[Partner(k)])
<1>1. Typed /\ OnceEach
  BY DEF IInv
<1>2. PICK p \in Queue : p = Partner(k)
  BY CaseFacts
<1>3. PICK Q : Q = LookedAt(looked)
  OBVIOUS
<1>4. /\ Thins(Q)
      /\ \A w \in Queue : Standing(w) \subseteq ToSet(Q[w])
  BY <1>3, LookedQueues
<1>5. PICK s : s = AfterDequeue(q[p])
  OBVIOUS
<1>6. /\ s \in Seq(Sudog) /\ Distinct(s)
      /\ Waiters(p) = {} => s = <<>>
      /\ ToSet(s) \subseteq ToSet(q[p])
      /\ Waiters(p) # {} => /\ Head(Live(q[p])) \in Standing(p)
                            /\ Head(Live(q[p])) \notin ToSet(s)
                            /\ Standing(p) \ {Head(Live(q[p]))} \subseteq ToSet(s)
  BY <1>1, <1>5, LiveOf
<1>7. q' = [Q EXCEPT ![p] = s]
  BY <1>2, <1>3, <1>5 DEF DequeueFor
<1>8. \A w \in Queue : q'[w] = IF w = p THEN s ELSE Q[w]
  BY <1>4, <1>7 DEF Thins
<1>9. q' \in [Queue -> Seq(Sudog)]
  BY <1>4, <1>6, <1>7 DEF Thins
<1>10. closed[p[1]] => s = <<>>
  <2>1. closed[p[1]] => q[p] = <<>>
    BY DEF IInv, Reason
  <2>2. q[p] = <<>> => Waiters(p) = {}
    BY DEF Waiters, Standing, ToSet
  <2>3. QED
    BY <1>6, <2>1, <2>2
<1>11. Thins(q')
  BY <1>4, <1>6, <1>8, <1>9, <1>10 DEF Thins
<1>12. QED
  BY <1>2, <1>4, <1>6, <1>8, <1>11

\* The sleepers are those there were, when only dead sudogs were removed.
LEMMA WaitersSame ==
    ASSUME Thins(q'), \A w \in Queue : Standing(w) \subseteq ToSet(q'[w]), UNCHANGED selectDone
    PROVE  \A w \in Queue : Standing(w)' = Standing(w) /\ Waiters(w)' = Waiters(w)
<1>1. \A w \in Queue : Standing(w)' = Standing(w)
  BY DEF Thins, Standing
<1>2. QED
  BY <1>1 DEF Waiters

\* A goroutine that holds the locks it needs is nowhere else.
LEMMA Nowhere ==
    ASSUME IInv, NEW g \in G, pc[g] \in {"lock", "sellock"}
    PROVE  /\ ~InHand(g) /\ ~selectDone[g] /\ glist[g] = <<>>
           /\ \A w \in Queue : g \notin Waiters(w) /\ \A x \in ToSet(q[w]) : x[1] # g
           /\ param[g] = NoCase /\ moved[g] = 0
<1>1. Placed(g) /\ Decided(g) /\ Typed
  BY DEF IInv
<1>2. ~InHand(g) /\ ~selectDone[g] /\ glist[g] = <<>> /\ \A w \in Queue : \A x \in ToSet(q[w]) : x[1] # g
  BY <1>1 DEF Placed
<1>3. param[g] = NoCase /\ moved[g] # 1 /\ moved[g] \in 0..1
  BY <1>1 DEF Decided, Typed
<1>4. QED
  BY <1>2, <1>3 DEF Waiters, Standing

\* g, under the locks of its channels, ends its call, and no sleeper has a part in it.
LEMMA SoloStep ==
    ASSUME IInv, NEW g \in G, pc[g] \in {"lock", "sellock"},
           Thins(q'), \A k \in Queue : Standing(k) \subseteq ToSet(q'[k]),
           UNCHANGED <<dataqsiz, closed, calls, op, cases, val, selectDone, glist>>,
           selunlock(g), Witness, Typed', \A c \in C : Ring(c)', ClosedStay,
           \A k \in Queue : Waiters(k) # {} => qcount'[k[1]] = qcount[k[1]],
           \A h \in G \ {g} : SameLocals(h),
           pc'[g] \in {"true", "false", "panic"}, Decided(g)', Refusing(g)
    PROVE  IInv'
<1>1. Typed /\ OnceEach /\ Begun(g)
  BY DEF IInv
<1>2. \A k \in Queue : Waiters(k)' = Waiters(k)
  BY WaitersSame
<1>3. OnceEach'
  BY <1>1 DEF OnceEach, Thins
<1>4. \A w \in Queue : Reason(w)'
  <2>1. TAKE k \in Queue
  <2>2. Reason(k) /\ Partner(k) \in Queue
    BY QueueFacts DEF IInv
  <2>3. closed'[k[1]] => q'[k] = <<>>
    BY DEF Thins
  <2>4. QED
    BY <1>2, <2>2, <2>3, ReasonKept
<1>5. \A h \in G : InHand(h)' <=> InHand(h)
  BY DEF InHand
<1>6. ASSUME NEW h \in G, h # g PROVE Kept(h)' /\ Refusing(h)
  <2>1. SamePlaces(h)
    <3>1. \A w \in Queue : \A x \in ToSet(q'[w]) : x[1] = h => x \in ToSet(q[w])
      BY DEF Thins
    <3>2. ~selectDone[h] => \A w \in Queue : \A x \in ToSet(q[w]) : x[1] = h => x \in ToSet(q'[w])
      BY DEF Standing
    <3>3. QED
      BY <1>5, <3>1, <3>2 DEF SamePlaces
  <2>2. SameLocals(h)
    BY <1>6
  <2>3. Kept(h)
    BY DEF IInv, Kept
  <2>4. QED
    BY <1>1, <2>1, <2>2, <2>3, Bystander, RefusingSame
<1>7. Kept(g)'
  <2>1. /\ ~InHand(g) /\ ~selectDone[g] /\ glist[g] = <<>>
        /\ \A w \in Queue : \A x \in ToSet(q[w]) : x[1] # g
    BY Nowhere
  <2>2. Begun(g)'
    BY <1>1 DEF Begun
  <2>3. Placed(g)'
    BY <1>5, <2>1 DEF Placed, Thins
  <2>4. QED
    BY <2>2, <2>3 DEF Kept
<1>8. \A h \in G : Locked(h)'
  <2>1. \A h \in G : Locked(h)
    BY DEF IInv
  <2>2. QED
    BY <1>1, <2>1, LocksReleased
<1>9. \A h \in G : Kept(h)' /\ Refusing(h)
  BY <1>6, <1>7
<1>10. QED
  BY <1>3, <1>4, <1>8, <1>9, Assembled

\* g, in Operate or PassOne, with the case k to go on with.
Working(g, k) ==
    /\ pc[g] \in {"lock", "sellock"} /\ op[g] # "close" /\ k \in cases[g]
    /\ UNCHANGED <<dataqsiz, closed, calls, op, cases, val>>
    /\ selunlock(g)
    /\ Witness

\* What stays the same, and what is known, in all of these.
LEMMA WorkingFacts ==
    ASSUME IInv, NEW g \in G, NEW k, Working(g, k)
    PROVE  /\ k \in Case /\ k[1] \in C /\ Ring(k[1])
           /\ qcount[k[1]] \in Nat /\ dataqsiz[k[1]] \in Nat
           /\ sendx[k[1]] \in Nat /\ recvx[k[1]] \in Nat /\ qcount[k[1]] <= dataqsiz[k[1]]
           /\ k[2] = "send" => val[g][k] \in Val
           /\ lock' \in [C -> G \cup {NoG}]
           /\ refusable' \subseteq G
<1>1. Typed /\ Begun(g)
  BY DEF IInv
<1>2. k \in Case /\ k[1] \in C
  BY <1>1, CaseFacts DEF Working, Typed
<1>3. Ring(k[1])
  BY <1>2 DEF IInv
<1>4. /\ qcount[k[1]] \in Nat /\ dataqsiz[k[1]] \in Nat
      /\ sendx[k[1]] \in Nat /\ recvx[k[1]] \in Nat
  BY <1>1, <1>2 DEF Typed
<1>5. k[2] = "send" => val[g][k] \in Val
  <2>1. k \in cases[g] /\ val[g] \in [Sends(cases[g]) -> Val]
    BY <1>1 DEF Working, Begun
  <2>2. QED
    BY <2>1 DEF Sends
<1>6. lock' \in [C -> G \cup {NoG}]
  BY <1>1 DEF Working, selunlock, Typed
<1>7. refusable' \subseteq G
  BY <1>1 DEF Working, Witness, Typed
<1>8. QED
  BY <1>2, <1>3, <1>4, <1>5, <1>6, <1>7 DEF Ring, RingOf

\* Send on a closed channel.
LEMMA PanicStep ==
    ASSUME IInv, NEW g \in G, NEW k, Working(g, k), Thins(q'), \A j \in Queue : Standing(j) \subseteq ToSet(q'[j]),
           closed[k[1]], SendPanics(g, k)
    PROVE  IInv'
<1>1. /\ pc' = [pc EXCEPT ![g] = "panic"]
      /\ UNCHANGED <<qcount, buf, sendx, recvx, elem, param, selectDone, glist, moved>>
  BY DEF SendPanics, Goto, ring
<1>2. /\ pc[g] \in {"lock", "sellock"} /\ UNCHANGED <<dataqsiz, closed, calls, op, cases, val>>
      /\ selunlock(g) /\ Witness
  BY DEF Working
<1>3. Typed /\ Decided(g)
  BY DEF IInv
<1>4. pc'[g] = "panic"
  BY <1>1, <1>3 DEF Typed
<1>5. Typed'
  <2>1. pc' \in [G -> Control]
    BY <1>1, <1>3 DEF Typed, Control
  <2>2. q' \in [Queue -> Seq(Sudog)]
    BY DEF Thins
  <2>3. QED
    BY <1>1, <1>2, <1>3, <2>1, <2>2, WorkingFacts DEF Typed
<1>6. \A h \in G \ {g} : SameLocals(h)
  BY <1>1, <1>2, <1>3, OthersSame
<1>7. \A c \in C : Ring(c)'
  BY <1>1, <1>2 DEF IInv, Ring
<1>8. ClosedStay
  BY <1>1, <1>2 DEF ClosedStay
<1>9. Decided(g)'
  <2>1. ~InHand(g) /\ param[g] = NoCase /\ moved[g] = 0
    BY <1>2, Nowhere
  <2>2. ~InHand(g)'
    BY <1>1, <2>1 DEF InHand
  <2>3. QED
    BY <1>1, <1>4, <2>1, <2>2 DEF Decided
<1>10. Refusing(g)
  BY <1>2, <1>4 DEF Refusing
<1>11. QED
  BY <1>1, <1>2, <1>4, <1>5, <1>6, <1>7, <1>8, <1>9, <1>10, SoloStep

\* Receive from a closed and drained channel.
LEMMA ZeroStep ==
    ASSUME IInv, NEW g \in G, NEW k, Working(g, k), Thins(q'), \A j \in Queue : Standing(j) \subseteq ToSet(q'[j]),
           RecvZero(g, k)
    PROVE  IInv'
<1>1. /\ pc' = [pc EXCEPT ![g] = "true"]
      /\ elem' = [elem EXCEPT ![g] = Zero]
      /\ param' = [param EXCEPT ![g] = k]
      /\ UNCHANGED <<qcount, buf, sendx, recvx, selectDone, glist, moved>>
  BY DEF RecvZero, Goto, ring
<1>2. /\ pc[g] \in {"lock", "sellock"} /\ UNCHANGED <<dataqsiz, closed, calls, op, cases, val>>
      /\ selunlock(g) /\ Witness /\ op[g] # "close" /\ k \in cases[g]
  BY DEF Working
<1>3. Typed /\ Decided(g)
  BY DEF IInv
<1>4. pc'[g] = "true" /\ elem'[g] = Zero /\ param'[g] = k
  BY <1>1, <1>3 DEF Typed
<1>5. k \in Case /\ k # NoCase
  BY WorkingFacts, CaseFacts
<1>6. Typed'
  <2>1. pc' \in [G -> Control]
    BY <1>1, <1>3 DEF Typed, Control
  <2>2. elem' \in [G -> Val \cup {Zero, NoVal}] /\ param' \in [G -> Case \cup {NoCase}]
    BY <1>1, <1>3, <1>5 DEF Typed
  <2>3. q' \in [Queue -> Seq(Sudog)]
    BY DEF Thins
  <2>4. QED
    BY <1>1, <1>2, <1>3, <2>1, <2>2, <2>3, WorkingFacts DEF Typed
<1>7. \A h \in G \ {g} : SameLocals(h)
  BY <1>1, <1>2, <1>3, OthersSame
<1>8. \A c \in C : Ring(c)'
  BY <1>1, <1>2 DEF IInv, Ring
<1>9. ClosedStay
  BY <1>1, <1>2 DEF ClosedStay
<1>10. Decided(g)'
  <2>1. ~InHand(g) /\ moved[g] = 0
    BY <1>2, Nowhere
  <2>2. ~InHand(g)'
    BY <1>1, <2>1 DEF InHand
  <2>3. QED
    BY <1>1, <1>2, <1>4, <1>5, <2>1, <2>2 DEF Decided
<1>11. Refusing(g)
  BY <1>2, <1>4 DEF Refusing
<1>12. QED
  BY <1>1, <1>2, <1>4, <1>6, <1>7, <1>8, <1>9, <1>10, <1>11, SoloStep

\* The two queues of a channel.
LEMMA TwoQueues ==
    ASSUME NEW w \in Queue, NEW k \in Case, w[1] = k[1]
    PROVE  w = Way(k) \/ w = Partner(k)
BY CaseFacts, QueueFacts

\* Through the buffer, with nobody waiting at the channel.
LEMMA BufferStep ==
    ASSUME IInv, NEW g \in G, NEW k, Working(g, k), Thins(q'), \A j \in Queue : Standing(j) \subseteq ToSet(q'[j]),
           Waiters(Way(k)) = {}, Waiters(Partner(k)) = {},
           NEW n \in Nat, qcount' = [qcount EXCEPT ![k[1]] = n], closed[k[1]] => qcount[k[1]] # 0 /\ n # dataqsiz[k[1]],
           NEW b, buf' = [buf EXCEPT ![k[1]] = b],
           \/ UNCHANGED recvx /\ \E x \in Nat : sendx' = [sendx EXCEPT ![k[1]] = x]
           \/ UNCHANGED sendx /\ \E x \in Nat : recvx' = [recvx EXCEPT ![k[1]] = x],
           RingOf(dataqsiz[k[1]], n, b, sendx'[k[1]], recvx'[k[1]]),
           UNCHANGED elem \/ \E v \in Val : elem' = [elem EXCEPT ![g] = v],
           Alone(g, k)
    PROVE  IInv'
<1>1. /\ pc' = [pc EXCEPT ![g] = "true"]
      /\ param' = [param EXCEPT ![g] = k]
      /\ moved' = [moved EXCEPT ![g] = @ + 1]
      /\ UNCHANGED <<selectDone, glist>>
  BY DEF Alone, Goto
<1>2. /\ pc[g] \in {"lock", "sellock"} /\ UNCHANGED <<dataqsiz, closed, calls, op, cases, val>>
      /\ selunlock(g) /\ Witness /\ op[g] # "close" /\ k \in cases[g]
  BY DEF Working
<1>3. Typed /\ Decided(g)
  BY DEF IInv
<1>4. ~InHand(g) /\ moved[g] = 0
  BY <1>2, Nowhere
<1>5. pc'[g] = "true" /\ param'[g] = k /\ moved'[g] = 1
  BY <1>1, <1>3, <1>4 DEF Typed
<1>6. k \in Case /\ k # NoCase /\ k[1] \in C
  BY WorkingFacts, CaseFacts
<1>7. Typed'
  <2>1. pc' \in [G -> Control]
    BY <1>1, <1>3 DEF Typed, Control
  <2>2. param' \in [G -> Case \cup {NoCase}]
    BY <1>1, <1>3, <1>6 DEF Typed
  <2>3. moved' \in [G -> 0..1]
    <3>1. moved' = [moved EXCEPT ![g] = 1]
      BY <1>1, <1>3, <1>4 DEF Typed
    <3>2. QED
      BY <1>3, <3>1 DEF Typed
  <2>4. elem' \in [G -> Val \cup {Zero, NoVal}]
    BY <1>3 DEF Typed
  <2>5. q' \in [Queue -> Seq(Sudog)]
    BY DEF Thins
  <2>6. qcount \in [C -> Nat] /\ sendx \in [C -> Nat] /\ recvx \in [C -> Nat]
    BY <1>3 DEF Typed
  <2>7. qcount' \in [C -> Nat]
    BY <1>6, <2>6
  <2>8. sendx' \in [C -> Nat] /\ recvx' \in [C -> Nat]
    BY <1>6, <2>6
  <2>9. qcount' \in [C -> Nat] /\ sendx' \in [C -> Nat] /\ recvx' \in [C -> Nat]
    BY <2>7, <2>8
  <2>10. buf' = [c \in C |-> buf'[c]]
    BY <1>3, <1>6 DEF Typed
  <2>11. QED
    BY <1>1, <1>2, <1>3, <2>1, <2>2, <2>3, <2>4, <2>5, <2>9, <2>10, WorkingFacts DEF Typed
<1>8. \A h \in G \ {g} : SameLocals(h)
  <2>1. UNCHANGED elem \/ \E x : elem' = [elem EXCEPT ![g] = x]
    OBVIOUS
  <2>2. \E x : moved' = [moved EXCEPT ![g] = x]
    BY <1>1, <1>3 DEF Typed
  <2>3. QED
    BY <1>1, <1>2, <1>3, <2>1, <2>2, OthersSame
<1>9. ASSUME NEW c \in C PROVE Ring(c)'
  <2>1. CASE c = k[1]
    <3>1. qcount'[c] = n /\ buf'[c] = b
      BY <1>3, <1>6, <2>1 DEF Typed
    <3>2. QED
      BY <1>2, <2>1, <3>1 DEF Ring
  <2>2. CASE c # k[1]
    <3>1. qcount'[c] = qcount[c] /\ buf'[c] = buf[c] /\ sendx'[c] = sendx[c] /\ recvx'[c] = recvx[c]
      BY <1>3, <1>6, <2>2 DEF Typed
    <3>2. Ring(c)
      BY DEF IInv
    <3>3. QED
      BY <1>2, <3>1, <3>2 DEF Ring
  <2>3. QED
    BY <2>1, <2>2
<1>10. \A c \in C : qcount'[c] = IF c = k[1] THEN n ELSE qcount[c]
  BY <1>3, <1>6 DEF Typed
<1>11. ClosedStay
  BY <1>2, <1>10 DEF ClosedStay
<1>12. \A j \in Queue : Waiters(j) # {} => qcount'[j[1]] = qcount[j[1]]
  <2>1. SUFFICES ASSUME NEW j \in Queue, Waiters(j) # {} PROVE qcount'[j[1]] = qcount[j[1]]
    OBVIOUS
  <2>2. j[1] # k[1]
    BY <1>6, <2>1, TwoQueues
  <2>3. QED
    BY <1>10, <2>2, QueueFacts
<1>13. Decided(g)'
  <2>1. ~InHand(g)'
    BY <1>1, <1>4 DEF InHand
  <2>2. QED
    BY <1>2, <1>5, <1>6, <2>1 DEF Decided
<1>14. Refusing(g)
  BY <1>2, <1>5 DEF Refusing
<1>15. QED
  BY <1>1, <1>2, <1>5, <1>7, <1>8, <1>9, <1>11, <1>12, <1>13, <1>14, SoloStep

\* SendToBuffer.
LEMMA PutStep ==
    ASSUME IInv, NEW g \in G, NEW k, Working(g, k), Thins(q'), \A j \in Queue : Standing(j) \subseteq ToSet(q'[j]),
           k[2] = "send", ~closed[k[1]], Waiters(Partner(k)) = {}, qcount[k[1]] < dataqsiz[k[1]],
           SendToBuffer(g, k)
    PROVE  IInv'
<1>1. PICK c \in C : c = k[1] /\ k \in Case
  BY WorkingFacts
<1>2. /\ Ring(c) /\ qcount[c] \in Nat /\ dataqsiz[c] \in Nat /\ sendx[c] \in Nat /\ recvx[c] \in Nat
      /\ val[g][k] \in Val
  BY <1>1, WorkingFacts
<1>3. PICK n \in Nat : n = qcount[c] + 1
  BY <1>2
<1>4. PICK b : b = [buf[c] EXCEPT ![sendx[c]] = val[g][k]]
  OBVIOUS
<1>5. PICK x \in Nat : x = Wrap(sendx[c], dataqsiz[c])
  BY <1>2 DEF Wrap
<1>6. Typed
  BY DEF IInv
<1>7. /\ qcount' = [qcount EXCEPT ![c] = n] /\ buf' = [buf EXCEPT ![c] = b]
      /\ sendx' = [sendx EXCEPT ![c] = x] /\ UNCHANGED <<recvx, elem>> /\ Alone(g, k)
  BY <1>1, <1>3, <1>4, <1>5, <1>6 DEF SendToBuffer, Inc, Wrap, Typed
<1>8. sendx'[c] = x /\ recvx'[c] = recvx[c]
  BY <1>6, <1>7 DEF Typed
<1>9. RingOf(dataqsiz[c], n, b, x, recvx[c])
  BY <1>1, <1>2, <1>3, <1>4, <1>5, RingPut DEF Ring
<1>10. Waiters(Way(k)) = {}
  <2>1. Way(k) \in Queue /\ Way(k)[1] = k[1] /\ Way(k)[2] = k[2]
    BY <1>1, CaseFacts
  <2>2. Reason(Way(k))
    BY <2>1 DEF IInv
  <2>3. QED
    BY <1>1, <1>2, <2>1, <2>2 DEF Reason
<1>11. QED
  BY <1>1, <1>7, <1>8, <1>9, <1>10, BufferStep

\* RecvFromBuffer.
LEMMA TakeStep ==
    ASSUME IInv, NEW g \in G, NEW k, Working(g, k), Thins(q'), \A j \in Queue : Standing(j) \subseteq ToSet(q'[j]),
           k[2] = "recv", Waiters(Partner(k)) = {}, qcount[k[1]] > 0,
           RecvFromBuffer(g, k)
    PROVE  IInv'
<1>1. PICK c \in C : c = k[1] /\ k \in Case
  BY WorkingFacts
<1>2. Ring(c) /\ qcount[c] \in Nat /\ dataqsiz[c] \in Nat /\ sendx[c] \in Nat /\ recvx[c] \in Nat
  BY <1>1, WorkingFacts
<1>3. PICK n \in Nat : n = qcount[c] - 1
  BY <1>1, <1>2
<1>4. PICK b : b = [buf[c] EXCEPT ![recvx[c]] = Zero]
  OBVIOUS
<1>5. PICK x \in Nat : x = Wrap(recvx[c], dataqsiz[c])
  BY <1>2 DEF Wrap
<1>6. Typed
  BY DEF IInv
<1>7. /\ qcount' = [qcount EXCEPT ![c] = n] /\ buf' = [buf EXCEPT ![c] = b]
      /\ recvx' = [recvx EXCEPT ![c] = x] /\ UNCHANGED sendx /\ Alone(g, k)
      /\ elem' = [elem EXCEPT ![g] = buf[c][recvx[c]]]
  BY <1>1, <1>3, <1>4, <1>5, <1>6 DEF RecvFromBuffer, Cleared, Inc, Wrap, Typed
<1>8. recvx'[c] = x /\ sendx'[c] = sendx[c]
  BY <1>6, <1>7 DEF Typed
<1>9. RingOf(dataqsiz[c], n, b, sendx[c], x)
  BY <1>1, <1>2, <1>3, <1>4, <1>5, RingTake DEF Ring
<1>10. buf[c][recvx[c]] \in Val
  BY <1>1, <1>2, RingSlots DEF Ring
<1>11. Waiters(Way(k)) = {}
  <2>1. Way(k) \in Queue /\ Way(k)[1] = k[1] /\ Way(k)[2] = k[2]
    BY <1>1, CaseFacts
  <2>2. Reason(Way(k))
    BY <2>1 DEF IInv
  <2>3. QED
    BY <1>1, <1>2, <2>1, <2>2 DEF Reason
<1>12. RingOf(dataqsiz[k[1]], n, b, sendx'[k[1]], recvx'[k[1]])
  BY <1>1, <1>8, <1>9
<1>13. qcount[k[1]] # 0 /\ n # dataqsiz[k[1]]
  BY <1>1, <1>2, <1>3 DEF Ring, RingOf
<1>14. QED
  BY <1>1, <1>7, <1>10, <1>11, <1>12, <1>13, BufferStep

\* A non-blocking call, or a select with a default, gives up.
LEMMA RefuseStep ==
    ASSUME IInv, NEW g \in G, pc[g] \in {"lock", "sellock"}, op[g] \in {"nbsend", "nbrecv", "selectdefault"},
           \A k \in cases[g] : ~Proceeds(k), Refuse(g),
           UNCHANGED <<ring, elem, param, selectDone, glist, moved>>,
           UNCHANGED <<dataqsiz, closed, calls, op, cases, val>>, selunlock(g), Witness
    PROVE  IInv'
<1>1. /\ pc' = [pc EXCEPT ![g] = "false"] /\ q' = LookedAt(cases[g])
      /\ UNCHANGED <<qcount, buf, sendx, recvx>>
  BY DEF Refuse, Goto, ring
<1>2. Typed /\ Decided(g) /\ Begun(g) /\ Refused(g)
  BY DEF IInv
<1>3. cases[g] \in SUBSET Case
  BY <1>2 DEF Typed
<1>4. Thins(q') /\ \A k \in Queue : Standing(k) \subseteq ToSet(q'[k])
  BY <1>1, <1>3, LookedQueues
<1>5. pc'[g] = "false"
  BY <1>1, <1>2 DEF Typed
<1>6. Typed'
  <2>1. pc' \in [G -> Control]
    BY <1>1, <1>2 DEF Typed, Control
  <2>2. q' \in [Queue -> Seq(Sudog)]
    BY <1>4 DEF Thins
  <2>3. lock' \in [C -> G \cup {NoG}]
    BY <1>2 DEF selunlock, Typed
  <2>4. refusable' \subseteq G
    BY <1>2 DEF Witness, Typed
  <2>5. QED
    BY <1>1, <1>2, <2>1, <2>2, <2>3, <2>4 DEF Typed
<1>7. \A h \in G \ {g} : SameLocals(h)
  BY <1>1, <1>2, OthersSame
<1>8. \A c \in C : Ring(c)'
  BY <1>1 DEF IInv, Ring
<1>9. ClosedStay
  BY <1>1 DEF ClosedStay
<1>10. Decided(g)'
  <2>1. ~InHand(g) /\ param[g] = NoCase /\ moved[g] = 0
    BY Nowhere
  <2>2. ~InHand(g)'
    BY <2>1 DEF InHand
  <2>3. QED
    BY <1>5, <2>1, <2>2 DEF Decided
<1>11. Refusing(g)
  <2>1. op[g] \in {"nbsend", "nbrecv"} => g \in refusable
    <3>1. SUFFICES ASSUME op[g] \in {"nbsend", "nbrecv"} PROVE g \in refusable
      OBVIOUS
    <3>2. cases[g] = {Only(g)}
      BY <1>2, <3>1, OnlyCase DEF Plain
    <3>3. ~Proceeds(Only(g))
      BY <3>2
    <3>4. QED
      BY <1>2, <3>1, <3>3 DEF Refused
  <2>2. QED
    BY <1>5, <2>1 DEF Refusing
<1>12. QED
  BY <1>1, <1>4, <1>5, <1>6, <1>7, <1>8, <1>9, <1>10, <1>11, SoloStep

\* One list after the other.
LEMMA ConcatFacts ==
    ASSUME NEW D, NEW s \in Seq(D), NEW t \in Seq(D)
    PROVE  /\ s \o t \in Seq(D) /\ Len(s \o t) = Len(s) + Len(t) /\ DOMAIN (s \o t) = 1..Len(s) + Len(t)
           /\ \A i \in 1..Len(s) + Len(t) : (s \o t)[i] = IF i <= Len(s) THEN s[i] ELSE t[i - Len(s)]
OBVIOUS

\* Two lists without common elements, one after the other.
LEMMA Chained ==
    ASSUME NEW D, NEW s \in Seq(D), NEW t \in Seq(D), Distinct(s), Distinct(t), ToSet(s) \cap ToSet(t) = {}
    PROVE  s \o t \in Seq(D) /\ Distinct(s \o t) /\ ToSet(s \o t) = ToSet(s) \cup ToSet(t)
<1> DEFINE u == s \o t
<1>1. /\ Len(s) \in Nat /\ DOMAIN s = 1..Len(s) /\ Len(t) \in Nat /\ DOMAIN t = 1..Len(t)
      /\ u \in Seq(D) /\ DOMAIN u = 1..Len(s) + Len(t)
      /\ \A i \in 1..Len(s) + Len(t) : u[i] = IF i <= Len(s) THEN s[i] ELSE t[i - Len(s)]
  OBVIOUS
<1> HIDE DEF u
<1>2. \A i \in DOMAIN u : \/ i \in DOMAIN s /\ u[i] = s[i]
                          \/ i \notin DOMAIN s /\ i - Len(s) \in DOMAIN t /\ u[i] = t[i - Len(s)]
  BY <1>1
<1>3. \A i \in DOMAIN s : i \in DOMAIN u /\ u[i] = s[i]
  BY <1>1
<1>4. \A i \in DOMAIN t : i + Len(s) \in DOMAIN u /\ u[i + Len(s)] = t[i]
  BY <1>1
<1>5. \A i \in DOMAIN s, j \in DOMAIN t : s[i] # t[j]
  BY DEF ToSet
<1>6. ASSUME NEW i \in DOMAIN u, NEW j \in DOMAIN u, u[i] = u[j] PROVE i = j
  <2>1. CASE i \in DOMAIN s /\ j \in DOMAIN s
    BY <1>2, <1>6, <2>1 DEF Distinct
  <2>2. CASE i \notin DOMAIN s /\ j \notin DOMAIN s
    <3>1. i - Len(s) = j - Len(s)
      BY <1>2, <1>6, <2>2 DEF Distinct
    <3>2. QED
      BY <1>1, <3>1
  <2>3. QED
    BY <1>2, <1>5, <1>6, <2>1, <2>2
<1>7. ToSet(u) = ToSet(s) \cup ToSet(t)
  <2>1. ToSet(u) \subseteq ToSet(s) \cup ToSet(t)
    BY <1>2 DEF ToSet
  <2>2. ToSet(s) \subseteq ToSet(u)
    BY <1>3 DEF ToSet
  <2>3. ToSet(t) \subseteq ToSet(u)
    BY <1>4 DEF ToSet
  <2>4. QED
    BY <2>1, <2>2, <2>3
<1>8. QED
  BY <1>1, <1>6, <1>7 DEF Distinct, u

\* There are finitely many cases.
LEMMA FiniteCases == IsFiniteSet(Case)
<1> DEFINE P == (C \X {"send", "recv"}) \X Nr
           f == [k \in Case |-> <<<<k[1], k[2]>>, k[3]>>]
<1>1. IsFiniteSet(C) /\ IsFiniteSet(Nr)
  BY ChanAssumption
<1>2. IsFiniteSet({"send", "recv"})
  <2>1. {"send", "recv"} = {"send"} \cup {"recv"}
    OBVIOUS
  <2>2. IsFiniteSet({"send"}) /\ IsFiniteSet({"recv"})
    BY FS_Singleton
  <2>3. IsFiniteSet({"send"} \cup {"recv"})
    BY <2>2, FS_Union
  <2>4. QED
    BY <2>1, <2>3
<1>3. IsFiniteSet(P)
  <2>1. IsFiniteSet(C \X {"send", "recv"})
    BY <1>1, <1>2, FS_Product
  <2>2. QED
    BY <1>1, <2>1, FS_Product
<1>4. \A k \in Case : f[k] \in P /\ k = <<f[k][1][1], f[k][1][2], f[k][2]>>
  BY DEF Case
<1>5. \A j, k \in Case : f[j] = f[k] => j = k
  BY <1>4
<1>6. f \in Injection(Case, P)
  BY <1>4, <1>5 DEF Injection, IsInjective
<1>7. QED
  BY <1>3, <1>6, FS_Injection

\* The sudogs of a goroutine in some order.
LEMMA Ordered ==
    ASSUME NEW g \in G, NEW S \in SUBSET Case, NEW order \in SetToSeqs({g} \X S)
    PROVE  order \in Seq(Sudog) /\ Distinct(order) /\ ToSet(order) = {g} \X S
<1> DEFINE T == {g} \X S
           D == 1..Cardinality(T)
<1>1. IsFiniteSet(T)
  <2>1. IsFiniteSet(S)
    BY FiniteCases, FS_Subset
  <2>2. IsFiniteSet({g})
    BY FS_Singleton
  <2>3. QED
    BY <2>1, <2>2, FS_Product
<1>2. Cardinality(T) \in Nat
  BY <1>1, FS_CardinalityType
<1>3. T \subseteq Sudog
  BY DEF Sudog
<1>4. order \in [D -> T] /\ \A i, j \in D : i # j => order[i] # order[j]
  BY DEF SetToSeqs
<1> HIDE DEF T
<1>5. IsFiniteSet(D) /\ Cardinality(D) = Cardinality(T)
  <2>1. 1 \in Int /\ Cardinality(T) \in Int
    BY <1>2
  <2>2. IsFiniteSet(D) /\ Cardinality(D) = IF 1 > Cardinality(T) THEN 0 ELSE Cardinality(T) - 1 + 1
    BY <2>1, FS_Interval
  <2>3. QED
    BY <1>2, <2>2
<1>6. order \in Injection(D, T)
  BY <1>4 DEF Injection, IsInjective
<1>7. order \in Surjection(D, T)
  BY <1>1, <1>5, <1>6, FS_Injection
<1>8. ToSet(order) = T
  BY <1>4, <1>7 DEF Surjection, ToSet
<1>9. order \in Seq(Sudog) /\ DOMAIN order = D
  BY <1>2, <1>3, <1>4
<1>10. QED
  BY <1>4, <1>8, <1>9 DEF Distinct, T

\* What a goroutine that goes to sleep adds to each queue: its sudogs for that queue.
LEMMA Queued ==
    ASSUME Typed, NEW g \in G, Enqueue(g)
    PROVE  \E more \in [Queue -> Seq(Sudog)] :
              /\ q' = [w \in Queue |-> LookedAt(cases[g])[w] \o more[w]]
              /\ \A w \in Queue : /\ Distinct(more[w])
                                  /\ ToSet(more[w]) = {<<g, k>> : k \in {k \in cases[g] : Way(k) = w}}
<1>1. PICK order \in SetToSeqs({g} \X cases[g]) :
         q' = [w \in Queue |-> LookedAt(cases[g])[w]
                                   \o At(order, {i \in DOMAIN order : Way(order[i][2]) = w})]
  BY DEF Enqueue
<1>2. cases[g] \in SUBSET Case
  BY DEF Typed
<1>3. order \in Seq(Sudog) /\ Distinct(order) /\ ToSet(order) = {g} \X cases[g]
  BY <1>1, <1>2, Ordered
<1> DEFINE P(w) == {i \in DOMAIN order : Way(order[i][2]) = w}
           more == [w \in Queue |-> At(order, P(w))]
<1>4. ASSUME NEW w \in Queue
      PROVE  /\ At(order, P(w)) \in Seq(Sudog) /\ Distinct(At(order, P(w)))
             /\ ToSet(At(order, P(w))) = {<<g, k>> : k \in {k \in cases[g] : Way(k) = w}}
  <2>1. P(w) \in SUBSET DOMAIN order
    OBVIOUS
  <2>2. /\ At(order, P(w)) \in Seq(Sudog) /\ Distinct(At(order, P(w)))
        /\ ToSet(At(order, P(w))) = {order[i] : i \in P(w)}
    BY <1>3, <2>1, AtProperties
  <2>3. \A i \in DOMAIN order : \E k \in cases[g] : order[i] = <<g, k>> /\ order[i][2] = k
    BY <1>3 DEF ToSet
  <2>4. \A k \in cases[g] : \E i \in DOMAIN order : order[i] = <<g, k>> /\ order[i][2] = k
    <3>1. TAKE k \in cases[g]
    <3>2. <<g, k>> \in ToSet(order) /\ <<g, k>>[2] = k
      BY <1>3
    <3>3. PICK i \in DOMAIN order : order[i] = <<g, k>>
      BY <3>2 DEF ToSet
    <3>4. QED
      BY <3>2, <3>3
  <2>5. {order[i] : i \in P(w)} = {<<g, k>> : k \in {k \in cases[g] : Way(k) = w}}
    BY <2>3, <2>4
  <2>6. QED
    BY <2>2, <2>5
<1>5. more \in [Queue -> Seq(Sudog)]
  BY <1>4
<1>6. q' = [w \in Queue |-> LookedAt(cases[g])[w] \o more[w]]
  BY <1>1
<1>7. \A w \in Queue : /\ Distinct(more[w])
                       /\ ToSet(more[w]) = {<<g, k>> : k \in {k \in cases[g] : Way(k) = w}}
  BY <1>4
<1>8. QED
  BY <1>5, <1>6, <1>7

\* g goes to sleep.
LEMMA EnqueueStep ==
    ASSUME IInv, NEW g \in G, pc[g] \in {"lock", "sellock"}, op[g] \in {"send", "recv", "select"},
           \A k \in cases[g] : ~Proceeds(k), Enqueue(g),
           UNCHANGED <<ring, elem, param, selectDone, glist, moved>>,
           UNCHANGED <<dataqsiz, closed, calls, op, cases, val>>, selunlock(g), Witness
    PROVE  IInv'
<1>1. PICK Q : Q = LookedAt(cases[g])
  OBVIOUS
<1>2. pc' = [pc EXCEPT ![g] = "parked"] /\ UNCHANGED <<qcount, buf, sendx, recvx>>
  BY DEF Enqueue, Goto, ring
<1>3. Typed /\ OnceEach /\ Decided(g) /\ Begun(g)
  BY DEF IInv
<1>4. cases[g] \in SUBSET Case
  BY <1>3 DEF Typed
<1>5. Thins(Q) /\ \A w \in Queue : Standing(w) \subseteq ToSet(Q[w])
  BY <1>1, <1>4, LookedQueues
<1>6. /\ ~InHand(g) /\ ~selectDone[g] /\ glist[g] = <<>>
      /\ \A w \in Queue : g \notin Waiters(w) /\ \A x \in ToSet(q[w]) : x[1] # g
      /\ param[g] = NoCase /\ moved[g] = 0
  BY Nowhere
<1>7. /\ q' \in [Queue -> Seq(Sudog)]
      /\ \A w \in Queue :
            /\ Distinct(q'[w])
            /\ ToSet(q'[w]) = ToSet(Q[w]) \cup {<<g, k>> : k \in {k \in cases[g] : Way(k) = w}}
            /\ (\A k \in cases[g] : Way(k) # w) => q'[w] = Q[w]
  <2>1. PICK more \in [Queue -> Seq(Sudog)] :
              /\ q' = [w \in Queue |-> Q[w] \o more[w]]
              /\ \A w \in Queue : /\ Distinct(more[w])
                                  /\ ToSet(more[w]) = {<<g, k>> : k \in {k \in cases[g] : Way(k) = w}}
    BY <1>1, <1>3, Queued
  <2>2. ASSUME NEW w \in Queue
        PROVE  /\ q'[w] \in Seq(Sudog) /\ Distinct(q'[w])
               /\ ToSet(q'[w]) = ToSet(Q[w]) \cup {<<g, k>> : k \in {k \in cases[g] : Way(k) = w}}
               /\ (\A k \in cases[g] : Way(k) # w) => q'[w] = Q[w]
    <3>1. PICK u \in Seq(Sudog) : u = more[w]
      OBVIOUS
    <3>2. PICK v \in Seq(Sudog) : v = Q[w] /\ Distinct(v) /\ \A x \in ToSet(v) : x[1] # g
      BY <1>5, <1>6 DEF Thins
    <3>3. Distinct(u) /\ ToSet(u) = {<<g, k>> : k \in {k \in cases[g] : Way(k) = w}}
      BY <2>1, <3>1
    <3>4. ToSet(v) \cap ToSet(u) = {}
      BY <3>2, <3>3
    <3>5. v \o u \in Seq(Sudog) /\ Distinct(v \o u) /\ ToSet(v \o u) = ToSet(v) \cup ToSet(u)
      BY <3>2, <3>3, <3>4, Chained
    <3>6. q'[w] = v \o u
      BY <2>1, <3>1, <3>2
    <3>7. (\A k \in cases[g] : Way(k) # w) => u = <<>>
      <4>1. (\A k \in cases[g] : Way(k) # w) => ToSet(u) = {}
        BY <3>3
      <4>2. u # <<>> => 1 \in DOMAIN u /\ u[1] \in ToSet(u)
        BY DEF ToSet
      <4>3. QED
        BY <4>1, <4>2
    <3>8. v \o <<>> = v
      OBVIOUS
    <3>9. QED
      BY <3>2, <3>3, <3>5, <3>6, <3>7, <3>8
  <2>3. q' = [w \in Queue |-> q'[w]]
    BY <2>1
  <2>4. QED
    BY <2>2, <2>3
<1>8. \A w \in Queue : Waiters(w)' = IF \E k \in cases[g] : Way(k) = w THEN Waiters(w) \cup {g} ELSE Waiters(w)
  <2>1. TAKE w \in Queue
  <2>2. Standing(w)' = {x \in ToSet(q'[w]) : ~selectDone[x[1]]}
    BY DEF Standing
  <2>3. {x \in ToSet(Q[w]) : ~selectDone[x[1]]} = Standing(w)
    BY <1>5 DEF Standing, Thins
  <2>4. Standing(w)' = Standing(w) \cup {<<g, k>> : k \in {k \in cases[g] : Way(k) = w}}
    <3>1. \A k \in cases[g] : ~selectDone[<<g, k>>[1]]
      BY <1>6
    <3>2. QED
      BY <1>7, <2>2, <2>3, <3>1
  <2>5. Waiters(w) = {x[1] : x \in Standing(w)} /\ Waiters(w)' = {x[1] : x \in Standing(w)'}
    BY DEF Waiters
  <2>6. \A k \in cases[g] : <<g, k>>[1] = g
    OBVIOUS
  <2>7. CASE \E k \in cases[g] : Way(k) = w
    <3>1. g \in Waiters(w)'
      BY <2>4, <2>5, <2>6, <2>7
    <3>2. Waiters(w) \subseteq Waiters(w)' /\ Waiters(w)' \subseteq Waiters(w) \cup {g}
      BY <2>4, <2>5, <2>6
    <3>3. QED
      BY <2>7, <3>1, <3>2
  <2>8. CASE \A k \in cases[g] : Way(k) # w
    <3>1. Standing(w)' = Standing(w)
      BY <2>4, <2>8
    <3>2. QED
      BY <2>5, <2>8, <3>1
  <2>9. QED
    BY <2>7, <2>8
<1>9. \A k \in cases[g] : /\ ~closed[k[1]] /\ Waiters(Partner(k)) = {} /\ k \in Case
                          /\ k[2] = "send" => ~(qcount[k[1]] < dataqsiz[k[1]])
                          /\ k[2] = "recv" => ~(qcount[k[1]] > 0)
  BY <1>3, <1>4, ProceedsMeans
<1>10. pc'[g] = "parked"
  BY <1>2, <1>3 DEF Typed
<1>11. Typed'
  <2>1. pc' \in [G -> Control]
    BY <1>2, <1>3 DEF Typed, Control
  <2>2. q' \in [Queue -> Seq(Sudog)]
    BY <1>7
  <2>3. lock' \in [C -> G \cup {NoG}]
    BY <1>3 DEF selunlock, Typed
  <2>4. refusable' \subseteq G
    BY <1>3 DEF Witness, Typed
  <2>5. QED
    BY <1>2, <1>3, <2>1, <2>2, <2>3, <2>4 DEF Typed
<1>12. OnceEach'
  BY <1>3, <1>7 DEF OnceEach
<1>13. \A c \in C : Ring(c)'
  BY <1>2 DEF IInv, Ring
<1>14. ASSUME NEW w \in Queue PROVE Reason(w)'
  <2>1. /\ w[1] \in C /\ w[2] \in {"send", "recv"} /\ Partner(w) \in Queue /\ Partner(Partner(w)) = w
    BY QueueFacts
  <2>2. Reason(w) /\ Ring(w[1])
    BY <2>1 DEF IInv
  <2>3. ASSUME NEW k \in cases[g], Way(k) = w
        PROVE  /\ ~closed[w[1]] /\ Waiters(Partner(w)) = {}
               /\ w[2] = "send" => ~(qcount[w[1]] < dataqsiz[w[1]])
               /\ w[2] = "recv" => ~(qcount[w[1]] > 0)
    BY <1>9, <2>3, CaseFacts
  <2>4. closed'[w[1]] => q'[w] = <<>>
    BY <1>5, <1>7, <2>3 DEF Thins
  <2>5. ASSUME NEW k \in cases[g], Way(k) = Partner(w) PROVE Waiters(w) = {}
    BY <1>9, <2>1, <2>5, CaseFacts
  <2>6. CASE \E k \in cases[g] : Way(k) = w
    <3>1. Waiters(Partner(w)) = {}
      BY <2>3, <2>6
    <3>2. Waiters(w)' = Waiters(w) \cup {g}
      BY <1>8, <2>6
    <3>3. /\ Waiters(Partner(w))' \subseteq {g}
          /\ Waiters(w) # {} => Waiters(Partner(w))' = {}
      BY <1>8, <2>1, <2>5, <3>1
    <3>4. qcount[w[1]] = IF w[2] = "send" THEN dataqsiz[w[1]] ELSE 0
      <4>1. qcount[w[1]] \in Nat /\ dataqsiz[w[1]] \in Nat /\ qcount[w[1]] <= dataqsiz[w[1]]
        BY <1>3, <2>1, <2>2 DEF Typed, Ring, RingOf
      <4>2. QED
        BY <2>1, <2>3, <2>6, <4>1
    <3>5. \A h \in Waiters(w)' : Waiters(Partner(w))' \subseteq {h}
      BY <3>2, <3>3
    <3>6. QED
      BY <1>2, <2>4, <3>4, <3>5 DEF Reason
  <2>7. CASE \A k \in cases[g] : Way(k) # w
    <3>1. Waiters(w)' = Waiters(w)
      BY <1>8, <2>7
    <3>2. CASE \E k \in cases[g] : Way(k) = Partner(w)
      <4>1. Waiters(w)' = {}
        BY <2>5, <3>1, <3>2
      <4>2. QED
        BY <2>4, <4>1 DEF Reason
    <3>3. CASE \A k \in cases[g] : Way(k) # Partner(w)
      <4>1. Waiters(Partner(w))' = Waiters(Partner(w))
        BY <1>8, <2>1, <3>3
      <4>2. QED
        BY <1>2, <2>2, <2>4, <3>1, <4>1, ReasonKept
    <3>4. QED
      BY <3>2, <3>3
  <2>8. QED
    BY <2>6, <2>7
<1>15. ClosedStay
  BY <1>2 DEF ClosedStay
<1>16. \A h \in G : InHand(h)' <=> InHand(h)
  BY DEF InHand
<1>17. \A h \in G \ {g} : SameLocals(h)
  BY <1>2, <1>3, OthersSame
<1>18. ASSUME NEW h \in G, h # g PROVE Kept(h)' /\ Refusing(h)
  <2>1. SamePlaces(h)
    <3>1. \A w \in Queue : \A x \in ToSet(q'[w]) : x[1] = h => x \in ToSet(q[w])
      <4>1. SUFFICES ASSUME NEW w \in Queue, NEW x \in ToSet(q'[w]), x[1] = h PROVE x \in ToSet(q[w])
        OBVIOUS
      <4>2. \A k \in cases[g] : <<g, k>>[1] # h
        BY <1>18
      <4>3. x \in ToSet(Q[w])
        BY <1>7, <4>1, <4>2
      <4>4. QED
        BY <1>5, <4>3 DEF Thins
    <3>2. ~selectDone[h] => \A w \in Queue : \A x \in ToSet(q[w]) : x[1] = h => x \in ToSet(q'[w])
      BY <1>5, <1>7 DEF Standing
    <3>3. QED
      BY <1>16, <3>1, <3>2 DEF SamePlaces
  <2>2. Kept(h)
    BY DEF IInv, Kept
  <2>3. QED
    BY <1>3, <1>15, <1>17, <1>18, <2>1, <2>2, Bystander, RefusingSame
<1>19. Kept(g)' /\ Refusing(g)
  <2>1. ~InHand(g)' /\ ~selectDone'[g]
    BY <1>6, <1>16
  <2>2. Begun(g)'
    BY <1>3, <1>10 DEF Begun
  <2>3. Decided(g)'
    BY <1>6, <1>10, <2>1 DEF Decided
  <2>4. ASSUME NEW w \in Queue, NEW x \in ToSet(q'[w]), x[1] = g PROVE x[2] \in cases[g] /\ Way(x[2]) = w
    <3>1. x \notin ToSet(Q[w])
      BY <1>5, <1>6, <2>4 DEF Thins
    <3>2. PICK k \in cases[g] : x = <<g, k>> /\ Way(k) = w
      BY <1>7, <3>1
    <3>3. QED
      BY <3>2
  <2>5. Placed(g)'
    <3>1. \A k \in cases[g] : Way(k) \in Queue /\ <<g, k>> \in ToSet(q'[Way(k)])
      BY <1>4, <1>7, CaseFacts
    <3>2. QED
      BY <1>6, <1>10, <2>1, <2>4, <3>1 DEF Placed
  <2>6. Refusing(g)
    BY <1>10 DEF Refusing
  <2>7. QED
    BY <2>2, <2>3, <2>5, <2>6 DEF Kept
<1>20. \A h \in G : Kept(h)' /\ Refusing(h)
  BY <1>18, <1>19
<1>21. \A h \in G : Locked(h)'
  <2>1. \A h \in G : Locked(h)
    BY DEF IInv
  <2>2. QED
    BY <1>3, <1>17, <2>1, LocksReleased
<1>22. QED
  BY <1>11, <1>12, <1>13, <1>14, <1>20, <1>21, <1>15, Assembled

\* A sleeper that a dequeue finds.
LEMMA Found ==
    ASSUME IInv, NEW w \in Queue, NEW x \in Standing(w)
    PROVE  /\ x \in Sudog /\ x = <<x[1], x[2]>> /\ x[1] \in G /\ x \in ToSet(q[w])
           /\ x[2] \in cases[x[1]] /\ x[2] \in Case /\ Way(x[2]) = w /\ ~selectDone[x[1]]
           /\ pc[x[1]] = "parked" /\ ~InHand(x[1]) /\ param[x[1]] = NoCase /\ moved[x[1]] = 0 /\ glist[x[1]] = <<>>
           /\ op[x[1]] \in {"send", "recv", "select"}
           /\ op[x[1]] # "select" => cases[x[1]] = {x[2]}
           /\ w[2] = "send" => val[x[1]][x[2]] \in Val
<1>1. Typed /\ OnceEach
  BY DEF IInv
<1>2. x \in ToSet(q[w]) /\ ~selectDone[x[1]]
  BY DEF Standing
<1>3. x \in Sudog /\ x = <<x[1], x[2]>> /\ x[1] \in G /\ x[2] \in Case
  BY <1>1, <1>2, InQueue, SudogFacts
<1>4. Begun(x[1]) /\ Decided(x[1]) /\ Placed(x[1])
  BY <1>3 DEF IInv
<1>5. x[2] \in cases[x[1]] /\ Way(x[2]) = w /\ pc[x[1]] = "parked" /\ ~InHand(x[1]) /\ glist[x[1]] = <<>>
  BY <1>2, <1>4 DEF Placed
<1>6. param[x[1]] = NoCase /\ moved[x[1]] = 0
  <2>1. moved[x[1]] \in 0..1
    BY <1>1, <1>3 DEF Typed
  <2>2. QED
    BY <1>4, <1>5, <2>1 DEF Decided
<1>7. op[x[1]] \in {"send", "recv", "select"}
  BY <1>4, <1>5 DEF Begun
<1>8. op[x[1]] # "select" => cases[x[1]] = {x[2]}
  BY <1>4, <1>5, <1>7 DEF Begun, Plain
<1>9. w[2] = "send" => val[x[1]][x[2]] \in Val
  <2>1. w[2] = "send" => x[2] \in Sends(cases[x[1]])
    BY <1>3, <1>5, CaseFacts DEF Sends
  <2>2. QED
    BY <1>4, <2>1 DEF Begun
<1>10. QED
  BY <1>2, <1>3, <1>5, <1>6, <1>7, <1>8, <1>9

\* The one-element list.
LEMMA Single ==
    ASSUME NEW p \in G
    PROVE  <<p>> \in Seq(G) /\ Distinct(<<p>>) /\ ToSet(<<p>>) = {p}
<1>1. DOMAIN <<p>> = {1} /\ <<p>>[1] = p /\ <<p>> \in Seq(G)
  OBVIOUS
<1>2. QED
  BY <1>1 DEF Distinct, ToSet

\* g and the sleeper p, the first that waits for the partner of k, meet.
LEMMA HandshakeStep ==
    ASSUME IInv, NEW g \in G, NEW k \in Case, Working(g, k), NEW x \in Standing(Partner(k)), Thins(q'),
           \A j \in Queue : Standing(j) \ {x} \subseteq ToSet(q'[j]),
           x \notin ToSet(q'[Partner(k)]),
           Handshake(g, k, x), UNCHANGED qcount,
           sendx' \in [C -> Nat], recvx' \in [C -> Nat], buf' = [c \in C |-> buf'[c]],
           \A c \in C : Ring(c)',
           NEW o \in {g, x[1]}, NEW v \in Val, elem' = [elem EXCEPT ![o] = v]
    PROVE  IInv'
<1>1. PICK p : p = x[1]
  OBVIOUS
<1>2. /\ param' = [param EXCEPT ![g] = k, ![p] = x[2]]
      /\ selectDone' = [selectDone EXCEPT ![p] = op[p] \in Selecting]
      /\ glist' = [glist EXCEPT ![g] = <<p>>]
      /\ moved' = [moved EXCEPT ![g] = @ + 1, ![p] = @ + 1]
      /\ pc' = [pc EXCEPT ![g] = "ready"]
  BY <1>1 DEF Handshake, Goto
<1>3. /\ pc[g] \in {"lock", "sellock"} /\ UNCHANGED <<dataqsiz, closed, calls, op, cases, val>>
      /\ selunlock(g) /\ Witness /\ op[g] # "close" /\ k \in cases[g]
  BY DEF Working
<1>4. Typed /\ OnceEach
  BY DEF IInv
<1>5. Partner(k) \in Queue /\ k # NoCase /\ \A j \in Case : j # NoCase
  BY CaseFacts
<1>6. /\ p \in G /\ x[2] \in cases[p] /\ x[2] \in Case /\ ~selectDone[p]
      /\ x = <<p, x[2]>> /\ Way(x[2]) = Partner(k)
      /\ pc[p] = "parked" /\ ~InHand(p) /\ param[p] = NoCase /\ moved[p] = 0 /\ glist[p] = <<>>
      /\ op[p] \in {"send", "recv", "select"}
      /\ op[p] # "select" => cases[p] = {x[2]}
  <2>1. PICK w \in Queue : w = Partner(k)
    BY <1>5
  <2>2. x \in Standing(w)
    BY <2>1
  <2>3. QED
    BY <1>1, <2>1, <2>2, Found
<1>7. p # g
  BY <1>3, <1>6
<1>8. ~InHand(g) /\ ~selectDone[g] /\ glist[g] = <<>> /\ moved[g] = 0
      /\ \A w \in Queue : \A y \in ToSet(q[w]) : y[1] # g
  BY <1>3, Nowhere
<1>9. \A h \in G : /\ param'[h] = IF h = g THEN k ELSE IF h = p THEN x[2] ELSE param[h]
                   /\ moved'[h] = IF h = g \/ h = p THEN 1 ELSE moved[h]
                   /\ pc'[h] = IF h = g THEN "ready" ELSE pc[h]
                   /\ glist'[h] = IF h = g THEN <<p>> ELSE glist[h]
                   /\ h # g /\ h # p => elem'[h] = elem[h]
  BY <1>1, <1>2, <1>4, <1>6, <1>7, <1>8 DEF Typed
<1>10. \A h \in G : selectDone'[h] = IF h = p THEN op[p] = "select" ELSE selectDone[h]
  BY <1>2, <1>4, <1>6 DEF Typed, Selecting
<1>11. <<p>> \in Seq(G) /\ Distinct(<<p>>) /\ ToSet(<<p>>) = {p}
  BY <1>6, Single
<1>12. ASSUME NEW h \in G PROVE InHand(h)' <=> InHand(h) \/ h = p
  <2>1. ToSet(<<>>) = {}
    BY DEF ToSet
  <2>2. \A r \in G : h \in ToSet(glist'[r]) <=> h \in ToSet(glist[r]) \/ (r = g /\ h = p)
    BY <1>8, <1>9, <1>11, <2>1
  <2>3. QED
    BY <2>2 DEF InHand, Held
<1>13. Typed'
  <2>1. pc' \in [G -> Control]
    BY <1>2, <1>4 DEF Typed, Control
  <2>2. param' \in [G -> Case \cup {NoCase}]
    BY <1>2, <1>4, <1>6 DEF Typed
  <2>3. moved' \in [G -> 0..1]
    <3>1. moved \in [G -> 0..1] /\ DOMAIN moved' = G /\ moved' = [h \in G |-> moved'[h]]
      BY <1>2, <1>4 DEF Typed
    <3>2. \A h \in G : moved'[h] \in 0..1
      BY <1>9, <3>1
    <3>3. QED
      BY <3>1, <3>2
  <2>4. selectDone' \in [G -> BOOLEAN]
    <3>1. (op[p] \in Selecting) \in BOOLEAN
      OBVIOUS
    <3>2. selectDone \in [G -> BOOLEAN]
      BY <1>4 DEF Typed
    <3>3. QED
      BY <1>2, <3>1, <3>2, Zenon
  <2>5. glist' \in [G -> Seq(G)]
    BY <1>2, <1>4, <1>11 DEF Typed
  <2>6. elem' \in [G -> Val \cup {Zero, NoVal}]
    BY <1>1, <1>4, <1>6 DEF Typed
  <2>7. q' \in [Queue -> Seq(Sudog)]
    BY DEF Thins
  <2>8. QED
    BY <1>3, <1>4, <2>1, <2>2, <2>3, <2>4, <2>5, <2>6, <2>7, WorkingFacts DEF Typed
<1>14. OnceEach'
  <2>1. \A j \in Queue : Distinct(q'[j])
    BY DEF Thins
  <2>2. \A h \in G : Distinct(glist'[h])
    BY <1>4, <1>9, <1>11 DEF OnceEach
  <2>3. ASSUME NEW h1 \in G, NEW h2 \in G, NEW y \in ToSet(glist'[h1]), y \in ToSet(glist'[h2]) PROVE h1 = h2
    <3>1. \A h \in G : p \notin ToSet(glist[h])
      BY <1>6 DEF InHand, Held
    <3>2. QED
      BY <1>4, <1>9, <1>11, <2>3, <3>1 DEF OnceEach
  <2>4. QED
    BY <2>1, <2>2, <2>3 DEF OnceEach
<1>15. ASSUME NEW j \in Queue PROVE Waiters(j)' \subseteq Waiters(j)
  <2>1. Standing(j)' = {y \in ToSet(q'[j]) : ~selectDone'[y[1]]}
    BY DEF Standing
  <2>2. ToSet(q'[j]) \subseteq ToSet(q[j]) /\ \A y \in ToSet(q[j]) : y[1] \in G
    BY <1>4, InQueue, SudogFacts DEF Thins
  <2>3. ASSUME NEW y \in ToSet(q'[j]), ~selectDone'[y[1]] PROVE y \in ToSet(q[j]) /\ ~selectDone[y[1]]
    BY <1>6, <1>10, <2>2, <2>3
  <2>4. Standing(j)' \subseteq Standing(j)
    BY <2>1, <2>3 DEF Standing
  <2>5. QED
    BY <2>4 DEF Waiters
<1>16. ASSUME NEW j \in Queue PROVE Reason(j)'
  <2>1. Reason(j) /\ Partner(j) \in Queue
    BY QueueFacts DEF IInv
  <2>2. closed'[j[1]] => q'[j] = <<>>
    BY <1>3 DEF Thins
  <2>3. QED
    BY <1>3, <1>15, <2>1, <2>2, ReasonKept
<1>17. ClosedStay
  BY <1>3 DEF ClosedStay
<1>18. ASSUME NEW h \in G, h # g, h # p PROVE Kept(h)' /\ Refusing(h) /\ SameLocals(h)
  <2>1. SamePlaces(h)
    <3>1. \A w \in Queue : \A y \in ToSet(q'[w]) : y[1] = h => y \in ToSet(q[w])
      BY DEF Thins
    <3>2. ~selectDone[h] => \A w \in Queue : \A y \in ToSet(q[w]) : y[1] = h => y \in ToSet(q'[w])
      BY <1>1, <1>18 DEF Standing
    <3>3. QED
      BY <1>12, <1>18, <3>1, <3>2 DEF SamePlaces
  <2>2. SameLocals(h)
    BY <1>3, <1>9, <1>10, <1>18 DEF SameLocals
  <2>3. Kept(h)
    BY DEF IInv, Kept
  <2>4. QED
    BY <1>4, <1>17, <2>1, <2>2, <2>3, Bystander, RefusingSame
<1>19. Kept(p)' /\ Refusing(p)
  <2>1. InHand(p)' /\ pc'[p] = "parked" /\ param'[p] = x[2] /\ moved'[p] = 1 /\ glist'[p] = <<>>
        /\ (selectDone'[p] <=> op[p] = "select")
    BY <1>6, <1>7, <1>9, <1>10, <1>12
  <2>2. Begun(p)
    BY <1>6 DEF IInv
  <2>3. Begun(p)'
    BY <1>3, <1>6, <2>1, <2>2 DEF Begun
  <2>4. Decided(p)'
    BY <1>3, <1>5, <1>6, <2>1 DEF Decided
  <2>5. ASSUME NEW w \in Queue, NEW y \in ToSet(q'[w]), y[1] = p
        PROVE  y[2] \in cases[p] /\ Way(y[2]) = w /\ op[p] = "select"
    <3>1. y \in ToSet(q[w]) /\ y = <<y[1], y[2]>>
      BY <1>4, <2>5, InQueue, SudogFacts DEF Thins
    <3>2. Placed(p)
      BY <1>6 DEF IInv
    <3>3. y[2] \in cases[p] /\ Way(y[2]) = w
      BY <2>5, <3>1, <3>2 DEF Placed
    <3>4. ASSUME op[p] # "select" PROVE FALSE
      <4>1. y = x
        BY <1>6, <2>5, <3>1, <3>3, <3>4
      <4>2. w = Partner(k)
        BY <1>6, <3>3, <4>1
      <4>3. QED
        BY <2>5, <4>1, <4>2
    <3>5. QED
      BY <3>3, <3>4
  <2>6. Placed(p)'
    BY <1>3, <2>1, <2>5 DEF Placed
  <2>7. Refusing(p)
    BY <1>3, <1>6, <2>1 DEF Refusing
  <2>8. QED
    BY <2>3, <2>4, <2>6, <2>7 DEF Kept
<1>20. Kept(g)' /\ Refusing(g)
  <2>1. ~InHand(g)' /\ pc'[g] = "ready" /\ param'[g] = k /\ moved'[g] = 1 /\ ~selectDone'[g]
    BY <1>7, <1>8, <1>9, <1>10, <1>12
  <2>2. Begun(g)
    BY DEF IInv
  <2>3. Begun(g)'
    BY <1>3, <2>1, <2>2 DEF Begun
  <2>4. Decided(g)'
    BY <1>3, <1>5, <2>1 DEF Decided
  <2>5. Placed(g)'
    BY <1>8, <2>1 DEF Placed, Thins
  <2>6. Refusing(g)
    BY <1>3, <2>1 DEF Refusing
  <2>7. QED
    BY <2>3, <2>4, <2>5, <2>6 DEF Kept
<1>21. \A h \in G : Kept(h)' /\ Refusing(h)
  BY <1>18, <1>19, <1>20
<1>22. ASSUME NEW h \in G PROVE Locked(h)'
  <2>1. Locked(h)
    BY DEF IInv
  <2>2. CASE h # p
    BY <1>3, <1>4, <1>18, <2>1, <2>2, LocksReleased
  <2>3. CASE h = p
    <3>1. Holds(p) = {}
      BY <1>6, <2>1, <2>3 DEF Locked
    <3>2. Holds(p)' = {}
      BY <1>3, <1>6, <3>1, ChanAssumption DEF Holds, selunlock
    <3>3. QED
      BY <2>1, <2>3, <3>2, LockedKept
  <2>4. QED
    BY <2>2, <2>3
<1>23. QED
  BY <1>3, <1>13, <1>14, <1>16, <1>21, <1>22, <1>17, Assembled

\* send, to a blocked receiver.
LEMMA GiveStep ==
    ASSUME IInv, NEW g \in G, NEW k \in Case, Working(g, k), NEW x \in Standing(Partner(k)), Thins(q'),
           \A j \in Queue : Standing(j) \ {x} \subseteq ToSet(q'[j]),
           x \notin ToSet(q'[Partner(k)]),
           k[2] = "send", Handshake(g, k, x), UNCHANGED ring, elem' = [elem EXCEPT ![x[1]] = val[g][k]]
    PROVE  IInv'
<1>1. UNCHANGED <<qcount, buf, sendx, recvx, dataqsiz>>
  BY DEF ring, Working
<1>2. PICK v \in Val : v = val[g][k]
  BY WorkingFacts
<1>3. sendx' \in [C -> Nat] /\ recvx' \in [C -> Nat] /\ buf' = [c \in C |-> buf'[c]]
  BY <1>1 DEF IInv, Typed
<1>4. \A c \in C : Ring(c)'
  BY <1>1 DEF IInv, Ring
<1>5. elem' = [elem EXCEPT ![x[1]] = v] /\ x[1] \in {g, x[1]}
  BY <1>2
<1>6. QED
  BY <1>1, <1>3, <1>4, <1>5, HandshakeStep

\* recv, from a blocked sender.
LEMMA GetStep ==
    ASSUME IInv, NEW g \in G, NEW k \in Case, Working(g, k), NEW x \in Standing(Partner(k)), Thins(q'),
           \A j \in Queue : Standing(j) \ {x} \subseteq ToSet(q'[j]),
           x \notin ToSet(q'[Partner(k)]), x = Head(Live(q[Partner(k)])),
           k[2] = "recv", RecvFromSender(g, k)
    PROVE  IInv'
<1>1. PICK c \in C : c = k[1]
  BY CaseFacts
<1>2. PICK v \in Val : v = val[x[1]][x[2]]
  <2>1. Partner(k) \in Queue /\ Partner(k)[2] = "send"
    BY CaseFacts
  <2>2. QED
    BY <2>1, Found
<1>3. Ring(c) /\ qcount[c] \in Nat /\ dataqsiz[c] \in Nat /\ sendx[c] \in Nat /\ recvx[c] \in Nat
  BY <1>1, WorkingFacts
<1>4. Handshake(g, k, x) /\ UNCHANGED dataqsiz
  BY DEF RecvFromSender, Working
<1>5. Typed
  BY DEF IInv
<1>6. CASE dataqsiz[c] = 0
  <2>1. elem' = [elem EXCEPT ![g] = v] /\ UNCHANGED <<qcount, buf, sendx, recvx>>
    BY <1>1, <1>2, <1>6 DEF RecvFromSender, ring
  <2>2. \A d \in C : Ring(d)'
    BY <1>4, <2>1 DEF IInv, Ring
  <2>3. sendx' \in [C -> Nat] /\ recvx' \in [C -> Nat] /\ buf' = [d \in C |-> buf'[d]]
    BY <1>5, <2>1 DEF Typed
  <2>4. QED
    BY <1>4, <2>1, <2>2, <2>3, HandshakeStep
<1>7. CASE dataqsiz[c] # 0
  <2>1. PICK b : b = [buf[c] EXCEPT ![recvx[c]] = v]
    OBVIOUS
  <2>2. PICK n \in Nat : n = Wrap(recvx[c], dataqsiz[c])
    BY <1>3 DEF Wrap
  <2>3. /\ elem' = [elem EXCEPT ![g] = buf[c][recvx[c]]]
        /\ buf' = [buf EXCEPT ![c] = b]
        /\ recvx' = [recvx EXCEPT ![c] = n]
        /\ sendx' = [sendx EXCEPT ![c] = recvx'[c]]
        /\ UNCHANGED qcount
    BY <1>1, <1>2, <1>5, <1>7, <2>1, <2>2 DEF RecvFromSender, Inc, Wrap, Typed
  <2>4. recvx'[c] = n
    BY <1>5, <2>3 DEF Typed
  <2>5. qcount[c] = dataqsiz[c]
    <3>1. Partner(k) \in Queue /\ Partner(k)[1] = c /\ Partner(k)[2] = "send"
      BY <1>1, CaseFacts
    <3>2. Reason(Partner(k))
      BY <3>1 DEF IInv
    <3>3. x[1] \in Waiters(Partner(k))
      BY DEF Waiters
    <3>4. QED
      BY <3>1, <3>2, <3>3 DEF Reason
  <2>6. RingOf(dataqsiz[c], qcount[c], b, n, n)
    <3>1. RingOf(dataqsiz[c], qcount[c], buf[c], sendx[c], recvx[c]) /\ dataqsiz[c] > 0
      BY <1>3, <1>7 DEF Ring
    <3>2. QED
      BY <1>3, <2>1, <2>2, <2>5, <3>1, RingSwap
  <2>7. PICK u \in Val : u = buf[c][recvx[c]]
    BY <1>3, <1>7, <2>5, RingSlots DEF Ring
  <2>8. ASSUME NEW d \in C PROVE Ring(d)'
    <3>1. CASE d = c
      <4>1. buf'[c] = b /\ sendx'[c] = n
        BY <1>5, <2>3, <2>4 DEF Typed
      <4>2. QED
        BY <1>4, <2>3, <2>4, <2>6, <3>1, <4>1 DEF Ring
    <3>2. CASE d # c
      <4>1. buf'[d] = buf[d] /\ sendx'[d] = sendx[d] /\ recvx'[d] = recvx[d]
        BY <1>5, <2>3, <3>2 DEF Typed
      <4>2. Ring(d)
        BY DEF IInv
      <4>3. QED
        BY <1>4, <2>3, <4>1, <4>2 DEF Ring
    <3>3. QED
      BY <3>1, <3>2
  <2>9. sendx' \in [C -> Nat] /\ recvx' \in [C -> Nat] /\ buf' = [d \in C |-> buf'[d]]
    BY <1>5, <2>3, <2>4 DEF Typed
  <2>10. elem' = [elem EXCEPT ![g] = u]
    BY <2>3, <2>7
  <2>11. QED
    BY <1>4, <2>3, <2>8, <2>9, <2>10, HandshakeStep
<1>8. QED
  BY <1>6, <1>7

\* Case k of g goes on, after the cases in looked have been found not to be ready.
LEMMA TryStep ==
    ASSUME IInv, NEW g \in G, NEW k, Working(g, k),
           NEW looked \in SUBSET Case, \A j \in looked : ~Proceeds(j), DequeueFor(k, looked),
           TrySend(g, k) \/ TryRecv(g, k)
    PROVE  IInv'
<1>1. k \in Case /\ Partner(k) \in Queue /\ k[1] \in C /\ Partner(k)[1] = k[1]
  BY WorkingFacts, CaseFacts
<1>2. Typed /\ OnceEach
  BY DEF IInv
<1>3. /\ Thins(q')
      /\ \A j \in Queue : j # Partner(k) => Standing(j) \subseteq ToSet(q'[j])
      /\ Waiters(Partner(k)) # {} =>
            /\ Head(Live(q[Partner(k)])) \in Standing(Partner(k))
            /\ Head(Live(q[Partner(k)])) \notin ToSet(q'[Partner(k)])
            /\ Standing(Partner(k)) \ {Head(Live(q[Partner(k)]))} \subseteq ToSet(q'[Partner(k)])
  BY <1>1, DequeuedQueues
<1>4. Live(q[Partner(k)]) = <<>> <=> Waiters(Partner(k)) = {}
  BY <1>1, <1>2, LiveOf
<1>5. closed[k[1]] => Waiters(Partner(k)) = {}
  <2>1. Reason(Partner(k))
    BY <1>1 DEF IInv
  <2>2. QED
    BY <1>1, <2>1 DEF Reason, Waiters, Standing, ToSet
<1>6. Waiters(Partner(k)) = {} => \A j \in Queue : Standing(j) \subseteq ToSet(q'[j])
  <2>1. Waiters(Partner(k)) = {} => Standing(Partner(k)) = {}
    BY <1>1, <1>2, LiveOf
  <2>2. QED
    BY <1>3, <2>1
<1>7. Waiters(Partner(k)) # {} =>
         \E x \in Standing(Partner(k)) :
            /\ x = Head(Live(q[Partner(k)])) /\ x \notin ToSet(q'[Partner(k)])
            /\ \A j \in Queue : Standing(j) \ {x} \subseteq ToSet(q'[j])
  BY <1>3
<1>8. CASE closed[k[1]] /\ SendPanics(g, k)
  BY <1>3, <1>5, <1>6, <1>8, PanicStep
<1>9. CASE k[2] = "send" /\ Waiters(Partner(k)) # {} /\ SendToReceiver(g, k)
  <2>1. PICK x \in Standing(Partner(k)) :
            /\ x = Head(Live(q[Partner(k)])) /\ x \notin ToSet(q'[Partner(k)])
            /\ \A j \in Queue : Standing(j) \ {x} \subseteq ToSet(q'[j])
    BY <1>7, <1>9
  <2>2. Handshake(g, k, x) /\ UNCHANGED ring /\ elem' = [elem EXCEPT ![x[1]] = val[g][k]]
    BY <1>9, <2>1 DEF SendToReceiver
  <2>3. QED
    BY <1>1, <1>3, <1>9, <2>1, <2>2, GiveStep
<1>10. CASE /\ k[2] = "send" /\ ~closed[k[1]] /\ Waiters(Partner(k)) = {} /\ qcount[k[1]] < dataqsiz[k[1]]
            /\ SendToBuffer(g, k)
  BY <1>3, <1>6, <1>10, PutStep
<1>11. CASE closed[k[1]] /\ RecvZero(g, k)
  BY <1>3, <1>5, <1>6, <1>11, ZeroStep
<1>12. CASE k[2] = "recv" /\ Waiters(Partner(k)) # {} /\ RecvFromSender(g, k)
  <2>1. PICK x \in Standing(Partner(k)) :
            /\ x = Head(Live(q[Partner(k)])) /\ x \notin ToSet(q'[Partner(k)])
            /\ \A j \in Queue : Standing(j) \ {x} \subseteq ToSet(q'[j])
    BY <1>7, <1>12
  <2>2. QED
    BY <1>1, <1>3, <1>12, <2>1, GetStep
<1>13. CASE k[2] = "recv" /\ Waiters(Partner(k)) = {} /\ qcount[k[1]] > 0 /\ RecvFromBuffer(g, k)
  BY <1>3, <1>6, <1>13, TakeStep
<1>14. QED
  BY <1>4, <1>8, <1>9, <1>10, <1>11, <1>12, <1>13 DEF TrySend, TryRecv, ReceiverWaiting

\* Operate.
LEMMA OperateStep == ASSUME IInv, NEW g \in G, Operate(g) PROVE IInv'
<1>1. PICK k : k = Only(g)
  OBVIOUS
<1>2. /\ pc[g] = "lock" /\ op[g] # "close"
      /\ UNCHANGED <<dataqsiz, closed, lock, calls, op, cases, val>> /\ Witness
  BY DEF Operate, call
<1>3. Typed /\ Begun(g) /\ Locked(g)
  BY DEF IInv
<1>4. op[g] \in Plain
  BY <1>2, <1>3 DEF Begun
<1>5. k \in Case /\ cases[g] = {k}
  BY <1>1, <1>2, <1>3, <1>4, OnlyCase
<1>6. selunlock(g)
  BY <1>2, <1>3, HoldsNothing
<1>7. CASE DequeueFor(k, {}) /\ (TrySend(g, k) \/ TryRecv(g, k))
  <2>1. Working(g, k)
    BY <1>2, <1>5, <1>6 DEF Working
  <2>2. QED
    BY <1>7, <2>1, TryStep
<1>8. CASE /\ ~Proceeds(k) /\ op[g] \in {"send", "recv"} /\ Enqueue(g)
           /\ UNCHANGED <<ring, elem, param, selectDone, glist, moved>>
  BY <1>2, <1>5, <1>6, <1>8, EnqueueStep
<1>9. CASE /\ ~Proceeds(k) /\ op[g] \in {"nbsend", "nbrecv"} /\ Refuse(g)
           /\ UNCHANGED <<ring, elem, param, selectDone, glist, moved>>
  BY <1>2, <1>5, <1>6, <1>9, RefuseStep
<1>10. QED
  BY <1>1, <1>7, <1>8, <1>9 DEF Operate

\* PassOne.
LEMMA PassOneStep == ASSUME IInv, NEW g \in G, PassOne(g) PROVE IInv'
<1>1. /\ pc[g] = "sellock" /\ selunlock(g) /\ Witness
      /\ UNCHANGED <<dataqsiz, closed, calls, op, cases, val>>
  BY DEF PassOne, call
<1>2. op[g] \in Selecting /\ cases[g] \subseteq Case
  BY <1>1 DEF IInv, Begun, Typed
<1>3. CASE \E k \in cases[g] :
             /\ \E looked \in SUBSET {j \in cases[g] : ~Proceeds(j)} : DequeueFor(k, looked)
             /\ TrySend(g, k) \/ TryRecv(g, k)
  <2>1. PICK k \in cases[g] :
             /\ \E looked \in SUBSET {j \in cases[g] : ~Proceeds(j)} : DequeueFor(k, looked)
             /\ TrySend(g, k) \/ TryRecv(g, k)
    BY <1>3
  <2>2. PICK looked \in SUBSET {j \in cases[g] : ~Proceeds(j)} : DequeueFor(k, looked)
    BY <2>1
  <2>3. Working(g, k)
    BY <1>1, <1>2 DEF Working, Selecting
  <2>4. looked \in SUBSET Case /\ \A j \in looked : ~Proceeds(j)
    BY <1>2
  <2>5. QED
    BY <2>1, <2>2, <2>3, <2>4, TryStep
<1>4. CASE /\ \A k \in cases[g] : ~Proceeds(k)
           /\ IF op[g] = "selectdefault" THEN Refuse(g) ELSE Enqueue(g)
           /\ UNCHANGED <<ring, elem, param, selectDone, glist, moved>>
  <2>1. CASE op[g] = "selectdefault"
    BY <1>1, <1>4, <2>1, RefuseStep
  <2>2. CASE op[g] # "selectdefault"
    BY <1>1, <1>2, <1>4, <2>2, EnqueueStep DEF Selecting
  <2>3. QED
    BY <2>1, <2>2
<1>5. QED
  BY <1>3, <1>4 DEF PassOne

-----------------------------------------------------------------------------
\* close.

\* A list turned round.
LEMMA Turned ==
    ASSUME NEW D, NEW s \in Seq(D), Distinct(s)
    PROVE  Reverse(s) \in Seq(D) /\ Distinct(Reverse(s)) /\ ToSet(Reverse(s)) = ToSet(s)
<1> DEFINE t == Reverse(s)
<1>1. Len(s) \in Nat /\ DOMAIN s = 1..Len(s) /\ \A i \in 1..Len(s) : s[i] \in D
  OBVIOUS
<1>2. \A i \in 1..Len(s) : (Len(s) - i) + 1 \in 1..Len(s)
  BY <1>1
<1>3. t \in Seq(D) /\ DOMAIN t = 1..Len(s) /\ \A i \in 1..Len(s) : t[i] = s[(Len(s) - i) + 1]
  BY <1>1, <1>2 DEF Reverse
<1> HIDE DEF t
<1>4. ASSUME NEW i \in 1..Len(s), NEW j \in 1..Len(s), t[i] = t[j] PROVE i = j
  <2>1. (Len(s) - i) + 1 = (Len(s) - j) + 1
    BY <1>1, <1>2, <1>3, <1>4 DEF Distinct
  <2>2. QED
    BY <1>1, <2>1
<1>5. ToSet(t) \subseteq ToSet(s)
  BY <1>1, <1>2, <1>3 DEF ToSet
<1>6. ASSUME NEW i \in 1..Len(s) PROVE s[i] \in ToSet(t)
  <2>1. PICK j \in 1..Len(s) : j = (Len(s) - i) + 1
    BY <1>2
  <2>2. (Len(s) - j) + 1 = i
    BY <1>1, <2>1
  <2>3. t[j] = s[i]
    BY <1>3, <2>2
  <2>4. QED
    BY <1>3, <2>3 DEF ToSet
<1>7. ToSet(s) \subseteq ToSet(t)
  BY <1>1, <1>6 DEF ToSet
<1>8. QED
  BY <1>3, <1>4, <1>5, <1>7 DEF Distinct, t

\* The goroutines of a list of sudogs.
OwnersOf(s) == [i \in DOMAIN s |-> s[i][1]]

\* The same for a list that is put together, or turned round.
LEMMA OwnersListed ==
    ASSUME NEW s \in Seq(Sudog), NEW t \in Seq(Sudog)
    PROVE  /\ OwnersOf(s) \in Seq(G) /\ ToSet(OwnersOf(s)) = Owners(s)
           /\ OwnersDiffer(s) => Distinct(OwnersOf(s))
           /\ OwnersOf(s \o t) = OwnersOf(s) \o OwnersOf(t)
           /\ OwnersOf(Reverse(s)) = Reverse(OwnersOf(s))
<1>1. /\ Len(s) \in Nat /\ DOMAIN s = 1..Len(s) /\ Len(t) \in Nat /\ DOMAIN t = 1..Len(t)
      /\ \A i \in DOMAIN s : s[i][1] \in G /\ \A j \in DOMAIN t : t[j][1] \in G
  BY DEF Sudog
<1>2. /\ OwnersOf(s) \in Seq(G) /\ Len(OwnersOf(s)) = Len(s) /\ DOMAIN OwnersOf(s) = DOMAIN s
      /\ \A i \in DOMAIN s : OwnersOf(s)[i] = s[i][1]
  BY <1>1 DEF OwnersOf
<1>3. \A i \in DOMAIN t : t[i][1] \in G
  BY DEF Sudog
<1>4. /\ OwnersOf(t) \in Seq(G) /\ Len(OwnersOf(t)) = Len(t) /\ DOMAIN OwnersOf(t) = DOMAIN t
      /\ \A i \in DOMAIN t : OwnersOf(t)[i] = t[i][1]
  BY <1>1, <1>3 DEF OwnersOf
<1>5. ToSet(OwnersOf(s)) = Owners(s)
  BY <1>2 DEF ToSet, Owners
<1>6. OwnersDiffer(s) => Distinct(OwnersOf(s))
  BY <1>2 DEF OwnersDiffer, Distinct
<1>7. OwnersOf(s \o t) = OwnersOf(s) \o OwnersOf(t)
  <2>1. PICK u : u = s \o t
    OBVIOUS
  <2>2. DOMAIN u = 1..Len(s) + Len(t) /\ Len(u) = Len(s) + Len(t)
        /\ \A i \in 1..Len(s) + Len(t) : u[i] = IF i <= Len(s) THEN s[i] ELSE t[i - Len(s)]
    BY <2>1, ConcatFacts
  <2>3. PICK a \in Seq(G), b \in Seq(G) : a = OwnersOf(s) /\ b = OwnersOf(t)
    BY <1>2, <1>4
  <2>4. PICK d : d = a \o b
    OBVIOUS
  <2>5. d \in Seq(G) /\ DOMAIN d = 1..Len(s) + Len(t)
        /\ \A i \in 1..Len(s) + Len(t) : d[i] = IF i <= Len(s) THEN a[i] ELSE b[i - Len(s)]
    <3>1. Len(a) = Len(s) /\ Len(b) = Len(t)
      BY <1>2, <1>4, <2>3
    <3>2. d \in Seq(G) /\ DOMAIN d = 1..Len(a) + Len(b)
          /\ \A i \in 1..Len(a) + Len(b) : d[i] = IF i <= Len(a) THEN a[i] ELSE b[i - Len(a)]
      BY <2>3, <2>4, ConcatFacts
    <3>3. QED
      BY <3>1, <3>2
  <2>6. ASSUME NEW i \in 1..Len(s) + Len(t) PROVE d[i] = u[i][1]
    <3>1. CASE i <= Len(s)
      <4>1. i \in DOMAIN s
        BY <1>1, <3>1
      <4>2. QED
        BY <1>2, <2>2, <2>3, <2>5, <3>1, <4>1
    <3>2. CASE ~(i <= Len(s))
      <4>1. i - Len(s) \in DOMAIN t
        BY <1>1, <3>2
      <4>2. QED
        BY <1>4, <2>2, <2>3, <2>5, <3>2, <4>1
    <3>3. QED
      BY <3>1, <3>2
  <2>7. d = [i \in DOMAIN u |-> u[i][1]]
    <3>1. d = [i \in DOMAIN d |-> d[i]]
      BY <2>5
    <3>2. QED
      BY <2>2, <2>5, <2>6, <3>1
  <2>8. QED
    BY <2>1, <2>3, <2>4, <2>7 DEF OwnersOf
<1>8. OwnersOf(Reverse(s)) = Reverse(OwnersOf(s))
  <2>1. \A i \in 1..Len(s) : (Len(s) - i) + 1 \in DOMAIN s
    BY <1>1
  <2>2. DOMAIN Reverse(s) = 1..Len(s) /\ \A i \in 1..Len(s) : Reverse(s)[i] = s[(Len(s) - i) + 1]
    BY <1>1 DEF Reverse
  <2>3. OwnersOf(Reverse(s)) = [i \in 1..Len(s) |-> s[(Len(s) - i) + 1][1]]
    BY <2>2 DEF OwnersOf
  <2>4. Reverse(OwnersOf(s)) = [i \in 1..Len(s) |-> OwnersOf(s)[(Len(s) - i) + 1]]
    BY <1>2 DEF Reverse
  <2>5. \A i \in 1..Len(s) : OwnersOf(s)[(Len(s) - i) + 1] = s[(Len(s) - i) + 1][1]
    BY <1>2, <2>1
  <2>6. QED
    BY <2>3, <2>4, <2>5
<1>9. QED
  BY <1>2, <1>5, <1>6, <1>7, <1>8

\* Those that closechan readies: everyone who waits at the channel, once.
LEMMA ReleasedOnce ==
    ASSUME IInv, NEW c \in C
    PROVE  /\ Released(c) \in Seq(G) /\ Distinct(Released(c))
           /\ ToSet(Released(c)) = Waiters(<<c, "recv">>) \cup Waiters(<<c, "send">>)
           /\ Owners(Live(q[<<c, "recv">>])) = Waiters(<<c, "recv">>)
<1>1. <<c, "recv">> \in Queue /\ <<c, "send">> \in Queue
  BY QueueFacts
<1>2. Typed /\ OnceEach
  BY DEF IInv
<1>3. PICK r : r = Live(q[<<c, "recv">>])
  OBVIOUS
<1>4. r \in Seq(Sudog) /\ OwnersDiffer(r) /\ Owners(r) = Waiters(<<c, "recv">>)
  BY <1>1, <1>2, <1>3, LiveOf
<1>5. PICK s : s = q[<<c, "send">>]
  OBVIOUS
<1>6. s \in Seq(Sudog)
  BY <1>1, <1>2, <1>5 DEF Typed
<1>7. /\ Waiting(s) \in SUBSET DOMAIN s
      /\ \A i, j \in Waiting(s) : s[i][1] = s[j][1] => i = j
  <2>1. Waiting(s) = LiveAt(s, selectDone)
    BY DEF Waiting, LiveAt
  <2>2. QED
    BY <1>6, <2>1, LiveFirst
<1>8. PICK S \in SUBSET DOMAIN s : S = {i \in Waiting(s) : s[i][1] \notin Owners(r)}
  BY <1>7
<1>9. PICK w : w = At(s, S)
  OBVIOUS
<1>10. w \in Seq(Sudog) /\ ToSet(w) = {s[i] : i \in S} /\ OwnersDiffer(w)
  <2>1. \A i, j \in S : s[i][1] = s[j][1] => i = j
    BY <1>7, <1>8
  <2>2. QED
    BY <1>6, <1>9, <2>1, AtProperties, OwnersAt
<1>11. Owners(w) = Waiters(<<c, "send">>) \ Owners(r)
  <2>1. Waiters(<<c, "send">>) = {s[i][1] : i \in Waiting(s)}
    <3>1. Waiters(<<c, "send">>) = Owners(At(s, Waiting(s)))
      BY <1>1, <1>2, <1>5, LiveOf DEF Live
    <3>2. ToSet(At(s, Waiting(s))) = {s[i] : i \in Waiting(s)}
      BY <1>6, <1>7, AtProperties
    <3>3. Owners(At(s, Waiting(s))) = {x[1] : x \in ToSet(At(s, Waiting(s)))}
      BY DEF Owners, ToSet
    <3>4. QED
      BY <3>1, <3>2, <3>3
  <2>2. Owners(w) = {x[1] : x \in ToSet(w)}
    BY DEF Owners, ToSet
  <2>3. Owners(w) = {s[i][1] : i \in S}
    BY <1>10, <2>2
  <2>4. QED
    BY <1>8, <2>1, <2>3
<1>12. PICK a \in Seq(G), b \in Seq(G) :
          /\ a = OwnersOf(r) /\ b = OwnersOf(w) /\ Distinct(a) /\ Distinct(b)
          /\ ToSet(a) = Owners(r) /\ ToSet(b) = Owners(w)
  BY <1>4, <1>10, OwnersListed
<1>13. a \o b \in Seq(G) /\ Distinct(a \o b) /\ ToSet(a \o b) = ToSet(a) \cup ToSet(b)
  <2>1. ToSet(a) \cap ToSet(b) = {}
    BY <1>11, <1>12
  <2>2. QED
    BY <1>12, <2>1, Chained
<1>14. /\ Reverse(a \o b) \in Seq(G) /\ Distinct(Reverse(a \o b))
       /\ ToSet(Reverse(a \o b)) = ToSet(a) \cup ToSet(b)
  BY <1>13, Turned
<1>15. Released(c) = Reverse(a \o b)
  <2>1. r \o w \in Seq(Sudog)
    BY <1>4, <1>10
  <2>2. Released(c) = OwnersOf(Reverse(r \o w))
    BY <1>3, <1>5, <1>8, <1>9 DEF Released, OwnersOf
  <2>3. OwnersOf(Reverse(r \o w)) = Reverse(OwnersOf(r \o w))
    BY <2>1, OwnersListed
  <2>4. OwnersOf(r \o w) = a \o b
    BY <1>4, <1>10, <1>12, OwnersListed
  <2>5. QED
    BY <2>2, <2>3, <2>4
<1>16. QED
  BY <1>3, <1>4, <1>11, <1>12, <1>14, <1>15

\* closechan, of an open channel.
LEMMA CloseNow ==
    ASSUME IInv, NEW g \in G, pc[g] = "lock", op[g] = "close", NEW c \in C, ~closed[c],
           closed' = [closed EXCEPT ![c] = TRUE],
           q' = [q EXCEPT ![<<c, "recv">>] = <<>>, ![<<c, "send">>] = <<>>],
           elem' = [h \in G |-> IF h \in Owners(Live(q[<<c, "recv">>])) /\ op[h] = "recv" THEN Zero ELSE elem[h]],
           selectDone' = [h \in G |-> selectDone[h] \/ (h \in ToSet(Released(c)) /\ op[h] \in Selecting)],
           glist' = [glist EXCEPT ![g] = Released(c)],
           pc' = [pc EXCEPT ![g] = "ready"],
           UNCHANGED <<qcount, buf, sendx, recvx, dataqsiz, lock, calls, op, cases, val, param, moved>>,
           Witness
    PROVE  IInv'
<1>1. <<c, "recv">> \in Queue /\ <<c, "send">> \in Queue
  BY QueueFacts
<1>2. Typed /\ OnceEach
  BY DEF IInv
<1>3. PICK L : L = Released(c)
  OBVIOUS
<1>4. PICK R : R = Waiters(<<c, "recv">>) \cup Waiters(<<c, "send">>)
  OBVIOUS
<1>5. /\ L \in Seq(G) /\ Distinct(L) /\ ToSet(L) = R
      /\ Owners(Live(q[<<c, "recv">>])) = Waiters(<<c, "recv">>)
  BY <1>3, <1>4, ReleasedOnce
<1>6. /\ ~InHand(g) /\ ~selectDone[g] /\ glist[g] = <<>>
      /\ \A j \in Queue : g \notin Waiters(j) /\ \A x \in ToSet(q[j]) : x[1] # g
      /\ param[g] = NoCase /\ moved[g] = 0
  BY Nowhere
<1>7. \A h \in R : /\ h \in G /\ h # g /\ ~selectDone[h]
                   /\ pc[h] = "parked" /\ ~InHand(h) /\ param[h] = NoCase /\ moved[h] = 0 /\ glist[h] = <<>>
                   /\ op[h] \in {"send", "recv", "select"}
  <2>1. SUFFICES ASSUME NEW w \in Queue, NEW h \in Waiters(w)
                 PROVE  /\ h \in G /\ h # g /\ ~selectDone[h]
                        /\ pc[h] = "parked" /\ ~InHand(h) /\ param[h] = NoCase /\ moved[h] = 0
                        /\ glist[h] = <<>> /\ op[h] \in {"send", "recv", "select"}
    BY <1>1, <1>4
  <2>2. PICK x \in Standing(w) : x[1] = h
    BY DEF Waiters
  <2>3. QED
    BY <1>6, <2>2, Found
<1>8. \A h \in G : /\ pc'[h] = IF h = g THEN "ready" ELSE pc[h]
                   /\ glist'[h] = IF h = g THEN L ELSE glist[h]
                   /\ elem'[h] = IF h \in Waiters(<<c, "recv">>) /\ op[h] = "recv" THEN Zero ELSE elem[h]
  BY <1>2, <1>3, <1>5 DEF Typed
<1>9. \A h \in G : selectDone'[h] <=> selectDone[h] \/ (h \in R /\ op[h] = "select")
  <2>1. \A h \in G : selectDone'[h] <=> selectDone[h] \/ (h \in R /\ op[h] \in Selecting)
    BY <1>3, <1>5
  <2>2. \A h \in R : op[h] \in Selecting <=> op[h] = "select"
    BY <1>7 DEF Selecting
  <2>3. QED
    BY <2>1, <2>2
<1>10. \A j \in Queue : q'[j] = IF j[1] = c THEN <<>> ELSE q[j]
  <2>1. \A j \in Queue : j[1] = c <=> j = <<c, "recv">> \/ j = <<c, "send">>
    BY QueueFacts
  <2>2. \A j \in Queue : q'[j] = IF j = <<c, "recv">> \/ j = <<c, "send">> THEN <<>> ELSE q[j]
    BY <1>1, <1>2 DEF Typed
  <2>3. QED
    BY <2>1, <2>2
<1>11. ASSUME NEW h \in G PROVE InHand(h)' <=> InHand(h) \/ h \in R
  <2>1. ToSet(<<>>) = {}
    BY DEF ToSet
  <2>2. \A r \in G : h \in ToSet(glist'[r]) <=> h \in ToSet(glist[r]) \/ (r = g /\ h \in R)
    BY <1>5, <1>6, <1>8, <2>1
  <2>3. QED
    BY <2>2 DEF InHand, Held
<1>12. Typed'
  <2>1. pc' \in [G -> Control]
    BY <1>2 DEF Typed, Control
  <2>2. closed' \in [C -> BOOLEAN]
    <3>1. closed \in [C -> BOOLEAN]
      BY <1>2 DEF Typed
    <3>2. QED
      BY <3>1, Zenon
  <2>3. q' \in [Queue -> Seq(Sudog)]
    <3>1. q \in [Queue -> Seq(Sudog)] /\ <<>> \in Seq(Sudog)
      BY <1>2 DEF Typed
    <3>2. QED
      BY <3>1
  <2>4. selectDone' \in [G -> BOOLEAN]
    <3>1. \A h \in G : (selectDone[h] \/ (h \in ToSet(Released(c)) /\ op[h] \in Selecting)) \in BOOLEAN
      OBVIOUS
    <3>2. QED
      BY <3>1, Zenon
  <2>5. glist' \in [G -> Seq(G)]
    BY <1>2, <1>3, <1>5 DEF Typed
  <2>6. elem' \in [G -> Val \cup {Zero, NoVal}]
    BY <1>2 DEF Typed
  <2>7. refusable' \subseteq G
    BY <1>2 DEF Witness, Typed
  <2>8. QED
    BY <1>2, <2>1, <2>2, <2>3, <2>4, <2>5, <2>6, <2>7 DEF Typed
<1>13. OnceEach'
  <2>1. \A j \in Queue : Distinct(q'[j])
    BY <1>2, <1>10 DEF OnceEach, Distinct
  <2>2. \A h \in G : Distinct(glist'[h])
    BY <1>2, <1>5, <1>8 DEF OnceEach
  <2>3. ASSUME NEW h1 \in G, NEW h2 \in G, NEW x \in ToSet(glist'[h1]), x \in ToSet(glist'[h2]) PROVE h1 = h2
    <3>1. \A h \in G : \A y \in R : y \notin ToSet(glist[h])
      BY <1>7 DEF InHand, Held
    <3>2. QED
      BY <1>2, <1>5, <1>8, <2>3, <3>1 DEF OnceEach
  <2>4. QED
    BY <2>1, <2>2, <2>3 DEF OnceEach
<1>14. \A c1 \in C : Ring(c1)'
  BY DEF IInv, Ring
<1>15. ASSUME NEW j \in Queue PROVE ToSet(q'[j]) \subseteq ToSet(q[j]) /\ \A x \in ToSet(q[j]) : x[1] \in G
  <2>1. \A x \in ToSet(q[j]) : x[1] \in G
    BY <1>2, InQueue, SudogFacts
  <2>2. ToSet(<<>>) = {}
    BY DEF ToSet
  <2>3. q'[j] = <<>> \/ q'[j] = q[j]
    BY <1>10
  <2>4. QED
    BY <2>1, <2>2, <2>3
<1>16. ASSUME NEW j \in Queue PROVE Waiters(j)' \subseteq Waiters(j)
  <2>1. Standing(j)' = {x \in ToSet(q'[j]) : ~selectDone'[x[1]]}
    BY DEF Standing
  <2>2. ASSUME NEW x \in ToSet(q'[j]), ~selectDone'[x[1]] PROVE x \in ToSet(q[j]) /\ ~selectDone[x[1]]
    BY <1>9, <1>15, <2>2
  <2>3. Standing(j)' \subseteq Standing(j)
    BY <2>1, <2>2 DEF Standing
  <2>4. QED
    BY <2>3 DEF Waiters
<1>17. ASSUME NEW j \in Queue PROVE Reason(j)'
  <2>1. Reason(j) /\ Partner(j) \in Queue /\ j[1] \in C
    BY QueueFacts DEF IInv
  <2>2. closed'[j[1]] => q'[j] = <<>>
    BY <1>2, <1>10, <2>1 DEF Reason, Typed
  <2>3. QED
    BY <1>16, <2>1, <2>2, ReasonKept
<1>18. ClosedStay
  BY <1>2 DEF ClosedStay, Typed
<1>19. ASSUME NEW h \in G, h # g, h \notin R PROVE Kept(h)' /\ Refusing(h) /\ SameLocals(h)
  <2>1. SamePlaces(h)
    <3>1. \A j \in Queue : \A x \in ToSet(q'[j]) : x[1] = h => x \in ToSet(q[j])
      BY <1>15
    <3>2. ~selectDone[h] => \A j \in Queue : \A x \in ToSet(q[j]) : x[1] = h => x \in ToSet(q'[j])
      <4>1. SUFFICES ASSUME ~selectDone[h], NEW j \in Queue, NEW x \in ToSet(q[j]), x[1] = h
                     PROVE  x \in ToSet(q'[j])
        OBVIOUS
      <4>2. h \in Waiters(j)
        BY <4>1 DEF Waiters, Standing
      <4>3. j[1] # c
        BY <1>4, <1>19, <4>2, QueueFacts
      <4>4. QED
        BY <1>10, <4>1, <4>3
    <3>3. QED
      BY <1>11, <1>19, <3>1, <3>2 DEF SamePlaces
  <2>2. SameLocals(h)
    <3>1. h \notin Waiters(<<c, "recv">>)
      BY <1>4, <1>19
    <3>2. selectDone'[h] = selectDone[h]
      BY <1>2, <1>9, <1>12, <1>19 DEF Typed
    <3>3. QED
      BY <1>8, <1>19, <3>1, <3>2 DEF SameLocals
  <2>3. Kept(h)
    BY DEF IInv, Kept
  <2>4. QED
    BY <1>2, <1>18, <2>1, <2>2, <2>3, Bystander, RefusingSame
<1>20. ASSUME NEW h \in R PROVE Kept(h)' /\ Refusing(h)
  <2>1. /\ h \in G /\ h # g /\ pc[h] = "parked" /\ param[h] = NoCase /\ moved[h] = 0 /\ glist[h] = <<>>
        /\ op[h] \in {"send", "recv", "select"} /\ ~selectDone[h]
    BY <1>7
  <2>2. /\ InHand(h)' /\ pc'[h] = "parked" /\ param'[h] = NoCase /\ moved'[h] = 0 /\ glist'[h] = <<>>
        /\ (selectDone'[h] <=> op[h] = "select")
    BY <1>8, <1>9, <1>11, <2>1
  <2>3. PICK w \in Queue : w[1] = c /\ h \in Waiters(w) /\ w \in {<<c, "recv">>, <<c, "send">>}
    BY <1>1, <1>4
  <2>4. PICK j \in cases[h] : j \in Case /\ Way(j) = w /\ (op[h] # "select" => cases[h] = {j})
    <3>1. PICK x \in Standing(w) : x[1] = h
      BY <2>3 DEF Waiters
    <3>2. QED
      BY <3>1, Found
  <2>5. Begun(h)
    BY <2>1 DEF IInv
  <2>6. Begun(h)'
    BY <2>1, <2>2, <2>5 DEF Begun
  <2>7. closed'[c]
    BY <1>2 DEF Typed
  <2>8. op[h] = "recv" => w = <<c, "recv">>
    <3>1. op[h] = "recv" => j[2] = "recv"
      BY <2>1, <2>4, <2>5 DEF Begun, Plain, Direction
    <3>2. w = <<j[1], j[2]>>
      BY <2>4, CaseFacts
    <3>3. QED
      BY <2>3, <3>1, <3>2
  <2>9. op[h] = "recv" => elem'[h] = Zero /\ qcount'[c] = 0
    <3>1. Reason(w)
      BY DEF IInv
    <3>2. QED
      BY <1>8, <2>1, <2>3, <2>8, <3>1 DEF Reason
  <2>10. Decided(h)'
    <3>1. j[1] = c
      BY <2>3, <2>4, CaseFacts
    <3>2. QED
      BY <2>1, <2>2, <2>4, <2>7, <2>9, <3>1 DEF Decided
  <2>11. ASSUME NEW i \in Queue, NEW x \in ToSet(q'[i]), x[1] = h
         PROVE  x[2] \in cases[h] /\ Way(x[2]) = i /\ op[h] = "select"
    <3>1. ToSet(<<>>) = {}
      BY DEF ToSet
    <3>2. i # w /\ x \in ToSet(q[i])
      BY <1>10, <1>15, <2>3, <2>11, <3>1
    <3>3. Placed(h)
      BY <2>1 DEF IInv
    <3>4. x[2] \in cases[h] /\ Way(x[2]) = i
      BY <2>11, <3>2, <3>3 DEF Placed
    <3>5. QED
      BY <2>4, <3>2, <3>4
  <2>12. Placed(h)'
    BY <2>2, <2>11 DEF Placed
  <2>13. Refusing(h)
    BY <2>1, <2>2 DEF Refusing
  <2>14. QED
    BY <2>6, <2>10, <2>12, <2>13 DEF Kept
<1>21. Kept(g)' /\ Refusing(g)
  <2>1. g \notin R
    BY <1>1, <1>4, <1>6
  <2>2. ~InHand(g)' /\ pc'[g] = "ready" /\ ~selectDone'[g]
    BY <1>6, <1>8, <1>9, <1>11, <2>1
  <2>3. Begun(g)
    BY DEF IInv
  <2>4. Begun(g)'
    BY <2>2, <2>3 DEF Begun
  <2>5. Decided(g)'
    BY <1>6, <2>2 DEF Decided
  <2>6. \A j \in Queue : \A x \in ToSet(q'[j]) : x[1] # g
    BY <1>6, <1>15
  <2>7. Placed(g)'
    BY <2>2, <2>6 DEF Placed
  <2>8. Refusing(g)
    BY <2>2 DEF Refusing
  <2>9. QED
    BY <2>4, <2>5, <2>7, <2>8 DEF Kept
<1>22. \A h \in G : Kept(h)' /\ Refusing(h)
  BY <1>19, <1>20, <1>21
<1>23. ASSUME NEW h \in G PROVE Locked(h)'
  <2>1. Locked(h) /\ Locked(g)
    BY DEF IInv
  <2>2. CASE h \notin R
    <3>1. selunlock(g)
      BY <1>2, <2>1, HoldsNothing
    <3>2. QED
      BY <1>2, <1>19, <2>1, <2>2, <3>1, LocksReleased
  <2>3. CASE h \in R
    <3>1. Holds(h) = {}
      BY <1>7, <2>1, <2>3 DEF Locked
    <3>2. Holds(h)' = {}
      BY <3>1 DEF Holds
    <3>3. QED
      BY <2>1, <3>2, LockedKept
  <2>4. QED
    BY <2>2, <2>3
<1>24. QED
  BY <1>12, <1>13, <1>14, <1>17, <1>22, <1>23, <1>18, Assembled

\* closechan.
LEMMA CloseStep == ASSUME IInv, NEW g \in G, closechan(g) PROVE IInv'
<1>1. PICK c : c = Only(g)[1]
  OBVIOUS
<1>2. /\ pc[g] = "lock" /\ op[g] = "close" /\ Witness
      /\ UNCHANGED <<qcount, buf, sendx, recvx, dataqsiz, lock, calls, op, cases, val, param, moved>>
  BY DEF closechan, ring, call
<1>3. Typed /\ Begun(g) /\ Decided(g) /\ Placed(g)
  BY DEF IInv
<1>4. c \in C
  BY <1>1, <1>2, <1>3, OnlyCase DEF Plain
<1>5. CASE /\ closed[c]
           /\ Goto(g, "panic")
           /\ UNCHANGED <<closed, q, elem, selectDone, glist>>
  <2>1. pc' = [pc EXCEPT ![g] = "panic"]
    BY <1>5 DEF Goto
  <2>2. pc'[g] = "panic"
    BY <1>3, <2>1 DEF Typed
  <2>3. Typed'
    <3>1. pc' \in [G -> Control]
      BY <1>3, <2>1 DEF Typed, Control
    <3>2. refusable' \subseteq G
      BY <1>2, <1>3 DEF Witness, Typed
    <3>3. QED
      BY <1>2, <1>3, <1>5, <3>1, <3>2 DEF Typed
  <2>4. \A h \in G \ {g} : SameLocals(h)
    BY <1>2, <1>3, <1>5, <2>1, OthersSame
  <2>5. Private(g)
    BY <1>2, <1>5, <2>4 DEF Private, ring
  <2>6. Begun(g)'
    BY <1>2, <1>3, <2>2 DEF Begun, Selecting
  <2>7. ~InHand(g) /\ ~InHand(g)'
    BY <1>2, <1>3, <1>5 DEF Placed, InHand
  <2>8. Decided(g)'
    BY <1>2, <1>3, <1>5, <2>2, <2>7 DEF Decided
  <2>9. Refusing(g)
    BY <1>2, <2>2 DEF Refusing
  <2>10. ASSUME NEW h \in G PROVE Locked(h)'
    <3>1. Locked(h) /\ Locked(g)
      BY DEF IInv
    <3>2. selunlock(g)
      BY <1>2, <1>3, <3>1, HoldsNothing
    <3>3. QED
      BY <1>3, <2>4, <3>1, <3>2, LocksReleased
  <2>11. pc[g] \notin {"parked", "woken", "relock", "ready"} /\ pc'[g] \notin {"parked", "woken", "relock"}
    BY <1>2, <2>2
  <2>12. QED
    BY <1>2, <2>3, <2>5, <2>6, <2>8, <2>9, <2>10, <2>11, PrivateStep
<1>6. CASE /\ ~closed[c]
           /\ closed' = [closed EXCEPT ![c] = TRUE]
           /\ q' = [q EXCEPT ![<<c, "recv">>] = <<>>, ![<<c, "send">>] = <<>>]
           /\ elem' = [h \in G |-> IF h \in Owners(Live(q[<<c, "recv">>])) /\ op[h] = "recv"
                                   THEN Zero ELSE elem[h]]
           /\ selectDone' = [h \in G |-> selectDone[h] \/ (h \in ToSet(Released(c)) /\ op[h] \in Selecting)]
           /\ glist' = [glist EXCEPT ![g] = Released(c)]
           /\ Goto(g, "ready")
  <2>1. pc' = [pc EXCEPT ![g] = "ready"]
    BY <1>6 DEF Goto
  <2>2. QED
    BY <1>2, <1>4, <1>6, <2>1, CloseNow
<1>7. QED
  BY <1>1, <1>5, <1>6 DEF closechan

-----------------------------------------------------------------------------
\* The invariant.

\* makechan, before any call.
LEMMA InitStep == Init => IInv
<1> SUFFICES ASSUME Init PROVE IInv
  OBVIOUS
<1>1. PICK s \in Setups : dataqsiz = s.dataqsiz /\ calls = s.calls
  BY DEF Init
<1>2. /\ qcount = [c \in C |-> 0] /\ sendx = [c \in C |-> 0] /\ recvx = [c \in C |-> 0]
      /\ buf = [c \in C |-> [i \in 0..dataqsiz[c] - 1 |-> Zero]]
      /\ closed = [c \in C |-> FALSE] /\ q = [w \in Queue |-> <<>>] /\ lock = [c \in C |-> NoG]
  BY DEF Init
<1>3. /\ pc = [g \in G |-> "idle"] /\ op = [g \in G |-> "none"] /\ cases = [g \in G |-> {}]
      /\ val = [g \in G |-> <<>>] /\ elem = [g \in G |-> NoVal] /\ param = [g \in G |-> NoCase]
      /\ selectDone = [g \in G |-> FALSE] /\ glist = [g \in G |-> <<>>]
      /\ refusable = {} /\ moved = [g \in G |-> 0]
  BY DEF Init
<1>4. dataqsiz \in [C -> Nat] /\ calls \subseteq Call
  BY <1>1, ChanAssumption
<1>5. ToSet(<<>>) = {} /\ Distinct(<<>>) /\ <<>> \in Seq(G) /\ <<>> \in Seq(Sudog)
  BY DEF ToSet, Distinct
<1>6. Typed
  <2>1. buf = [c \in C |-> buf[c]]
    BY <1>2
  <2>2. closed \in [C -> BOOLEAN] /\ selectDone \in [G -> BOOLEAN]
    BY <1>2, <1>3, Zenon
  <2>3. q \in [Queue -> Seq(Sudog)] /\ glist \in [G -> Seq(G)]
    BY <1>2, <1>3, <1>5
  <2>4. QED
    BY <1>2, <1>3, <1>4, <2>1, <2>2, <2>3 DEF Typed, Control
<1>7. OnceEach
  BY <1>2, <1>3, <1>5 DEF OnceEach
<1>8. ASSUME NEW c \in C PROVE Ring(c)
  <2>1. PICK n \in Nat : n = dataqsiz[c]
    BY <1>4
  <2>2. buf[c] = [i \in 0..n - 1 |-> Zero]
    BY <1>2, <2>1
  <2>3. qcount[c] = 0 /\ sendx[c] = 0 /\ recvx[c] = 0
    BY <1>2
  <2>4. \A i \in 0..n - 1 : Offset(0, i, n) >= 0
    BY <2>1 DEF Offset
  <2>5. RingOf(n, 0, buf[c], 0, 0)
    BY <2>1, <2>2, <2>4 DEF RingOf
  <2>6. QED
    BY <2>1, <2>3, <2>5 DEF Ring
<1>9. ASSUME NEW w \in Queue PROVE Reason(w)
  BY <1>2, <1>5 DEF Reason, Waiters, Standing
<1>10. ASSUME NEW g \in G PROVE Begun(g) /\ Decided(g) /\ Placed(g) /\ Locked(g) /\ Refused(g)
  <2>1. /\ pc[g] = "idle" /\ op[g] = "none" /\ cases[g] = {} /\ param[g] = NoCase /\ moved[g] = 0
        /\ ~selectDone[g] /\ glist[g] = <<>> /\ g \notin refusable
    BY <1>3
  <2>2. ~InHand(g)
    BY <1>3, <1>5 DEF InHand, Held
  <2>3. \A w \in Queue : ToSet(q[w]) = {}
    BY <1>2, <1>5
  <2>4. Holds(g) = {}
    BY <1>2, ChanAssumption DEF Holds
  <2>5. Begun(g)
    <3>1. Sends({}) = {} /\ val[g] = <<>>
      BY <1>3 DEF Sends
    <3>2. val[g] \in [Sends(cases[g]) -> Val]
      BY <2>1, <3>1
    <3>3. QED
      BY <2>1, <3>2 DEF Begun
  <2>6. Decided(g)
    BY <2>1, <2>2 DEF Decided
  <2>7. Placed(g)
    BY <2>1, <2>2, <2>3 DEF Placed
  <2>8. Locked(g) /\ Refused(g)
    BY <2>1, <2>4 DEF Locked, Refused
  <2>9. QED
    BY <2>5, <2>6, <2>7, <2>8
<1>11. QED
  BY <1>6, <1>7, <1>8, <1>9, <1>10 DEF IInv

\* Every step.
LEMMA NextStep == IInv /\ [Next]_vars => IInv'
<1> SUFFICES ASSUME IInv, [Next]_vars PROVE IInv'
  OBVIOUS
<1>1. CASE Next
  <2>1. PICK g \in G :
            \/ Begin(g) \/ SendFast(g) \/ RecvFast(g) \/ Operate(g) \/ closechan(g)
            \/ sellock(g) \/ PassOne(g) \/ PassThree(g)
            \/ Ready(g) \/ Resume(g) \/ Return(g)
    BY <1>1 DEF Next
  <2>2. CASE Begin(g)
    BY <2>2, BeginStep
  <2>3. CASE SendFast(g)
    BY <2>3, SendFastStep
  <2>4. CASE RecvFast(g)
    BY <2>4, RecvFastStep
  <2>5. CASE Operate(g)
    BY <2>5, OperateStep
  <2>6. CASE closechan(g)
    BY <2>6, CloseStep
  <2>7. CASE sellock(g)
    BY <2>7, SellockStep
  <2>8. CASE PassOne(g)
    BY <2>8, PassOneStep
  <2>9. CASE PassThree(g)
    BY <2>9, PassThreeStep
  <2>10. CASE Ready(g)
    BY <2>10, ReadyStep
  <2>11. CASE Resume(g)
    BY <2>11, ResumeStep
  <2>12. CASE Return(g)
    BY <2>12, ReturnStep
  <2>13. QED
    BY <2>1, <2>2, <2>3, <2>4, <2>5, <2>6, <2>7, <2>8, <2>9, <2>10, <2>11, <2>12
<1>2. CASE UNCHANGED vars
  <2>1. /\ UNCHANGED <<qcount, buf, sendx, recvx, dataqsiz, closed, q, lock, calls>>
        /\ UNCHANGED <<pc, op, cases, val, elem, param, selectDone, glist, refusable, moved>>
    BY <1>2 DEF vars, hchan, ring, call
  <2>2. Typed' /\ OnceEach'
    BY <2>1 DEF IInv, Typed, OnceEach
  <2>3. \A c \in C : Ring(c)'
    BY <2>1 DEF IInv, Ring
  <2>4. \A w \in Queue : Reason(w)'
    BY <2>1 DEF IInv, Reason, Waiters, Standing
  <2>5. ASSUME NEW g \in G PROVE (Begun(g) /\ Decided(g) /\ Placed(g) /\ Locked(g) /\ Refused(g))'
    <3>1. Begun(g) /\ Decided(g) /\ Placed(g) /\ Locked(g) /\ Refused(g)
      BY DEF IInv
    <3>2. Begun(g)'
      BY <2>1, <3>1 DEF Begun
    <3>3. Decided(g)' /\ Placed(g)'
      BY <2>1, <3>1 DEF Decided, Placed, InHand
    <3>4. Locked(g)'
      BY <2>1, <3>1 DEF Locked, Holds, Channels
    <3>5. Refused(g)'
      BY <2>1, <3>1 DEF Refused, FilledUp, ClosedUnbuffered, Only, Proceeds, Live, Waiting
    <3>6. QED
      BY <3>2, <3>3, <3>4, <3>5
  <2>6. QED
    BY <2>2, <2>3, <2>4, <2>5 DEF IInv
<1>3. QED
  BY <1>1, <1>2

\* The inductive invariant of channels and select: the queues hold the sleepers that
\* nobody is about to ready and the sudogs of finished selects, nobody sleeps who
\* could go on, the ring's indices delimit its values, the locks of a select are
\* taken upwards, and the calls that may be refused are known.
THEOREM Invariance == Spec => []IInv
<1>1. Init => IInv
  BY InitStep
<1>2. IInv /\ [Next]_vars => IInv'
  BY NextStep
<1>3. QED
  BY <1>1, <1>2, PTL DEF Spec

-----------------------------------------------------------------------------
\* What follows from it.

\* A queue in which there is nobody but g.
LEMMA Lonely ==
    ASSUME NEW s \in Seq(Sudog), OwnersDiffer(s), NEW g, Owners(s) \subseteq {g}, s # <<>>
    PROVE  Len(s) = 1
<1>1. Len(s) \in Nat /\ DOMAIN s = 1..Len(s) /\ Len(s) # 0
  OBVIOUS
<1>2. \A i \in 1..Len(s) : s[i][1] = g
  BY <1>1 DEF Owners
<1>3. 1 \in 1..Len(s) /\ Len(s) \in 1..Len(s)
  BY <1>1
<1>4. QED
  BY <1>1, <1>2, <1>3 DEF OwnersDiffer

\* How often g is in a list without repetitions.
LEMMA Occurs ==
    ASSUME NEW D, NEW s \in Seq(D), Distinct(s), NEW g
    PROVE  Cardinality({i \in DOMAIN s : s[i] = g}) = IF g \in ToSet(s) THEN 1 ELSE 0
<1>1. CASE g \in ToSet(s)
  <2>1. PICK i \in DOMAIN s : s[i] = g
    BY <1>1 DEF ToSet
  <2>2. {j \in DOMAIN s : s[j] = g} = {i}
    BY <2>1 DEF Distinct
  <2>3. QED
    BY <1>1, <2>2, FS_Singleton
<1>2. CASE g \notin ToSet(s)
  <2>1. {j \in DOMAIN s : s[j] = g} = {}
    BY <1>2 DEF ToSet
  <2>2. QED
    BY <1>2, <2>1, FS_EmptySet
<1>3. QED
  BY <1>1, <1>2

\* How often g is about to be readied.
LEMMA Hands ==
    ASSUME Typed, OnceEach, NEW g \in G
    PROVE  Cardinality(UNION {{h} \X {i \in DOMAIN glist[h] : glist[h][i] = g} : h \in G})
              = IF InHand(g) THEN 1 ELSE 0
<1> DEFINE places(h) == {i \in DOMAIN glist[h] : glist[h][i] = g}
           all == UNION {{h} \X places(h) : h \in G}
<1>1. CASE InHand(g)
  <2>1. PICK h \in G : g \in ToSet(glist[h])
    BY <1>1 DEF InHand, Held
  <2>2. PICK i \in DOMAIN glist[h] : glist[h][i] = g
    BY <2>1 DEF ToSet
  <2>3. places(h) = {i}
    BY <2>2 DEF OnceEach, Distinct
  <2>4. ASSUME NEW r \in G, r # h PROVE places(r) = {}
    <3>1. g \notin ToSet(glist[r])
      BY <2>1, <2>4 DEF OnceEach
    <3>2. QED
      BY <3>1 DEF ToSet
  <2>5. all = {<<h, i>>}
    <3>1. <<h, i>> \in all
      BY <2>3
    <3>2. ASSUME NEW x \in all PROVE x = <<h, i>>
      <4>1. PICK r \in G : x \in {r} \X places(r)
        OBVIOUS
      <4>2. r = h
        BY <2>4, <4>1
      <4>3. QED
        BY <2>3, <4>1, <4>2
    <3>3. QED
      BY <3>1, <3>2
  <2>6. QED
    BY <1>1, <2>5, FS_Singleton
<1>2. CASE ~InHand(g)
  <2>1. \A h \in G : places(h) = {}
    BY <1>2 DEF InHand, Held, ToSet
  <2>2. all = {}
    BY <2>1
  <2>3. QED
    BY <1>2, <2>2, FS_EmptySet
<1>3. QED
  BY <1>1, <1>2

\* Going round a ring, once at most.
LEMMA Round ==
    ASSUME NEW n \in Nat \ {0}, NEW a \in 0..n - 1, NEW b \in 0..n
    PROVE  (a + b) % n = IF a + b < n THEN a + b ELSE a + b - n
  OBVIOUS

\* The slots in use are those less than cnt away from the receive index.
LEMMA UsedSlots ==
    ASSUME NEW n \in Nat \ {0}, NEW r \in 0..n - 1, NEW cnt \in 0..n, NEW i \in 0..n - 1
    PROVE  i \in {(r + j) % n : j \in 0..cnt - 1} <=> Offset(r, i, n) < cnt
<1>1. Offset(r, i, n) \in 0..n - 1
  BY DEF Offset
<1>2. PICK o \in 0..n : o = Offset(r, i, n)
  BY <1>1
<1>3. i = IF r + o < n THEN r + o ELSE r + o - n
  BY <1>2 DEF Offset
<1>4. (r + o) % n = i
  <2>1. (r + o) % n = IF r + o < n THEN r + o ELSE r + o - n
    BY Round
  <2>2. QED
    BY <1>3, <2>1
<1>5. ASSUME NEW j \in 0..cnt - 1, (r + j) % n = i PROVE j = o
  <2>1. j \in 0..n
    OBVIOUS
  <2>2. (r + j) % n = IF r + j < n THEN r + j ELSE r + j - n
    BY <2>1, Round
  <2>3. i = IF r + j < n THEN r + j ELSE r + j - n
    BY <1>5, <2>2
  <2>4. r \in Int /\ j \in 0..n - 1 /\ o \in 0..n - 1
    BY <1>1, <1>2
  <2>5. QED
    BY <1>3, <2>3, <2>4
<1>6. o \in 0..cnt - 1 <=> o < cnt
  OBVIOUS
<1>7. QED
  BY <1>2, <1>4, <1>5, <1>6

\* The state of the channels.
LEMMA IInvHchan == IInv => HchanInvariant
<1> SUFFICES ASSUME IInv PROVE HchanInvariant
  OBVIOUS
<1>1. Typed /\ OnceEach
  BY DEF IInv
<1>2. \A c \in C : /\ Ring(c) /\ dataqsiz[c] \in Nat /\ qcount[c] \in Nat
                   /\ sendx[c] \in Nat /\ recvx[c] \in Nat
  BY <1>1 DEF IInv, Typed
<1>3. TypeOK
  <2>1. ASSUME NEW c \in C
        PROVE  /\ qcount[c] \in 0..dataqsiz[c]
               /\ buf[c] \in [0..dataqsiz[c] - 1 -> Val \cup {Zero}]
               /\ {sendx[c], recvx[c]} \subseteq {0} \cup 0..dataqsiz[c] - 1
    <3>1. qcount[c] <= dataqsiz[c] /\ buf[c] \in [0..dataqsiz[c] - 1 -> Val \cup {Zero}]
      BY <1>2 DEF Ring, RingOf
    <3>2. dataqsiz[c] = 0 => sendx[c] = 0 /\ recvx[c] = 0
      BY <1>2 DEF Ring, RingOf
    <3>3. dataqsiz[c] > 0 => sendx[c] \in 0..dataqsiz[c] - 1 /\ recvx[c] \in 0..dataqsiz[c] - 1
      BY <1>2, RingSlots DEF Ring
    <3>4. QED
      BY <1>2, <3>1, <3>2, <3>3
  <2>2. \A g \in G : param[g] \in cases[g] \cup {NoCase}
    BY DEF IInv, Decided
  <2>3. \A g \in G : val[g] \in [Sends(cases[g]) -> Val]
    BY DEF IInv, Begun
  <2>4. QED
    BY <1>1, <2>1, <2>2, <2>3 DEF Typed, TypeOK
<1>4. QueueInvariants
  <2>1. SUFFICES ASSUME NEW c \in C
        PROVE  LET recvq == Live(q[<<c, "recv">>])
                   sendq == Live(q[<<c, "send">>])
               IN  /\ \/ recvq = <<>> \/ sendq = <<>>
                      \/ dataqsiz[c] = 0 /\ \E g \in G : Owners(recvq) = {g} /\ Owners(sendq) = {g}
                   /\ qcount[c] > 0 => recvq = <<>>
                   /\ qcount[c] < dataqsiz[c] => sendq = <<>>
                   /\ closed[c] => q[<<c, "recv">>] = <<>> /\ q[<<c, "send">>] = <<>>
    BY DEF QueueInvariants
  <2>2. PICK r \in Queue : r = <<c, "recv">>
    BY QueueFacts
  <2>3. PICK s \in Queue : s = <<c, "send">>
    BY QueueFacts
  <2>4. /\ r[1] = c /\ r[2] = "recv" /\ s[1] = c /\ s[2] = "send"
        /\ Partner(r) = s /\ Partner(s) = r
    BY <2>2, <2>3, QueueFacts
  <2>5. Reason(r) /\ Reason(s)
    BY DEF IInv
  <2>6. /\ Owners(Live(q[r])) = Waiters(r) /\ Waiters(r) \subseteq G
        /\ Live(q[r]) = <<>> <=> Waiters(r) = {}
    BY <1>1, LiveOf
  <2>7. /\ Owners(Live(q[s])) = Waiters(s) /\ Waiters(s) \subseteq G
        /\ Live(q[s]) = <<>> <=> Waiters(s) = {}
    BY <1>1, LiveOf
  <2>8. ASSUME Live(q[r]) # <<>>, Live(q[s]) # <<>>
        PROVE  dataqsiz[c] = 0 /\ \E g \in G : Owners(Live(q[r])) = {g} /\ Owners(Live(q[s])) = {g}
    <3>1. PICK g \in Waiters(r) : TRUE
      BY <2>6, <2>8
    <3>2. PICK h \in Waiters(s) : TRUE
      BY <2>7, <2>8
    <3>3. Waiters(s) \subseteq {g} /\ qcount[c] = 0
      BY <2>4, <2>5, <3>1 DEF Reason
    <3>4. Waiters(r) \subseteq {h} /\ qcount[c] = dataqsiz[c]
      BY <2>4, <2>5, <3>2 DEF Reason
    <3>5. h = g
      BY <3>1, <3>2, <3>3
    <3>6. Waiters(r) = {g} /\ Waiters(s) = {g}
      BY <3>1, <3>2, <3>3, <3>4, <3>5
    <3>7. g \in G
      BY <2>6, <3>1
    <3>8. QED
      BY <2>6, <2>7, <3>3, <3>4, <3>6, <3>7
  <2>9. qcount[c] > 0 => Live(q[r]) = <<>>
    BY <1>2, <2>4, <2>5, <2>6 DEF Reason
  <2>10. qcount[c] < dataqsiz[c] => Live(q[s]) = <<>>
    BY <1>2, <2>4, <2>5, <2>7 DEF Reason
  <2>11. closed[c] => q[r] = <<>> /\ q[s] = <<>>
    BY <2>4, <2>5 DEF Reason
  <2>12. QED
    BY <2>2, <2>3, <2>8, <2>9, <2>10, <2>11
<1>5. RingInvariant
  <2>1. SUFFICES ASSUME NEW c \in C, dataqsiz[c] > 0
        PROVE  LET used == {(recvx[c] + i) % dataqsiz[c] : i \in 0..qcount[c] - 1}
               IN  /\ sendx[c] = (recvx[c] + qcount[c]) % dataqsiz[c]
                   /\ \A i \in 0..dataqsiz[c] - 1 : buf[c][i] = Zero <=> i \notin used
    BY DEF RingInvariant
  <2>2. PICK n \in Nat \ {0} : n = dataqsiz[c]
    BY <1>2, <2>1
  <2>3. PICK m \in Nat : m = qcount[c]
    BY <1>2
  <2>4. PICK r \in Nat : r = recvx[c]
    BY <1>2
  <2>5. /\ r \in 0..n - 1 /\ m \in 0..n
        /\ sendx[c] = IF r + m < n THEN r + m ELSE r + m - n
        /\ \A i \in 0..n - 1 : buf[c][i] = Zero <=> Offset(r, i, n) >= m
    BY <1>2, <2>2, <2>3, <2>4 DEF Ring, RingOf
  <2>6. sendx[c] = (r + m) % n
    BY <2>5, Round
  <2>7. ASSUME NEW i \in 0..n - 1
        PROVE  buf[c][i] = Zero <=> i \notin {(r + j) % n : j \in 0..m - 1}
    <3>1. Offset(r, i, n) \in Nat
      BY <2>5 DEF Offset
    <3>2. i \in {(r + j) % n : j \in 0..m - 1} <=> Offset(r, i, n) < m
      BY <2>5, UsedSlots
    <3>3. QED
      BY <2>5, <3>1, <3>2
  <2>8. QED
    BY <2>2, <2>3, <2>4, <2>6, <2>7
<1>6. QED
  BY <1>3, <1>4, <1>5 DEF HchanInvariant

\* The sleepers.
LEMMA IInvWaiters == IInv => WaitersFound
<1> SUFFICES ASSUME IInv PROVE WaitersFound
  OBVIOUS
<1>1. Typed /\ OnceEach
  BY DEF IInv
<1>2. BlockedOnce
  <2>1. SUFFICES ASSUME NEW g \in G
        PROVE  LET times(k) == Cardinality({i \in DOMAIN q[Way(k)] : q[Way(k)][i] = <<g, k>>})
                   hands == Cardinality(UNION {{h} \X {i \in DOMAIN glist[h] : glist[h][i] = g} : h \in G})
               IN  /\ hands <= (IF pc[g] = "parked" THEN 1 ELSE 0)
                   /\ \A k \in cases[g] :
                         times(k) \in (IF pc[g] = "parked" /\ hands = 0 THEN {1}
                                       ELSE IF selectDone[g] THEN {0, 1} ELSE {0})
                   /\ \A w \in Queue : \A x \in ToSet(q[w]) :
                         x[1] = g => x[2] \in cases[g] /\ Way(x[2]) = w
                   /\ pc[g] # "throw"
    BY DEF BlockedOnce
  <2>2. PICK n : /\ n = Cardinality(UNION {{h} \X {i \in DOMAIN glist[h] : glist[h][i] = g} : h \in G})
                 /\ n = IF InHand(g) THEN 1 ELSE 0
    BY <1>1, Hands
  <2>3. Begun(g) /\ Placed(g)
    BY DEF IInv
  <2>4. n <= (IF pc[g] = "parked" THEN 1 ELSE 0)
    BY <2>2, <2>3 DEF Placed
  <2>5. pc[g] # "throw"
    BY <2>3 DEF Begun
  <2>6. ASSUME NEW k \in cases[g]
        PROVE  Cardinality({i \in DOMAIN q[Way(k)] : q[Way(k)][i] = <<g, k>>}) \in
                  (IF pc[g] = "parked" /\ n = 0 THEN {1} ELSE IF selectDone[g] THEN {0, 1} ELSE {0})
    <3>1. PICK w \in Queue : w = Way(k)
      BY <1>1, CaseFacts DEF Typed
    <3>2. q[w] \in Seq(Sudog) /\ Distinct(q[w])
      BY <1>1 DEF Typed, OnceEach
    <3>3. PICK t : /\ t = Cardinality({i \in DOMAIN q[w] : q[w][i] = <<g, k>>})
                   /\ t = IF <<g, k>> \in ToSet(q[w]) THEN 1 ELSE 0
      BY <3>2, Occurs
    <3>4. <<g, k>> \in ToSet(q[w]) => selectDone[g] \/ (pc[g] = "parked" /\ ~InHand(g))
      <4>1. <<g, k>>[1] = g
        OBVIOUS
      <4>2. QED
        BY <2>3, <4>1 DEF Placed
    <3>5. pc[g] = "parked" /\ ~InHand(g) => <<g, k>> \in ToSet(q[w])
      BY <2>3, <3>1 DEF Placed
    <3>6. t \in (IF pc[g] = "parked" /\ n = 0 THEN {1} ELSE IF selectDone[g] THEN {0, 1} ELSE {0})
      BY <2>2, <3>3, <3>4, <3>5
    <3>7. QED
      BY <3>1, <3>3, <3>6
  <2>7. \A w \in Queue : \A x \in ToSet(q[w]) : x[1] = g => x[2] \in cases[g] /\ Way(x[2]) = w
    BY <2>3 DEF Placed
  <2>8. QED
    BY <2>2, <2>4, <2>5, <2>6, <2>7
<1>3. SleepsForAReason
  <2>1. SUFFICES ASSUME NEW g \in G, pc[g] = "parked", \A h \in G : g \notin ToSet(glist[h]), NEW k \in cases[g]
        PROVE  /\ ~closed[k[1]]
               /\ Owners(Live(q[Partner(k)])) \subseteq {g}
               /\ qcount[k[1]] = IF k[2] = "send" THEN dataqsiz[k[1]] ELSE 0
    BY DEF SleepsForAReason
  <2>2. /\ k \in Case /\ Way(k) \in Queue /\ Partner(k) \in Queue /\ Way(k)[1] = k[1] /\ Way(k)[2] = k[2]
        /\ Partner(Way(k)) = Partner(k)
    BY <1>1, CaseFacts DEF Typed
  <2>3. Placed(g) /\ ~InHand(g)
    BY <2>1 DEF IInv, InHand, Held
  <2>4. <<g, k>> \in ToSet(q[Way(k)]) /\ <<g, k>>[1] = g /\ ~selectDone[g]
    BY <2>1, <2>3 DEF Placed
  <2>5. g \in Waiters(Way(k))
    BY <2>4 DEF Waiters, Standing
  <2>6. Reason(Way(k))
    BY <2>2 DEF IInv
  <2>7. q[Way(k)] # <<>>
    BY <2>4 DEF ToSet
  <2>8. Owners(Live(q[Partner(k)])) = Waiters(Partner(k))
    BY <1>1, <2>2, LiveOf
  <2>9. QED
    BY <2>2, <2>5, <2>6, <2>7, <2>8 DEF Reason
<1>4. QED
  BY <1>2, <1>3 DEF WaitersFound

\* A finite set of integers has a largest element.
LEMMA Largest ==
    ASSUME NEW S \in SUBSET Int, IsFiniteSet(S), S # {}
    PROVE  \E m \in S : \A i \in S : i <= m
<1>1. PICK n : n = Cardinality(S)
  OBVIOUS
<1>2. /\ n \in Nat
      /\ \A k \in 1..n : Nth(S, k) \in S
      /\ \A j, k \in 1..n : j < k => Nth(S, j) < Nth(S, k)
      /\ \A i \in S : \E k \in 1..n : Nth(S, k) = i
  BY <1>1, NthLists
<1>3. n \in 1..n
  <2>1. PICK k \in 1..n : TRUE
    BY <1>2
  <2>2. QED
    BY <1>2, <2>1
<1>4. ASSUME NEW i \in S PROVE i <= Nth(S, n)
  <2>1. PICK k \in 1..n : Nth(S, k) = i
    BY <1>2
  <2>2. CASE k = n
    BY <2>1, <2>2
  <2>3. CASE k < n
    <3>1. Nth(S, k) < Nth(S, n)
      BY <1>2, <1>3, <2>3
    <3>2. Nth(S, n) \in Int
      BY <1>2, <1>3
    <3>3. QED
      BY <2>1, <3>1, <3>2
  <2>4. QED
    BY <1>2, <2>2, <2>3
<1>5. QED
  BY <1>2, <1>3, <1>4

\* A select, with the locks of its channels.
LEMMA IInvSelect == IInv => SelectSafe
<1> SUFFICES ASSUME IInv PROVE SelectSafe
  OBVIOUS
<1>1. Typed
  BY DEF IInv
<1>2. OneCase
  <2>1. SUFFICES ASSUME NEW g \in G
        PROVE  /\ moved[g] = 1 => param[g] # NoCase
               /\ pc[g] = "true" /\ op[g] # "close" /\ elem[g] # Zero => moved[g] = 1
               /\ pc[g] \in {"false", "panic", "sellock"} => moved[g] = 0
    BY DEF OneCase
  <2>2. moved[g] \in 0..1 /\ Decided(g)
    BY <1>1 DEF IInv, Typed
  <2>3. QED
    BY <2>2 DEF Decided
<1>3. NoLockCycle
  <2>1. SUFFICES ASSUME NEW h \in G, Holds(h) # {}
        PROVE  \E g \in G : Holds(g) # {} /\ \A c \in LockNext(g) : lock[c] = NoG
    BY DEF NoLockCycle
  <2>2. PICK S \in SUBSET C : S = {c \in C : lock[c] # NoG}
    OBVIOUS
  <2>3. S # {}
    BY <2>1, <2>2, ChanAssumption DEF Holds
  <2>4. IsFiniteSet(S) /\ S \in SUBSET Int
    <3>1. IsFiniteSet(C) /\ C \subseteq Nat
      BY ChanAssumption
    <3>2. IsFiniteSet(S)
      BY <3>1, FS_Subset
    <3>3. QED
      BY <3>1, <3>2
  <2>5. PICK m \in S : \A i \in S : i <= m
    BY <2>3, <2>4, Largest
  <2>6. PICK g \in G : g = lock[m]
    BY <1>1, <2>2 DEF Typed
  <2>7. m \in Holds(g)
    BY <2>2, <2>6 DEF Holds
  <2>8. ASSUME NEW c \in LockNext(g) PROVE lock[c] = NoG
    <3>1. c \in Channels(g) \ Holds(g)
      BY DEF LockNext
    <3>2. c \in C
      BY <1>1, <3>1, CaseFacts DEF Channels, Typed
    <3>3. m < c
      BY <2>7, <3>1 DEF IInv, Locked
    <3>4. c \notin S
      BY <2>4, <2>5, <3>2, <3>3, ChanAssumption
    <3>5. QED
      BY <2>2, <3>2, <3>4
  <2>9. QED
    BY <2>7, <2>8
<1>4. QED
  BY <1>2, <1>3 DEF SelectSafe

\* The refusals.
LEMMA IInvRefusal == IInv => RefusalJustified
<1> SUFFICES ASSUME IInv, NEW g \in G, pc[g] = "false", op[g] \in {"nbsend", "nbrecv"}
    PROVE  \/ g \in refusable
           \/ op[g] = "nbsend" /\ \E k \in cases[g] : closed[k[1]] /\ dataqsiz[k[1]] = 0
  BY DEF RefusalJustified
<1>1. Typed /\ Begun(g) /\ Refused(g)
  BY DEF IInv
<1>2. cases[g] = {Only(g)}
  BY <1>1, OnlyCase DEF Plain
<1>3. QED
  BY <1>1, <1>2 DEF Refused, ClosedUnbuffered

-----------------------------------------------------------------------------
\* chan.go's own invariants, for any number of channels of any size, any number of
\* goroutines and any calls: at most one of the queues of a channel has somebody
\* waiting (but for one goroutine that is alone on both queues of an unbuffered channel
\* with a select of any size, sudogs of like cases included), nobody waits to receive what is
\* buffered or to send to where there is room, nobody waits on a closed channel, and
\* the indices of the ring delimit the buffered values.
THEOREM HchanAlways == Spec => []HchanInvariant
<1>1. QED
  BY Invariance, IInvHchan, PTL

\* No wakeup is lost, doubled or spurious: whoever sleeps in a channel operation or a
\* select is queued at each of its channels, once, and can go on with none of them, or
\* has exactly one goroutine about to ready it; and nobody who runs is in a queue, but
\* for a select that has yet to take its sudogs back.
THEOREM WaitersAlwaysFound == Spec => []WaitersFound
<1>1. QED
  BY Invariance, IInvWaiters, PTL

\* A select takes effect through one case at most, the one it reports, and taking the
\* locks in the order of the addresses cannot deadlock.
THEOREM SelectAlwaysSafe == Spec => []SelectSafe
<1>1. QED
  BY Invariance, IInvSelect, PTL

\* The fast paths, which read the channel without its lock, refuse a call only if there
\* was a moment during it at which the channel was open and not ready, but for a send on
\* an unbuffered channel that has been closed meanwhile: such a send may be refused
\* although the channel was ready until it was closed.
THEOREM RefusalsJustified == Spec => []RefusalJustified
<1>1. QED
  BY Invariance, IInvRefusal, PTL

-----------------------------------------------------------------------------
\* Each channel is a FIFO: sequences.

\* f[1], ..., f[m] are the elements of S in ascending order.
ListsUp(f, m, S) ==
    /\ m \in Nat /\ f \in [1..m -> S]
    /\ \A i, j \in 1..m : i < j => f[i] < f[j]
    /\ \A x \in S : \E i \in 1..m : f[i] = x

\* There is only one way to list a finite set upwards.
LEMMA Upwards ==
    ASSUME NEW S \in SUBSET Int, NEW m, NEW f, ListsUp(f, m, S)
    PROVE  /\ IsFiniteSet(S) /\ Cardinality(S) = m
           /\ \A n \in 1..m : Nth(S, n) = f[n]
<1> USE DEF ListsUp
<1>1. \A i, j \in 1..m : f[i] \in Int /\ (f[i] <= f[j] => i <= j) /\ (f[i] = f[j] => i = j)
  <2>1. SUFFICES ASSUME NEW i \in 1..m, NEW j \in 1..m
        PROVE  f[i] \in Int /\ (f[i] <= f[j] => i <= j) /\ (f[i] = f[j] => i = j)
    OBVIOUS
  <2>2. f[i] \in Int /\ f[j] \in Int
    OBVIOUS
  <2>3. (i < j => f[i] < f[j]) /\ (j < i => f[j] < f[i])
    OBVIOUS
  <2>4. QED
    BY <2>2, <2>3
<1>2. ASSUME NEW n \in 0..m, NEW T, T = {f[i] : i \in 1..n} PROVE ExistsBijection(1..n, T)
  <2> DEFINE h == [i \in 1..n |-> f[i]]
  <2>1. \A i \in 1..n : i \in 1..m
    OBVIOUS
  <2>2. h \in [1..n -> T] /\ \A i \in 1..n : h[i] = f[i]
    BY <1>2
  <2>3. \A i, j \in 1..n : h[i] = h[j] => i = j
    BY <1>1, <2>1, <2>2
  <2>4. \A x \in T : \E i \in 1..n : h[i] = x
    BY <1>2, <2>2
  <2>5. h \in Bijection(1..n, T)
    BY <2>2, <2>3, <2>4 DEF Bijection, Injection, Surjection, IsInjective
  <2>6. QED
    BY <2>5 DEF ExistsBijection
<1>3. S = {f[i] : i \in 1..m}
  OBVIOUS
<1>4. ExistsBijection(1..m, S)
  BY <1>2, <1>3
<1>5. IsFiniteSet(S) /\ Cardinality(S) = m
  BY <1>4, FS_NatBijection, FS_CountingElements
<1>6. ASSUME NEW n \in 1..m PROVE Nth(S, n) = f[n]
  <2>1. PICK T : T = {f[i] : i \in 1..n}
    OBVIOUS
  <2>2. Upto(S, f[n]) = T
    <3>1. ASSUME NEW x \in S, x <= f[n] PROVE x \in T
      <4>1. PICK i \in 1..m : f[i] = x
        OBVIOUS
      <4>2. i <= n
        BY <1>1, <3>1, <4>1
      <4>3. QED
        BY <2>1, <4>1, <4>2
    <3>2. ASSUME NEW i \in 1..n PROVE f[i] \in S /\ f[i] <= f[n]
      <4>1. i \in 1..m /\ (i < n => f[i] < f[n])
        OBVIOUS
      <4>2. f[i] \in Int /\ f[n] \in Int
        BY <1>1, <4>1
      <4>3. QED
        BY <4>1, <4>2
    <3>3. QED
      BY <2>1, <3>1, <3>2 DEF Upto
  <2>3. ExistsBijection(1..n, T)
    BY <1>2, <2>1
  <2>4. Cardinality(Upto(S, f[n])) = n
    BY <2>2, <2>3, FS_CountingElements
  <2>5. \A i \in S : Cardinality({j \in S : j <= i}) = n => i = f[n]
    <3>1. SUFFICES ASSUME NEW i \in S, Cardinality(Upto(S, i)) = n PROVE i = f[n]
      BY DEF Upto
    <3>2. i \in Int /\ f[n] \in Int /\ f[n] \in S
      OBVIOUS
    <3>3. /\ i < f[n] => Cardinality(Upto(S, i)) < Cardinality(Upto(S, f[n]))
          /\ f[n] < i => Cardinality(Upto(S, f[n])) < Cardinality(Upto(S, i))
      BY <1>5, <3>2, Ranks
    <3>4. QED
      BY <2>4, <3>1, <3>2, <3>3
  <2>6. \E i \in S : Cardinality({j \in S : j <= i}) = n
    BY <2>4 DEF Upto
  <2>7. QED
    BY <2>5, <2>6 DEF Nth
<1>7. QED
  BY <1>5, <1>6

\* The sudogs left among the live ones, when some of those have gone.
LEMMA AtWithin ==
    ASSUME NEW D, NEW s \in Seq(D), NEW S \in SUBSET DOMAIN s, NEW R \in SUBSET S
    PROVE  \E T \in SUBSET DOMAIN At(s, S) : At(s, R) = At(At(s, S), T)
<1>1. PICK t : t = At(s, S)
  OBVIOUS
<1>2. PICK n : n = Cardinality(S)
  OBVIOUS
<1>3. IsFiniteSet(S) /\ n \in Nat /\ t \in Seq(D) /\ DOMAIN t = 1..n
      /\ \A i \in 1..n : Nth(S, i) \in S /\ t[i] = s[Nth(S, i)]
  BY <1>1, <1>2, AtProperties
<1>4. S \in SUBSET Int /\ R \in SUBSET Int
  OBVIOUS
<1>5. /\ \A i, j \in 1..n : i < j => Nth(S, i) < Nth(S, j)
      /\ \A x \in S : \E i \in 1..n : Nth(S, i) = x
  BY <1>2, <1>3, <1>4, NthLists
<1>6. PICK T \in SUBSET (1..n) : T = {i \in 1..n : Nth(S, i) \in R}
  OBVIOUS
<1>7. PICK m : m = Cardinality(T)
  OBVIOUS
<1>8. T \in SUBSET DOMAIN t
  BY <1>3
<1>9. /\ IsFiniteSet(T) /\ m \in Nat /\ At(t, T) = [i \in 1..m |-> t[Nth(T, i)]]
      /\ \A i \in 1..m : Nth(T, i) \in T
  BY <1>3, <1>7, <1>8, AtProperties DEF At
<1>10. /\ \A i, j \in 1..m : i < j => Nth(T, i) < Nth(T, j)
       /\ \A x \in T : \E i \in 1..m : Nth(T, i) = x
  <2>1. T \in SUBSET Int
    OBVIOUS
  <2>2. QED
    BY <1>7, <1>9, <2>1, NthLists
<1> DEFINE f == [i \in 1..m |-> Nth(S, Nth(T, i))]
<1>11. f \in [1..m -> R]
  BY <1>6, <1>9
<1>12. \A i, j \in 1..m : i < j => f[i] < f[j]
  BY <1>5, <1>9, <1>10
<1>13. ASSUME NEW x \in R PROVE \E i \in 1..m : f[i] = x
  <2>1. PICK j \in 1..n : Nth(S, j) = x
    BY <1>5
  <2>2. j \in T
    BY <1>6, <2>1
  <2>3. PICK i \in 1..m : Nth(T, i) = j
    BY <1>10, <2>2
  <2>4. QED
    BY <2>1, <2>3
<1> HIDE DEF f
<1>14. Cardinality(R) = m /\ \A i \in 1..m : Nth(R, i) = f[i]
  <2>1. ListsUp(f, m, R)
    BY <1>9, <1>11, <1>12, <1>13 DEF ListsUp
  <2>2. QED
    BY <1>4, <2>1, Upwards
<1>15. \A i \in 1..m : s[f[i]] = t[Nth(T, i)]
  BY <1>3, <1>9 DEF f
<1>16. At(s, R) = At(t, T)
  BY <1>9, <1>14, <1>15 DEF At
<1>17. QED
  BY <1>1, <1>8, <1>16

\* Some positions of a subsequence.
LEMMA AtAt ==
    ASSUME NEW D, NEW s \in Seq(D), NEW S \in SUBSET DOMAIN s, NEW T \in SUBSET DOMAIN At(s, S)
    PROVE  At(At(s, S), T) = At(s, {Nth(S, i) : i \in T})
<1>1. PICK t : t = At(s, S)
  OBVIOUS
<1>2. PICK n : n = Cardinality(S)
  OBVIOUS
<1>3. IsFiniteSet(S) /\ n \in Nat /\ t \in Seq(D) /\ DOMAIN t = 1..n
      /\ \A i \in 1..n : Nth(S, i) \in S /\ t[i] = s[Nth(S, i)]
  BY <1>1, <1>2, AtProperties
<1>4. S \in SUBSET Int /\ T \in SUBSET (1..n) /\ T \in SUBSET DOMAIN t
  BY <1>1, <1>3
<1>5. \A i, j \in 1..n : i < j => Nth(S, i) < Nth(S, j)
  BY <1>2, <1>3, <1>4, NthLists
<1>6. PICK R \in SUBSET DOMAIN s : R = {Nth(S, i) : i \in T}
  BY <1>3, <1>4
<1>7. PICK m : m = Cardinality(T)
  OBVIOUS
<1>8. /\ IsFiniteSet(T) /\ m \in Nat /\ At(t, T) = [i \in 1..m |-> t[Nth(T, i)]]
      /\ \A i \in 1..m : Nth(T, i) \in T
  BY <1>3, <1>4, <1>7, AtProperties DEF At
<1>9. /\ \A i, j \in 1..m : i < j => Nth(T, i) < Nth(T, j)
      /\ \A x \in T : \E i \in 1..m : Nth(T, i) = x
  <2>1. T \in SUBSET Int
    BY <1>4
  <2>2. QED
    BY <1>7, <1>8, <2>1, NthLists
<1> DEFINE f == [i \in 1..m |-> Nth(S, Nth(T, i))]
<1>10. f \in [1..m -> R]
  BY <1>6, <1>8
<1>11. \A i, j \in 1..m : i < j => f[i] < f[j]
  BY <1>4, <1>5, <1>8, <1>9
<1>12. ASSUME NEW x \in R PROVE \E i \in 1..m : f[i] = x
  <2>1. PICK j \in T : Nth(S, j) = x
    BY <1>6
  <2>2. PICK i \in 1..m : Nth(T, i) = j
    BY <1>9
  <2>3. QED
    BY <2>1, <2>2
<1> HIDE DEF f
<1>13. Cardinality(R) = m /\ \A i \in 1..m : Nth(R, i) = f[i]
  <2>1. ListsUp(f, m, R)
    BY <1>8, <1>10, <1>11, <1>12 DEF ListsUp
  <2>2. R \in SUBSET Int
    BY <1>4
  <2>3. QED
    BY <2>1, <2>2, Upwards
<1>14. \A i \in 1..m : s[f[i]] = t[Nth(T, i)]
  BY <1>3, <1>4, <1>8 DEF f
<1>15. At(s, R) = At(t, T)
  BY <1>8, <1>13, <1>14 DEF At
<1>16. QED
  BY <1>1, <1>6, <1>15

\* The live sudogs after a dequeue: all but the first.
LEMMA LiveTail ==
    ASSUME NEW s \in Seq(Sudog), NEW done, NEW done2, Distinct(s), LiveAt(s, done) # {},
           \A x \in ToSet(s) : x[1] # Head(At(s, LiveAt(s, done)))[1] => (done2[x[1]] <=> done[x[1]]),
           \A x \in ToSet(s) : x[1] = Head(At(s, LiveAt(s, done)))[1] /\ x # Head(At(s, LiveAt(s, done)))
                                   => done2[x[1]]
    PROVE  LET t == SubSeq(s, Nth(LiveAt(s, done), 1) + 1, Len(s))
           IN  At(t, LiveAt(t, done2)) = Tail(At(s, LiveAt(s, done)))
<1>0. \A i \in DOMAIN s : \E j \in DOMAIN s : /\ j <= i /\ s[j][1] = s[i][1]
                                              /\ \A m \in 1..j - 1 : s[m][1] # s[j][1]
  BY FirstOnes, Zenon
<1>1. PICK S \in SUBSET DOMAIN s : S = LiveAt(s, done)
  BY DEF LiveAt
<1>2. PICK a : a = At(s, S)
  OBVIOUS
<1>3. PICK n : n = Cardinality(S)
  OBVIOUS
<1>4. PICK d : d = Nth(S, 1)
  OBVIOUS
<1>5. /\ IsFiniteSet(S) /\ n \in Nat /\ a \in Seq(Sudog) /\ Len(a) = n /\ DOMAIN a = 1..n /\ a # <<>>
      /\ \A i \in 1..n : Nth(S, i) \in S /\ a[i] = s[Nth(S, i)]
      /\ d \in S /\ (\A i \in S : d <= i) /\ Head(a) = s[d]
  BY <1>1, <1>2, <1>3, <1>4, AtProperties
<1>6. /\ \A i, j \in 1..n : i < j => Nth(S, i) < Nth(S, j)
      /\ \A x \in S : \E i \in 1..n : Nth(S, i) = x
  <2>1. S \in SUBSET Int
    OBVIOUS
  <2>2. QED
    BY <1>3, <1>5, <2>1, NthLists
<1>7. Len(s) \in Nat /\ DOMAIN s = 1..Len(s) /\ d \in 1..Len(s) /\ \A i \in 1..Len(s) : s[i] \in Sudog
  BY <1>5
<1>8. PICK t : t = SubSeq(s, d + 1, Len(s))
  OBVIOUS
<1>9. /\ t \in Seq(Sudog) /\ Len(t) = Len(s) - d /\ DOMAIN t = 1..Len(s) - d
      /\ \A i \in 1..Len(s) - d : t[i] = s[d + i]
  <2>1. PICK m \in Nat : m = Len(s)
    BY <1>7
  <2>2. d \in 1..m
    BY <1>7, <2>1
  <2>3. PICK e \in Int : e = d + 1
    BY <2>2
  <2>4. e <= m + 1 /\ m - e + 1 = m - d
    BY <2>2, <2>3
  <2>5. \A i \in e..m : s[i] \in Sudog
    BY <1>7, <2>1, <2>2, <2>3
  <2>6. t = SubSeq(s, e, m)
    BY <1>8, <2>1, <2>3, Zenon
  <2>7. /\ SubSeq(s, e, m) \in Seq(Sudog)
        /\ Len(SubSeq(s, e, m)) = IF e <= m THEN m - e + 1 ELSE 0
        /\ \A i \in 1..m - e + 1 : SubSeq(s, e, m)[i] = s[e + i - 1]
    BY <2>5, SubSeqProperties
  <2>8. t \in Seq(Sudog) /\ Len(t) = IF e <= m THEN m - e + 1 ELSE 0
    BY <2>6, <2>7, Zenon
  <2>9. Len(t) = m - d
    <3>1. e > m => 0 = m - d
      BY <2>2, <2>3
    <3>2. QED
      BY <2>4, <2>8, <3>1
  <2>10. DOMAIN t = 1..m - d
    BY <2>8, <2>9
  <2>11. ASSUME NEW i \in 1..m - d PROVE t[i] = s[d + i]
    <3>1. i \in 1..m - e + 1
      BY <2>4, Zenon
    <3>2. e + i - 1 = d + i
      BY <2>2, <2>3
    <3>3. t[i] = s[e + i - 1]
      BY <2>6, <2>7, <3>1, Zenon
    <3>4. QED
      BY <3>2, <3>3, Zenon
  <2>12. QED
    BY <2>1, <2>8, <2>9, <2>10, <2>11, Zenon
<1>10. PICK T \in SUBSET DOMAIN t : T = LiveAt(t, done2)
  BY DEF LiveAt
<1>11. ASSUME NEW i \in 1..Len(s) - d PROVE i \in T <=> d + i \in S
  <2>1. PICK x \in 1..Len(s) : x = d + i
    BY <1>7
  <2>2. x \in Int /\ d \in Int /\ i \in Int /\ d < x /\ d \in 1..x - 1 /\ i = x - d
    BY <1>7, <2>1
  <2>3. t[i] = s[x] /\ s[x] \in ToSet(s) /\ s[x] # s[d] /\ Head(a) = s[d]
    <3>1. x \in DOMAIN s /\ d \in DOMAIN s /\ x # d
      BY <1>7, <2>1, <2>2
    <3>2. s[x] # s[d]
      BY <3>1 DEF Distinct
    <3>3. s[x] \in ToSet(s)
      BY <3>1 DEF ToSet
    <3>4. t[i] = s[x]
      BY <1>9, <2>1
    <3>5. QED
      BY <1>5, <3>2, <3>3, <3>4
  <2>4. CASE s[x][1] = s[d][1]
    <3>1. x \notin S
      BY <1>1, <2>2, <2>4 DEF LiveAt
    <3>2. done2[t[i][1]]
      BY <1>1, <1>2, <2>3, <2>4
    <3>3. QED
      BY <1>10, <2>1, <3>1, <3>2 DEF LiveAt
  <2>5. CASE s[x][1] # s[d][1]
    <3>1. done2[t[i][1]] <=> done[s[x][1]]
      BY <1>1, <1>2, <2>3, <2>5
    <3>2. ASSUME x \in S PROVE i \in T
      <4>1. ASSUME NEW j \in 1..i - 1 PROVE t[j][1] # t[i][1]
        <5>1. d + j \in 1..x - 1 /\ j \in 1..Len(s) - d
          BY <1>7, <2>2
        <5>2. s[d + j][1] # s[x][1]
          BY <1>1, <3>2, <5>1 DEF LiveAt
        <5>3. QED
          BY <1>9, <2>3, <5>1, <5>2
      <4>2. ~done2[t[i][1]]
        BY <1>1, <3>1, <3>2 DEF LiveAt
      <4>3. QED
        BY <1>9, <1>10, <4>1, <4>2 DEF LiveAt
    <3>3. ASSUME i \in T PROVE x \in S
      <4>1. ~done[s[x][1]]
        BY <1>10, <3>1, <3>3 DEF LiveAt
      <4>2. ASSUME NEW j \in 1..x - 1, s[j][1] = s[x][1] PROVE FALSE
        <5>1. j \in Int /\ j \in DOMAIN s /\ j # d /\ j < x
          BY <1>7, <2>2, <2>5, <4>2
        <5>2. CASE d < j
          <6>1. j - d \in 1..i - 1 /\ j - d \in 1..Len(s) - d /\ d + (j - d) = j
            BY <1>7, <2>2, <5>1, <5>2
          <6>2. t[j - d] = s[j]
            BY <1>9, <6>1
          <6>3. t[j - d][1] # t[i][1]
            BY <1>10, <3>3, <6>1 DEF LiveAt
          <6>4. QED
            BY <2>3, <4>2, <6>2, <6>3
        <5>3. CASE j < d
          <6>1. PICK m \in DOMAIN s : /\ m <= j /\ s[m][1] = s[j][1]
                                      /\ \A l \in 1..m - 1 : s[l][1] # s[m][1]
            BY <1>0, <5>1, Zenon
          <6>2. m \in S
            BY <1>1, <4>1, <4>2, <6>1 DEF LiveAt
          <6>3. d <= m
            BY <1>5, <6>2
          <6>4. QED
            BY <1>7, <2>2, <5>1, <5>3, <6>1, <6>3
        <5>4. QED
          BY <2>2, <5>1, <5>2, <5>3
      <4>3. QED
        BY <1>1, <1>7, <4>1, <4>2 DEF LiveAt
    <3>4. QED
      BY <2>1, <3>2, <3>3
  <2>6. QED
    BY <2>4, <2>5
<1>12. n # 0 /\ n - 1 \in Nat
  <2>1. \E i \in 1..n : TRUE
    BY <1>5, <1>6
  <2>2. QED
    BY <1>5, <2>1
<1> DEFINE f == [i \in 1..n - 1 |-> Nth(S, i + 1) - d]
<1>13. ASSUME NEW i \in 1..n - 1
       PROVE  f[i] \in T /\ f[i] \in Int /\ t[f[i]] = a[i + 1] /\ f[i] + d = Nth(S, i + 1)
  <2>1. i + 1 \in 1..n /\ 1 \in 1..n /\ 1 < i + 1
    BY <1>5, <1>12
  <2>2. Nth(S, i + 1) \in S /\ d < Nth(S, i + 1) /\ a[i + 1] = s[Nth(S, i + 1)]
    BY <1>4, <1>5, <1>6, <2>1
  <2>3. PICK x \in Int : x = Nth(S, i + 1)
    BY <2>2
  <2>4. x \in 1..Len(s) /\ d < x
    BY <1>7, <2>2, <2>3
  <2>5. x - d \in 1..Len(s) - d /\ d + (x - d) = x
    BY <1>7, <2>4
  <2>6. x - d \in T /\ t[x - d] = s[x]
    BY <1>9, <1>11, <2>2, <2>3, <2>5
  <2>7. f[i] = x - d
    BY <2>3
  <2>8. QED
    BY <1>7, <2>2, <2>3, <2>5, <2>6, <2>7
<1>14. ASSUME NEW i \in 1..n - 1, NEW j \in 1..n - 1, i < j PROVE f[i] < f[j]
  <2>1. i + 1 \in 1..n /\ j + 1 \in 1..n /\ i + 1 < j + 1
    BY <1>5, <1>14
  <2>2. Nth(S, i + 1) < Nth(S, j + 1)
    BY <1>6, <2>1
  <2>3. f[i] + d < f[j] + d
    BY <1>13, <2>2
  <2>4. QED
    BY <1>7, <1>13, <2>3
<1>15. ASSUME NEW x \in T PROVE \E i \in 1..n - 1 : f[i] = x
  <2>1. x \in 1..Len(s) - d /\ d + x \in S
    BY <1>9, <1>11
  <2>2. PICK j \in 1..n : Nth(S, j) = d + x
    BY <1>6, <2>1
  <2>3. j # 1
    BY <1>4, <1>7, <2>1, <2>2
  <2>4. PICK i \in 1..n - 1 : j = i + 1
    <3>1. j - 1 \in 1..n - 1 /\ j = (j - 1) + 1
      BY <1>5, <2>3
    <3>2. QED
      BY <3>1
  <2>5. f[i] + d = d + x
    BY <1>13, <2>2, <2>4
  <2>6. PICK y \in Int : y = f[i]
    BY <1>13
  <2>7. y = x
    BY <1>7, <2>1, <2>5, <2>6
  <2>8. QED
    BY <2>6, <2>7
<1>16. ListsUp(f, n - 1, T)
  <2>1. f \in [1..n - 1 -> T]
    BY <1>13
  <2> HIDE DEF f
  <2>2. QED
    BY <1>12, <1>14, <1>15, <2>1 DEF ListsUp
<1> HIDE DEF f
<1>17. Cardinality(T) = n - 1 /\ \A i \in 1..n - 1 : Nth(T, i) = f[i]
  <2>1. T \in SUBSET Int
    BY <1>9
  <2>2. QED
    BY <1>16, <2>1, Upwards
<1>18. At(t, T) = [i \in 1..n - 1 |-> a[i + 1]]
  BY <1>13, <1>17 DEF At
<1>19. Tail(a) = [i \in 1..n - 1 |-> a[i + 1]]
  <2>1. PICK w : w = Tail(a)
    OBVIOUS
  <2>2. w \in Seq(Sudog) /\ Len(w) = n - 1 /\ \A i \in 1..n - 1 : w[i] = a[i + 1]
    BY <1>5, <2>1, HeadTailProperties
  <2>3. w = [i \in 1..Len(w) |-> w[i]]
    BY <2>2
  <2>4. w = [i \in 1..n - 1 |-> a[i + 1]]
    BY <2>2, <2>3
  <2>5. QED
    BY <2>1, <2>4
<1>20. QED
  BY <1>1, <1>2, <1>4, <1>8, <1>10, <1>18, <1>19

\* A goroutine's sudogs are put at the end, of which the first is live.
LEMMA LiveAppend ==
    ASSUME NEW s \in Seq(Sudog), NEW more \in Seq(Sudog), more # <<>>,
           NEW done, NEW g \in G, ~done[g],
           \A i \in DOMAIN s : s[i][1] # g, \A i \in DOMAIN more : more[i][1] = g
    PROVE  At(s \o more, LiveAt(s \o more, done)) = Append(At(s, LiveAt(s, done)), more[1])
<1>1. PICK S \in SUBSET DOMAIN s : S = LiveAt(s, done)
  BY DEF LiveAt
<1>2. PICK a : a = At(s, S)
  OBVIOUS
<1>3. PICK n : n = Cardinality(S)
  OBVIOUS
<1>4. /\ IsFiniteSet(S) /\ n \in Nat /\ a \in Seq(Sudog) /\ Len(a) = n /\ DOMAIN a = 1..n
      /\ \A i \in 1..n : Nth(S, i) \in S /\ a[i] = s[Nth(S, i)]
  BY <1>1, <1>2, <1>3, AtProperties
<1>5. /\ \A i, j \in 1..n : i < j => Nth(S, i) < Nth(S, j)
      /\ \A x \in S : \E i \in 1..n : Nth(S, i) = x
  <2>1. S \in SUBSET Int
    OBVIOUS
  <2>2. QED
    BY <1>3, <1>4, <2>1, NthLists
<1>6. PICK l \in Nat : l = Len(s) /\ DOMAIN s = 1..l
  OBVIOUS
<1>7. PICK t : t = s \o more
  OBVIOUS
<1>8. PICK k \in Nat :
         /\ k # 0 /\ t \in Seq(Sudog) /\ DOMAIN t = 1..l + k /\ t[l + 1] = more[1]
         /\ more[1] \in Sudog
         /\ \A i \in 1..l : t[i] = s[i] /\ t[i][1] # g
         /\ \A i \in l + 1..l + k : t[i][1] = g
  <2>1. PICK k \in Nat : k = Len(more) /\ DOMAIN more = 1..k /\ k # 0
    OBVIOUS
  <2>2. /\ t \in Seq(Sudog) /\ Len(t) = l + k
        /\ \A i \in 1..l + k : t[i] = IF i <= l THEN s[i] ELSE more[i - l]
    BY <1>6, <1>7, <2>1, ConcatProperties
  <2>3. DOMAIN t = 1..l + k /\ 1 \in DOMAIN more /\ l + 1 \in 1..l + k
    BY <1>6, <2>1, <2>2
  <2>4. t[l + 1] = more[1] /\ more[1] \in Sudog
    BY <1>6, <2>1, <2>2, <2>3
  <2>5. ASSUME NEW i \in 1..l PROVE t[i] = s[i] /\ t[i][1] # g
    BY <1>6, <2>1, <2>2
  <2>6. ASSUME NEW i \in l + 1..l + k PROVE t[i][1] = g
    <3>1. i - l \in DOMAIN more /\ i \in 1..l + k /\ ~(i <= l)
      BY <1>6, <2>1
    <3>2. t[i] = more[i - l]
      BY <2>2, <3>1
    <3>3. QED
      BY <3>1, <3>2
  <2>7. QED
    BY <2>1, <2>2, <2>3, <2>4, <2>5, <2>6
<1>9. PICK T : T = LiveAt(t, done) /\ T \in SUBSET Int
  <2>1. DOMAIN t \subseteq Int
    BY <1>6, <1>8
  <2>2. QED
    BY <2>1 DEF LiveAt
<1>10. ASSUME NEW i \in 1..l PROVE i \in T <=> i \in S
  <2>1. i \in DOMAIN t /\ i \in DOMAIN s /\ \A j \in 1..i - 1 : j \in 1..l
    BY <1>6, <1>8
  <2>2. t[i] = s[i] /\ \A j \in 1..i - 1 : t[j] = s[j]
    BY <1>8, <2>1
  <2>3. QED
    BY <1>1, <1>9, <2>1, <2>2 DEF LiveAt
<1>11. l + 1 \in T /\ T \subseteq 1..l + 1
  <2>1. l + 1 \in 1..l + k /\ l + 1 \in l + 1..l + k /\ \A j \in 1..(l + 1) - 1 : j \in 1..l
    BY <1>6, <1>8
  <2>2. t[l + 1][1] = g /\ \A j \in 1..(l + 1) - 1 : t[j][1] # g
    BY <1>8, <2>1
  <2>3. l + 1 \in T
    BY <1>8, <1>9, <2>1, <2>2 DEF LiveAt
  <2>4. ASSUME NEW i \in T, i \notin 1..l + 1 PROVE FALSE
    <3>1. i \in 1..l + k
      BY <1>8, <1>9 DEF LiveAt
    <3>2. i \in l + 1..l + k /\ l + 1 \in 1..i - 1
      BY <1>6, <1>8, <2>4, <3>1
    <3>3. t[i][1] = g
      BY <1>8, <3>2
    <3>4. QED
      BY <1>9, <2>2, <3>2, <3>3 DEF LiveAt
  <2>5. QED
    BY <2>3, <2>4
<1> DEFINE f == [i \in 1..n + 1 |-> IF i = n + 1 THEN l + 1 ELSE Nth(S, i)]
<1>12. /\ f[n + 1] = l + 1 /\ n + 1 \in 1..n + 1
       /\ \A i \in 1..n : i \in 1..n + 1 /\ f[i] = Nth(S, i) /\ f[i] \in T /\ f[i] \in 1..l
  BY <1>4, <1>6, <1>10
<1>13. \A i \in 1..n + 1 : i \in 1..n \/ i = n + 1
  BY <1>4
<1>14. f \in [1..n + 1 -> T]
  BY <1>11, <1>12, <1>13
<1> HIDE DEF f
<1>15. ASSUME NEW i \in 1..n + 1, NEW j \in 1..n + 1, i < j PROVE f[i] < f[j]
  <2>1. CASE j \in 1..n
    <3>1. i \in 1..n
      BY <1>4, <1>15, <2>1
    <3>2. QED
      BY <1>5, <1>12, <1>15, <2>1, <3>1
  <2>2. CASE j = n + 1
    <3>1. i \in 1..n
      BY <1>4, <1>15, <2>2
    <3>2. f[i] \in 1..l
      BY <1>12, <3>1
    <3>3. QED
      BY <1>12, <2>2, <3>2
  <2>3. QED
    BY <1>13, <2>1, <2>2
<1>16. ASSUME NEW x \in T PROVE \E i \in 1..n + 1 : f[i] = x
  <2>1. CASE x = l + 1
    BY <1>12, <2>1
  <2>2. CASE x # l + 1
    <3>1. x \in 1..l
      BY <1>6, <1>11, <2>2
    <3>2. PICK i \in 1..n : Nth(S, i) = x
      BY <1>5, <1>10, <3>1
    <3>3. QED
      BY <1>12, <3>2
  <2>3. QED
    BY <2>1, <2>2
<1>17. Cardinality(T) = n + 1 /\ \A i \in 1..n + 1 : Nth(T, i) = f[i]
  <2>1. ListsUp(f, n + 1, T)
    BY <1>4, <1>14, <1>15, <1>16 DEF ListsUp
  <2>2. QED
    BY <2>1, Upwards
<1>18. PICK u : u = At(t, T)
  OBVIOUS
<1>19. u = [i \in 1..n + 1 |-> t[f[i]]]
  BY <1>17, <1>18 DEF At
<1>20. u[n + 1] = more[1] /\ \A i \in 1..n : u[i] = a[i]
  BY <1>4, <1>8, <1>12, <1>19
<1>21. u = Append(a, more[1])
  <2>1. \A i \in 1..n : a[i] \in Sudog
    BY <1>4
  <2>2. \A i \in 1..n + 1 : u[i] \in Sudog
    BY <1>13, <1>20, <2>1
  <2>3. DOMAIN u = 1..n + 1 /\ \A i \in 1..n + 1 : u[i] \in Sudog
    BY <1>19, <2>2
  <2>4. u \in Seq(Sudog) /\ Len(u) = n + 1
    BY <1>4, <1>19, <2>3
  <2>5. PICK w : w = Append(a, more[1])
    OBVIOUS
  <2>6. /\ w \in Seq(Sudog) /\ Len(w) = n + 1 /\ w[n + 1] = more[1]
        /\ \A i \in 1..n : w[i] = a[i]
    BY <1>4, <2>5, AppendProperties
  <2>7. \A i \in 1..n + 1 : u[i] = w[i]
    BY <1>13, <1>20, <2>6
  <2>8. u = w
    BY <2>4, <2>6, <2>7, SeqEqual
  <2>9. QED
    BY <2>5, <2>8
<1>22. QED
  BY <1>1, <1>2, <1>7, <1>9, <1>18, <1>21

\* Where there are sudogs of others.
Without(s, g) == {i \in DOMAIN s : s[i][1] # g}

\* A finished select takes its sudogs out.
LEMMA LiveDropped ==
    ASSUME NEW s \in Seq(Sudog), NEW done, NEW done2, NEW g, done[g],
           \A x \in ToSet(s) : x[1] # g => (done2[x[1]] <=> done[x[1]])
    PROVE  LET t == At(s, Without(s, g))
           IN  At(t, LiveAt(t, done2)) = At(s, LiveAt(s, done))
<1>1. PICK S \in SUBSET DOMAIN s : S = Without(s, g) /\ S = {i \in DOMAIN s : s[i][1] # g}
  BY DEF Without
<1>2. PICK t : t = At(s, S)
  OBVIOUS
<1>3. PICK n : n = Cardinality(S)
  OBVIOUS
<1>4. /\ IsFiniteSet(S) /\ n \in Nat /\ t \in Seq(Sudog) /\ DOMAIN t = 1..n
      /\ \A i \in 1..n : Nth(S, i) \in S /\ t[i] = s[Nth(S, i)]
  BY <1>1, <1>2, <1>3, AtProperties
<1>5. /\ \A x \in S : \E i \in 1..n : Nth(S, i) = x
      /\ \A i, j \in 1..n : i < j => Nth(S, i) < Nth(S, j)
  <2>1. S \in SUBSET Int
    OBVIOUS
  <2>2. QED
    BY <1>3, <1>4, <2>1, NthLists
<1>6. PICK T \in SUBSET DOMAIN t : T = LiveAt(t, done2)
  BY DEF LiveAt
<1>7. At(t, T) = At(s, {Nth(S, i) : i \in T})
  BY <1>2, AtAt
<1>8. \A i \in S : s[i] \in ToSet(s) /\ s[i][1] # g /\ (done2[s[i][1]] <=> done[s[i][1]])
  BY <1>1 DEF ToSet
<1>9. {Nth(S, i) : i \in T} = LiveAt(s, done)
  <2>1. ASSUME NEW i \in 1..n PROVE i \in T <=> Nth(S, i) \in LiveAt(s, done)
    <3>1. PICK x : x = Nth(S, i)
      OBVIOUS
    <3>2. x \in S /\ x \in DOMAIN s /\ t[i] = s[x] /\ (done2[t[i][1]] <=> done[s[x][1]]) /\ x \in Int
      BY <1>1, <1>4, <1>8, <3>1
    <3>3. ASSUME NEW j \in 1..i - 1, t[j][1] = t[i][1] PROVE \E m \in 1..x - 1 : s[m][1] = s[x][1]
      <4>1. j \in 1..n /\ j < i
        BY <1>4
      <4>2. PICK m \in S : m = Nth(S, j)
        BY <1>4, <4>1
      <4>3. m < x /\ t[j] = s[m]
        BY <1>4, <1>5, <3>1, <4>1, <4>2
      <4>4. m \in 1..x - 1
        BY <3>2, <4>3
      <4>5. QED
        BY <3>2, <3>3, <4>3, <4>4
    <3>4. ASSUME NEW m \in 1..x - 1, s[m][1] = s[x][1] PROVE \E j \in 1..i - 1 : t[j][1] = t[i][1]
      <4>1. m \in DOMAIN s /\ m < x
        BY <3>2
      <4>2. m \in S
        BY <1>1, <1>8, <3>2, <3>4, <4>1
      <4>3. PICK j \in 1..n : Nth(S, j) = m
        BY <1>5, <4>2
      <4>4. ~(i < j) /\ i # j
        BY <1>5, <3>1, <3>2, <4>1, <4>3
      <4>5. j \in 1..i - 1
        BY <1>4, <4>4
      <4>6. QED
        BY <1>4, <3>2, <3>4, <4>3, <4>5
    <3>5. i \in T <=> ~done2[t[i][1]] /\ \A j \in 1..i - 1 : t[j][1] # t[i][1]
      BY <1>4, <1>6 DEF LiveAt
    <3>6. x \in LiveAt(s, done) <=> ~done[s[x][1]] /\ \A m \in 1..x - 1 : s[m][1] # s[x][1]
      BY <3>2 DEF LiveAt
    <3>7. QED
      BY <3>1, <3>2, <3>3, <3>4, <3>5, <3>6
  <2>2. \A x \in LiveAt(s, done) : x \in S
    BY <1>1 DEF LiveAt
  <2>3. T \subseteq 1..n
    BY <1>4
  <2>4. QED
    BY <1>5, <2>1, <2>2, <2>3
<1>10. QED
  BY <1>1, <1>2, <1>6, <1>7, <1>9

\* The buffered values, in their order.
BufferOf(n, m, b, r) == [i \in 1..m |-> b[(r + i - 1) % n]]
\* The slot of the i-th of them, and u is the sequence of these values.
Slot(r, i, n) == IF r + i - 1 < n THEN r + i - 1 ELSE r + i - 1 - n
Values(u, n, m, b, r) == u \in Seq(Val) /\ Len(u) = m /\ \A i \in 1..m : u[i] = b[Slot(r, i, n)]

\* The slot of the i-th value.
LEMMA SlotOf ==
    ASSUME NEW n \in Nat \ {0}, NEW r \in 0..n - 1, NEW i \in 1..n
    PROVE  (r + i - 1) % n = Slot(r, i, n) /\ Slot(r, i, n) \in 0..n - 1
<1>1. PICK j \in 0..n : j = i - 1
  OBVIOUS
<1>2. (r + j) % n = IF r + j < n THEN r + j ELSE r + j - n
  BY Round
<1>3. r + i - 1 = r + j
  BY <1>1
<1>4. QED
  BY <1>1, <1>2, <1>3 DEF Slot

\* The values are those of the slots in use, from the oldest one.
LEMMA BufferSeq ==
    ASSUME NEW n \in Nat, NEW m \in Nat, NEW b, NEW s \in Nat, NEW r \in Nat, RingOf(n, m, b, s, r),
           NEW u, u = BufferOf(n, m, b, r)
    PROVE  Values(u, n, m, b, r)
<1>1. m <= n /\ b \in [0..n - 1 -> Val \cup {Zero}]
  BY DEF RingOf
<1>2. ASSUME NEW i \in 1..m PROVE (r + i - 1) % n = Slot(r, i, n) /\ b[Slot(r, i, n)] \in Val
  <2>1. n \in Nat \ {0} /\ r \in 0..n - 1 /\ i \in 1..n
    BY <1>1 DEF RingOf
  <2>2. PICK j \in 0..n - 1 : j = Slot(r, i, n) /\ (r + i - 1) % n = j
    BY <2>1, SlotOf
  <2>3. Offset(r, j, n) = i - 1
    BY <2>1, <2>2 DEF Slot, Offset
  <2>4. b[j] # Zero
    BY <2>1, <2>2, <2>3 DEF RingOf
  <2>5. QED
    BY <1>1, <2>2, <2>4
<1>3. DOMAIN u = 1..m /\ \A i \in 1..m : u[i] = b[Slot(r, i, n)] /\ u[i] \in Val
  BY <1>2 DEF BufferOf
<1>4. u \in Seq(Val) /\ Len(u) = m
  <2>1. u = [i \in 1..m |-> u[i]]
    BY <1>3 DEF BufferOf
  <2>2. QED
    BY <1>3, <2>1
<1>5. QED
  BY <1>3, <1>4 DEF Values

\* The first of them.
LEMMA BufferHead ==
    ASSUME NEW n \in Nat, NEW m \in Nat, NEW b, NEW s \in Nat, NEW r \in Nat, RingOf(n, m, b, s, r),
           NEW u, u = BufferOf(n, m, b, r)
    PROVE  (m > 0 => u # <<>> /\ Head(u) = b[r]) /\ (m = 0 => u = <<>>)
<1>1. u \in Seq(Val) /\ Len(u) = m /\ \A i \in 1..m : u[i] = b[Slot(r, i, n)]
  <2>1. Values(u, n, m, b, r)
    BY BufferSeq
  <2>2. QED
    BY <2>1 DEF Values
<1>2. ASSUME m > 0 PROVE u # <<>> /\ Head(u) = b[r]
  <2>1. Head(u) = u[1] /\ u # <<>>
    BY <1>1, <1>2
  <2>2. Slot(r, 1, n) = r
    BY <1>2 DEF Slot, RingOf
  <2>3. QED
    BY <1>1, <1>2, <2>1, <2>2
<1>3. m = 0 => u = <<>>
  BY <1>1
<1>4. QED
  BY <1>2, <1>3

\* Slot i of b is set to v.
PutIn(b2, b, i, v) == b2 = [b EXCEPT ![i] = v]

\* A value is put at the end.
LEMMA BufferPut ==
    ASSUME NEW n \in Nat, NEW m \in Nat, NEW b, NEW s \in Nat, NEW r \in Nat, RingOf(n, m, b, s, r),
           m < n, NEW v \in Val, NEW b2, PutIn(b2, b, s, v)
    PROVE  BufferOf(n, m + 1, b2, r) = Append(BufferOf(n, m, b, r), v)
<1>1. b2 = [b EXCEPT ![s] = v]
  BY DEF PutIn
<1>2. RingOf(n, m + 1, b2, Wrap(s, n), r)
  BY <1>1, RingPut
<1>3. PICK u : u = BufferOf(n, m, b, r)
  OBVIOUS
<1>4. PICK w : w = BufferOf(n, m + 1, b2, r)
  OBVIOUS
<1>5. u \in Seq(Val) /\ Len(u) = m /\ \A i \in 1..m : u[i] = b[Slot(r, i, n)]
  <2>1. Values(u, n, m, b, r)
    BY <1>3, BufferSeq
  <2>2. QED
    BY <2>1 DEF Values
<1>6. w \in Seq(Val) /\ Len(w) = m + 1 /\ \A i \in 1..m + 1 : w[i] = b2[Slot(r, i, n)]
  <2>1. Wrap(s, n) \in Nat /\ m + 1 \in Nat
    BY DEF Wrap
  <2>2. QED
    <3>1. Values(w, n, m + 1, b2, r)
      BY <1>2, <1>4, <2>1, BufferSeq
    <3>2. QED
      BY <3>1 DEF Values
<1>7. /\ r < n /\ s = IF r + m < n THEN r + m ELSE r + m - n
      /\ b \in [0..n - 1 -> Val \cup {Zero}] /\ s \in 0..n - 1
  BY DEF RingOf
<1>8. \A i \in 1..m : Slot(r, i, n) \in 0..n - 1 /\ Slot(r, i, n) # s
  BY <1>7 DEF Slot
<1>9. Slot(r, m + 1, n) = s
  BY <1>7 DEF Slot
<1>10. \A i \in 1..m : b2[Slot(r, i, n)] = b[Slot(r, i, n)]
  BY <1>1, <1>7, <1>8
<1>11. b2[s] = v
  BY <1>1, <1>7
<1>12. PICK a : a = Append(u, v)
  OBVIOUS
<1>13. a \in Seq(Val) /\ Len(a) = m + 1 /\ a[m + 1] = v /\ \A i \in 1..m : a[i] = u[i]
  BY <1>5, <1>12, AppendProperties
<1>14. ASSUME NEW i \in 1..m + 1 PROVE w[i] = a[i]
  <2>1. CASE i = m + 1
    BY <1>6, <1>9, <1>11, <1>13, <2>1
  <2>2. CASE i \in 1..m
    BY <1>5, <1>6, <1>10, <1>13, <2>2
  <2>3. QED
    BY <2>1, <2>2
<1>15. w = a
  BY <1>6, <1>13, <1>14, SeqEqual
<1>16. QED
  BY <1>3, <1>4, <1>12, <1>15

\* The oldest value is taken.
Took(n, m, b, r, b2) == BufferOf(n, m - 1, b2, Wrap(r, n)) = Tail(BufferOf(n, m, b, r))

\* Its slot is cleared.
LEMMA BufferTake ==
    ASSUME NEW n \in Nat, NEW m \in Nat, NEW b, NEW s \in Nat, NEW r \in Nat, RingOf(n, m, b, s, r),
           m > 0, NEW b2, PutIn(b2, b, r, Zero)
    PROVE  Took(n, m, b, r, b2)
<1>1. b2 = [b EXCEPT ![r] = Zero]
  BY DEF PutIn
<1>2. PICK r2 \in Nat : r2 = Wrap(r, n)
  BY DEF Wrap
<1>3. RingOf(n, m - 1, b2, s, r2)
  BY <1>1, <1>2, RingTake
<1>4. PICK u : u = BufferOf(n, m, b, r)
  OBVIOUS
<1>5. PICK w : w = BufferOf(n, m - 1, b2, r2)
  OBVIOUS
<1>6. u \in Seq(Val) /\ Len(u) = m /\ u # <<>> /\ \A i \in 1..m : u[i] = b[Slot(r, i, n)]
  <2>1. Values(u, n, m, b, r)
    BY <1>4, BufferSeq
  <2>2. u # <<>>
    BY <1>4, BufferHead
  <2>3. QED
    BY <2>1, <2>2 DEF Values
<1>7. w \in Seq(Val) /\ Len(w) = m - 1 /\ \A i \in 1..m - 1 : w[i] = b2[Slot(r2, i, n)]
  <2>1. m - 1 \in Nat
    OBVIOUS
  <2>2. QED
    <3>1. Values(w, n, m - 1, b2, r2)
      BY <1>3, <1>5, <2>1, BufferSeq
    <3>2. QED
      BY <3>1 DEF Values
<1>8. r < n /\ m <= n /\ b \in [0..n - 1 -> Val \cup {Zero}] /\ r \in 0..n - 1
  BY DEF RingOf
<1>9. ASSUME NEW i \in 1..m - 1
      PROVE  /\ i + 1 \in 1..m /\ Slot(r2, i, n) = Slot(r, i + 1, n)
             /\ Slot(r2, i, n) \in 0..n - 1 /\ Slot(r2, i, n) # r
  BY <1>2, <1>8 DEF Slot, Wrap
<1>10. \A i \in 1..m - 1 : w[i] = u[i + 1]
  BY <1>1, <1>6, <1>7, <1>8, <1>9
<1>11. PICK a : a = Tail(u)
  OBVIOUS
<1>12. a \in Seq(Val) /\ Len(a) = m - 1 /\ \A i \in 1..m - 1 : a[i] = u[i + 1]
  BY <1>6, <1>11, HeadTailProperties
<1>13. w = a
  BY <1>7, <1>10, <1>12, SeqEqual
<1>14. QED
  BY <1>2, <1>4, <1>5, <1>11, <1>13 DEF Took

\* The oldest value is taken and another one added.
Swapped(n, m, b, r, b2, v) == BufferOf(n, m, b2, Wrap(r, n)) = Append(Tail(BufferOf(n, m, b, r)), v)

\* In a full ring the slot of the oldest value is used for the new one.
LEMMA BufferSwap ==
    ASSUME NEW n \in Nat, NEW m \in Nat, NEW b, NEW s \in Nat, NEW r \in Nat, RingOf(n, m, b, s, r),
           m = n, n > 0, NEW v \in Val, NEW b2, PutIn(b2, b, r, v)
    PROVE  Swapped(n, m, b, r, b2, v)
<1>1. b2 = [b EXCEPT ![r] = v]
  BY DEF PutIn
<1>2. PICK r2 \in Nat : r2 = Wrap(r, n)
  BY DEF Wrap
<1>3. RingOf(n, m, b2, r2, r2)
  BY <1>1, <1>2, RingSwap
<1>4. PICK u : u = BufferOf(n, m, b, r)
  OBVIOUS
<1>5. PICK w : w = BufferOf(n, m, b2, r2)
  OBVIOUS
<1>6. u \in Seq(Val) /\ Len(u) = m /\ u # <<>> /\ \A i \in 1..m : u[i] = b[Slot(r, i, n)]
  <2>1. Values(u, n, m, b, r)
    BY <1>4, BufferSeq
  <2>2. u # <<>>
    BY <1>4, BufferHead
  <2>3. QED
    BY <2>1, <2>2 DEF Values
<1>7. w \in Seq(Val) /\ Len(w) = m /\ \A i \in 1..m : w[i] = b2[Slot(r2, i, n)]
  <2>1. Values(w, n, m, b2, r2)
    BY <1>3, <1>5, BufferSeq
  <2>2. QED
    BY <2>1 DEF Values
<1>8. r < n /\ b \in [0..n - 1 -> Val \cup {Zero}] /\ r \in 0..n - 1
  BY DEF RingOf
<1>9. ASSUME NEW i \in 1..m - 1
      PROVE  /\ i + 1 \in 1..m /\ i \in 1..m /\ Slot(r2, i, n) = Slot(r, i + 1, n)
             /\ Slot(r2, i, n) \in 0..n - 1 /\ Slot(r2, i, n) # r
  BY <1>2, <1>8 DEF Slot, Wrap
<1>10. \A i \in 1..m - 1 : w[i] = u[i + 1]
  BY <1>1, <1>6, <1>7, <1>8, <1>9
<1>11. w[m] = v
  <2>1. Slot(r2, m, n) = r /\ m \in 1..m
    BY <1>2, <1>8 DEF Slot, Wrap
  <2>2. QED
    BY <1>1, <1>7, <1>8, <2>1
<1>12. PICK a : a = Tail(u)
  OBVIOUS
<1>13. a \in Seq(Val) /\ Len(a) = m - 1 /\ \A i \in 1..m - 1 : a[i] = u[i + 1]
  BY <1>6, <1>12, HeadTailProperties
<1>14. PICK z : z = Append(a, v)
  OBVIOUS
<1>15. z \in Seq(Val) /\ Len(z) = m /\ z[m] = v /\ \A i \in 1..m - 1 : z[i] = u[i + 1]
  BY <1>13, <1>14, AppendProperties
<1>16. ASSUME NEW i \in 1..m PROVE w[i] = z[i]
  <2>1. i = m \/ i \in 1..m - 1
    OBVIOUS
  <2>2. QED
    BY <1>10, <1>11, <1>15, <2>1
<1>17. w = z
  BY <1>7, <1>15, <1>16, SeqEqual
<1>18. QED
  BY <1>2, <1>4, <1>5, <1>12, <1>14, <1>17 DEF Swapped

\* What a blocked sender offers, and what several offer in the order of their queue.
Offer(v, x) == v[x[1]][x[2]]
OffersOf(s, v) == [i \in 1..Len(s) |-> Offer(v, s[i])]
\* u is the sequence of these values.
Offered(u, s, v) == u \in Seq(Val) /\ Len(u) = Len(s) /\ \A i \in 1..Len(s) : u[i] = Offer(v, s[i])

\* One value for each sender.
LEMMA OffersSeq ==
    ASSUME NEW s \in Seq(Sudog), NEW v, \A x \in ToSet(s) : Offer(v, x) \in Val, NEW u, u = OffersOf(s, v)
    PROVE  Offered(u, s, v)
<1>1. Len(s) \in Nat /\ DOMAIN s = 1..Len(s)
  OBVIOUS
<1>2. \A i \in 1..Len(s) : Offer(v, s[i]) \in Val
  BY <1>1 DEF ToSet
<1>3. QED
  BY <1>1, <1>2 DEF Offered, OffersOf

\* Only the values of those in the queue count.
LEMMA OffersAgree ==
    ASSUME NEW s \in Seq(Sudog), NEW v, NEW v2, \A x \in ToSet(s) : Offer(v, x) = Offer(v2, x)
    PROVE  OffersOf(s, v) = OffersOf(s, v2)
<1>1. \A i \in 1..Len(s) : Offer(v, s[i]) = Offer(v2, s[i])
  BY DEF ToSet
<1>2. QED
  BY <1>1 DEF OffersOf

\* Another sender.
LEMMA OffersAppend ==
    ASSUME NEW s \in Seq(Sudog), NEW v, NEW y \in Sudog, \A x \in ToSet(s) : Offer(v, x) \in Val, Offer(v, y) \in Val
    PROVE  OffersOf(Append(s, y), v) = Append(OffersOf(s, v), Offer(v, y))
<1>1. PICK t : t = Append(s, y)
  OBVIOUS
<1>2. PICK l \in Nat : l = Len(s)
  OBVIOUS
<1>3. t \in Seq(Sudog) /\ Len(t) = l + 1 /\ t[l + 1] = y /\ \A i \in 1..l : t[i] = s[i]
  BY <1>1, <1>2, AppendProperties
<1>4. PICK u : u = OffersOf(s, v)
  OBVIOUS
<1>5. Offered(u, s, v)
  BY <1>4, OffersSeq
<1>6. u \in Seq(Val) /\ Len(u) = l /\ \A i \in 1..l : u[i] = Offer(v, s[i])
  BY <1>2, <1>5 DEF Offered
<1>7. PICK a : a = Append(u, Offer(v, y))
  OBVIOUS
<1>8. a \in Seq(Val) /\ Len(a) = l + 1 /\ a[l + 1] = Offer(v, y) /\ \A i \in 1..l : a[i] = u[i]
  BY <1>6, <1>7, AppendProperties
<1>9. \A i \in 1..l + 1 : a[i] = Offer(v, t[i])
  <2>1. \A i \in 1..l + 1 : i = l + 1 \/ i \in 1..l
    OBVIOUS
  <2>2. QED
    BY <1>3, <1>6, <1>8, <2>1
<1>10. a = [i \in 1..l + 1 |-> a[i]]
  BY <1>8
<1>11. a = OffersOf(t, v)
  BY <1>3, <1>9, <1>10 DEF OffersOf
<1>12. QED
  BY <1>1, <1>4, <1>7, <1>11

\* The first sender, and the others.
LEMMA OffersTail ==
    ASSUME NEW s \in Seq(Sudog), NEW v, \A x \in ToSet(s) : Offer(v, x) \in Val, s # <<>>
    PROVE  /\ OffersOf(Tail(s), v) = Tail(OffersOf(s, v))
           /\ OffersOf(s, v) # <<>> /\ Head(OffersOf(s, v)) = Offer(v, Head(s))
<1>1. PICK t : t = Tail(s)
  OBVIOUS
<1>2. PICK l \in Nat : l = Len(s) /\ l # 0
  OBVIOUS
<1>3. t \in Seq(Sudog) /\ Len(t) = l - 1 /\ \A i \in 1..l - 1 : t[i] = s[i + 1]
  BY <1>1, <1>2, HeadTailProperties
<1>4. PICK u : u = OffersOf(s, v)
  OBVIOUS
<1>5. Offered(u, s, v)
  BY <1>4, OffersSeq
<1>6. u \in Seq(Val) /\ Len(u) = l /\ u # <<>> /\ \A i \in 1..l : u[i] = Offer(v, s[i])
  BY <1>2, <1>5 DEF Offered
<1>7. PICK a : a = Tail(u)
  OBVIOUS
<1>8. a \in Seq(Val) /\ Len(a) = l - 1 /\ \A i \in 1..l - 1 : a[i] = u[i + 1]
  BY <1>6, <1>7, HeadTailProperties
<1>9. \A i \in 1..l - 1 : a[i] = Offer(v, t[i])
  <2>1. \A i \in 1..l - 1 : i + 1 \in 1..l
    OBVIOUS
  <2>2. QED
    BY <1>3, <1>6, <1>8, <2>1
<1>10. a = [i \in 1..l - 1 |-> a[i]]
  BY <1>8
<1>11. a = OffersOf(t, v)
  BY <1>3, <1>9, <1>10 DEF OffersOf
<1>12. Head(u) = u[1] /\ Head(s) = s[1] /\ 1 \in 1..l
  BY <1>2, <1>6
<1>13. QED
  BY <1>1, <1>4, <1>6, <1>7, <1>11, <1>12

\* Some of the senders.
LEMMA OffersThin ==
    ASSUME NEW s \in Seq(Sudog), NEW v, \A x \in ToSet(s) : Offer(v, x) \in Val, NEW T \in SUBSET DOMAIN s
    PROVE  /\ OffersOf(At(s, T), v) = At(OffersOf(s, v), T)
           /\ T \in SUBSET DOMAIN OffersOf(s, v)
<1>1. PICK t : t = At(s, T)
  OBVIOUS
<1>2. PICK n : n = Cardinality(T)
  OBVIOUS
<1>3. n \in Nat /\ Len(t) = n /\ \A i \in 1..n : Nth(T, i) \in T /\ t[i] = s[Nth(T, i)]
  BY <1>1, <1>2, AtProperties
<1>4. DOMAIN s = 1..Len(s)
  OBVIOUS
<1>5. PICK u : u = OffersOf(s, v)
  OBVIOUS
<1>6. DOMAIN u = 1..Len(s) /\ \A i \in 1..Len(s) : u[i] = Offer(v, s[i])
  BY <1>5 DEF OffersOf
<1>7. \A i \in 1..n : Offer(v, t[i]) = u[Nth(T, i)]
  BY <1>3, <1>4, <1>6
<1>8. OffersOf(t, v) = At(u, T)
  BY <1>2, <1>3, <1>7 DEF OffersOf, At
<1>9. QED
  BY <1>1, <1>4, <1>5, <1>6, <1>8

\* A line is the buffer and the offers.
LEMMA LineOffer ==
    ASSUME NEW b \in Seq(Val), NEW v \in Seq(Val), NEW x \in Val
    PROVE  b \o Append(v, x) = Append(b \o v, x)
  BY AppendProperties, ConcatProperties, SeqEqual

\* The first of the line leaves.
LEMMA LineTake ==
    ASSUME NEW b \in Seq(Val), NEW v \in Seq(Val), b # <<>>
    PROVE  /\ b \o v # <<>> /\ Head(b \o v) = Head(b)
           /\ Tail(b) \o v = Tail(b \o v)
<1>1. PICK t : t = Tail(b)
  OBVIOUS
<1>2. t \in Seq(Val) /\ Len(t) = Len(b) - 1 /\ \A i \in 1..Len(b) - 1 : t[i] = b[i + 1]
  BY <1>1, HeadTailProperties
<1>3. PICK w : w = b \o v
  OBVIOUS
<1>4. Len(b) \in Nat /\ Len(v) \in Nat /\ Len(b) # 0
  OBVIOUS
<1>5. /\ w \in Seq(Val) /\ Len(w) = Len(b) + Len(v)
      /\ \A i \in 1..Len(b) + Len(v) : w[i] = IF i <= Len(b) THEN b[i] ELSE v[i - Len(b)]
  BY <1>3, ConcatProperties
<1>6. w # <<>> /\ Head(w) = b[1] /\ Head(b) = b[1]
  BY <1>4, <1>5
<1>7. PICK a : a = Tail(w)
  OBVIOUS
<1>8. a \in Seq(Val) /\ Len(a) = Len(w) - 1 /\ \A i \in 1..Len(w) - 1 : a[i] = w[i + 1]
  BY <1>5, <1>6, <1>7, HeadTailProperties
<1>9. PICK z : z = t \o v
  OBVIOUS
<1>10. /\ z \in Seq(Val) /\ Len(z) = Len(t) + Len(v)
       /\ \A i \in 1..Len(t) + Len(v) : z[i] = IF i <= Len(t) THEN t[i] ELSE v[i - Len(t)]
  BY <1>2, <1>9, ConcatProperties
<1>11. ASSUME NEW i \in 1..Len(z) PROVE z[i] = a[i]
  <2>1. i + 1 \in 1..Len(b) + Len(v) /\ i \in 1..Len(w) - 1 /\ i \in 1..Len(t) + Len(v)
    BY <1>2, <1>4, <1>5, <1>10
  <2>2. a[i] = IF i + 1 <= Len(b) THEN b[i + 1] ELSE v[i + 1 - Len(b)]
    BY <1>5, <1>8, <2>1
  <2>3. z[i] = IF i <= Len(b) - 1 THEN b[i + 1] ELSE v[i - (Len(b) - 1)]
    BY <1>2, <1>4, <1>10, <2>1
  <2>4. i + 1 - Len(b) = i - (Len(b) - 1) /\ (i + 1 <= Len(b) <=> i <= Len(b) - 1)
    BY <1>4
  <2>5. QED
    BY <2>2, <2>3, <2>4
<1>12. Len(z) = Len(a)
  BY <1>2, <1>4, <1>5, <1>8, <1>10
<1>13. z = a
  BY <1>8, <1>10, <1>11, <1>12, SeqEqual
<1>14. QED
  BY <1>1, <1>3, <1>6, <1>7, <1>9, <1>13

\* The first of the line leaves, and the first offer becomes the last buffered value.
LEMMA LineShift ==
    ASSUME NEW b \in Seq(Val), NEW v \in Seq(Val), b # <<>>, v # <<>>
    PROVE  Append(Tail(b), Head(v)) \o Tail(v) = Tail(b \o v)
<1>1. PICK t : t = Tail(b)
  OBVIOUS
<1>2. t \in Seq(Val)
  BY <1>1, HeadTailProperties
<1>3. PICK x \in Val : x = Head(v)
  BY HeadTailProperties
<1>4. PICK y : y = Tail(v)
  OBVIOUS
<1>5. y \in Seq(Val) /\ Len(y) = Len(v) - 1 /\ \A i \in 1..Len(v) - 1 : y[i] = v[i + 1]
  BY <1>4, HeadTailProperties
<1>6. Len(t) \in Nat /\ Len(v) \in Nat /\ Len(v) # 0 /\ x = v[1]
  BY <1>2, <1>3
<1>7. PICK a : a = Append(t, x)
  OBVIOUS
<1>8. a \in Seq(Val) /\ Len(a) = Len(t) + 1 /\ a[Len(t) + 1] = x /\ \A i \in 1..Len(t) : a[i] = t[i]
  BY <1>2, <1>7, AppendProperties
<1>9. PICK w : w = a \o y
  OBVIOUS
<1>10. /\ w \in Seq(Val) /\ Len(w) = Len(a) + Len(y)
       /\ \A i \in 1..Len(a) + Len(y) : w[i] = IF i <= Len(a) THEN a[i] ELSE y[i - Len(a)]
  BY <1>5, <1>8, <1>9, ConcatProperties
<1>11. PICK z : z = t \o v
  OBVIOUS
<1>12. /\ z \in Seq(Val) /\ Len(z) = Len(t) + Len(v)
       /\ \A i \in 1..Len(t) + Len(v) : z[i] = IF i <= Len(t) THEN t[i] ELSE v[i - Len(t)]
  BY <1>2, <1>11, ConcatProperties
<1>13. Len(w) = Len(z)
  BY <1>5, <1>6, <1>8, <1>10, <1>12
<1>14. ASSUME NEW i \in 1..Len(w) PROVE w[i] = z[i]
  <2>1. i \in 1..Len(t) + Len(v) /\ i \in 1..Len(a) + Len(y)
    BY <1>10, <1>12, <1>13
  <2>2. CASE i <= Len(t)
    <3>1. i \in 1..Len(t) /\ i <= Len(a)
      BY <1>6, <1>8, <2>1, <2>2
    <3>2. QED
      BY <1>8, <1>10, <1>12, <2>1, <2>2, <3>1
  <2>3. CASE i = Len(t) + 1
    <3>1. i - Len(t) = 1 /\ i <= Len(a) /\ ~(i <= Len(t))
      BY <1>6, <1>8, <2>3
    <3>2. z[i] = x /\ w[i] = x
      BY <1>6, <1>8, <1>10, <1>12, <2>1, <2>3, <3>1
    <3>3. QED
      BY <3>2
  <2>4. CASE i > Len(t) + 1
    <3>1. /\ i - Len(a) \in 1..Len(v) - 1 /\ ~(i <= Len(a)) /\ ~(i <= Len(t))
          /\ (i - Len(a)) + 1 = i - Len(t)
      BY <1>5, <1>6, <1>8, <1>10, <2>1, <2>4
    <3>2. QED
      BY <1>5, <1>10, <1>12, <2>1, <3>1
  <2>5. QED
    BY <1>6, <2>1, <2>2, <2>3, <2>4
<1>15. w = z
  BY <1>10, <1>12, <1>13, <1>14, SeqEqual
<1>16. t \o v = Tail(b \o v)
  BY <1>1, LineTake
<1>17. QED
  BY <1>1, <1>3, <1>4, <1>7, <1>9, <1>11, <1>15, <1>16

\* rest is line without some of the elements after the first n.
Thin(line, rest, n) == \E gone \in SUBSET (n + 1..Len(line)) : rest = At(line, DOMAIN line \ gone)

\* Some of the offers are taken back.
LEMMA LineThin ==
    ASSUME NEW b \in Seq(Val), NEW v \in Seq(Val), NEW T \in SUBSET DOMAIN v
    PROVE  Thin(b \o v, b \o At(v, T), Len(b))
<1>1. PICK l \in Nat : l = Len(b)
  OBVIOUS
<1>2. PICK k \in Nat : k = Len(v) /\ DOMAIN v = 1..k
  OBVIOUS
<1>3. PICK w : w = b \o v
  OBVIOUS
<1>4. /\ w \in Seq(Val) /\ Len(w) = l + k
      /\ \A i \in 1..l + k : w[i] = IF i <= l THEN b[i] ELSE v[i - l]
  BY <1>1, <1>2, <1>3, ConcatProperties
<1>5. DOMAIN w = 1..l + k
  BY <1>4
<1>6. PICK n : n = Cardinality(T)
  OBVIOUS
<1>7. PICK a : a = At(v, T)
  OBVIOUS
<1>8. /\ IsFiniteSet(T) /\ n \in Nat /\ a \in Seq(Val) /\ Len(a) = n
      /\ \A i \in 1..n : Nth(T, i) \in T /\ a[i] = v[Nth(T, i)]
  BY <1>6, <1>7, AtProperties
<1>9. /\ \A i, j \in 1..n : i < j => Nth(T, i) < Nth(T, j)
      /\ \A x \in T : \E i \in 1..n : Nth(T, i) = x
  <2>1. T \in SUBSET Int
    BY <1>2
  <2>2. QED
    BY <1>6, <1>8, <2>1, NthLists
<1>10. PICK gone : gone = {l + i : i \in (1..k) \ T} /\ gone \in SUBSET (l + 1..l + k)
  <2>1. \A i \in (1..k) \ T : l + i \in l + 1..l + k
    OBVIOUS
  <2>2. QED
    BY <2>1
<1>11. PICK S \in SUBSET (1..l + k) : S = (1..l + k) \ gone
  OBVIOUS
<1>12. \A i \in 1..l : i \in S
  BY <1>10, <1>11
<1>13. \A i \in 1..k : l + i \in S <=> i \in T
  <2>1. TAKE i \in 1..k
  <2>2. l + i \in 1..l + k
    OBVIOUS
  <2>3. \A j \in 1..k : l + j = l + i => j = i
    OBVIOUS
  <2>4. QED
    BY <1>10, <1>11, <2>2, <2>3
<1>14. \A i \in 1..n : Nth(T, i) \in 1..k /\ Nth(T, i) \in T
  BY <1>2, <1>8
<1> DEFINE f == [i \in 1..l + n |-> IF i <= l THEN i ELSE l + Nth(T, i - l)]
<1>15. ASSUME NEW i \in 1..l + n
       PROVE  /\ f[i] \in S /\ f[i] \in Int
              /\ (i <= l => f[i] = i)
              /\ ~(i <= l) => i - l \in 1..n /\ f[i] = l + Nth(T, i - l)
  <2>1. CASE i <= l
    <3>1. i \in 1..l
      BY <2>1
    <3>2. QED
      BY <1>12, <2>1, <3>1
  <2>2. CASE ~(i <= l)
    <3>1. i - l \in 1..n
      BY <1>8, <2>2
    <3>2. l + Nth(T, i - l) \in S /\ l + Nth(T, i - l) \in Int
      BY <1>13, <1>14, <3>1
    <3>3. QED
      BY <2>2, <3>1, <3>2
  <2>3. QED
    BY <2>1, <2>2
<1>16. f \in [1..l + n -> S]
  BY <1>15
<1> HIDE DEF f
<1>17. ASSUME NEW i \in 1..l + n, NEW j \in 1..l + n, i < j PROVE f[i] < f[j]
  <2>1. CASE j <= l
    <3>1. i <= l
      BY <1>17, <2>1
    <3>2. QED
      BY <1>15, <1>17, <2>1, <3>1
  <2>2. CASE ~(j <= l) /\ i <= l
    <3>1. j - l \in 1..n /\ f[j] = l + Nth(T, j - l) /\ f[i] = i
      BY <1>15, <2>2
    <3>2. PICK x \in 1..k : x = Nth(T, j - l)
      BY <1>14, <3>1
    <3>3. QED
      BY <2>2, <3>1, <3>2
  <2>3. CASE ~(j <= l) /\ ~(i <= l)
    <3>1. /\ j - l \in 1..n /\ f[j] = l + Nth(T, j - l)
          /\ i - l \in 1..n /\ f[i] = l + Nth(T, i - l) /\ i - l < j - l
      BY <1>15, <1>17, <2>3
    <3>2. PICK x \in 1..k : x = Nth(T, j - l)
      BY <1>14, <3>1
    <3>3. PICK y \in 1..k : y = Nth(T, i - l)
      BY <1>14, <3>1
    <3>4. y < x
      BY <1>9, <3>1, <3>2, <3>3
    <3>5. QED
      BY <3>1, <3>2, <3>3, <3>4
  <2>4. QED
    BY <2>1, <2>2, <2>3
<1>18. ASSUME NEW x \in S PROVE \E i \in 1..l + n : f[i] = x
  <2>1. CASE x <= l
    <3>1. x \in 1..l + n
      BY <1>8, <2>1
    <3>2. QED
      BY <1>15, <2>1, <3>1
  <2>2. CASE ~(x <= l)
    <3>1. PICK y \in 1..k : y = x - l
      BY <2>2
    <3>2. l + y = x
      BY <3>1
    <3>3. y \in T
      BY <1>13, <3>2
    <3>4. PICK j \in 1..n : Nth(T, j) = y
      BY <1>9, <3>3
    <3>5. l + j \in 1..l + n /\ ~(l + j <= l) /\ (l + j) - l = j
      BY <1>8
    <3>6. f[l + j] = l + Nth(T, j)
      BY <1>15, <3>5
    <3>7. f[l + j] = x
      BY <3>2, <3>4, <3>6
    <3>8. QED
      BY <3>5, <3>7
  <2>3. QED
    BY <2>1, <2>2
<1>19. Cardinality(S) = l + n /\ \A i \in 1..l + n : Nth(S, i) = f[i]
  <2>1. ListsUp(f, l + n, S)
    BY <1>8, <1>16, <1>17, <1>18 DEF ListsUp
  <2>2. S \in SUBSET Int
    OBVIOUS
  <2>3. QED
    BY <2>1, <2>2, Upwards
<1>20. PICK u : u = At(w, S)
  OBVIOUS
<1>21. u \in Seq(Val) /\ Len(u) = l + n /\ \A i \in 1..l + n : u[i] = w[f[i]]
  <2>1. S \in SUBSET DOMAIN w
    BY <1>5
  <2>2. QED
    BY <1>4, <1>19, <1>20, <2>1, AtProperties
<1>22. PICK z : z = b \o a
  OBVIOUS
<1>23. /\ z \in Seq(Val) /\ Len(z) = l + n
       /\ \A i \in 1..l + n : z[i] = IF i <= l THEN b[i] ELSE a[i - l]
  BY <1>1, <1>8, <1>22, ConcatProperties
<1>24. ASSUME NEW i \in 1..l + n PROVE z[i] = u[i]
  <2>1. CASE i <= l
    <3>1. f[i] = i /\ i \in 1..l + k
      BY <1>15, <2>1
    <3>2. QED
      BY <1>4, <1>21, <1>23, <2>1, <3>1
  <2>2. CASE ~(i <= l)
    <3>1. i - l \in 1..n /\ f[i] = l + Nth(T, i - l)
      BY <1>15, <2>2
    <3>2. PICK x \in 1..k : x = Nth(T, i - l)
      BY <1>14, <3>1
    <3>3. l + x \in 1..l + k /\ ~(l + x <= l) /\ (l + x) - l = x
      OBVIOUS
    <3>4. w[l + x] = v[x]
      BY <1>4, <3>3
    <3>5. a[i - l] = v[x]
      BY <1>8, <3>1, <3>2
    <3>6. u[i] = v[x]
      BY <1>21, <3>1, <3>2, <3>4
    <3>7. QED
      BY <1>23, <2>2, <3>5, <3>6
  <2>3. QED
    BY <2>1, <2>2
<1>25. z = u
  BY <1>21, <1>23, <1>24, SeqEqual
<1>26. gone \in SUBSET (Len(b) + 1..Len(w)) /\ S = DOMAIN w \ gone
  BY <1>1, <1>4, <1>5, <1>10, <1>11
<1>27. QED
  BY <1>3, <1>7, <1>20, <1>22, <1>25, <1>26 DEF Thin

-----------------------------------------------------------------------------
\* Each channel is a FIFO: steps.

\* The two parts of the line of c, what receives from c have obtained, and that a step
\* is one of the FIFO or leaves it alone.
Buffered(c) == BufferOf(dataqsiz[c], qcount[c], buf[c], recvx[c])
Senders(c) == Live(q[<<c, "send">>])
Offers(c) == OffersOf(Senders(c), val)
From(k, c) == k # NoCase /\ Way(k) = <<c, "recv">>
Got(c) == [g \in G |-> IF From(param[g], c) THEN elem[g] ELSE NoVal]
Refines(c) == [Fifo(c)!Next]_(Fifo(c)!vars)

\* The steps of a FIFO, in terms of the state of the channel.
LEMMA FifoSame ==
    ASSUME NEW c \in C, UNCHANGED dataqsiz, closed'[c] = closed[c], Line(c)' = Line(c), Got(c)' = Got(c)
    PROVE  Refines(c)
  BY DEF Refines, Got, From, Fifo!vars

\* A value joins the line.
LEMMA FifoSend ==
    ASSUME NEW c \in C, UNCHANGED dataqsiz, closed'[c] = closed[c], Got(c)' = Got(c), ~closed[c],
           NEW v \in Val, Line(c)' = Append(Line(c), v)
    PROVE  Refines(c)
  BY DEF Refines, Got, From, Fifo!Next, Fifo!Send

\* A value meets a receiver.
LEMMA FifoMeet ==
    ASSUME NEW c \in C, UNCHANGED dataqsiz, closed'[c] = closed[c], ~closed[c],
           NEW v \in Val, NEW g \in G, Got(c)[g] = NoVal, Got(c)' = [Got(c) EXCEPT ![g] = v],
           Line(c) = <<>> \/ (dataqsiz[c] = 0 /\ Len(Line(c)) = 1), Line(c)' = <<>>
    PROVE  Refines(c)
  BY DEF Refines, Got, From, Fifo!Next, Fifo!Meet, Fifo!Obtain

\* The first value of the line is received.
LEMMA FifoReceive ==
    ASSUME NEW c \in C, UNCHANGED dataqsiz, closed'[c] = closed[c], NEW g \in G, Got(c)[g] = NoVal,
           Got(c)' = [Got(c) EXCEPT ![g] = Head(Line(c))], Line(c) # <<>>, Line(c)' = Tail(Line(c))
    PROVE  Refines(c)
  BY DEF Refines, Got, From, Fifo!Next, Fifo!Receive, Fifo!Obtain

\* A closed and empty channel gives the zero value.
LEMMA FifoZero ==
    ASSUME NEW c \in C, UNCHANGED dataqsiz, closed'[c] = closed[c], NEW g \in G, Got(c)[g] = NoVal,
           Got(c)' = [Got(c) EXCEPT ![g] = Zero], closed[c], Line(c) = <<>>, Line(c)' = Line(c)
    PROVE  Refines(c)
  BY DEF Refines, Got, From, Fifo!Next, Fifo!ReceiveZero, Fifo!Obtain

\* A receive has returned.
LEMMA FifoForget ==
    ASSUME NEW c \in C, UNCHANGED dataqsiz, closed'[c] = closed[c], NEW g \in G,
           Got(c)' = [Got(c) EXCEPT ![g] = NoVal], Line(c)' = Line(c)
    PROVE  Refines(c)
  BY DEF Refines, Got, From, Fifo!Next, Fifo!Forget

\* Offers are taken back.
LEMMA FifoWithdraw ==
    ASSUME NEW c \in C, UNCHANGED dataqsiz, closed'[c] = closed[c], Got(c)' = Got(c),
           NEW gone \in SUBSET (dataqsiz[c] + 1..Len(Line(c))), Line(c)' = At(Line(c), DOMAIN Line(c) \ gone)
    PROVE  Refines(c)
  BY DEF Refines, Got, From, Fifo!Next, Fifo!Withdraw, Fifo!At, Fifo!Nth, At, Nth,
         Fifo!Cardinality, Cardinality, Fifo!IsFiniteSet, IsFiniteSet

\* The channel is closed.
LEMMA FifoClose ==
    ASSUME NEW c \in C, UNCHANGED dataqsiz, ~closed[c], closed'[c] = TRUE, Got(c)' = Got(c),
           Line(c)' = SubSeq(Line(c), 1, IF Len(Line(c)) < dataqsiz[c] THEN Len(Line(c)) ELSE dataqsiz[c])
    PROVE  Refines(c)
  BY DEF Refines, Got, From, Fifo!Next, Fifo!Close

\* What is known of a line.
LEMMA LineNow ==
    ASSUME IInv, NEW c \in C
    PROVE  /\ Line(c) = Buffered(c) \o Offers(c)
           /\ Buffered(c) \in Seq(Val) /\ Len(Buffered(c)) = qcount[c]
           /\ Offers(c) \in Seq(Val) /\ Len(Offers(c)) = Len(Senders(c))
           /\ dataqsiz[c] \in Nat /\ qcount[c] \in Nat /\ qcount[c] <= dataqsiz[c]
           /\ Senders(c) \in Seq(Sudog) /\ OwnersDiffer(Senders(c))
           /\ Owners(Senders(c)) = Waiters(<<c, "send">>) /\ ToSet(Senders(c)) \subseteq Standing(<<c, "send">>)
           /\ \A x \in ToSet(Senders(c)) : x[1] \in Waiters(<<c, "send">>) /\ Offer(val, x) \in Val
           /\ Senders(c) = At(q[<<c, "send">>], LiveAt(q[<<c, "send">>], selectDone))
           /\ Senders(c) = <<>> <=> Waiters(<<c, "send">>) = {}
           /\ Waiters(<<c, "send">>) # {} => qcount[c] = dataqsiz[c] /\ ~closed[c]
<1>1. PICK k \in Queue : k = <<c, "send">> /\ k[1] = c /\ k[2] = "send"
  BY QueueFacts
<1>2. Typed /\ OnceEach /\ Ring(c) /\ Reason(k)
  BY DEF IInv
<1>3. /\ Senders(c) \in Seq(Sudog) /\ (Senders(c) = <<>> <=> Waiters(k) = {})
      /\ OwnersDiffer(Senders(c)) /\ Owners(Senders(c)) = Waiters(k) /\ ToSet(Senders(c)) \subseteq Standing(k)
  BY <1>1, <1>2, LiveOf DEF Senders
<1>4. \A x \in ToSet(Senders(c)) : x[1] \in Waiters(k) /\ Offer(val, x) \in Val
  <2>1. TAKE x \in ToSet(Senders(c))
  <2>2. x \in Standing(k)
    BY <1>3
  <2>3. val[x[1]][x[2]] \in Val
    BY <1>1, <2>2, Found
  <2>4. QED
    BY <2>2, <2>3 DEF Waiters, Offer
<1>5. Offered(Offers(c), Senders(c), val)
  BY <1>3, <1>4, OffersSeq DEF Offers
<1>6. /\ dataqsiz[c] \in Nat /\ qcount[c] \in Nat /\ sendx[c] \in Nat /\ recvx[c] \in Nat
      /\ qcount[c] <= dataqsiz[c]
  BY <1>2 DEF Typed, Ring, RingOf
<1>7. Values(Buffered(c), dataqsiz[c], qcount[c], buf[c], recvx[c])
  BY <1>2, <1>6, BufferSeq DEF Ring, Buffered
<1>8. Waiters(k) # {} => qcount[c] = dataqsiz[c] /\ ~closed[c]
  BY <1>1, <1>2 DEF Reason, Waiters, Standing, ToSet
<1>9. Line(c) = Buffered(c) \o Offers(c)
  BY DEF Line, Buffered, BufferOf, Offers, OffersOf, Offer, Senders
<1>10. Senders(c) = At(q[k], LiveAt(q[k], selectDone))
  BY <1>1 DEF Senders, Live, Waiting, LiveAt
<1>11. Buffered(c) \in Seq(Val) /\ Len(Buffered(c)) = qcount[c]
  BY <1>7 DEF Values
<1>12. Offers(c) \in Seq(Val) /\ Len(Offers(c)) = Len(Senders(c))
  BY <1>5 DEF Offered
<1>13. QED
  BY <1>1, <1>3, <1>4, <1>6, <1>8, <1>9, <1>10, <1>11, <1>12

\* The two parts of the line of values, and who is not waiting while the buffer has room.
LEMMA LineParts ==
    ASSUME IInv, NEW c \in C
    PROVE  /\ \E b \in Seq(Val), v \in Seq(Val) : b = Buffered(c) /\ v = Offers(c) /\ Line(c) = b \o v
           /\ qcount[c] < dataqsiz[c] => Senders(c) = <<>>
<1>1. /\ Buffered(c) \in Seq(Val) /\ Offers(c) \in Seq(Val) /\ Line(c) = Buffered(c) \o Offers(c)
      /\ qcount[c] \in Nat /\ dataqsiz[c] \in Nat
      /\ Senders(c) = <<>> \/ qcount[c] = dataqsiz[c]
  BY LineNow
<1>2. qcount[c] < dataqsiz[c] => Senders(c) = <<>>
  BY <1>1
<1>3. QED
  BY <1>1, <1>2

\* A line after a step.
LEMMA LineNext ==
    ASSUME NEW c \in C
    PROVE  /\ Line(c)' = Buffered(c)' \o Offers(c)'
           /\ Buffered(c)' = BufferOf(dataqsiz'[c], qcount'[c], buf'[c], recvx'[c])
           /\ Offers(c)' = OffersOf(Senders(c)', val')
           /\ Senders(c)' = At(q'[<<c, "send">>], LiveAt(q'[<<c, "send">>], selectDone'))
<1>1. Line(c)' = Buffered(c)' \o Offers(c)'
  BY DEF Line, Buffered, BufferOf, Offers, OffersOf, Offer, Senders
<1>2. Senders(c)' = At(q'[<<c, "send">>], LiveAt(q'[<<c, "send">>], selectDone'))
  BY DEF Senders, Live, Waiting, LiveAt
<1>3. QED
  BY <1>1, <1>2 DEF Buffered, Offers

\* The ring of c is left alone.
SameRing(c) == qcount'[c] = qcount[c] /\ buf'[c] = buf[c] /\ recvx'[c] = recvx[c] /\ UNCHANGED dataqsiz

\* Without sudogs there are no live ones.
LEMMA NoneLive == \A done : At(<<>>, LiveAt(<<>>, done)) = <<>>
<1>1. TAKE done
<1>2. LiveAt(<<>>, done) = {}
  BY DEF LiveAt
<1>3. <<>> \in Seq(Sudog) /\ LiveAt(<<>>, done) \in SUBSET DOMAIN <<>>
  BY <1>2
<1>4. QED
  BY <1>2, <1>3, AtProperties

\* The same line.
LEMMA LineKept ==
    ASSUME IInv, NEW c \in C, SameRing(c), Senders(c)' = Senders(c),
           \A h \in Waiters(<<c, "send">>) : val'[h] = val[h]
    PROVE  Line(c)' = Line(c)
<1>1. /\ Senders(c) \in Seq(Sudog) /\ Line(c) = Buffered(c) \o Offers(c)
      /\ \A x \in ToSet(Senders(c)) : x[1] \in Waiters(<<c, "send">>)
  BY LineNow
<1>2. Offers(c)' = Offers(c)
  <2>1. \A x \in ToSet(Senders(c)) : Offer(val', x) = Offer(val, x)
    BY <1>1 DEF Offer
  <2>2. QED
    BY <1>1, <2>1, LineNext, OffersAgree DEF Offers
<1>3. Buffered(c)' = Buffered(c)
  BY LineNext DEF SameRing, Buffered
<1>4. QED
  BY <1>1, <1>2, <1>3, LineNext

\* A queue that is left alone, or cleared of dead sudogs, by a step in which none of
\* its selects ends.
LEMMA SendersKept ==
    ASSUME IInv, NEW c \in C,
           q'[<<c, "send">>] = q[<<c, "send">>]
              \/ (q'[<<c, "send">>] = <<>> /\ Waiters(<<c, "send">>) = {}),
           \A x \in ToSet(q[<<c, "send">>]) : selectDone'[x[1]] <=> selectDone[x[1]]
    PROVE  Senders(c)' = Senders(c)
<1>1. PICK s : s = q[<<c, "send">>]
  OBVIOUS
<1>2. /\ Senders(c) = At(s, LiveAt(s, selectDone))
      /\ Senders(c) = <<>> <=> Waiters(<<c, "send">>) = {}
  BY <1>1, LineNow
<1>3. CASE q'[<<c, "send">>] = s
  <2>1. LiveAt(s, selectDone') = LiveAt(s, selectDone)
    BY <1>1 DEF LiveAt, ToSet
  <2>2. QED
    BY <1>2, <1>3, <2>1, LineNext
<1>4. CASE q'[<<c, "send">>] = <<>> /\ Waiters(<<c, "send">>) = {}
  BY <1>2, <1>4, LineNext, NoneLive
<1>5. QED
  BY <1>1, <1>3, <1>4

\* When more of the senders are done, a line is thinned out.
LEMMA Thinned ==
    ASSUME NEW s \in Seq(Sudog), NEW done, NEW done2, \A x \in ToSet(s) : done[x[1]] => done2[x[1]],
           NEW v, \A x \in ToSet(At(s, LiveAt(s, done))) : Offer(v, x) \in Val, NEW b \in Seq(Val)
    PROVE  /\ At(s, LiveAt(s, done2)) \in Seq(Sudog)
           /\ ToSet(At(s, LiveAt(s, done2))) \subseteq ToSet(At(s, LiveAt(s, done)))
           /\ Thin(b \o OffersOf(At(s, LiveAt(s, done)), v),
                   b \o OffersOf(At(s, LiveAt(s, done2)), v), Len(b))
<1>1. PICK S \in SUBSET DOMAIN s : S = LiveAt(s, done)
  BY DEF LiveAt
<1>2. PICK R \in SUBSET S : R = LiveAt(s, done2)
  BY <1>1 DEF LiveAt, ToSet
<1>3. PICK u, w : u = At(s, S) /\ w = At(s, R)
  OBVIOUS
<1>4. u \in Seq(Sudog) /\ \A x \in ToSet(u) : Offer(v, x) \in Val
  BY <1>1, <1>3, AtProperties
<1>5. \E T \in SUBSET DOMAIN At(s, S) : At(s, R) = At(At(s, S), T)
  BY AtWithin
<1>6. PICK a, d : a = OffersOf(u, v) /\ d = OffersOf(w, v)
  OBVIOUS
<1>7. PICK T \in SUBSET DOMAIN u : w = At(u, T)
  BY <1>3, <1>5
<1>8. w \in Seq(Sudog) /\ ToSet(w) = {u[i] : i \in T}
  BY <1>7, <1>4, AtProperties
<1>9. ToSet(w) \subseteq ToSet(u)
  <2>1. \A i \in T : u[i] \in ToSet(u)
    BY <1>7 DEF ToSet
  <2>2. QED
    BY <1>8, <2>1
<1>10. d = At(a, T) /\ T \in SUBSET DOMAIN a
  BY <1>7, <1>4, <1>6, OffersThin
<1>11. a \in Seq(Val)
  BY <1>4, <1>6, OffersSeq DEF Offered
<1>12. Thin(b \o a, b \o d, Len(b))
  BY <1>10, <1>11, LineThin
<1>13. QED
  BY <1>1, <1>2, <1>3, <1>8, <1>9, <1>12, <1>6

\* A channel at which nothing happens, but that selects that end elsewhere no longer
\* wait there.
LEMMA QuietChannel ==
    ASSUME IInv, NEW c \in C, SameRing(c), closed'[c] = closed[c], Got(c)' = Got(c),
           q'[<<c, "send">>] = q[<<c, "send">>]
              \/ (q'[<<c, "send">>] = <<>> /\ Waiters(<<c, "send">>) = {}),
           \A x \in ToSet(q[<<c, "send">>]) : selectDone[x[1]] => selectDone'[x[1]],
           \A h \in Waiters(<<c, "send">>) : val'[h] = val[h]
    PROVE  Refines(c)
<1>1. PICK s : s = q[<<c, "send">>]
  OBVIOUS
<1>2. /\ Senders(c) = At(s, LiveAt(s, selectDone))
      /\ Senders(c) = <<>> <=> Waiters(<<c, "send">>) = {}
      /\ Line(c) = Buffered(c) \o Offers(c)
      /\ Buffered(c) \in Seq(Val) /\ Len(Buffered(c)) = qcount[c]
      /\ Offers(c) \in Seq(Val) /\ Len(Offers(c)) = Len(Senders(c))
      /\ Senders(c) \in Seq(Sudog)
      /\ \A x \in ToSet(Senders(c)) : x[1] \in Waiters(<<c, "send">>) /\ Offer(val, x) \in Val
      /\ Waiters(<<c, "send">>) # {} => qcount[c] = dataqsiz[c]
  BY <1>1, LineNow
<1>3. CASE Waiters(<<c, "send">>) = {}
  <2>1. CASE q'[<<c, "send">>] = <<>>
    <3>1. Senders(c)' = Senders(c)
      BY <1>2, <1>3, <2>1, LineNext, NoneLive
    <3>2. QED
      BY <1>3, <3>1, LineKept, FifoSame DEF SameRing
  <2>2. CASE q'[<<c, "send">>] = s
    <3>1. \A x \in ToSet(s) : selectDone[x[1]]
      BY <1>1, <1>3 DEF Waiters, Standing
    <3>2. \A x \in ToSet(s) : selectDone'[x[1]] <=> selectDone[x[1]]
      BY <1>1, <3>1
    <3>3. Senders(c)' = Senders(c)
      BY <1>1, <2>2, <3>2, SendersKept
    <3>4. QED
      BY <1>3, <3>3, LineKept, FifoSame DEF SameRing
  <2>3. QED
    BY <1>1, <2>1, <2>2
<1>4. CASE Waiters(<<c, "send">>) # {}
  <2>1. q'[<<c, "send">>] = s
    BY <1>1, <1>4
  <2>2. s \in Seq(Sudog)
    <3>1. <<c, "send">> \in Queue
      BY QueueFacts
    <3>2. QED
      BY <1>1, <3>1 DEF IInv, Typed
  <2>3. PICK b \in Seq(Val) : b = Buffered(c) /\ Len(b) = dataqsiz[c]
    BY <1>2, <1>4
  <2>4. Senders(c)' = At(s, LiveAt(s, selectDone'))
    BY <2>1, LineNext
  <2>5. /\ Senders(c)' \in Seq(Sudog) /\ ToSet(Senders(c)') \subseteq ToSet(Senders(c))
        /\ Thin(b \o OffersOf(Senders(c), val), b \o OffersOf(Senders(c)', val), Len(b))
    <3>1. \A x \in ToSet(At(s, LiveAt(s, selectDone))) : Offer(val, x) \in Val
      BY <1>2
    <3>2. \A x \in ToSet(s) : selectDone[x[1]] => selectDone'[x[1]]
      BY <1>1
    <3>3. /\ At(s, LiveAt(s, selectDone')) \in Seq(Sudog)
          /\ ToSet(At(s, LiveAt(s, selectDone'))) \subseteq ToSet(At(s, LiveAt(s, selectDone)))
          /\ Thin(b \o OffersOf(At(s, LiveAt(s, selectDone)), val),
                  b \o OffersOf(At(s, LiveAt(s, selectDone')), val), Len(b))
      BY <2>2, <3>1, <3>2, Thinned
    <3>4. QED
      BY <1>2, <2>4, <3>3
  <2>6. OffersOf(Senders(c)', val') = OffersOf(Senders(c)', val)
    <3>1. \A x \in ToSet(Senders(c)') : Offer(val', x) = Offer(val, x)
      BY <1>2, <2>5 DEF Offer
    <3>2. QED
      BY <2>5, <3>1, OffersAgree
  <2>7. Line(c)' = b \o OffersOf(Senders(c)', val)
    <3>1. Buffered(c)' = b
      BY <2>3, LineNext DEF SameRing, Buffered
    <3>2. QED
      BY <2>6, <3>1, LineNext
  <2>8. Line(c) = b \o OffersOf(Senders(c), val)
    BY <1>2, <2>3 DEF Offers
  <2>9. PICK gone \in SUBSET (dataqsiz[c] + 1..Len(Line(c))) : Line(c)' = At(Line(c), DOMAIN Line(c) \ gone)
    <3>1. Thin(Line(c), Line(c)', dataqsiz[c])
      BY <2>3, <2>5, <2>7, <2>8
    <3>2. QED
      BY <3>1 DEF Thin
  <2>10. QED
    BY <2>9, FifoWithdraw DEF SameRing
<1>5. QED
  BY <1>3, <1>4

\* What receives in progress have obtained: nothing new,
LEMMA GotSame ==
    ASSUME NEW c \in C,
           \A h \in G : \/ param'[h] = param[h] /\ elem'[h] = elem[h]
                        \/ ~From(param[h], c) /\ ~From(param'[h], c)
    PROVE  Got(c)' = Got(c)
  BY DEF Got

\* or v, by g.
LEMMA GotOne ==
    ASSUME NEW c \in C, NEW g \in G, NEW v,
           ~From(param[g], c), From(param'[g], c), elem'[g] = v,
           \A h \in G \ {g} : \/ param'[h] = param[h] /\ elem'[h] = elem[h]
                              \/ ~From(param[h], c) /\ ~From(param'[h], c)
    PROVE  Got(c)[g] = NoVal /\ Got(c)' = [Got(c) EXCEPT ![g] = v]
  BY DEF Got

\* A receive that has not been decided on, and one that has.
LEMMA FromFacts ==
    ASSUME NEW c \in C
    PROVE  /\ ~From(NoCase, c)
           /\ \A k \in Case : From(k, c) <=> k[1] = c /\ k[2] = "recv"
<1>1. \A k \in Case : k # NoCase /\ Way(k) = <<k[1], k[2]>>
  BY CaseFacts
<1>2. QED
  BY <1>1 DEF From

\* Blocked senders are asleep.
LEMMA SenderElse ==
    ASSUME IInv, NEW c \in C, NEW g \in G, pc[g] # "parked"
    PROVE  \A h \in Waiters(<<c, "send">>) : h \in G \ {g}
<1>1. PICK k \in Queue : k = <<c, "send">>
  BY QueueFacts
<1>2. \A x \in Standing(k) : x[1] \in G /\ pc[x[1]] = "parked"
  BY Found
<1>3. QED
  BY <1>1, <1>2 DEF Waiters

-----------------------------------------------------------------------------
\* Steps in which nothing moves.

\* The channels, and what has been received, are left alone.
LEMMA Unmoved ==
    ASSUME IInv, NEW c \in C, NEW g \in G, pc[g] # "parked",
           UNCHANGED <<ring, dataqsiz, closed, q, selectDone, elem, param>>,
           \A h \in G \ {g} : val'[h] = val[h]
    PROVE  Refines(c)
<1>1. SameRing(c)
  BY DEF SameRing, ring
<1>2. Got(c)' = Got(c)
  BY GotSame
<1>3. \A h \in Waiters(<<c, "send">>) : val'[h] = val[h]
  BY SenderElse
<1>4. QED
  BY <1>1, <1>2, <1>3, QuietChannel

\* Begin, the fast paths, the locks of a select, and goready.
LEMMA UnmovedSteps ==
    ASSUME IInv, NEW c \in C, NEW g \in G,
           Begin(g) \/ SendFast(g) \/ RecvFast(g) \/ sellock(g) \/ Ready(g)
    PROVE  Refines(c)
<1>1. CASE Begin(g)
  <2>1. \A h \in G \ {g} : val'[h] = val[h]
    BY <1>1 DEF Begin, IInv, Typed
  <2>2. pc[g] # "parked" /\ UNCHANGED <<ring, dataqsiz, closed, q, selectDone, elem, param>>
    BY <1>1 DEF Begin, hchan
  <2>3. QED
    BY <2>1, <2>2, Unmoved
<1>2. CASE \E from, refuses, next : Load(g, from, refuses, next) /\ from # "parked"
  <2>1. pc[g] # "parked" /\ UNCHANGED <<ring, dataqsiz, closed, q, selectDone, elem, param, val>>
    BY <1>2 DEF Load, hchan, call
  <2>2. QED
    BY <2>1, Unmoved
<1>3. CASE SendFast(g)
  BY <1>2, <1>3 DEF SendFast
<1>4. CASE RecvFast(g)
  BY <1>2, <1>4 DEF RecvFast
<1>5. CASE sellock(g)
  <2>1. pc[g] # "parked" /\ UNCHANGED <<ring, dataqsiz, closed, q, selectDone, elem, param, val>>
    BY <1>5 DEF sellock, call
  <2>2. QED
    BY <2>1, Unmoved
<1>6. CASE Ready(g)
  <2>1. pc[g] # "parked" /\ UNCHANGED <<ring, dataqsiz, closed, q, selectDone, elem, param, val>>
    BY <1>6 DEF Ready, hchan, call
  <2>2. QED
    BY <2>1, Unmoved
<1>7. QED
  BY <1>1, <1>3, <1>4, <1>5, <1>6

\* Return: the caller has the value.
LEMMA ReturnForgets == ASSUME IInv, NEW c \in C, NEW g \in G, Return(g) PROVE Refines(c)
<1>1. /\ pc[g] # "parked" /\ UNCHANGED <<ring, dataqsiz, closed, q, selectDone>>
      /\ val' = [val EXCEPT ![g] = <<>>] /\ elem' = [elem EXCEPT ![g] = NoVal]
      /\ param' = [param EXCEPT ![g] = NoCase]
  BY DEF Return, hchan
<1>2. Typed
  BY DEF IInv
<1>3. SameRing(c)
  BY <1>1 DEF SameRing, ring
<1>4. Senders(c)' = Senders(c)
  BY <1>1, SendersKept
<1>5. \A h \in Waiters(<<c, "send">>) : val'[h] = val[h]
  <2>1. \A h \in Waiters(<<c, "send">>) : h \in G /\ h # g
    BY <1>1, SenderElse
  <2>2. QED
    BY <1>1, <1>2, <2>1 DEF Typed
<1>6. Line(c)' = Line(c)
  BY <1>3, <1>4, <1>5, LineKept
<1>7. Got(c)' = [Got(c) EXCEPT ![g] = NoVal]
  BY <1>1, <1>2, FromFacts DEF Got, Typed
<1>8. QED
  BY <1>1, <1>6, <1>7, FifoForget

\* Resume: a receiver that was woken by close has its zero value.
LEMMA ResumeZero == ASSUME IInv, NEW c \in C, NEW g \in G, Resume(g) PROVE Refines(c)
<1>1. /\ pc[g] = "woken" /\ UNCHANGED <<ring, dataqsiz, closed, q, selectDone, elem, val>>
      /\ param' = [param EXCEPT ![g] = IF op[g] = "recv" THEN Only(g) ELSE @]
  BY DEF Resume, hchan, call
<1>2. Typed /\ Begun(g) /\ Decided(g)
  BY DEF IInv
<1>3. SameRing(c)
  BY <1>1 DEF SameRing, ring
<1>4. \A h \in G \ {g} : param'[h] = param[h] /\ elem'[h] = elem[h]
  BY <1>1, <1>2 DEF Typed
<1>5. CASE op[g] = "recv" /\ From(Only(g), c) /\ param[g] = NoCase
  <2>1. Only(g) \in cases[g] /\ Only(g)[1] = c
    <3>1. Only(g) \in Case /\ cases[g] = {Only(g)}
      BY <1>1, <1>2, <1>5, OnlyCase DEF Plain
    <3>2. QED
      BY <1>5, <3>1, FromFacts
  <2>2. closed[c] /\ qcount[c] = 0 /\ elem[g] = Zero
    BY <1>1, <1>2, <1>5, <2>1 DEF Decided
  <2>3. Waiters(<<c, "send">>) = {}
    BY <2>2, LineNow
  <2>4. Line(c) = <<>>
    <3>1. Buffered(c) \in Seq(Val) /\ Len(Buffered(c)) = 0
      BY <2>2, LineNow
    <3>2. Offers(c) \in Seq(Val) /\ Len(Offers(c)) = Len(Senders(c)) /\ Senders(c) = <<>>
      BY <2>3, LineNow
    <3>3. Buffered(c) = <<>> /\ Offers(c) = <<>>
      BY <3>1, <3>2, EmptySeq
    <3>4. <<>> \o <<>> = <<>>
      BY ConcatEmptySeq
    <3>5. QED
      BY <3>3, <3>4, LineNow
  <2>5. Senders(c)' = Senders(c)
    BY <1>1, SendersKept
  <2>6. Line(c)' = Line(c)
    BY <1>1, <1>3, <2>5, LineKept
  <2>7. Got(c)[g] = NoVal /\ Got(c)' = [Got(c) EXCEPT ![g] = Zero]
    <3>1. ~From(param[g], c) /\ From(param'[g], c) /\ elem'[g] = Zero
      BY <1>1, <1>2, <1>5, <2>2, FromFacts DEF Typed
    <3>2. QED
      BY <1>4, <3>1, GotOne
  <2>8. QED
    BY <1>1, <2>2, <2>4, <2>6, <2>7, FifoZero
<1>6. CASE ~(op[g] = "recv" /\ From(Only(g), c) /\ param[g] = NoCase)
  <2>1. \/ param'[g] = param[g] /\ elem'[g] = elem[g]
        \/ ~From(param[g], c) /\ ~From(param'[g], c)
    <3>1. CASE op[g] # "recv"
      BY <1>1, <1>2, <3>1 DEF Typed
    <3>2. CASE op[g] = "recv"
      <4>1. cases[g] = {Only(g)}
        BY <1>1, <1>2, <3>2, OnlyCase DEF Plain
      <4>2. param[g] \in {Only(g), NoCase} /\ param'[g] = Only(g)
        BY <1>1, <1>2, <3>2, <4>1 DEF Typed, Decided
      <4>3. QED
        BY <1>1, <1>6, <3>2, <4>2, FromFacts
    <3>3. QED
      BY <3>1, <3>2
  <2>2. Got(c)' = Got(c)
    BY <1>4, <2>1, GotSame
  <2>3. QED
    BY <1>1, <1>3, <2>2, QuietChannel
<1>7. QED
  BY <1>5, <1>6

\* Pass 3: sudogs of a select that is over go away.
LEMMA PassThreeKeeps == ASSUME IInv, NEW c \in C, NEW g \in G, PassThree(g) PROVE Refines(c)
<1>1. /\ pc[g] = "relock" /\ q' = DropLosers(g) /\ selectDone' = [selectDone EXCEPT ![g] = FALSE]
      /\ UNCHANGED <<ring, dataqsiz, closed, elem, param, val>>
  BY DEF PassThree, call
<1>2. Typed /\ Begun(g) /\ Placed(g)
  BY DEF IInv
<1>3. selectDone[g]
  BY <1>1, <1>2 DEF Begun, Placed
<1>4. PICK w \in Queue : w = <<c, "send">>
  BY QueueFacts
<1>5. PICK s \in Seq(Sudog) : s = q[w]
  BY <1>2 DEF Typed
<1>6. \A x \in ToSet(s) : x[1] \in G /\ (x \notin {g} \X cases[g] <=> x[1] # g)
  <2>1. TAKE x \in ToSet(s)
  <2>2. x[1] \in G /\ x = <<x[1], x[2]>>
    BY <1>2, <1>5, InQueue, SudogFacts
  <2>3. x[1] = g => x[2] \in cases[g]
    BY <1>2, <1>5 DEF Placed
  <2>4. QED
    BY <2>2, <2>3
<1>7. \A x \in ToSet(s) : x[1] # g => (selectDone'[x[1]] <=> selectDone[x[1]])
  BY <1>1, <1>2, <1>6 DEF Typed
<1>8. Senders(c)' = Senders(c)
  <2>1. q'[w] = At(s, Without(s, g))
    <3>1. q'[w] = At(s, {i \in DOMAIN s : s[i] \notin {g} \X cases[g]})
      BY <1>1, <1>5 DEF DropLosers
    <3>2. {i \in DOMAIN s : s[i] \notin {g} \X cases[g]} = Without(s, g)
      BY <1>6 DEF ToSet, Without
    <3>3. QED
      BY <3>1, <3>2
  <2>2. LET t == At(s, Without(s, g))
        IN  At(t, LiveAt(t, selectDone')) = At(s, LiveAt(s, selectDone))
    BY <1>3, <1>7, LiveDropped
  <2>3. Senders(c) = At(s, LiveAt(s, selectDone))
    BY <1>4, <1>5, LineNow
  <2>4. QED
    BY <1>4, <2>1, <2>2, <2>3, LineNext
<1>9. SameRing(c)
  BY <1>1 DEF SameRing, ring
<1>10. Line(c)' = Line(c)
  BY <1>1, <1>8, <1>9, LineKept
<1>11. Got(c)' = Got(c)
  BY <1>1, GotSame
<1>12. QED
  BY <1>1, <1>10, <1>11, FifoSame

\* What is left of the queue of senders once cases have been looked at.
LEMMA LookedSenders ==
    ASSUME IInv, NEW c \in C, NEW looked \in SUBSET Case, \A j \in looked : ~Proceeds(j)
    PROVE  LookedAt(looked)[<<c, "send">>] = q[<<c, "send">>]
              \/ (LookedAt(looked)[<<c, "send">>] = <<>> /\ Waiters(<<c, "send">>) = {})
<1>1. PICK k \in Queue : k = <<c, "send">>
  BY QueueFacts
<1>2. /\ Standing(k) \subseteq ToSet(LookedAt(looked)[k])
      /\ LookedAt(looked)[k] = IF \E j \in looked : Partner(j) = k THEN <<>> ELSE q[k]
  BY LookedQueues
<1>3. ToSet(<<>>) = {}
  BY DEF ToSet
<1>4. QED
  BY <1>1, <1>2, <1>3 DEF Waiters

\* A call that is refused.
LEMMA RefuseKeeps ==
    ASSUME IInv, NEW c \in C, NEW g \in G, \A k \in cases[g] : ~Proceeds(k), Refuse(g),
           UNCHANGED <<ring, elem, param, selectDone, dataqsiz, closed, val>>
    PROVE  Refines(c)
<1>1. q' = LookedAt(cases[g]) /\ cases[g] \in SUBSET Case
  BY DEF Refuse, IInv, Typed
<1>2. SameRing(c)
  BY DEF SameRing, ring
<1>3. Got(c)' = Got(c)
  BY GotSame
<1>4. q'[<<c, "send">>] = q[<<c, "send">>]
         \/ (q'[<<c, "send">>] = <<>> /\ Waiters(<<c, "send">>) = {})
  BY <1>1, LookedSenders
<1>5. QED
  BY <1>2, <1>3, <1>4, QuietChannel

\* A sender that goes to sleep offers its value.
LEMMA EnqueueOffers ==
    ASSUME IInv, NEW c \in C, NEW g \in G, pc[g] \in {"lock", "sellock"}, op[g] # "close",
           \A k \in cases[g] : ~Proceeds(k), Enqueue(g),
           UNCHANGED <<ring, elem, param, selectDone, dataqsiz, closed, val>>
    PROVE  Refines(c)
<1>1. cases[g] \in SUBSET Case /\ Begun(g) /\ Typed
  BY DEF IInv, Typed
<1>2. PICK w \in Queue : w = <<c, "send">>
  BY QueueFacts
<1>3. PICK s : s = LookedAt(cases[g])[w]
  OBVIOUS
<1>4. s = q[w] \/ (s = <<>> /\ Waiters(w) = {})
  BY <1>1, <1>2, <1>3, LookedSenders
<1>5. PICK more \in Seq(Sudog) :
         /\ q'[w] = s \o more
         /\ ToSet(more) = {<<g, k>> : k \in {k \in cases[g] : Way(k) = w}}
  <2>1. PICK all \in [Queue -> Seq(Sudog)] :
              /\ q' = [j \in Queue |-> LookedAt(cases[g])[j] \o all[j]]
              /\ \A j \in Queue : /\ Distinct(all[j])
                                  /\ ToSet(all[j]) = {<<g, k>> : k \in {k \in cases[g] : Way(k) = j}}
    BY <1>1, Queued
  <2>2. all[w] \in Seq(Sudog) /\ q'[w] = s \o all[w]
    BY <1>3, <2>1
  <2>3. QED
    BY <2>1, <2>2
<1>6. SameRing(c)
  BY DEF SameRing, ring
<1>7. Got(c)' = Got(c)
  BY GotSame
<1>8. s \in Seq(Sudog) /\ \A i \in DOMAIN s : s[i][1] # g
  <2>1. q[w] \in Seq(Sudog) /\ <<>> \in Seq(Sudog) /\ DOMAIN <<>> = {}
    BY <1>1, EmptySeq DEF Typed
  <2>2. \A x \in ToSet(q[w]) : x[1] # g
    BY Nowhere
  <2>3. \A i \in DOMAIN q[w] : q[w][i][1] # g
    BY <2>2 DEF ToSet
  <2>4. QED
    BY <1>4, <2>1, <2>3
<1>9. CASE more = <<>>
  <2>1. s \o <<>> = s
    BY <1>8, ConcatEmptySeq
  <2>2. q'[w] = s
    BY <1>5, <1>9, <2>1
  <2>3. QED
    BY <1>2, <1>4, <1>6, <1>7, <2>2, QuietChannel
<1>10. CASE more # <<>>
  <2>1. /\ more[1] \in Sudog /\ (\A i \in DOMAIN more : more[i][1] = g)
        /\ \E k \in cases[g] : Way(k) = w /\ more[1] = <<g, k>>
    <3>1. 1 \in DOMAIN more /\ more[1] \in Sudog
      BY <1>10
    <3>2. \A i \in DOMAIN more : \E k \in cases[g] : Way(k) = w /\ more[i] = <<g, k>>
      BY <1>5 DEF ToSet
    <3>3. \A k \in cases[g] : <<g, k>>[1] = g
      OBVIOUS
    <3>4. QED
      BY <3>1, <3>2, <3>3
  <2>2. PICK k \in cases[g] : Way(k) = w /\ more[1] = <<g, k>>
    BY <2>1
  <2>3. PICK v \in Val : v = Offer(val, more[1]) /\ ~closed[c]
    <3>1. k \in Case /\ k[1] = c /\ k[2] = "send"
      <4>1. k \in Case
        BY <1>1
      <4>2. Way(k) = <<k[1], k[2]>>
        BY <4>1, CaseFacts
      <4>3. QED
        BY <1>2, <2>2, <4>1, <4>2
    <3>2. k \in Sends(cases[g])
      BY <3>1 DEF Sends
    <3>3. val[g][k] \in Val
      BY <1>1, <3>2 DEF Begun
    <3>4. Offer(val, more[1]) = val[g][k]
      BY <2>2 DEF Offer
    <3>5. ~Proceeds(k)
      OBVIOUS
    <3>6. QED
      BY <3>1, <3>3, <3>4, <3>5 DEF Proceeds
  <2>4. At(s, LiveAt(s, selectDone)) = Senders(c)
    <3>1. CASE s = q[w]
      BY <1>2, <3>1, LineNow
    <3>2. CASE s = <<>> /\ Waiters(w) = {}
      BY <1>2, <3>2, LineNow, NoneLive
    <3>3. QED
      BY <1>4, <3>1, <3>2
  <2>5. Senders(c)' = Append(Senders(c), more[1])
    <3>1. ~selectDone[g]
      BY Nowhere
    <3>2. At(s \o more, LiveAt(s \o more, selectDone)) = Append(At(s, LiveAt(s, selectDone)), more[1])
      BY <1>8, <1>10, <2>1, <3>1, LiveAppend
    <3>3. Senders(c)' = At(s \o more, LiveAt(s \o more, selectDone))
      BY <1>2, <1>5, LineNext
    <3>4. QED
      BY <2>4, <3>2, <3>3
  <2>6. Offers(c)' = Append(Offers(c), v)
    <3>1. Senders(c) \in Seq(Sudog) /\ \A x \in ToSet(Senders(c)) : Offer(val, x) \in Val
      BY LineNow
    <3>2. OffersOf(Append(Senders(c), more[1]), val) = Append(OffersOf(Senders(c), val), v)
      BY <2>1, <2>3, <3>1, OffersAppend
    <3>3. QED
      BY <2>5, <3>2, LineNext DEF Offers
  <2>7. Buffered(c)' = Buffered(c)
    BY <1>6, LineNext DEF SameRing, Buffered
  <2>8. Line(c)' = Append(Line(c), v)
    <3>1. Buffered(c) \in Seq(Val) /\ Offers(c) \in Seq(Val) /\ Line(c) = Buffered(c) \o Offers(c)
      BY LineNow
    <3>2. Buffered(c) \o Append(Offers(c), v) = Append(Buffered(c) \o Offers(c), v)
      BY <2>3, <3>1, LineOffer
    <3>3. QED
      BY <2>6, <2>7, <3>1, <3>2, LineNext
  <2>9. QED
    BY <1>7, <2>3, <2>8, FifoSend
<1>11. QED
  BY <1>9, <1>10

\* The first part of a line.
LEMMA LineCut ==
    ASSUME NEW b \in Seq(Val), NEW v \in Seq(Val)
    PROVE  SubSeq(b \o v, 1, Len(b)) = b
<1>1. PICK l \in Nat : l = Len(b)
  OBVIOUS
<1>2. PICK w \in Seq(Val) : w = b \o v /\ Len(w) = l + Len(v) /\ \A i \in 1..l : w[i] = b[i]
  <2>1. PICK w : w = b \o v
    OBVIOUS
  <2>2. PICK n \in Nat : n = Len(v)
    OBVIOUS
  <2>3. /\ w \in Seq(Val) /\ Len(w) = l + n
        /\ \A i \in 1..l + n : w[i] = IF i <= l THEN b[i] ELSE v[i - l]
    BY <1>1, <2>1, <2>2, ConcatProperties
  <2>4. \A i \in 1..l : i \in 1..l + n /\ i <= l
    OBVIOUS
  <2>5. QED
    BY <2>1, <2>2, <2>3, <2>4
<1>3. PICK u : u = SubSeq(w, 1, l)
  OBVIOUS
<1>4. u \in Seq(Val) /\ Len(u) = l /\ \A i \in 1..l : u[i] = w[i]
  BY <1>2, <1>3
<1>5. u = b
  BY <1>1, <1>2, <1>4, SeqEqual
<1>6. QED
  BY <1>1, <1>2, <1>3, <1>5

\* close, for the channel that is closed,
LEMMA CloseCuts ==
    ASSUME IInv, NEW c \in C, ~closed[c], closed'[c] = TRUE, SameRing(c), Got(c)' = Got(c),
           q'[<<c, "send">>] = <<>>
    PROVE  Refines(c)
<1>1. PICK b \in Seq(Val) : b = Buffered(c) /\ Len(b) = qcount[c]
  BY LineNow
<1>2. PICK v \in Seq(Val) : v = Offers(c) /\ Len(v) = Len(Senders(c))
  BY LineNow
<1>3. PICK n \in Nat : n = dataqsiz[c] /\ Len(b) <= n /\ (Senders(c) # <<>> => Len(b) = n)
  BY <1>1, LineNow
<1>4. PICK w : w = b \o v
  OBVIOUS
<1>5. Line(c) = w /\ Len(w) = Len(b) + Len(v)
  <2>1. Line(c) = w
    BY <1>1, <1>2, <1>4, LineNow
  <2>2. Len(w) = Len(b) + Len(v)
    BY <1>4, ConcatProperties
  <2>3. QED
    BY <2>1, <2>2
<1>6. Line(c)' = b
  <2>1. Senders(c)' = <<>>
    BY LineNext, NoneLive
  <2>2. Offers(c)' = <<>>
    <3>1. OffersOf(<<>>, val') = <<>>
      BY DEF OffersOf
    <3>2. QED
      BY <2>1, <3>1, LineNext
  <2>3. Buffered(c)' = b
    BY <1>1, LineNext DEF SameRing, Buffered
  <2>4. b \o <<>> = b
    BY ConcatEmptySeq
  <2>5. QED
    BY <2>2, <2>3, <2>4, LineNext
<1>7. SubSeq(w, 1, Len(b)) = b
  BY <1>4, LineCut
<1>8. (IF Len(w) < n THEN Len(w) ELSE n) = Len(b)
  <2>1. CASE Senders(c) # <<>>
    BY <1>2, <1>3, <1>5, <2>1
  <2>2. CASE Senders(c) = <<>>
    <3>1. Len(v) = 0
      BY <1>2, <2>2
    <3>2. QED
      BY <1>3, <1>5, <3>1
  <2>3. QED
    BY <2>1, <2>2
<1>9. Line(c)' = SubSeq(Line(c), 1, IF Len(Line(c)) < dataqsiz[c] THEN Len(Line(c)) ELSE dataqsiz[c])
  BY <1>3, <1>5, <1>6, <1>7, <1>8
<1>10. QED
  BY <1>9, FifoClose DEF SameRing

\* and for all of them.
LEMMA CloseSteps == ASSUME IInv, NEW c \in C, NEW g \in G, closechan(g) PROVE Refines(c)
<1>1. PICK d : d = Only(g)[1]
  OBVIOUS
<1>2. pc[g] = "lock" /\ op[g] = "close" /\ UNCHANGED <<ring, dataqsiz, param, val>>
  BY DEF closechan, call
<1>3. Typed /\ Begun(g) /\ OnceEach
  BY DEF IInv
<1>4. d \in C
  BY <1>1, <1>2, <1>3, OnlyCase DEF Plain
<1>5. SameRing(c)
  BY <1>2 DEF SameRing, ring
<1>6. CASE closed[d]
  <2>1. UNCHANGED <<closed, q, elem, selectDone>>
    BY <1>1, <1>6 DEF closechan
  <2>2. QED
    BY <1>2, <2>1, Unmoved
<1>7. CASE ~closed[d]
  <2>1. /\ closed' = [closed EXCEPT ![d] = TRUE]
        /\ q' = [q EXCEPT ![<<d, "recv">>] = <<>>, ![<<d, "send">>] = <<>>]
        /\ elem' = [h \in G |-> IF h \in Owners(Live(q[<<d, "recv">>])) /\ op[h] = "recv" THEN Zero ELSE elem[h]]
        /\ selectDone' = [h \in G |-> selectDone[h] \/ (h \in ToSet(Released(d)) /\ op[h] \in Selecting)]
    BY <1>1, <1>7 DEF closechan
  <2>2. \A h \in G : elem'[h] = elem[h] \/ param[h] = NoCase
    <3>1. PICK k \in Queue : k = <<d, "recv">>
      BY <1>4, QueueFacts
    <3>2. Owners(Live(q[k])) = Waiters(k)
      BY <1>3, LiveOf
    <3>3. \A h \in Waiters(k) : param[h] = NoCase
      <4>1. \A x \in Standing(k) : param[x[1]] = NoCase
        BY Found
      <4>2. QED
        BY <4>1 DEF Waiters
    <3>4. QED
      BY <2>1, <3>1, <3>2, <3>3
  <2>3. Got(c)' = Got(c)
    BY <1>2, <2>2, FromFacts, GotSame
  <2>4. CASE c = d
    <3>1. q'[<<c, "send">>] = <<>> /\ ~closed[c] /\ closed'[c] = TRUE
      BY <1>3, <1>7, <2>1, <2>4, QueueFacts DEF Typed
    <3>2. QED
      BY <1>5, <2>3, <3>1, CloseCuts
  <2>5. CASE c # d
    <3>1. q'[<<c, "send">>] = q[<<c, "send">>] /\ closed'[c] = closed[c]
      BY <1>3, <2>1, <2>5, QueueFacts DEF Typed
    <3>2. \A x \in ToSet(q[<<c, "send">>]) : selectDone[x[1]] => selectDone'[x[1]]
      <4>1. \A x \in ToSet(q[<<c, "send">>]) : x[1] \in G
        BY <1>3, QueueFacts, InQueue, SudogFacts
      <4>2. QED
        BY <2>1, <4>1
    <3>3. QED
      BY <1>2, <1>5, <2>3, <3>1, <3>2, QuietChannel
  <2>6. QED
    BY <2>4, <2>5
<1>8. QED
  BY <1>6, <1>7

-----------------------------------------------------------------------------
\* Cases that go on.

\* The queue of senders, unless one of them has been found.
LEMMA TrySenders ==
    ASSUME IInv, NEW c \in C, NEW k \in Case,
           NEW looked \in SUBSET Case, \A j \in looked : ~Proceeds(j), DequeueFor(k, looked),
           Partner(k) # <<c, "send">> \/ Waiters(<<c, "send">>) = {}
    PROVE  q'[<<c, "send">>] = q[<<c, "send">>]
              \/ (q'[<<c, "send">>] = <<>> /\ Waiters(<<c, "send">>) = {})
<1>1. PICK j \in Queue : j = <<c, "send">>
  BY QueueFacts
<1>2. Partner(k) \in Queue
  BY CaseFacts
<1>3. q' = [LookedAt(looked) EXCEPT ![Partner(k)] = AfterDequeue(q[Partner(k)])]
  BY DEF DequeueFor
<1>4. CASE j # Partner(k)
  <2>1. q'[j] = LookedAt(looked)[j]
    BY <1>2, <1>3, <1>4 DEF LookedAt
  <2>2. QED
    BY <1>1, <2>1, LookedSenders
<1>5. CASE j = Partner(k)
  <2>1. q'[j] = AfterDequeue(q[j])
    BY <1>2, <1>3, <1>5 DEF LookedAt
  <2>2. Waiters(j) = {}
    BY <1>1, <1>2, <1>5
  <2>3. AfterDequeue(q[j]) = <<>>
    BY <2>2, LiveOf DEF IInv
  <2>4. QED
    BY <1>1, <2>1, <2>2, <2>3
<1>6. QED
  BY <1>4, <1>5

\* What other goroutines and other channels see of it: a case is decided for g, and
\* for its partner p, if there is one.
Deciding(k) ==
    /\ \A h \in G : \/ param'[h] = param[h] /\ elem'[h] = elem[h]
                    \/ param[h] = NoCase /\ param'[h] \in Case /\ param'[h][1] = k[1]
    /\ \A h \in G : selectDone[h] => selectDone'[h]
    /\ \A c \in C \ {k[1]} : SameRing(c)

\* A handshake decides for both.
LEMMA HandshakeDecides ==
    ASSUME IInv, NEW g \in G, NEW k \in Case, Working(g, k), NEW x \in Standing(Partner(k)), Handshake(g, k, x),
           \A h \in G \ {g, x[1]} : elem'[h] = elem[h], \A c \in C \ {k[1]} : SameRing(c)
    PROVE  /\ Deciding(k)
           /\ x[1] \in G \ {g} /\ param[g] = NoCase /\ param[x[1]] = NoCase /\ ~selectDone[x[1]]
           /\ param'[g] = k /\ param'[x[1]] = x[2] /\ x[2] \in Case /\ Way(x[2]) = Partner(k)
           /\ (selectDone'[x[1]] <=> op[x[1]] \in Selecting)
           /\ \A h \in G \ {g, x[1]} : param'[h] = param[h] /\ elem'[h] = elem[h]
           /\ \A h \in G \ {x[1]} : selectDone'[h] <=> selectDone[h]
<1>1. Typed /\ Partner(k) \in Queue /\ Partner(k)[1] = k[1]
  BY CaseFacts DEF IInv
<1>2. PICK p, j : p = x[1] /\ j = x[2]
  OBVIOUS
<1>3. p \in G /\ j \in Case /\ Way(j) = Partner(k) /\ pc[p] = "parked" /\ param[p] = NoCase /\ ~selectDone[p]
  BY <1>1, <1>2, Found
<1>4. param[g] = NoCase /\ p # g
  BY <1>3, Nowhere DEF Working
<1>5. /\ param' = [param EXCEPT ![g] = k, ![p] = j]
      /\ selectDone' = [selectDone EXCEPT ![p] = op[p] \in Selecting]
  BY <1>2 DEF Handshake
<1>6. /\ param'[g] = k /\ param'[p] = j
      /\ \A h \in G \ {g, p} : param'[h] = param[h] /\ elem'[h] = elem[h]
  BY <1>1, <1>2, <1>3, <1>4, <1>5 DEF Typed
<1>7. (op[p] \in Selecting) \in BOOLEAN
  OBVIOUS
<1>8. (selectDone'[p] <=> op[p] \in Selecting) /\ \A h \in G \ {p} : selectDone'[h] <=> selectDone[h]
  BY <1>1, <1>3, <1>5, <1>7, Zenon DEF Typed
<1>9. j[1] = k[1]
  BY <1>1, <1>3, CaseFacts
<1>10. Deciding(k)
  BY <1>3, <1>4, <1>6, <1>8, <1>9 DEF Deciding
<1>11. QED
  BY <1>2, <1>3, <1>4, <1>6, <1>8, <1>10

\* A case that goes on alone decides for g.
LEMMA AloneDecides ==
    ASSUME IInv, NEW g \in G, NEW k \in Case, Working(g, k), param' = [param EXCEPT ![g] = k], UNCHANGED selectDone,
           UNCHANGED elem \/ \E v : elem' = [elem EXCEPT ![g] = v],
           \A c \in C \ {k[1]} : SameRing(c)
    PROVE  /\ Deciding(k)
           /\ param[g] = NoCase /\ param'[g] = k
           /\ \A h \in G \ {g} : param'[h] = param[h] /\ elem'[h] = elem[h]
<1>1. Typed
  BY DEF IInv
<1>2. param[g] = NoCase
  BY Nowhere DEF Working
<1>3. param'[g] = k /\ \A h \in G \ {g} : param'[h] = param[h] /\ elem'[h] = elem[h]
  BY <1>1 DEF Typed
<1>4. Deciding(k)
  BY <1>2, <1>3 DEF Deciding
<1>5. QED
  BY <1>2, <1>3, <1>4

\* The other channels.
LEMMA TryElsewhere ==
    ASSUME IInv, NEW g \in G, NEW k \in Case, Working(g, k), Deciding(k), NEW c \in C, c # k[1],
           NEW looked \in SUBSET Case, \A j \in looked : ~Proceeds(j), DequeueFor(k, looked)
    PROVE  Refines(c)
<1>1. Partner(k) # <<c, "send">>
  <2>1. Partner(k)[1] = k[1]
    BY CaseFacts
  <2>2. QED
    BY <2>1
<1>2. q'[<<c, "send">>] = q[<<c, "send">>]
         \/ (q'[<<c, "send">>] = <<>> /\ Waiters(<<c, "send">>) = {})
  BY <1>1, TrySenders
<1>3. SameRing(c)
  BY DEF Deciding
<1>4. Got(c)' = Got(c)
  BY FromFacts, GotSame DEF Deciding
<1>5. closed'[c] = closed[c] /\ UNCHANGED val
  BY DEF Working
<1>6. \A x \in ToSet(q[<<c, "send">>]) : x[1] \in G
  BY QueueFacts, InQueue, SudogFacts DEF IInv
<1>7. QED
  BY <1>2, <1>3, <1>4, <1>5, <1>6, QuietChannel DEF Deciding

\* An empty channel without blocked senders has an empty line; with one of them only,
\* a line of one.
LEMMA ShortLine ==
    ASSUME IInv, NEW c \in C, qcount[c] = 0
    PROVE  /\ Waiters(<<c, "send">>) = {} => Line(c) = <<>>
           /\ \A h \in Waiters(<<c, "send">>) : Waiters(<<c, "send">>) \subseteq {h} => Len(Line(c)) = 1
<1>1. Buffered(c) = <<>>
  <2>1. Buffered(c) \in Seq(Val) /\ Len(Buffered(c)) = 0
    BY LineNow
  <2>2. QED
    BY <2>1, EmptySeq
<1>2. Line(c) = Offers(c)
  <2>1. Offers(c) \in Seq(Val) /\ Line(c) = <<>> \o Offers(c)
    BY <1>1, LineNow
  <2>2. <<>> \o Offers(c) = Offers(c)
    BY <2>1, ConcatEmptySeq
  <2>3. QED
    BY <2>1, <2>2
<1>3. Offers(c) \in Seq(Val) /\ Len(Offers(c)) = Len(Senders(c))
  BY LineNow
<1>4. ASSUME Waiters(<<c, "send">>) = {} PROVE Line(c) = <<>>
  <2>1. Senders(c) = <<>>
    BY <1>4, LineNow
  <2>2. QED
    BY <1>2, <1>3, <2>1, EmptySeq
<1>5. ASSUME NEW h \in Waiters(<<c, "send">>), Waiters(<<c, "send">>) \subseteq {h}
      PROVE  Len(Line(c)) = 1
  <2>1. /\ Senders(c) \in Seq(Sudog) /\ OwnersDiffer(Senders(c)) /\ Senders(c) # <<>>
        /\ Owners(Senders(c)) \subseteq {h}
    BY <1>5, LineNow
  <2>2. Len(Senders(c)) = 1
    BY <2>1, Lonely
  <2>3. QED
    BY <1>2, <1>3, <2>2
<1>6. QED
  BY <1>4, <1>5

\* A value for a waiting receiver: the line was empty but for the receiver's own offer.
LEMMA GiveMeets ==
    ASSUME IInv, NEW g \in G, NEW c \in C, NEW k \in Case, k[1] = c, k[2] = "send", Working(g, k), ~closed[c],
           NEW looked \in SUBSET Case, \A j \in looked : ~Proceeds(j), DequeueFor(k, looked),
           NEW x \in Standing(Partner(k)), Handshake(g, k, x), UNCHANGED ring,
           elem' = [elem EXCEPT ![x[1]] = val[g][k]]
    PROVE  Refines(c)
<1>1. PICK w \in Queue : /\ w = <<c, "send">> /\ Partner(k) = Partner(w) /\ Partner(k) = <<c, "recv">>
                         /\ Partner(k) # w /\ Partner(k) \in Queue /\ Partner(k)[1] = c
                         /\ Partner(k)[2] = "recv" /\ Partner(Partner(k)) = w
  BY CaseFacts
<1>2. PICK v : v = val[g][k] /\ v \in Val /\ UNCHANGED <<dataqsiz, closed>>
  BY WorkingFacts DEF Working
<1>3. SameRing(c)
  BY <1>2 DEF SameRing, ring
<1>4. PICK p : /\ p = x[1] /\ p \in G \ {g} /\ param[g] = NoCase /\ param[p] = NoCase /\ ~selectDone[p]
               /\ param'[g] = k /\ From(param'[p], c) /\ (selectDone'[p] <=> op[p] \in Selecting)
               /\ \A h \in G \ {g, p} : param'[h] = param[h] /\ elem'[h] = elem[h]
               /\ \A h \in G \ {p} : selectDone'[h] <=> selectDone[h]
  <2>1. \A d \in C \ {k[1]} : SameRing(d)
    BY <1>2 DEF SameRing, ring
  <2>2. \A h \in G \ {g, x[1]} : elem'[h] = elem[h]
    BY DEF IInv, Typed
  <2>3. /\ x[1] \in G \ {g} /\ param[g] = NoCase /\ param[x[1]] = NoCase /\ ~selectDone[x[1]]
        /\ param'[g] = k /\ param'[x[1]] = x[2] /\ x[2] \in Case /\ Way(x[2]) = Partner(k)
        /\ (selectDone'[x[1]] <=> op[x[1]] \in Selecting)
        /\ \A h \in G \ {g, x[1]} : param'[h] = param[h] /\ elem'[h] = elem[h]
        /\ \A h \in G \ {x[1]} : selectDone'[h] <=> selectDone[h]
    BY <2>1, <2>2, HandshakeDecides
  <2>4. From(x[2], c)
    BY <1>1, <2>3, CaseFacts DEF From
  <2>5. QED
    BY <2>3, <2>4
<1>5. Waiters(w) \subseteq {p} /\ qcount[c] = 0
  <2>1. Reason(Partner(k)) /\ p \in Waiters(Partner(k))
    BY <1>1, <1>4 DEF IInv, Waiters
  <2>2. QED
    BY <1>1, <2>1 DEF Reason
<1>6. Line(c) = <<>> \/ (dataqsiz[c] = 0 /\ Len(Line(c)) = 1)
  <2>1. CASE Waiters(w) = {}
    BY <1>1, <1>5, <2>1, ShortLine
  <2>2. CASE Waiters(w) # {}
    <3>1. p \in Waiters(w)
      BY <1>5, <2>2
    <3>2. Len(Line(c)) = 1
      BY <1>1, <1>5, <3>1, ShortLine
    <3>3. qcount[c] = dataqsiz[c]
      BY <1>1, <2>2, LineNow
    <3>4. QED
      BY <1>5, <3>2, <3>3
  <2>3. QED
    BY <2>1, <2>2
<1>7. ASSUME NEW y \in ToSet(q[w]), y[1] = p PROVE selectDone'[p]
  <2>1. SUFFICES ASSUME op[p] # "select" PROVE FALSE
    BY <1>4 DEF Selecting
  <2>2. y \in Standing(w)
    BY <1>4, <1>7 DEF Standing
  <2>3. y[2] \in cases[p] /\ Way(y[2]) = w
    BY <1>7, <2>2, Found
  <2>4. cases[p] = {x[2]} /\ Way(x[2]) = Partner(k)
    BY <1>1, <1>4, <2>1, Found
  <2>5. QED
    BY <1>1, <2>3, <2>4
<1>8. \A y \in ToSet(q[w]) : selectDone'[y[1]]
  <2>1. SUFFICES ASSUME NEW y \in ToSet(q[w]) PROVE selectDone'[y[1]]
    OBVIOUS
  <2>2. y[1] \in G
    BY InQueue, SudogFacts DEF IInv
  <2>3. CASE y[1] = p
    BY <1>7, <2>3
  <2>4. CASE y[1] # p
    <3>1. selectDone[y[1]]
      BY <1>5, <2>4 DEF Waiters, Standing
    <3>2. QED
      BY <1>4, <2>2, <2>4, <3>1
  <2>5. QED
    BY <2>3, <2>4
<1>9. Senders(c)' = <<>>
  <2>1. PICK s \in Seq(Sudog) : s = q[w]
    BY DEF IInv, Typed
  <2>2. q'[w] = s \/ q'[w] = <<>>
    BY <1>1, <2>1, TrySenders
  <2>3. At(s, LiveAt(s, selectDone')) = <<>>
    <3>1. LiveAt(s, selectDone') = {}
      BY <1>8, <2>1 DEF LiveAt, ToSet
    <3>2. QED
      BY <2>1, <3>1, AtProperties
  <2>4. QED
    BY <1>1, <2>2, <2>3, NoneLive, LineNext
<1>10. Line(c)' = <<>>
  <2>1. Buffered(c)' = <<>>
    <3>1. Buffered(c)' = Buffered(c)
      BY <1>3, LineNext DEF SameRing, Buffered
    <3>2. Buffered(c) \in Seq(Val) /\ Len(Buffered(c)) = 0
      BY <1>5, LineNow
    <3>3. QED
      BY <3>1, <3>2, EmptySeq
  <2>2. Offers(c)' = <<>>
    <3>1. OffersOf(<<>>, val') = <<>>
      BY DEF OffersOf
    <3>2. QED
      BY <1>9, <3>1, LineNext
  <2>3. <<>> \o <<>> = <<>>
    BY ConcatEmptySeq
  <2>4. QED
    BY <2>1, <2>2, <2>3, LineNext
<1>11. Got(c)[p] = NoVal /\ Got(c)' = [Got(c) EXCEPT ![p] = v]
  <2>1. elem'[p] = v
    BY <1>2, <1>4 DEF IInv, Typed
  <2>2. ~From(k, c) /\ ~From(NoCase, c)
    BY FromFacts
  <2>3. \A h \in G \ {p} : \/ param'[h] = param[h] /\ elem'[h] = elem[h]
                           \/ ~From(param[h], c) /\ ~From(param'[h], c)
    BY <1>4, <2>2
  <2>4. QED
    BY <1>4, <2>1, <2>2, <2>3, GotOne
<1>12. QED
  BY <1>2, <1>4, <1>6, <1>10, <1>11, FifoMeet

\* A value for the buffer.
LEMMA PutSends ==
    ASSUME IInv, NEW g \in G, NEW c \in C, NEW k \in Case, Way(k) = <<c, "send">>, Working(g, k), ~closed[c],
           NEW looked \in SUBSET Case, \A j \in looked : ~Proceeds(j), DequeueFor(k, looked),
           qcount[c] < dataqsiz[c], SendToBuffer(g, k)
    PROVE  Refines(c)
<1>1. k[1] = c /\ k[2] = "send" /\ Partner(k) # <<c, "send">>
  <2>1. Way(k) = <<k[1], k[2]>>
    BY CaseFacts
  <2>2. k[1] = c /\ k[2] = "send"
    BY <2>1
  <2>3. Partner(k) = <<c, "recv">>
    BY <2>2, CaseFacts
  <2>4. QED
    BY <2>2, <2>3
<1>2. PICK x \in Val : x = val[g][k] /\ UNCHANGED <<dataqsiz, closed, val>> /\ Ring(c)
  BY <1>1, WorkingFacts DEF Working
<1>3. /\ dataqsiz[c] \in Nat /\ qcount[c] \in Nat /\ sendx[c] \in Nat /\ recvx[c] \in Nat
      /\ buf' = [buf EXCEPT ![c][sendx[c]] = x] /\ qcount' = [qcount EXCEPT ![c] = @ + 1]
      /\ UNCHANGED <<recvx, elem, selectDone>> /\ param' = [param EXCEPT ![g] = k]
  BY <1>1, <1>2 DEF IInv, Typed, SendToBuffer, Alone
<1>4. buf'[c] = [buf[c] EXCEPT ![sendx[c]] = x] /\ qcount'[c] = qcount[c] + 1
  BY <1>3 DEF IInv, Typed
<1>5. Buffered(c)' = Append(Buffered(c), x)
  <2>1. PICK n \in Nat, m \in Nat, s \in Nat, r \in Nat :
           n = dataqsiz[c] /\ m = qcount[c] /\ s = sendx[c] /\ r = recvx[c]
    BY <1>3
  <2>2. PICK b, v, b2 : b = buf[c] /\ v = x /\ b2 = [b EXCEPT ![s] = v]
    OBVIOUS
  <2>3. RingOf(n, m, b, s, r) /\ m < n /\ v \in Val /\ PutIn(b2, b, s, v)
    BY <1>2, <2>1, <2>2 DEF Ring, PutIn
  <2>4. BufferOf(n, m + 1, b2, r) = Append(BufferOf(n, m, b, r), v)
    BY <2>3, BufferPut
  <2>5. b2 = buf'[c] /\ m + 1 = qcount'[c] /\ n = dataqsiz'[c] /\ r = recvx'[c]
    BY <1>2, <1>3, <1>4, <2>1, <2>2
  <2>6. QED
    BY <2>1, <2>2, <2>4, <2>5, LineNext DEF Buffered
<1>6. Senders(c) = <<>>
  BY LineParts
<1>7. Offers(c) = <<>> /\ Offers(c)' = <<>>
  <2>1. Senders(c)' = <<>>
    BY <1>1, <1>3, <1>6, TrySenders, SendersKept
  <2>2. OffersOf(<<>>, val) = <<>>
    BY DEF OffersOf
  <2>3. QED
    BY <1>2, <1>6, <2>1, <2>2, LineNext DEF Offers
<1>8. Line(c)' = Append(Line(c), x)
  <2>1. PICK b \in Seq(Val) : b = Buffered(c)
    BY LineNow
  <2>2. PICK d : d = Append(b, x)
    OBVIOUS
  <2>3. d \in Seq(Val)
    BY <1>2, <2>2
  <2>4. b \o <<>> = b /\ d \o <<>> = d
    BY <2>3, ConcatEmptySeq
  <2>5. QED
    BY <1>5, <1>7, <2>1, <2>2, <2>4, LineNow, LineNext
<1>9. Got(c)' = Got(c)
  <2>1. param[g] = NoCase
    BY Nowhere DEF Working
  <2>2. param'[g] = k /\ \A h \in G \ {g} : param'[h] = param[h]
    BY <1>3 DEF IInv, Typed
  <2>3. QED
    BY <1>1, <1>3, <2>1, <2>2, FromFacts, GotSame
<1>10. QED
  BY <1>2, <1>8, <1>9, FifoSend

\* The receive of g obtains v,
Obtains(c, g, v) == Got(c)[g] = NoVal /\ Got(c)' = [Got(c) EXCEPT ![g] = v]

\* when it is the only receive that is decided.
LEMMA GotByOne ==
    ASSUME IInv, NEW g \in G, NEW c \in C, NEW k \in Case, k[1] = c, k[2] = "recv", NEW v,
           param[g] = NoCase, param'[g] = k, elem'[g] = v,
           \A h \in G \ {g} : \/ param'[h] = param[h] /\ elem'[h] = elem[h]
                              \/ param[h] = NoCase /\ param'[h] \in Case /\ param'[h][2] = "send"
    PROVE  Obtains(c, g, v)
<1>1. ~From(param[g], c) /\ From(param'[g], c)
  BY FromFacts
<1>2. \A h \in G \ {g} : \/ param'[h] = param[h] /\ elem'[h] = elem[h]
                         \/ ~From(param[h], c) /\ ~From(param'[h], c)
  BY FromFacts
<1>3. QED
  BY <1>1, <1>2, GotOne DEF Obtains

\* A value from the buffer.
LEMMA TakeReceives ==
    ASSUME IInv, NEW g \in G, NEW c \in C, NEW k \in Case, k[1] = c, k[2] = "recv", Working(g, k),
           NEW looked \in SUBSET Case, \A j \in looked : ~Proceeds(j), DequeueFor(k, looked),
           Waiters(<<c, "send">>) = {}, qcount[c] > 0, RecvFromBuffer(g, k)
    PROVE  Refines(c)
<1>1. Ring(c)
  BY WorkingFacts
<1>2. UNCHANGED <<dataqsiz, closed, val>> /\ Ring(c)
  BY <1>1 DEF Working
<1>3. /\ dataqsiz[c] \in Nat /\ qcount[c] \in Nat /\ sendx[c] \in Nat /\ recvx[c] \in Nat
      /\ buf' = [buf EXCEPT ![c] = Cleared(@, recvx[c])] /\ qcount' = [qcount EXCEPT ![c] = @ - 1]
      /\ recvx' = [recvx EXCEPT ![c] = Inc(recvx, c)] /\ elem' = [elem EXCEPT ![g] = buf[c][recvx[c]]]
      /\ UNCHANGED selectDone /\ param' = [param EXCEPT ![g] = k]
  BY DEF IInv, Typed, RecvFromBuffer, Alone
<1>4. /\ PutIn(buf'[c], buf[c], recvx[c], Zero) /\ qcount'[c] = qcount[c] - 1
      /\ recvx'[c] = Wrap(recvx[c], dataqsiz[c])
  BY <1>3 DEF IInv, Typed, Cleared, PutIn, Inc, Wrap
<1>5. /\ Buffered(c)' = Tail(Buffered(c))
      /\ Buffered(c) # <<>> /\ Head(Buffered(c)) = buf[c][recvx[c]]
  <2>1. PICK n \in Nat, m \in Nat, s \in Nat, r \in Nat :
           n = dataqsiz[c] /\ m = qcount[c] /\ s = sendx[c] /\ r = recvx[c]
    BY <1>3
  <2>2. PICK b, b2, u : b = buf[c] /\ b2 = buf'[c] /\ u = BufferOf(n, m, b, r)
    OBVIOUS
  <2>3. RingOf(n, m, b, s, r) /\ m > 0 /\ PutIn(b2, b, r, Zero)
    BY <1>2, <1>4, <2>1, <2>2 DEF Ring
  <2>4. Took(n, m, b, r, b2)
    BY <2>3, BufferTake
  <2>5. m - 1 = qcount'[c] /\ n = dataqsiz'[c] /\ Wrap(r, n) = recvx'[c]
    BY <1>2, <1>4, <2>1
  <2>6. u # <<>> /\ Head(u) = b[r]
    BY <2>2, <2>3, BufferHead
  <2>7. QED
    BY <2>1, <2>2, <2>4, <2>5, <2>6, LineNext DEF Buffered, Took
<1>6. Offers(c)' = Offers(c)
  <2>1. Senders(c)' = Senders(c)
    BY <1>3, TrySenders, SendersKept
  <2>2. QED
    BY <1>2, <2>1, LineNext DEF Offers
<1>7. Line(c) # <<>> /\ Head(Line(c)) = buf[c][recvx[c]] /\ Line(c)' = Tail(Line(c))
  <2>1. PICK b \in Seq(Val), v \in Seq(Val) : b = Buffered(c) /\ v = Offers(c)
    BY LineNow
  <2>2. b \o v # <<>> /\ Head(b \o v) = Head(b) /\ Tail(b) \o v = Tail(b \o v)
    BY <1>5, <2>1, LineTake
  <2>3. QED
    BY <1>5, <1>6, <2>1, <2>2, LineNow, LineNext
<1>8. Obtains(c, g, buf[c][recvx[c]])
  <2>1. param[g] = NoCase
    BY Nowhere DEF Working
  <2>2. /\ param'[g] = k /\ elem'[g] = buf[c][recvx[c]]
        /\ \A h \in G \ {g} : param'[h] = param[h] /\ elem'[h] = elem[h]
    BY <1>3 DEF IInv, Typed
  <2>3. QED
    BY <2>1, <2>2, GotByOne
<1>9. QED
  BY <1>2, <1>7, <1>8, FifoReceive DEF Obtains

\* The zero value of a closed channel.
LEMMA ZeroReceived ==
    ASSUME IInv, NEW g \in G, NEW c \in C, NEW k \in Case, k[1] = c, k[2] = "recv", Working(g, k),
           NEW looked \in SUBSET Case, \A j \in looked : ~Proceeds(j), DequeueFor(k, looked),
           closed[c], qcount[c] = 0, RecvZero(g, k)
    PROVE  Refines(c)
<1>1. /\ UNCHANGED <<dataqsiz, closed, val, ring, selectDone>>
      /\ elem' = [elem EXCEPT ![g] = Zero] /\ param' = [param EXCEPT ![g] = k]
  BY DEF Working, RecvZero
<1>2. Waiters(<<c, "send">>) = {}
  BY LineNow
<1>3. Line(c) = <<>>
  BY <1>2, ShortLine
<1>4. Line(c)' = Line(c)
  <2>1. Senders(c)' = Senders(c)
    BY <1>1, <1>2, TrySenders, SendersKept
  <2>2. SameRing(c)
    BY <1>1 DEF SameRing, ring
  <2>3. QED
    BY <1>1, <2>1, <2>2, LineKept
<1>5. Obtains(c, g, Zero)
  <2>1. param[g] = NoCase
    BY Nowhere DEF Working
  <2>2. param'[g] = k /\ elem'[g] = Zero /\ \A h \in G \ {g} : param'[h] = param[h] /\ elem'[h] = elem[h]
    BY <1>1 DEF IInv, Typed
  <2>3. QED
    BY <2>1, <2>2, GotByOne
<1>6. QED
  BY <1>1, <1>3, <1>4, <1>5, FifoZero DEF Obtains

\* The queue of senders once its first live sudog has been taken.
LEMMA SendersTail ==
    ASSUME IInv, NEW c \in C, NEW k \in Case, k[1] = c, k[2] = "recv",
           NEW looked \in SUBSET Case, DequeueFor(k, looked), Waiters(<<c, "send">>) # {},
           \A h \in G \ {Head(Senders(c))[1]} : selectDone'[h] <=> selectDone[h],
           selectDone'[Head(Senders(c))[1]] <=> op[Head(Senders(c))[1]] \in Selecting
    PROVE  Senders(c)' = Tail(Senders(c)) /\ Senders(c) # <<>>
<1>1. PICK j \in Queue : j = <<c, "send">> /\ j = Partner(k)
  BY CaseFacts
<1>2. q'[j] = AfterDequeue(q[j])
  BY <1>1 DEF DequeueFor, LookedAt
<1>3. PICK s \in Seq(Sudog) : s = q[j] /\ Distinct(s)
  BY DEF IInv, Typed, OnceEach
<1>4. Senders(c) = At(s, LiveAt(s, selectDone)) /\ Senders(c) # <<>>
  BY <1>1, <1>3, LineNow DEF Senders
<1>5. LiveAt(s, selectDone) # {}
  <2>1. LiveAt(s, selectDone) \in SUBSET DOMAIN s
    BY DEF LiveAt
  <2>2. QED
    BY <1>4, <2>1, AtProperties
<1>6. q'[j] = SubSeq(s, Nth(LiveAt(s, selectDone), 1) + 1, Len(s))
  BY <1>2, <1>3, <1>5 DEF AfterDequeue, Waiting, LiveAt
<1>7. PICK x, done2 : x = Head(Senders(c)) /\ done2 = selectDone'
  OBVIOUS
<1>8. x \in Standing(j)
  <2>1. Head(Live(q[j])) \in Standing(j)
    BY <1>1, LiveOf DEF IInv
  <2>2. QED
    BY <1>1, <1>7, <2>1 DEF Senders
<1>9. \A y \in ToSet(s) : y[1] # x[1] => (done2[y[1]] <=> selectDone[y[1]])
  <2>1. \A y \in ToSet(s) : y[1] \in G
    BY <1>3, InQueue, SudogFacts DEF IInv
  <2>2. QED
    BY <1>7, <2>1
<1>10. ASSUME NEW y \in ToSet(s), y[1] = x[1], y # x PROVE done2[y[1]]
  <2>1. y \in Standing(j)
    <3>1. ~selectDone[x[1]]
      BY <1>8 DEF Standing
    <3>2. QED
      BY <1>3, <1>10, <3>1 DEF Standing
  <2>2. y[2] \in cases[x[1]] /\ y = <<y[1], y[2]>>
    BY <1>10, <2>1, Found
  <2>3. x = <<x[1], x[2]>> /\ (op[x[1]] # "select" => cases[x[1]] = {x[2]})
    BY <1>8, Found
  <2>4. op[x[1]] = "select"
    BY <1>10, <2>2, <2>3
  <2>5. QED
    BY <1>7, <1>10, <2>4 DEF Selecting
<1>11. LET t == SubSeq(s, Nth(LiveAt(s, selectDone), 1) + 1, Len(s))
       IN  At(t, LiveAt(t, done2)) = Tail(At(s, LiveAt(s, selectDone)))
  <2>1. x = Head(At(s, LiveAt(s, selectDone)))
    BY <1>4, <1>7
  <2>2. /\ \A y \in ToSet(s) : y[1] # Head(At(s, LiveAt(s, selectDone)))[1]
                                   => (done2[y[1]] <=> selectDone[y[1]])
        /\ \A y \in ToSet(s) : y[1] = Head(At(s, LiveAt(s, selectDone)))[1]
                                 /\ y # Head(At(s, LiveAt(s, selectDone))) => done2[y[1]]
    BY <1>9, <1>10, <2>1
  <2>3. QED
    BY <1>3, <1>5, <2>2, LiveTail
<1>12. Senders(c)' = Tail(Senders(c))
  BY <1>1, <1>4, <1>6, <1>7, <1>11, LineNext
<1>13. QED
  BY <1>4, <1>12

\* The value of a blocked sender, or the oldest value, whose slot the sender's takes.
LEMMA GetReceives ==
    ASSUME IInv, NEW g \in G, NEW c \in C, NEW k \in Case, Way(k) = <<c, "recv">>, Working(g, k),
           NEW looked \in SUBSET Case, \A j \in looked : ~Proceeds(j), DequeueFor(k, looked),
           NEW x \in Standing(<<c, "send">>), x = Head(Live(q[<<c, "send">>])),
           RecvFromSender(g, k), Deciding(k), param[g] = NoCase, param'[g] = k,
           \A h \in G \ {x[1]} : selectDone'[h] <=> selectDone[h],
           selectDone'[x[1]] <=> op[x[1]] \in Selecting,
           \A h \in G \ {g} : \/ param'[h] = param[h] /\ elem'[h] = elem[h]
                              \/ param[h] = NoCase /\ param'[h] \in Case /\ param'[h][2] = "send"
    PROVE  Refines(c)
<1>1. k[1] = c /\ k[2] = "recv" /\ Partner(k) = <<c, "send">> /\ Waiters(<<c, "send">>) # {}
  <2>1. Way(k) = <<k[1], k[2]>>
    BY CaseFacts
  <2>2. k[1] = c /\ k[2] = "recv"
    BY <2>1
  <2>3. Partner(k) = <<c, "send">>
    BY <2>2, CaseFacts
  <2>4. QED
    BY <2>2, <2>3 DEF Waiters
<1>2. UNCHANGED <<dataqsiz, closed, val>> /\ Ring(c)
  BY <1>1, WorkingFacts DEF Working
<1>3. Senders(c)' = Tail(Senders(c)) /\ Senders(c) # <<>> /\ x = Head(Senders(c))
  <2>1. x = Head(Senders(c))
    BY DEF Senders
  <2>2. QED
    BY <1>1, <2>1, SendersTail
<1>4. PICK y \in Val : y = val[x[1]][x[2]] /\ y = Offer(val, x) /\ qcount[c] = dataqsiz[c]
  <2>1. x \in ToSet(Senders(c))
    <3>1. Senders(c) \in Seq(Sudog)
      BY LineNow
    <3>2. QED
      BY <1>3, <3>1 DEF ToSet
  <2>2. Offer(val, x) \in Val /\ qcount[c] = dataqsiz[c]
    BY <1>1, <2>1, LineNow
  <2>3. QED
    BY <2>2 DEF Offer
<1>5. Offers(c)' = Tail(Offers(c)) /\ Offers(c) # <<>> /\ Head(Offers(c)) = y
  <2>1. PICK s \in Seq(Sudog) : s = Senders(c) /\ \A z \in ToSet(s) : Offer(val, z) \in Val
    BY LineNow
  <2>2. /\ OffersOf(Tail(s), val) = Tail(OffersOf(s, val))
        /\ OffersOf(s, val) # <<>> /\ Head(OffersOf(s, val)) = Offer(val, Head(s))
    BY <1>3, <2>1, OffersTail
  <2>3. QED
    BY <1>2, <1>3, <1>4, <2>1, <2>2, LineNext DEF Offers
<1>6. PICK b \in Seq(Val), v \in Seq(Val) : b = Buffered(c) /\ v = Offers(c) /\ Line(c) = b \o v
  BY LineParts
<1>7. CASE dataqsiz[c] = 0
  <2>1. elem' = [elem EXCEPT ![g] = y] /\ UNCHANGED ring
    BY <1>1, <1>4, <1>7 DEF RecvFromSender
  <2>2. b = <<>>
    <3>1. Len(b) = 0
      BY <1>4, <1>6, <1>7, LineNow
    <3>2. QED
      BY <3>1, EmptySeq
  <2>3. Line(c) = v
    BY <1>6, <2>2, ConcatEmptySeq
  <2>4. Line(c)' = Tail(v)
    <3>1. Buffered(c)' = <<>>
      BY <1>2, <1>6, <2>1, <2>2, LineNext DEF Buffered, ring
    <3>2. Tail(v) \in Seq(Val)
      BY <1>5, <1>6, HeadTailProperties
    <3>3. <<>> \o Tail(v) = Tail(v)
      BY <3>2, ConcatEmptySeq
    <3>4. QED
      BY <1>5, <1>6, <3>1, <3>3, LineNext
  <2>5. Obtains(c, g, y)
    <3>1. elem'[g] = y
      BY <2>1 DEF IInv, Typed
    <3>2. QED
      BY <1>1, <3>1, GotByOne
  <2>6. QED
    BY <1>2, <1>5, <1>6, <2>3, <2>4, <2>5, FifoReceive DEF Obtains
<1>8. CASE dataqsiz[c] # 0
  <2>1. /\ dataqsiz[c] \in Nat /\ qcount[c] \in Nat /\ sendx[c] \in Nat /\ recvx[c] \in Nat
        /\ elem' = [elem EXCEPT ![g] = buf[c][recvx[c]]] /\ buf' = [buf EXCEPT ![c][recvx[c]] = y]
        /\ recvx' = [recvx EXCEPT ![c] = Inc(recvx, c)] /\ UNCHANGED qcount
    BY <1>1, <1>4, <1>8 DEF IInv, Typed, RecvFromSender
  <2>2. PutIn(buf'[c], buf[c], recvx[c], y) /\ recvx'[c] = Wrap(recvx[c], dataqsiz[c])
    BY <2>1 DEF IInv, Typed, PutIn, Inc, Wrap
  <2>3. /\ Buffered(c)' = Append(Tail(b), y)
        /\ b # <<>> /\ Head(b) = buf[c][recvx[c]]
    <3>1. PICK n \in Nat, m \in Nat, s \in Nat, r \in Nat :
             n = dataqsiz[c] /\ m = qcount[c] /\ s = sendx[c] /\ r = recvx[c]
      BY <2>1
    <3>2. PICK a, a2, z, u : a = buf[c] /\ a2 = buf'[c] /\ z = y /\ u = BufferOf(n, m, a, r)
      OBVIOUS
    <3>3. RingOf(n, m, a, s, r) /\ m = n /\ n > 0 /\ PutIn(a2, a, r, z) /\ z \in Val
      BY <1>2, <1>4, <1>8, <2>2, <3>1, <3>2 DEF Ring
    <3>4. Swapped(n, m, a, r, a2, z)
      BY <3>3, BufferSwap
    <3>5. m = qcount'[c] /\ n = dataqsiz'[c] /\ Wrap(r, n) = recvx'[c]
      BY <1>2, <2>1, <2>2, <3>1
    <3>6. u # <<>> /\ Head(u) = a[r]
      <4>1. m > 0 /\ RingOf(n, m, a, s, r)
        BY <3>3
      <4>2. BufferOf(n, m, a, r) # <<>> /\ Head(BufferOf(n, m, a, r)) = a[r]
        BY <4>1, BufferHead
      <4>3. QED
        BY <3>2, <4>2
    <3>7. QED
      BY <1>6, <3>1, <3>2, <3>4, <3>5, <3>6, LineNext DEF Buffered, Swapped
  <2>4. Line(c) # <<>> /\ Head(Line(c)) = buf[c][recvx[c]]
    BY <1>6, <2>3, LineTake
  <2>5. Line(c)' = Tail(Line(c))
    <3>1. Append(Tail(b), Head(v)) \o Tail(v) = Tail(b \o v)
      BY <1>5, <1>6, <2>3, LineShift
    <3>2. QED
      BY <1>5, <1>6, <2>3, <3>1, LineNext
  <2>6. Obtains(c, g, buf[c][recvx[c]])
    <3>1. elem'[g] = buf[c][recvx[c]]
      BY <2>1 DEF IInv, Typed
    <3>2. QED
      BY <1>1, <3>1, GotByOne
  <2>7. QED
    BY <1>2, <2>4, <2>5, <2>6, FifoReceive DEF Obtains
<1>9. QED
  BY <1>7, <1>8

\* A case that goes on, at every channel.
LEMMA TryRefines ==
    ASSUME IInv, NEW g \in G, NEW k, Working(g, k),
           NEW looked \in SUBSET Case, \A j \in looked : ~Proceeds(j), DequeueFor(k, looked),
           TrySend(g, k) \/ TryRecv(g, k), NEW c \in C
    PROVE  Refines(c)
<1>1. /\ k \in Case /\ k[1] \in C /\ Partner(k) \in Queue
      /\ Partner(k) = IF k[2] = "send" THEN <<k[1], "recv">> ELSE <<k[1], "send">>
  BY WorkingFacts, CaseFacts
<1>2. Typed /\ OnceEach
  BY DEF IInv
<1>3. Live(q[Partner(k)]) = <<>> <=> Waiters(Partner(k)) = {}
  BY <1>1, <1>2, LiveOf
<1>4. Waiters(Partner(k)) # {} => Head(Live(q[Partner(k)])) \in Standing(Partner(k))
  BY <1>1, <1>2, LiveOf
<1>5. UNCHANGED <<dataqsiz, closed, val>>
  BY DEF Working
<1>6. CASE closed[k[1]] /\ k[2] = "send" /\ SendPanics(g, k)
  <2>1. UNCHANGED <<ring, elem, param, selectDone>>
    BY <1>6 DEF SendPanics
  <2>2. SameRing(c)
    BY <1>5, <2>1 DEF SameRing, ring
  <2>3. Got(c)' = Got(c)
    BY <2>1, GotSame
  <2>4. Partner(k) # <<c, "send">>
    BY <1>1, <1>6
  <2>5. q'[<<c, "send">>] = q[<<c, "send">>]
           \/ (q'[<<c, "send">>] = <<>> /\ Waiters(<<c, "send">>) = {})
    BY <1>1, <2>4, TrySenders
  <2>6. QED
    BY <1>5, <2>1, <2>2, <2>3, <2>5, QuietChannel
<1>7. CASE k[2] = "send" /\ ~closed[k[1]] /\ Waiters(Partner(k)) # {} /\ SendToReceiver(g, k)
  <2>1. PICK x \in Standing(Partner(k)) : x = Head(Live(q[Partner(k)]))
    BY <1>4, <1>7
  <2>2. Handshake(g, k, x) /\ UNCHANGED ring /\ elem' = [elem EXCEPT ![x[1]] = val[g][k]]
    BY <1>7, <2>1 DEF SendToReceiver
  <2>3. CASE c = k[1]
    <3>1. k[1] = c /\ k[2] = "send" /\ ~closed[c]
      BY <1>1, <1>7, <2>3
    <3>2. QED
      BY <1>1, <2>2, <3>1, GiveMeets
  <2>4. CASE c # k[1]
    <3>1. \A d \in C \ {k[1]} : SameRing(d)
      BY <1>5, <2>2 DEF SameRing, ring
    <3>2. \A h \in G \ {g, x[1]} : elem'[h] = elem[h]
      BY <1>2, <2>2 DEF Typed
    <3>3. Deciding(k)
      BY <1>1, <2>2, <3>1, <3>2, HandshakeDecides
    <3>4. QED
      BY <1>1, <2>4, <3>3, TryElsewhere
  <2>5. QED
    BY <2>3, <2>4
<1>8. CASE k[2] = "send" /\ ~closed[k[1]] /\ qcount[k[1]] < dataqsiz[k[1]] /\ SendToBuffer(g, k)
  <2>1. CASE c = k[1]
    <3>1. Way(k) = <<c, "send">> /\ ~closed[c] /\ qcount[c] < dataqsiz[c]
      BY <1>1, <1>8, <2>1, CaseFacts
    <3>2. QED
      BY <1>1, <1>8, <3>1, PutSends
  <2>2. CASE c # k[1]
    <3>1. \A d \in C \ {k[1]} : SameRing(d)
      BY <1>1, <1>2, <1>5, <1>8 DEF SendToBuffer, SameRing, Typed
    <3>2. Deciding(k)
      BY <1>1, <1>8, <3>1, AloneDecides DEF SendToBuffer, Alone
    <3>3. QED
      BY <1>1, <2>2, <3>2, TryElsewhere
  <2>3. QED
    BY <2>1, <2>2
<1>9. CASE k[2] = "recv" /\ closed[k[1]] /\ qcount[k[1]] = 0 /\ RecvZero(g, k)
  <2>1. CASE c = k[1]
    <3>1. k[1] = c /\ k[2] = "recv" /\ closed[c] /\ qcount[c] = 0
      BY <1>1, <1>9, <2>1
    <3>2. QED
      BY <1>1, <1>9, <3>1, ZeroReceived
  <2>2. CASE c # k[1]
    <3>1. \A d \in C \ {k[1]} : SameRing(d)
      BY <1>5, <1>9 DEF RecvZero, SameRing, ring
    <3>2. Deciding(k)
      BY <1>1, <1>9, <3>1, AloneDecides DEF RecvZero
    <3>3. QED
      BY <1>1, <2>2, <3>2, TryElsewhere
  <2>3. QED
    BY <2>1, <2>2
<1>10. CASE k[2] = "recv" /\ Waiters(Partner(k)) # {} /\ RecvFromSender(g, k)
  <2>1. PICK x \in Standing(Partner(k)) : x = Head(Live(q[Partner(k)]))
    BY <1>4, <1>10
  <2>2. Handshake(g, k, x)
    BY <1>10, <2>1 DEF RecvFromSender
  <2>3. \A d \in C \ {k[1]} : SameRing(d)
    <3>1. CASE dataqsiz[k[1]] = 0
      BY <1>5, <1>10, <3>1 DEF RecvFromSender, SameRing, ring
    <3>2. CASE dataqsiz[k[1]] # 0
      BY <1>1, <1>2, <1>5, <1>10, <3>2 DEF RecvFromSender, SameRing, Typed
    <3>3. QED
      BY <3>1, <3>2
  <2>4. \A h \in G \ {g} : elem'[h] = elem[h]
    BY <1>2, <1>10 DEF RecvFromSender, Typed
  <2>5. /\ Deciding(k)
        /\ param[g] = NoCase /\ param[x[1]] = NoCase /\ param'[g] = k /\ param'[x[1]] = x[2]
        /\ x[2] \in Case /\ Way(x[2]) = Partner(k)
        /\ \A h \in G \ {g, x[1]} : param'[h] = param[h] /\ elem'[h] = elem[h]
        /\ selectDone'[x[1]] <=> op[x[1]] \in Selecting
        /\ \A h \in G \ {x[1]} : selectDone'[h] <=> selectDone[h]
    BY <1>1, <2>2, <2>3, <2>4, HandshakeDecides
  <2>6. CASE c = k[1]
    <3>1. Way(k) = <<c, "recv">> /\ Partner(k) = <<c, "send">>
      BY <1>1, <1>10, <2>6, CaseFacts
    <3>2. x[2][2] = "send"
      BY <2>5, <3>1, CaseFacts
    <3>3. \A h \in G \ {g} : \/ param'[h] = param[h] /\ elem'[h] = elem[h]
                             \/ param[h] = NoCase /\ param'[h] \in Case /\ param'[h][2] = "send"
      BY <2>5, <3>2
    <3>4. x \in Standing(<<c, "send">>) /\ x = Head(Live(q[<<c, "send">>]))
      BY <2>1, <3>1
    <3>5. QED
      BY <1>1, <1>10, <2>5, <3>1, <3>3, <3>4, GetReceives
  <2>7. CASE c # k[1]
    BY <1>1, <2>5, <2>7, TryElsewhere
  <2>8. QED
    BY <2>6, <2>7
<1>11. CASE k[2] = "recv" /\ Waiters(Partner(k)) = {} /\ qcount[k[1]] > 0 /\ RecvFromBuffer(g, k)
  <2>1. CASE c = k[1]
    <3>1. k[1] = c /\ k[2] = "recv" /\ Waiters(<<c, "send">>) = {} /\ qcount[c] > 0
      BY <1>1, <1>11, <2>1
    <3>2. QED
      BY <1>1, <1>11, <3>1, TakeReceives
  <2>2. CASE c # k[1]
    <3>1. \A d \in C \ {k[1]} : SameRing(d)
      BY <1>1, <1>2, <1>5, <1>11 DEF RecvFromBuffer, SameRing, Typed
    <3>2. Deciding(k)
      BY <1>1, <1>11, <3>1, AloneDecides DEF RecvFromBuffer, Alone
    <3>3. QED
      BY <1>1, <2>2, <3>2, TryElsewhere
  <2>3. QED
    BY <2>1, <2>2
<1>12. QED
  BY <1>3, <1>6, <1>7, <1>8, <1>9, <1>10, <1>11 DEF TrySend, TryRecv, ReceiverWaiting

\* chansend and chanrecv.
LEMMA OperateRefines == ASSUME IInv, NEW g \in G, Operate(g), NEW c \in C PROVE Refines(c)
<1>1. PICK k : k = Only(g)
  OBVIOUS
<1>2. /\ pc[g] = "lock" /\ op[g] # "close"
      /\ UNCHANGED <<dataqsiz, closed, lock, calls, op, cases, val>> /\ Witness
  BY DEF Operate, call
<1>3. Typed /\ Begun(g) /\ Locked(g)
  BY DEF IInv
<1>4. op[g] \in Plain
  BY <1>2, <1>3 DEF Begun
<1>5. k \in Case /\ cases[g] = {k}
  BY <1>1, <1>2, <1>3, <1>4, OnlyCase
<1>6. CASE DequeueFor(k, {}) /\ (TrySend(g, k) \/ TryRecv(g, k))
  <2>1. selunlock(g)
    BY <1>2, <1>3, HoldsNothing
  <2>2. Working(g, k)
    BY <1>2, <1>5, <2>1 DEF Working
  <2>3. QED
    BY <1>6, <2>2, TryRefines
<1>7. CASE ~Proceeds(k) /\ Enqueue(g) /\ UNCHANGED <<ring, elem, param, selectDone>>
  BY <1>2, <1>5, <1>7, EnqueueOffers
<1>8. CASE ~Proceeds(k) /\ Refuse(g) /\ UNCHANGED <<ring, elem, param, selectDone>>
  BY <1>2, <1>5, <1>8, RefuseKeeps
<1>9. QED
  BY <1>1, <1>6, <1>7, <1>8 DEF Operate

\* Passes 1 and 2 of selectgo.
LEMMA PassOneRefines == ASSUME IInv, NEW g \in G, PassOne(g), NEW c \in C PROVE Refines(c)
<1>1. /\ pc[g] = "sellock" /\ selunlock(g) /\ Witness
      /\ UNCHANGED <<dataqsiz, closed, calls, op, cases, val>>
  BY DEF PassOne, call
<1>2. op[g] \in Selecting /\ op[g] # "close" /\ cases[g] \subseteq Case
  BY <1>1 DEF IInv, Begun, Typed, Selecting
<1>3. CASE \E k \in cases[g] :
             /\ \E looked \in SUBSET {j \in cases[g] : ~Proceeds(j)} : DequeueFor(k, looked)
             /\ TrySend(g, k) \/ TryRecv(g, k)
  <2>1. PICK k \in cases[g] :
             /\ \E looked \in SUBSET {j \in cases[g] : ~Proceeds(j)} : DequeueFor(k, looked)
             /\ TrySend(g, k) \/ TryRecv(g, k)
    BY <1>3
  <2>2. PICK looked \in SUBSET {j \in cases[g] : ~Proceeds(j)} : DequeueFor(k, looked)
    BY <2>1
  <2>3. Working(g, k)
    BY <1>1, <1>2 DEF Working
  <2>4. looked \in SUBSET Case /\ \A j \in looked : ~Proceeds(j)
    BY <1>2
  <2>5. QED
    BY <2>1, <2>2, <2>3, <2>4, TryRefines
<1>4. CASE /\ \A k \in cases[g] : ~Proceeds(k)
           /\ IF op[g] = "selectdefault" THEN Refuse(g) ELSE Enqueue(g)
           /\ UNCHANGED <<ring, elem, param, selectDone>>
  <2>1. CASE op[g] = "selectdefault"
    BY <1>1, <1>4, <2>1, RefuseKeeps
  <2>2. CASE op[g] # "selectdefault"
    BY <1>1, <1>2, <1>4, <2>2, EnqueueOffers
  <2>3. QED
    BY <2>1, <2>2
<1>5. QED
  BY <1>3, <1>4 DEF PassOne

-----------------------------------------------------------------------------
\* Each channel starts as an empty FIFO,
LEMMA FifoInit == ASSUME Init, NEW c \in C PROVE Fifo(c)!Init
<1>1. IInv
  BY InitStep
<1>2. /\ qcount[c] = 0 /\ closed[c] = FALSE /\ q[<<c, "send">>] = <<>>
      /\ \A g \in G : param[g] = NoCase
  BY QueueFacts DEF Init
<1>3. Line(c) = <<>>
  <2>1. Waiters(<<c, "send">>) = {}
    BY <1>2 DEF Waiters, Standing, ToSet
  <2>2. QED
    BY <1>1, <1>2, <2>1, ShortLine
<1>4. [g \in G |-> IF param[g] # NoCase /\ Way(param[g]) = <<c, "recv">> THEN elem[g] ELSE NoVal]
         = [g \in G |-> NoVal]
  BY <1>2
<1>5. QED
  BY <1>2, <1>3, <1>4 DEF Fifo!Init

\* and every step of the program is one of it or leaves it alone.
LEMMA FifoNext == ASSUME IInv, [Next]_vars, NEW c \in C PROVE Refines(c)
<1>1. CASE UNCHANGED vars
  <2>1. UNCHANGED <<ring, dataqsiz, closed, q, selectDone, elem, param, val>>
    BY <1>1 DEF vars, hchan, call
  <2>2. SameRing(c)
    BY <2>1 DEF SameRing, ring
  <2>3. Got(c)' = Got(c)
    BY <2>1, GotSame
  <2>4. QED
    BY <2>1, <2>2, <2>3, QuietChannel
<1>2. CASE Next
  <2>1. PICK g \in G :
           \/ Begin(g) \/ SendFast(g) \/ RecvFast(g) \/ Operate(g) \/ closechan(g)
           \/ sellock(g) \/ PassOne(g) \/ PassThree(g)
           \/ Ready(g) \/ Resume(g) \/ Return(g)
    BY <1>2 DEF Next
  <2>2. CASE Begin(g) \/ SendFast(g) \/ RecvFast(g) \/ sellock(g) \/ Ready(g)
    BY <2>2, UnmovedSteps
  <2>3. CASE Operate(g)
    BY <2>3, OperateRefines
  <2>4. CASE closechan(g)
    BY <2>4, CloseSteps
  <2>5. CASE PassOne(g)
    BY <2>5, PassOneRefines
  <2>6. CASE PassThree(g)
    BY <2>6, PassThreeKeeps
  <2>7. CASE Resume(g)
    BY <2>7, ResumeZero
  <2>8. CASE Return(g)
    BY <2>8, ReturnForgets
  <2>9. QED
    BY <2>1, <2>2, <2>3, <2>4, <2>5, <2>6, <2>7, <2>8
<1>3. QED
  BY <1>1, <1>2

\* Each channel is a FIFO: whichever way a value takes, through the buffer, from a
\* blocked sender into the slot just emptied or straight to a blocked receiver, none
\* is lost, duplicated or overtaken (chansend, chanrecv, send, recv, closechan and
\* selectgo implement FifoChannel).
THEOREM FifoImplemented == Spec => ImplementsFifo
<1>1. Init => \A c \in C : Fifo(c)!Init
  BY FifoInit
<1>2. IInv /\ [Next]_vars => [\A c \in C : [Fifo(c)!Next]_(Fifo(c)!vars)]_vars
  BY FifoNext DEF Refines
<1>3. QED
  BY <1>1, <1>2, Invariance, PTL DEF Spec, ImplementsFifo
====
