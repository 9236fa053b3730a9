---- MODULE Chan ----
(***************************************************************************)
(* runtime/chan.go and runtime/select.go: channels with their ring         *)
(* buffers, their queues of blocked senders and receivers, the lock-free   *)
(* refusals of non-blocking calls, close, and select.                      *)
(*                                                                         *)
(* A case <<c, d, i>> is a send to or a receive from channel c; i tells    *)
(* apart the cases of one select that have channel and direction in        *)
(* common.  A call other than a select has one case.  q[<<c, "recv">>] is  *)
(* c.recvq and q[<<c, "send">>] is c.sendq; a sudog in them is a           *)
(* goroutine with the case it waits for.                                   *)
(*                                                                         *)
(* A critical section of c.lock is one step; only selectgo, which takes    *)
(* the locks of several channels one after the other, is seen to hold one. *)
(* It gives them back at once: an earlier unlock only lets others go on    *)
(* earlier.  Code without the lock reads one field at a time; only         *)
(* closechan changes two fields that are read that way, closed first, and  *)
(* no order of reading can tell this from one step.  goready happens after *)
(* the unlock, one goroutine after the other.  Nil channels, on which      *)
(* calls block forever, have no state and are left out.  A panic is        *)
(* recovered by the caller.                                                *)
(***************************************************************************)
EXTENDS Integers, Sequences, FiniteSets, SequencesExt, Subsequences

CONSTANTS G, NoG,
          C,        \* channels, numbered in the order of their addresses
          Val,      \* values that are sent
          Zero,     \* the zero value of the element type
          NoVal,    \* content of a receiver's slot before it is written
          Nr,       \* numbers of the cases that are alike
          Setups    \* programs: the sizes of the channels and the calls made

Queue == C \X {"send", "recv"}
Case == C \X {"send", "recv"} \X Nr
NoCase == <<>>
Sudog == G \X Case
Selecting == {"select", "selectdefault"}
Direction == [send |-> "send", nbsend |-> "send", recv |-> "recv", nbrecv |-> "recv",
              close |-> "recv"]
Call == [op : Selecting, cases : SUBSET Case]
        \cup {[op |-> o, cases |-> {<<c, Direction[o], i>>}] :
                 o \in DOMAIN Direction, c \in C, i \in Nr}

ASSUME ChanAssumption ==
    /\ NoG \notin G /\ C \subseteq Nat
    /\ IsFiniteSet(G) /\ IsFiniteSet(C) /\ IsFiniteSet(Nr)
    /\ Zero \notin Val /\ NoVal \notin Val /\ Zero # NoVal
    /\ Setups \subseteq [dataqsiz : [C -> Nat], calls : SUBSET Call]

VARIABLES qcount, dataqsiz, buf, closed, sendx, recvx, q, lock,   \* hchan
          calls,      \* the calls the program makes
          pc,         \* control of each goroutine
          op, cases,  \* the call in progress
          val,        \* the values it sends, or would send, by case
          elem,       \* where it receives
          param,      \* the case decided on, by itself or by the waker (g.param)
          selectDone, \* g.selectDone
          glist,      \* goroutines to be readied
          refusable,  \* auxiliary: non-blocking calls during which the channel has
                      \* been open and not ready at some moment
          moved       \* auxiliary: how many values the call has sent or received

ring == <<qcount, buf, sendx, recvx>>
hchan == <<ring, dataqsiz, closed, q, lock>>
call == <<op, cases, val>>
vars == <<hchan, calls, pc, call, elem, param, selectDone, glist, refusable, moved>>

Control == {"idle", "sfast", "sready", "sclosed", "rfast", "rclosed", "lock", "sellock",
            "parked", "woken", "relock", "ready", "true", "false", "panic", "throw"}

\* The cases in S that send.
Sends(S) == {k \in S : k[2] = "send"}

TypeOK ==
    /\ dataqsiz \in [C -> Nat] /\ calls \subseteq Call
    /\ \A c \in C : /\ qcount[c] \in 0..dataqsiz[c]
                    /\ buf[c] \in [0..dataqsiz[c] - 1 -> Val \cup {Zero}]
                    /\ {sendx[c], recvx[c]} \subseteq {0} \cup 0..dataqsiz[c] - 1
    /\ closed \in [C -> BOOLEAN]
    /\ q \in [Queue -> Seq(Sudog)]
    /\ lock \in [C -> G \cup {NoG}]
    /\ pc \in [G -> Control]
    /\ op \in [G -> {"none", "send", "recv", "nbsend", "nbrecv", "close"} \cup Selecting]
    /\ cases \in [G -> SUBSET Case]
    /\ \A g \in G : val[g] \in [Sends(cases[g]) -> Val]
    /\ elem \in [G -> Val \cup {Zero, NoVal}]
    /\ \A g \in G : param[g] \in cases[g] \cup {NoCase}
    /\ selectDone \in [G -> BOOLEAN]
    /\ glist \in [G -> Seq(G)]
    /\ refusable \subseteq G
    /\ moved \in [G -> 0..1]

\* makechan
Init ==
    /\ \E s \in Setups : dataqsiz = s.dataqsiz /\ calls = s.calls
    /\ buf = [c \in C |-> [i \in 0..dataqsiz[c] - 1 |-> Zero]]
    /\ qcount = [c \in C |-> 0] /\ sendx = qcount /\ recvx = qcount
    /\ closed = [c \in C |-> FALSE]
    /\ q = [w \in Queue |-> <<>>]
    /\ lock = [c \in C |-> NoG]
    /\ pc = [g \in G |-> "idle"]
    /\ op = [g \in G |-> "none"]
    /\ cases = [g \in G |-> {}]
    /\ val = [g \in G |-> <<>>]
    /\ elem = [g \in G |-> NoVal]
    /\ param = [g \in G |-> NoCase]
    /\ selectDone = [g \in G |-> FALSE]
    /\ glist = [g \in G |-> <<>>]
    /\ refusable = {}
    /\ moved = [g \in G |-> 0]

Goto(g, l) == pc' = [pc EXCEPT ![g] = l]

\* The only case of a call that is not a select.
Only(g) == CHOOSE k \in cases[g] : TRUE

\* The conditions the fast paths look at.
FullForSend(c) == IF dataqsiz[c] = 0 THEN q[<<c, "recv">>] = <<>> ELSE qcount[c] = dataqsiz[c]
EmptyForRecv(c) == IF dataqsiz[c] = 0 THEN q[<<c, "send">>] = <<>> ELSE qcount[c] = 0

\* The sudogs dequeue may return: those of selects that have been won by another
\* case are passed over ("!atomic.Cas(&sgp.g.selectDone, 0, 1)"), and so are, when
\* it comes to them, all sudogs of a select but the first in this queue.
Waiting(s) ==
    {i \in DOMAIN s : ~selectDone[s[i][1]] /\ \A j \in 1..i - 1 : s[j][1] # s[i][1]}
Live(s) == At(s, Waiting(s))
Owners(s) == {s[i][1] : i \in DOMAIN s}

\* The queue for case k, the queue of those who wait for a case like k, and whether
\* k can go on.
Way(k) == <<k[1], k[2]>>
Partner(k) == <<k[1], IF k[2] = "send" THEN "recv" ELSE "send">>
Proceeds(k) ==
    \/ closed[k[1]]
    \/ Live(q[Partner(k)]) # <<>>
    \/ k[2] = "send" /\ qcount[k[1]] < dataqsiz[k[1]]
    \/ k[2] = "recv" /\ qcount[k[1]] > 0

Witness ==
    LET inCall == {g \in G : pc'[g] # "idle"}
        now == {g \in inCall : op'[g] \in {"nbsend", "nbrecv"} /\ ~Proceeds(Only(g))'}
    IN  refusable' = (refusable \cap inCall) \cup now

-----------------------------------------------------------------------------
\* Calls: c <- v, <-c, the two with a default case, close(c), and a select of two
\* cases or more, with or without a default.
Entry == [send |-> "lock", recv |-> "lock", close |-> "lock", nbsend |-> "sfast",
          nbrecv |-> "rfast", select |-> "sellock", selectdefault |-> "sellock"]

Begin(g) ==
    /\ pc[g] = "idle"
    /\ \E k \in calls :
          /\ op' = [op EXCEPT ![g] = k.op]
          /\ cases' = [cases EXCEPT ![g] = k.cases]
          /\ Goto(g, Entry[k.op])
          /\ \E v \in [Sends(k.cases) -> Val] : val' = [val EXCEPT ![g] = v]
    /\ UNCHANGED <<hchan, calls, elem, param, selectDone, glist, moved>>
    /\ Witness

\* The fast path of a non-blocking send: two reads, in either order ("It is okay
\* if the reads are reordered here").
Load(g, from, refuses, next) ==
    /\ pc[g] = from
    /\ Goto(g, IF refuses THEN next ELSE "lock")
    /\ UNCHANGED <<hchan, calls, call, elem, param, selectDone, glist, moved>>
    /\ Witness

SendFast(g) ==
    LET c == Only(g)[1]
    IN  \/ Load(g, "sfast", ~closed[c], "sready")
        \/ Load(g, "sready", FullForSend(c), "false")
        \/ Load(g, "sfast", FullForSend(c), "sclosed")
        \/ Load(g, "sclosed", ~closed[c], "false")

\* Mutation: the fast path of a non-blocking receive reads closed first.
RecvFastReversed(g) ==
    LET c == Only(g)[1]
    IN  \/ Load(g, "rfast", ~closed[c], "rclosed")
        \/ Load(g, "rclosed", EmptyForRecv(c), "false")
\* "The order of operations is important here: reversing the operations can lead
\* to incorrect behavior when racing with a close."
RecvFast(g) ==
    LET c == Only(g)[1]
    IN  \/ Load(g, "rfast", EmptyForRecv(c), "rclosed")
        \/ Load(g, "rclosed", ~closed[c], "false")

-----------------------------------------------------------------------------
\* x++; if x == dataqsiz { x = 0 }
Inc(x, c) == IF x[c] + 1 = dataqsiz[c] THEN 0 ELSE x[c] + 1

\* What dequeue leaves of a queue.
AfterDequeue(s) ==
    IF Waiting(s) = {} THEN <<>> ELSE SubSeq(s, Nth(Waiting(s), 1) + 1, Len(s))

\* The queues after the cases in looked have been found not to be ready.
LookedAt(looked) ==
    [w \in Queue |-> IF \E k \in looked : Partner(k) = w THEN <<>> ELSE q[w]]

\* The queues after a dequeue for case k as well.
DequeueFor(k, looked) ==
    q' = [LookedAt(looked) EXCEPT ![Partner(k)] = AfterDequeue(q[Partner(k)])]

\* Case k of g is done, through a blocked goroutine that gets its sudog as param and
\* is to be readied.
Handshake(g, k, sudog) ==
    LET p == sudog[1]
    IN  /\ param' = [param EXCEPT ![g] = k, ![p] = sudog[2]]
        /\ selectDone' = [selectDone EXCEPT ![p] = op[p] \in Selecting]
        /\ glist' = [glist EXCEPT ![g] = <<p>>]
        /\ moved' = [moved EXCEPT ![g] = @ + 1, ![p] = @ + 1]
        /\ Goto(g, "ready")

\* Case k of g is done without anyone else.
Alone(g, k) ==
    /\ param' = [param EXCEPT ![g] = k]
    /\ moved' = [moved EXCEPT ![g] = @ + 1]
    /\ Goto(g, "true")
    /\ UNCHANGED <<selectDone, glist>>

\* send(c, sg, ep): straight into the receiver's slot.
SendToReceiver(g, k) ==
    LET r == Head(Live(q[Partner(k)]))
    IN  /\ elem' = [elem EXCEPT ![r[1]] = val[g][k]]
        /\ Handshake(g, k, r)
        /\ UNCHANGED ring

SendToBuffer(g, k) ==
    LET c == k[1]
    IN  /\ buf' = [buf EXCEPT ![c][sendx[c]] = val[g][k]]
        /\ sendx' = [sendx EXCEPT ![c] = Inc(sendx, c)]
        /\ qcount' = [qcount EXCEPT ![c] = @ + 1]
        /\ Alone(g, k)
        /\ UNCHANGED <<recvx, elem>>

\* Mutation: the buffer comes first.
ReceiverWhenFull(k) == Live(q[Partner(k)]) # <<>> /\ qcount[k[1]] = dataqsiz[k[1]]
\* "Found a waiting receiver."
ReceiverWaiting(k) == Live(q[Partner(k)]) # <<>>

\* Mutation: the receiver takes the blocked sender's value, ahead of the buffer.
RecvFromSenderDirect(g, k) ==
    LET s == Head(Live(q[Partner(k)]))
    IN  /\ elem' = [elem EXCEPT ![g] = val[s[1]][s[2]]]
        /\ UNCHANGED ring
        /\ Handshake(g, k, s)
\* recv(c, sg, ep): without a buffer the value of the blocked sender; otherwise
\* the oldest value, whose slot the sender's value takes.
RecvFromSender(g, k) ==
    LET c == k[1]
        s == Head(Live(q[Partner(k)]))
    IN  /\ IF dataqsiz[c] = 0
           THEN /\ elem' = [elem EXCEPT ![g] = val[s[1]][s[2]]]
                /\ UNCHANGED ring
           ELSE /\ elem' = [elem EXCEPT ![g] = buf[c][recvx[c]]]
                /\ buf' = [buf EXCEPT ![c][recvx[c]] = val[s[1]][s[2]]]
                /\ recvx' = [recvx EXCEPT ![c] = Inc(recvx, c)]
                /\ sendx' = [sendx EXCEPT ![c] = recvx'[c]]
                /\ UNCHANGED qcount
        /\ Handshake(g, k, s)

\* typedmemclr(c.elemtype, qp)
Cleared(b, i) == [b EXCEPT ![i] = Zero]

RecvFromBuffer(g, k) ==
    LET c == k[1]
    IN  /\ elem' = [elem EXCEPT ![g] = buf[c][recvx[c]]]
        /\ buf' = [buf EXCEPT ![c] = Cleared(@, recvx[c])]
        /\ recvx' = [recvx EXCEPT ![c] = Inc(recvx, c)]
        /\ qcount' = [qcount EXCEPT ![c] = @ - 1]
        /\ Alone(g, k)
        /\ UNCHANGED sendx

\* Send on a closed channel, and receive from a closed and drained one.
SendPanics(g, k) ==
    /\ Goto(g, "panic")
    /\ UNCHANGED <<ring, elem, param, selectDone, glist, moved>>

RecvZero(g, k) ==
    /\ elem' = [elem EXCEPT ![g] = Zero]
    /\ param' = [param EXCEPT ![g] = k]
    /\ Goto(g, "true")
    /\ UNCHANGED <<ring, selectDone, glist, moved>>

\* Case k of g, whose channels are locked, goes on.
TrySend(g, k) ==
    LET c == k[1]
    IN  /\ k[2] = "send"
        /\ \/ closed[c] /\ SendPanics(g, k)
           \/ ~closed[c] /\ ReceiverWaiting(k) /\ SendToReceiver(g, k)
           \/ ~closed[c] /\ ~ReceiverWaiting(k) /\ qcount[c] < dataqsiz[c] /\ SendToBuffer(g, k)

TryRecv(g, k) ==
    LET c == k[1]
        waiting == Live(q[Partner(k)]) # <<>>
    IN  /\ k[2] = "recv"
        /\ \/ closed[c] /\ qcount[c] = 0 /\ RecvZero(g, k)
           \/ waiting /\ RecvFromSender(g, k)
           \/ ~waiting /\ qcount[c] > 0 /\ RecvFromBuffer(g, k)

\* g goes to sleep on all its cases, in an order (lockorder) in which cases on the same
\* channel are permuted.
Enqueue(g) ==
    /\ \E order \in SetToSeqs({g} \X cases[g]) :
          q' = [w \in Queue |-> LookedAt(cases[g])[w]
                                   \o At(order, {i \in DOMAIN order : Way(order[i][2]) = w})]
    /\ Goto(g, "parked")

Refuse(g) == q' = LookedAt(cases[g]) /\ Goto(g, "false")

\* chansend and chanrecv, under the lock.
Operate(g) ==
    LET k == Only(g)
    IN  /\ pc[g] = "lock" /\ op[g] # "close" /\ lock[k[1]] = NoG
        /\ \/ DequeueFor(k, {}) /\ (TrySend(g, k) \/ TryRecv(g, k))
           \/ /\ ~Proceeds(k)
              /\ \/ op[g] \in {"send", "recv"} /\ Enqueue(g)
                 \/ op[g] \in {"nbsend", "nbrecv"} /\ Refuse(g)
              /\ UNCHANGED <<ring, elem, param, selectDone, glist, moved>>
        /\ UNCHANGED <<dataqsiz, closed, lock, calls, call>>
        /\ Witness

-----------------------------------------------------------------------------
\* glist of closechan: "release all readers", "release all writers (they will
\* panic)" but for a select that has just been released as a reader; the list is
\* a stack.
Released(c) ==
    LET readers == Live(q[<<c, "recv">>])
        sendq == q[<<c, "send">>]
        writers == At(sendq, {i \in Waiting(sendq) : sendq[i][1] \notin Owners(readers)})
        released == Reverse(readers \o writers)
    IN  [i \in DOMAIN released |-> released[i][1]]

\* A receiver's slot is cleared; the slot of a select's case is left out, for it
\* is cleared again if that case is the one chosen.
closechan(g) ==
    LET c == Only(g)[1]
        receivers == Owners(Live(q[<<c, "recv">>]))
    IN  /\ pc[g] = "lock" /\ op[g] = "close" /\ lock[c] = NoG
        /\ \/ /\ closed[c]
              /\ Goto(g, "panic")
              /\ UNCHANGED <<closed, q, elem, selectDone, glist>>
           \/ /\ ~closed[c]
              /\ closed' = [closed EXCEPT ![c] = TRUE]
              /\ q' = [q EXCEPT ![<<c, "recv">>] = <<>>, ![<<c, "send">>] = <<>>]
              /\ elem' = [h \in G |-> IF h \in receivers /\ op[h] = "recv" THEN Zero ELSE elem[h]]
              /\ selectDone' = [h \in G |-> selectDone[h] \/ (h \in ToSet(Released(c)) /\ op[h] \in Selecting)]
              /\ glist' = [glist EXCEPT ![g] = Released(c)]
              /\ Goto(g, "ready")
        /\ UNCHANGED <<ring, dataqsiz, lock, calls, call, param, moved>>
        /\ Witness

-----------------------------------------------------------------------------
Channels(g) == {k[1] : k \in cases[g]}
Holds(g) == {c \in C : lock[c] = g}

\* Mutation: the locks are taken in the order in which the cases are polled.
MayLockNext(g) == Channels(g) \ Holds(g)
\* sellock: in the order of the channels' addresses.
LockNext(g) == {c \in Channels(g) \ Holds(g) : \A d \in Channels(g) \ Holds(g) : c <= d}

sellock(g) ==
    /\ pc[g] \in {"sellock", "relock"}
    /\ \E c \in LockNext(g) : lock[c] = NoG /\ lock' = [lock EXCEPT ![c] = g]
    /\ UNCHANGED <<ring, dataqsiz, closed, q, calls, pc, call, elem, param, selectDone, glist, moved>>
    /\ Witness

selunlock(g) == lock' = [c \in C |-> IF lock[c] = g THEN NoG ELSE lock[c]]

\* Passes 1 and 2 of selectgo.  The cases are looked at in a random order, which
\* is seen in the one that is chosen and in the queues that have been cleaned up.
PassOne(g) ==
    /\ pc[g] = "sellock" /\ LockNext(g) = {}
    /\ \/ \E k \in cases[g] :
             /\ \E looked \in SUBSET {j \in cases[g] : ~Proceeds(j)} : DequeueFor(k, looked)
             /\ TrySend(g, k) \/ TryRecv(g, k)
       \/ /\ \A k \in cases[g] : ~Proceeds(k)
          /\ IF op[g] = "selectdefault" THEN Refuse(g) ELSE Enqueue(g)
          /\ UNCHANGED <<ring, elem, param, selectDone, glist, moved>>
    /\ selunlock(g)
    /\ UNCHANGED <<dataqsiz, closed, calls, call>>
    /\ Witness

\* Mutation: the sudogs of the other cases stay in their queues.
KeepLosers(g) == q
\* dequeueSudoG for the cases that were not chosen.
DropLosers(g) ==
    [w \in Queue |-> At(q[w], {i \in DOMAIN q[w] : q[w][i] \notin {g} \X cases[g]})]

\* Pass 3: with a case chosen by the waker the select is over; after a close it is
\* done again, with the locks held.
PassThree(g) ==
    /\ pc[g] = "relock" /\ LockNext(g) = {}
    /\ selectDone' = [selectDone EXCEPT ![g] = FALSE]
    /\ q' = DropLosers(g)
    /\ IF param[g] = NoCase THEN Goto(g, "sellock") /\ UNCHANGED lock
                            ELSE Goto(g, "true") /\ selunlock(g)
    /\ UNCHANGED <<ring, dataqsiz, closed, calls, call, elem, param, glist, moved>>
    /\ Witness

-----------------------------------------------------------------------------
\* goready, after the unlock.
Ready(g) ==
    /\ pc[g] = "ready"
    /\ \/ /\ glist[g] # <<>>
          /\ Goto(Head(glist[g]), "woken")
          /\ glist' = [glist EXCEPT ![g] = Tail(@)]
       \/ /\ glist[g] = <<>>
          /\ Goto(g, "true")
          /\ UNCHANGED glist
    /\ UNCHANGED <<hchan, calls, call, elem, param, selectDone, moved>>
    /\ Witness

\* "someone woke us up": a receiver that was woken by close has its zero value, a
\* sender panics, a select takes its locks again.
Resume(g) ==
    /\ pc[g] = "woken"
    /\ Goto(g, IF op[g] \in Selecting THEN "relock"
               ELSE IF op[g] = "recv" \/ param[g] # NoCase THEN "true"
               ELSE IF closed[Only(g)[1]] THEN "panic" ELSE "throw")
    /\ param' = [param EXCEPT ![g] = IF op[g] = "recv" THEN Only(g) ELSE @]
    /\ UNCHANGED <<hchan, calls, call, elem, selectDone, glist, moved>>
    /\ Witness

\* The caller goes on.
Return(g) ==
    /\ pc[g] \in {"true", "false", "panic"}
    /\ Goto(g, "idle")
    /\ op' = [op EXCEPT ![g] = "none"]
    /\ cases' = [cases EXCEPT ![g] = {}]
    /\ val' = [val EXCEPT ![g] = <<>>]
    /\ elem' = [elem EXCEPT ![g] = NoVal]
    /\ param' = [param EXCEPT ![g] = NoCase]
    /\ moved' = [moved EXCEPT ![g] = 0]
    /\ UNCHANGED <<hchan, calls, selectDone, glist>>
    /\ Witness

-----------------------------------------------------------------------------
Next ==
    \E g \in G :
        \/ Begin(g) \/ SendFast(g) \/ RecvFast(g) \/ Operate(g) \/ closechan(g)
        \/ sellock(g) \/ PassOne(g) \/ PassThree(g)
        \/ Ready(g) \/ Resume(g) \/ Return(g)

Spec == Init /\ [][Next]_vars

-----------------------------------------------------------------------------
\* The invariants in the head comment of chan.go: one of the queues is empty, or
\* one goroutine blocked in a select is alone on both, of an unbuffered channel, with any
\* number of sudogs on each ("limited only by the size of the select statement"); nobody waits to receive from a channel with
\* values or to send to one with room; and nobody waits on a closed channel.  Sudogs a
\* finished select has yet to remove do not count as waiting.
QueueInvariants ==
    \A c \in C :
        LET recvq == Live(q[<<c, "recv">>])
            sendq == Live(q[<<c, "send">>])
        IN  /\ \/ recvq = <<>> \/ sendq = <<>>
               \/ dataqsiz[c] = 0 /\ \E g \in G : Owners(recvq) = {g} /\ Owners(sendq) = {g}
            /\ qcount[c] > 0 => recvq = <<>>
            /\ qcount[c] < dataqsiz[c] => sendq = <<>>
            /\ closed[c] => q[<<c, "recv">>] = <<>> /\ q[<<c, "send">>] = <<>>

\* The indices delimit the buffered values, also after recv has let a sender's
\* value take the place of the oldest one, and the other slots are clear.
RingInvariant ==
    \A c \in {d \in C : dataqsiz[d] > 0} :
        LET used == {(recvx[c] + i) % dataqsiz[c] : i \in 0..qcount[c] - 1}
        IN  /\ sendx[c] = (recvx[c] + qcount[c]) % dataqsiz[c]
            /\ \A i \in 0..dataqsiz[c] - 1 : buf[c][i] = Zero <=> i \notin used

\* The state of an hchan is consistent after every step of send, receive, select and
\* close: its indices and count, the ring, and the two queues against both.
HchanInvariant == TypeOK /\ QueueInvariants /\ RingInvariant

\* A sleeper has a sudog for each of its cases, also for those that are alike, once in
\* the queue it belongs to, or is about to be readied by exactly one goroutine; when it
\* runs again, only a select may still have sudogs in queues, until it has its locks;
\* "chansend: spurious wakeup" is unreachable.
BlockedOnce ==
    \A g \in G :
        LET times(k) == Cardinality({i \in DOMAIN q[Way(k)] : q[Way(k)][i] = <<g, k>>})
            hands == Cardinality(UNION {{h} \X {i \in DOMAIN glist[h] : glist[h][i] = g} : h \in G})
        IN  /\ hands <= (IF pc[g] = "parked" THEN 1 ELSE 0)
            /\ \A k \in cases[g] :
                  times(k) \in (IF pc[g] = "parked" /\ hands = 0 THEN {1}
                                ELSE IF selectDone[g] THEN {0, 1} ELSE {0})
            /\ \A w \in Queue : \A x \in ToSet(q[w]) :
                  x[1] = g => x[2] \in cases[g] /\ Way(x[2]) = w
            /\ pc[g] # "throw"

\* No lost wakeup: a goroutine that sleeps, and that nobody is about to ready,
\* could go on with none of its cases.
SleepsForAReason ==
    \A g \in G :
        (pc[g] = "parked" /\ \A h \in G : g \notin ToSet(glist[h])) =>
            \A k \in cases[g] :
                LET c == k[1]
                IN  /\ ~closed[c]
                    /\ Owners(Live(q[Partner(k)])) \subseteq {g}
                    /\ qcount[c] = IF k[2] = "send" THEN dataqsiz[c] ELSE 0

\* Blocked goroutines are found by those that can resume them: each is queued where
\* its partners look, readied by one of them, and not left asleep when it could go on.
WaitersFound == BlockedOnce /\ SleepsForAReason

\* A select takes effect through exactly one case, the one it reports, however
\* many goroutines race to be its partner; a call that refuses or panics has had
\* no effect.
OneCase ==
    \A g \in G :
        /\ moved[g] = 1 => param[g] # NoCase
        /\ pc[g] = "true" /\ op[g] # "close" /\ elem[g] # Zero => moved[g] = 1
        /\ pc[g] \in {"false", "panic", "sellock"} => moved[g] = 0

\* Selects that take the locks of several channels never wait for one another in
\* a circle: whenever locks are held, one of the holders can go on.
NoLockCycle ==
    (\E g \in G : Holds(g) # {}) =>
        \E g \in G : Holds(g) # {} /\ \A c \in LockNext(g) : lock[c] = NoG

\* A select over several channels acts as one operation: one case takes effect, and
\* the locks it needs for that are taken in an order that cannot deadlock.
SelectSafe == OneCase /\ NoLockCycle

\* A non-blocking call that reports failure was refused rightly: at some moment of the
\* call the channel was open and not ready for it.  The one exception is a send on an
\* unbuffered channel that has been closed by then: close empties recvq, so that a
\* channel that was ready to the end may look as if it had not been (fast path of
\* chansend).
RefusalJustified ==
    \A g \in G : pc[g] = "false" /\ op[g] \in {"nbsend", "nbrecv"} =>
        \/ g \in refusable
        \/ op[g] = "nbsend" /\ \E k \in cases[g] : closed[k[1]] /\ dataqsiz[k[1]] = 0

\* Values in order: the buffer, then the blocked senders', of which a select offers the
\* one of its first sudog.
Line(c) ==
    LET sendq == Live(q[<<c, "send">>])
    IN  [i \in 1..qcount[c] |-> buf[c][(recvx[c] + i - 1) % dataqsiz[c]]]
            \o [i \in 1..Len(sendq) |-> val[sendq[i][1]][sendq[i][2]]]

Fifo(c) == INSTANCE FifoChannel WITH
    cap <- dataqsiz[c],
    line <- Line(c),
    closed <- closed[c],
    got <- [g \in G |-> IF param[g] # NoCase /\ Way(param[g]) = <<c, "recv">> THEN elem[g] ELSE NoVal]

\* Whether a value goes through the buffer, from a blocked sender into the slot
\* just emptied, or straight to a blocked receiver, each channel is a FIFO: no
\* value is lost, duplicated or overtaken, and only blocked senders' values go away
\* unreceived, on a close or when a select goes on with another case.
ImplementsFifo ==
    /\ \A c \in C : Fifo(c)!Init
    /\ [][\A c \in C : [Fifo(c)!Next]_(Fifo(c)!vars)]_vars
====
