---- MODULE PollDesc ----
(***************************************************************************)
(* runtime/netpoll.go: the poller's descriptor of a file descriptor, with  *)
(* its two binary semaphores rg and wg, its deadlines and their timers.    *)
(* The descriptor is type-stable: it is reused for another file while      *)
(* timers and events of the former one may still be on their way.          *)
(*                                                                         *)
(* What runs under pd.lock is seen by code that does not take the lock, so *)
(* a critical section stores its deadlines or closing in one step and      *)
(* unblocks one mode in each of the following.  The last of these unlocks  *)
(* and readies whom it has unblocked; nobody else can tell a goroutine     *)
(* that has not been readied from one that has not run yet.  A timer that  *)
(* serves both modes stores both deadlines first; the code stores that of  *)
(* the writes after it has unblocked the reads.                            *)
(*                                                                         *)
(* netpollWaiters, a hint for the scheduler, is left out.                  *)
(* Time is left out: an armed timer may fire at any moment.  A deadline is *)
(* Past, None, or one of the moments in Moment.                            *)
(***************************************************************************)
EXTENDS Integers

CONSTANTS G, Moment

Past == -1
None == 0
ASSUME MomentAssumption == Moment \subseteq Nat \ {0}

VARIABLES closing, everr,
          seq,       \* rseq, wseq
          gp,        \* rg, wg: "nil", "ready" (pdReady), "wait" (pdWait), or a goroutine
          deadline,  \* rd, wd
          timer,     \* rt, wt: f is what it calls, seq its argument, when it fires
          fired,     \* timer calls that have not taken pd.lock
          crit,      \* the section of pd.lock: who runs it, modes to unblock, goroutines to ready
          ev,        \* an event the poller has collected: its error state, if that has
                     \* yet to be stored, and the modes it has yet to report
          toRun      \* goroutines unblocked by an event, to be injected

pd == <<closing, everr, seq, gp, deadline, timer, fired, crit, ev, toRun>>

Modes == {"r", "w"}
Free == [who |-> "nobody", todo |-> {}, ready |-> {}]
Off == [f |-> {}, seq |-> 0, when |-> None, armed |-> FALSE]
ErrorState == {"error", "noerror"}
Call == [modes : SUBSET Modes \ {{}}, seq : Nat, when : Moment]

PollDescType ==
    /\ closing \in BOOLEAN /\ everr \in BOOLEAN
    /\ seq \in [Modes -> Nat]
    /\ gp \in [Modes -> {"nil", "ready", "wait"} \cup G]
    /\ deadline \in [Modes -> {Past, None} \cup Moment]
    /\ timer \in [Modes -> [f : SUBSET Modes, seq : Nat, when : {None} \cup Moment, armed : BOOLEAN]]
    /\ fired \subseteq Call
    /\ crit \in [who : G \cup {"nobody", "timer"}, todo : SUBSET Modes, ready : SUBSET G]
    /\ ev \subseteq Modes \cup ErrorState /\ toRun \subseteq G

PollDescInit ==
    /\ closing = FALSE /\ everr = FALSE
    /\ seq = [m \in Modes |-> 1]
    /\ gp = [m \in Modes |-> "nil"]
    /\ deadline = [m \in Modes |-> None]
    /\ timer = [m \in Modes |-> Off]
    /\ fired = {} /\ crit = Free
    /\ ev = {} /\ toRun = {}

\* Blocked on a free or closing descriptor.
Blocked == \E m \in Modes : gp[m] \notin {"nil", "ready"}

\* pd.rseq++, pd.wseq++
NextSeq == [m \in Modes |-> seq[m] + 1]

\* pollOpen: the descriptor taken from the cache starts afresh.
pollOpen ==
    /\ closing' = FALSE /\ everr' = FALSE
    /\ seq' = NextSeq
    /\ gp' = [m \in Modes |-> "nil"]
    /\ deadline' = [m \in Modes |-> None]
    /\ UNCHANGED <<timer, fired, crit, ev, toRun>>

\* netpollcheckerr
checkerr(m) == closing \/ deadline[m] = Past \/ (m = "r" /\ everr)

\* netpollunblock: the new value of the semaphore; a goroutine that was blocked on
\* it is to be readied.
Unblocked(m, ioready) ==
    IF gp[m] = "ready" \/ (gp[m] = "nil" /\ ~ioready) THEN gp[m]
    ELSE IF ioready THEN "ready" ELSE "nil"
Waiter(m) == {gp[m]} \cap G

-----------------------------------------------------------------------------
\* Critical sections.

\* Mutation: timers are looked at only when their own deadline has changed.
DeadlineMoved(m, to) == deadline[m] # to[m]
\* pd.rd != rd0 || combo != combo0, likewise for wd.
Combo(d) == d["r"] \in Moment /\ d["r"] = d["w"]
Changed(m, to) == deadline[m] # to[m] \/ Combo(to) # Combo(deadline)

\* The modes the timer of mode m is to serve: with equal deadlines the read timer
\* serves both.
Serves(m, to) ==
    IF to[m] \notin Moment THEN {}
    ELSE IF Combo(to) THEN (IF m = "r" THEN Modes ELSE {}) ELSE {m}

\* A timer that is set is invalidated and then modified or deleted; a timer that
\* is not set keeps the sequence number.
pollSetDeadline(g, to) ==
    LET reset(m) == timer[m].f # {} /\ Changed(m, to)
    IN  /\ crit = Free /\ ~closing
        /\ deadline' = to
        /\ seq' = [m \in Modes |-> IF reset(m) THEN seq[m] + 1 ELSE seq[m]]
        /\ timer' = [m \in Modes |->
              IF timer[m].f # {} /\ ~reset(m) THEN timer[m]
              ELSE IF Serves(m, to) = {} THEN Off
              ELSE [f |-> Serves(m, to), seq |-> seq'[m], when |-> to[m], armed |-> TRUE]]
        /\ LET past == {m \in Modes : to[m] = Past}
           IN  crit' = IF past = {} THEN Free ELSE [who |-> g, todo |-> past, ready |-> {}]
        /\ UNCHANGED <<closing, everr, gp, fired, ev, toRun>>

pollUnblock(g) ==
    /\ crit = Free
    /\ closing' = TRUE
    /\ seq' = NextSeq
    /\ timer' = [m \in Modes |-> Off]
    /\ crit' = [who |-> g, todo |-> Modes, ready |-> {}]
    /\ UNCHANGED <<everr, gp, deadline, fired, ev, toRun>>

\* The sequence number a timer call is compared with.
SeqOf(c) == IF "r" \in c.modes THEN seq["r"] ELSE seq["w"]
\* Mutation: a stale call is not told from a current one.
AnySeq(c) == TRUE
Current(c) == c.seq = SeqOf(c)

\* throw("runtime: inconsistent read deadline") and its write counterpart.
Inconsistent(c) ==
    \/ \E m \in c.modes : deadline[m] \notin Moment
    \/ timer[IF "r" \in c.modes THEN "r" ELSE "w"].f = {}

netpolldeadlineimpl(c) ==
    /\ crit = Free /\ c \in fired
    /\ fired' = fired \ {c}
    /\ IF Current(c)
       THEN /\ deadline' = [m \in Modes |-> IF m \in c.modes THEN Past ELSE deadline[m]]
            /\ timer' = [m \in Modes |-> IF m \in c.modes THEN [Off EXCEPT !.armed = timer[m].armed] ELSE timer[m]]
            /\ crit' = [who |-> "timer", todo |-> c.modes, ready |-> {}]
       ELSE UNCHANGED <<deadline, timer, crit>>
    /\ UNCHANGED <<closing, everr, seq, gp, ev, toRun>>

\* netpollunblock(pd, 'r', false) before netpollunblock(pd, 'w', false).
Unblock ==
    \E m \in crit.todo :
        /\ m = "w" => "r" \notin crit.todo
        /\ gp' = [gp EXCEPT ![m] = Unblocked(m, FALSE)]
        /\ crit' = [crit EXCEPT !.todo = @ \ {m}, !.ready = @ \cup Waiter(m)]
        /\ UNCHANGED <<closing, everr, seq, deadline, timer, fired, ev, toRun>>

\* unlock, then netpollgoready for those unblocked.
Unlock ==
    /\ crit # Free /\ crit.todo = {}
    /\ crit' = Free
    /\ UNCHANGED <<closing, everr, seq, gp, deadline, timer, fired, ev, toRun>>

-----------------------------------------------------------------------------
\* The runtime's timers: runOneTimer takes the function and its arguments and
\* calls it without a lock.
Fire(m) ==
    /\ timer[m].armed
    /\ timer' = [timer EXCEPT ![m].armed = FALSE]
    /\ fired' = fired \cup {[modes |-> timer[m].f, seq |-> timer[m].seq, when |-> timer[m].when]}
    /\ UNCHANGED <<closing, everr, seq, gp, deadline, crit, ev, toRun>>

\* netpoll: epollwait returns an event for some modes; it may be an error.  The
\* descriptor may be that of another file by the time the event is reported.
Collect(modes, err) ==
    /\ ev' = ev \cup modes \cup {err}
    /\ UNCHANGED <<closing, everr, seq, gp, deadline, timer, fired, crit, toRun>>

StoreError(err) ==
    /\ err \in ev \cap ErrorState
    /\ ev' = ev \ {err}
    /\ everr' = (err = "error")
    /\ UNCHANGED <<closing, seq, gp, deadline, timer, fired, crit, toRun>>

Readied(m) == Unblocked(m, TRUE)

\* netpollready, one mode at a time.
netpollready(m) ==
    /\ m \in ev /\ ev \cap ErrorState = {} /\ (m = "w" => "r" \notin ev)
    /\ ev' = ev \ {m}
    /\ gp' = [gp EXCEPT ![m] = Readied(m)]
    /\ toRun' = toRun \cup Waiter(m)
    /\ UNCHANGED <<closing, everr, seq, deadline, timer, fired, crit>>

\* The scheduler injects what netpoll has returned.
Inject(g) ==
    /\ g \in toRun /\ toRun' = toRun \ {g}
    /\ UNCHANGED <<closing, everr, seq, gp, deadline, timer, fired, crit, ev>>

-----------------------------------------------------------------------------
\* The goroutine that waits.
SetGp(m, s) ==
    /\ gp' = [gp EXCEPT ![m] = s]
    /\ UNCHANGED <<closing, everr, seq, deadline, timer, fired, crit, ev, toRun>>

\* netpollblockcommit
Commit(g, m) ==
    /\ gp[m] = "wait"
    /\ gp' = [gp EXCEPT ![m] = g]
    /\ UNCHANGED <<closing, everr, seq, deadline, timer, fired, crit, ev, toRun>>
====
