---- MODULE PollFD ----
(***************************************************************************)
(* internal/poll: a pollable file descriptor FD, made of an fdMutex and a  *)
(* descriptor of the runtime's poller.  Goroutines read, write, set        *)
(* deadlines, make other calls that hold a reference, switch to blocking   *)
(* mode, and close; the last reference to go destroys the descriptor.      *)
(* Once nobody is in a call on it, another file may be opened that gets    *)
(* the same descriptor of the poller.                                      *)
(*                                                                         *)
(* A read or write that finds nothing to do (EAGAIN) waits for the poller; *)
(* one that makes progress returns.  The calls that differ from Read and   *)
(* Write only in the system call they make are represented by these.  A    *)
(* call on a closed descriptor returns an error, and one that would        *)
(* overflow a count panics, both without having changed anything.          *)
(***************************************************************************)
EXTENDS FdMutex, PollDesc, FiniteSets

CONSTANT Programs       \* the calls each goroutine may make, the deadlines that may be
                        \* set, and bounds: how many files are opened one after the
                        \* other and how many deadlines are set

VARIABLES program,
          pc, op, arg,  \* control of each goroutine, its call, the deadline it sets
          sysfd,        \* Sysfd is open
          isBlocking, csema,
          toWake,       \* waiters increfAndClose has yet to release
          avail, edge,  \* kernel: bytes or room are available; events to be collected
          nonblock,     \* kernel: O_NONBLOCK is set
          opened, sets  \* files opened and deadlines set so far

fdmu == <<mu, sema>>
file == <<sysfd, isBlocking, csema, toWake>>
kernel == <<avail, edge, nonblock>>
bounds == <<program, opened, sets>>
local == <<pc, op, arg>>
vars == <<fdmu, pd, local, file, kernel, bounds>>

Op == Modes \cup {"misc", "block", "close", "error", "set"}
Set == [which : SUBSET Modes, to : {Past, None} \cup Moment]
NoSet == [which |-> {}, to |-> None]

ASSUME PollFDAssumption ==
    Programs \subseteq [calls : [G -> SUBSET Op], sets : SUBSET Set, maxOpen : Nat, maxSets : Nat]

Control == {"idle", "rwlock", "sleep", "prepare", "reset", "syscall", "pollWait", "netpollblock",
            "consume", "recheck", "park", "parked", "xchg", "rwunlock", "release", "misc", "setnonblock", "set",
            "crit", "decref", "destroy", "closefunc", "wake", "evict", "wait", "csema", "throw"}

TypeOK ==
    /\ FdMutexType /\ PollDescType
    /\ pc \in [G -> Control] /\ op \in [G -> Op \cup {"none"}] /\ arg \in [G -> Set]
    /\ sysfd \in BOOLEAN /\ isBlocking \in BOOLEAN /\ csema \in 0..1
    /\ toWake \in [Mode -> 0..MaxWait]
    /\ avail \in [Mode -> BOOLEAN] /\ edge \subseteq Mode /\ nonblock \in BOOLEAN
    /\ opened \in 1..program.maxOpen /\ sets \in 0..program.maxSets

\* A pollable FD after Init.
Init ==
    /\ program \in Programs
    /\ mu = NewFdMutex /\ sema = [m \in Mode |-> 0]
    /\ PollDescInit
    /\ pc = [g \in G |-> "idle"] /\ op = [g \in G |-> "none"]
    /\ arg = [g \in G |-> NoSet]
    /\ sysfd = TRUE /\ isBlocking = FALSE /\ csema = 0
    /\ toWake = [m \in Mode |-> 0]
    /\ avail = [m \in Mode |-> FALSE] /\ edge = {} /\ nonblock = TRUE
    /\ opened = 1 /\ sets = 0

Goto(g, l) == pc' = [pc EXCEPT ![g] = l] /\ UNCHANGED <<op, arg>>
Begin(g, o, l) == pc' = [pc EXCEPT ![g] = l] /\ op' = [op EXCEPT ![g] = o] /\ UNCHANGED arg
Leave(g) ==
    /\ pc' = [pc EXCEPT ![g] = "idle"]
    /\ op' = [op EXCEPT ![g] = "none"]
    /\ arg' = [arg EXCEPT ![g] = NoSet]
Fatal == pc' = [g \in G |-> "throw"] /\ UNCHANGED <<op, arg>>

\* Another file.  Who is still in a call on the former one would only see it
\* closed.
Open ==
    /\ ~sysfd /\ opened < program.maxOpen /\ \A g \in G : pc[g] = "idle"
    /\ opened' = opened + 1
    /\ mu' = NewFdMutex /\ sema' = [m \in Mode |-> 0]
    /\ pollOpen
    /\ IF Blocked THEN Fatal ELSE UNCHANGED local
    /\ sysfd' = TRUE /\ isBlocking' = FALSE /\ csema' = 0
    /\ avail' = [m \in Mode |-> FALSE] /\ edge' = {} /\ nonblock' = TRUE
    /\ UNCHANGED <<program, toWake, sets>>

-----------------------------------------------------------------------------
\* readLock and writeLock; the signaller has subtracted the waiter.
rwlock(g) ==
    /\ \E m \in Mode :
          /\ \/ pc[g] = "idle" /\ m \in program.calls[g]
             \/ pc[g] = "rwlock" /\ op[g] = m
          /\ \/ Acquire(m) /\ Begin(g, m, "prepare")
             \/ AwaitLock(m) /\ Begin(g, m, "sleep")
             \/ /\ pc[g] = "rwlock" /\ (mu.closed \/ Overflows(m))
                /\ Leave(g)
                /\ UNCHANGED mu
    /\ UNCHANGED <<sema, pd, file, kernel, bounds>>

Wake(g) ==
    /\ pc[g] = "sleep" /\ Semacquire(op[g])
    /\ Goto(g, "rwlock")
    /\ UNCHANGED <<mu, pd, file, kernel, bounds>>

\* pollReset: errors first, then any readiness notification of the past goes.
prepare(g) ==
    LET m == op[g]
    IN  /\ \/ /\ pc[g] = "prepare"
              /\ Goto(g, IF checkerr(m) THEN "rwunlock" ELSE "reset")
              /\ UNCHANGED pd
           \/ /\ pc[g] = "reset"
              /\ SetGp(m, "nil")
              /\ Goto(g, "syscall")
        /\ UNCHANGED <<fdmu, file, kernel, bounds>>

\* syscall.Read or Write: some of what is available, or EAGAIN, or, without O_NONBLOCK,
\* a wait in the kernel.
Syscall(g) ==
    LET m == op[g]
    IN  /\ pc[g] = "syscall"
        /\ \/ /\ avail[m]
              /\ \E left \in BOOLEAN : avail' = [avail EXCEPT ![m] = left]
              /\ Goto(g, "rwunlock")
           \/ /\ ~avail[m] /\ nonblock
              /\ Goto(g, "pollWait")
              /\ UNCHANGED avail
        /\ UNCHANGED <<fdmu, pd, file, edge, nonblock, bounds>>

\* pollWait and netpollblock.
pollWait(g) ==
    LET m == op[g]
    IN  /\ pc[g] = "pollWait"
        /\ Goto(g, IF checkerr(m) THEN "rwunlock" ELSE "netpollblock")
        /\ UNCHANGED <<fdmu, pd, file, kernel, bounds>>

netpollblock(g) ==
    LET m == op[g]
    IN  /\ pc[g] = "netpollblock"
        /\ \/ gp[m] = "ready" /\ Goto(g, "consume") /\ UNCHANGED pd
           \/ gp[m] = "nil" /\ SetGp(m, "wait") /\ Goto(g, "recheck")
           \/ gp[m] \notin {"ready", "nil"} /\ Fatal /\ UNCHANGED pd
        /\ UNCHANGED <<fdmu, file, kernel, bounds>>

Consume(g) ==
    /\ pc[g] = "consume"
    /\ SetGp(op[g], "nil")
    /\ Goto(g, "syscall")
    /\ UNCHANGED <<fdmu, file, kernel, bounds>>

\* Mutation: the errors are not looked at again.
Unchecked(g) == FALSE
\* "need to recheck error states after setting gpp to WAIT"
Rechecked(g) == checkerr(op[g])

Recheck(g) ==
    /\ pc[g] = "recheck"
    /\ Goto(g, IF Rechecked(g) THEN "xchg" ELSE "park")
    /\ UNCHANGED <<fdmu, pd, file, kernel, bounds>>

Park(g) ==
    /\ pc[g] = "park"
    /\ \/ Commit(g, op[g]) /\ Goto(g, "parked")
       \/ gp[op[g]] # "wait" /\ Goto(g, "xchg") /\ UNCHANGED pd
    /\ UNCHANGED <<fdmu, file, kernel, bounds>>

\* "be careful to not lose concurrent READY notification"
Exchange(g) ==
    LET m == op[g]
    IN  /\ pc[g] = "xchg"
        /\ SetGp(m, "nil")
        /\ IF gp[m] \in G THEN Fatal
           ELSE Goto(g, IF gp[m] = "ready" THEN "syscall" ELSE "pollWait")
        /\ UNCHANGED <<fdmu, file, kernel, bounds>>

\* readUnlock and writeUnlock.  A closed word has no waiters, so a call that wakes
\* one does not hold the last reference.
Unlocked(g) ==
    LET m == op[g]
    IN  /\ \/ /\ pc[g] = "rwunlock" /\ rwunlock(m)
              /\ IF Wakes(m) THEN Goto(g, "release")
                 ELSE IF LastReference THEN Goto(g, "destroy") ELSE Leave(g)
              /\ UNCHANGED sema
           \/ /\ pc[g] = "rwunlock" /\ (~mu.lock[m] \/ mu.ref = 0)
              /\ Fatal
              /\ UNCHANGED fdmu
           \/ /\ pc[g] = "release" /\ Semrelease(m)
              /\ Leave(g)
              /\ UNCHANGED mu
        /\ UNCHANGED <<pd, file, kernel, bounds>>

-----------------------------------------------------------------------------
\* Calls that take a reference only: Shutdown, Pread, SetBlocking, SetDeadline...
Incref(g) ==
    /\ pc[g] = "idle" /\ incref
    /\ \/ \E o \in {"misc", "block"} \cap program.calls[g] : Begin(g, o, "misc") /\ UNCHANGED sets
       \/ /\ "set" \in program.calls[g] /\ sets < program.maxSets /\ sets' = sets + 1
          /\ pc' = [pc EXCEPT ![g] = "set"] /\ op' = [op EXCEPT ![g] = "set"]
          /\ \E s \in program.sets : arg' = [arg EXCEPT ![g] = s]
    /\ UNCHANGED <<sema, pd, file, kernel, program, opened>>

\* SetBlocking stores isBlocking and then makes its system call.
Misc(g) ==
    /\ \/ /\ pc[g] = "misc" /\ op[g] = "misc"
          /\ Goto(g, "decref")
          /\ UNCHANGED <<isBlocking, nonblock>>
       \/ /\ pc[g] = "misc" /\ op[g] = "block"
          /\ isBlocking' = TRUE
          /\ Goto(g, "setnonblock")
          /\ UNCHANGED nonblock
       \/ /\ pc[g] = "setnonblock"
          /\ nonblock' = FALSE
          /\ Goto(g, "decref")
          /\ UNCHANGED isBlocking
    /\ UNCHANGED <<fdmu, pd, sysfd, csema, toWake, avail, edge, bounds>>

SetDeadline(g) ==
    /\ pc[g] = "set"
    /\ \/ /\ closing /\ crit = Free
          /\ Goto(g, "decref")
          /\ UNCHANGED pd
       \/ /\ pollSetDeadline(g, [m \in Modes |-> IF m \in arg[g].which THEN arg[g].to ELSE deadline[m]])
          /\ Goto(g, IF crit' = Free THEN "decref" ELSE "crit")
    /\ UNCHANGED <<fdmu, file, kernel, bounds>>

Decref(g) ==
    /\ pc[g] = "decref"
    /\ \/ /\ decref
          /\ IF LastReference THEN Goto(g, "destroy")
             ELSE IF op[g] = "close" THEN Goto(g, "wait") ELSE Leave(g)
       \/ mu.ref = 0 /\ Fatal /\ UNCHANGED mu
    /\ UNCHANGED <<sema, pd, file, kernel, bounds>>

\* destroy: pollClose with its checks, then CloseFunc and the release of csema.
destroy(g) ==
    /\ \/ /\ pc[g] = "destroy"
          /\ IF closing /\ ~Blocked THEN Goto(g, "closefunc") ELSE Fatal
          /\ edge' = {}
          /\ UNCHANGED <<file, avail, nonblock>>
       \/ /\ pc[g] = "closefunc"
          /\ sysfd' = FALSE /\ csema' = csema + 1
          /\ IF op[g] = "close" THEN Goto(g, "wait") ELSE Leave(g)
          /\ UNCHANGED <<isBlocking, toWake, kernel>>
    /\ UNCHANGED <<fdmu, pd, bounds>>

-----------------------------------------------------------------------------
\* Mutation: the writers are left asleep.
ReadWaiters == [mu.wait EXCEPT !["w"] = 0]
\* "Wake all read and write waiters"
AllWaiters == mu.wait

Close(g) ==
    /\ pc[g] = "idle" /\ "close" \in program.calls[g]
    /\ increfAndClose
    /\ toWake' = AllWaiters
    /\ Begin(g, "close", "wake")
    /\ UNCHANGED <<sema, pd, sysfd, isBlocking, csema, kernel, bounds>>

WakeWaiters(g) ==
    /\ pc[g] = "wake"
    /\ \/ /\ toWake = [m \in Mode |-> 0]
          /\ Goto(g, "evict")
          /\ UNCHANGED <<sema, toWake>>
       \/ \E m \in Mode :
             /\ toWake[m] > 0 /\ (m = "w" => toWake["r"] = 0)
             /\ Semrelease(m)
             /\ toWake' = [toWake EXCEPT ![m] = @ - 1]
             /\ UNCHANGED local
    /\ UNCHANGED <<mu, pd, sysfd, isBlocking, csema, kernel, bounds>>

evict(g) ==
    /\ pc[g] = "evict"
    /\ IF closing THEN crit = Free /\ Fatal /\ UNCHANGED pd
                  ELSE pollUnblock(g) /\ Goto(g, "crit")
    /\ UNCHANGED <<fdmu, file, kernel, bounds>>

\* "Wait until the descriptor is closed", unless it is in blocking mode.
AwaitClosed(g) ==
    /\ \/ /\ pc[g] = "wait"
          /\ IF isBlocking THEN Leave(g) ELSE Goto(g, "csema")
          /\ UNCHANGED csema
       \/ /\ pc[g] = "csema" /\ csema > 0
          /\ csema' = csema - 1
          /\ Leave(g)
    /\ UNCHANGED <<fdmu, pd, sysfd, isBlocking, toWake, kernel, bounds>>

-----------------------------------------------------------------------------
\* pd.lock: the rest of a critical section, and timer calls that begin one.
CritStep ==
    /\ \/ Unblock /\ UNCHANGED local
       \/ /\ Unlock
          /\ pc' = [g \in G |-> IF g \in crit.ready THEN "xchg"
                                ELSE IF g = crit.who THEN "decref" ELSE pc[g]]
          /\ UNCHANGED <<op, arg>>
    /\ UNCHANGED <<fdmu, file, kernel, bounds>>

TimerStep ==
    /\ \/ (\E m \in Modes : Fire(m)) /\ UNCHANGED local
       \/ \E c \in fired :
             /\ netpolldeadlineimpl(c)
             /\ IF Current(c) /\ Inconsistent(c) THEN Fatal ELSE UNCHANGED local
    /\ UNCHANGED <<fdmu, file, kernel, bounds>>

\* The kernel: something becomes available; the poller: netpoll.
Arrive(m) ==
    /\ sysfd /\ (\E g \in G : m \in program.calls[g])
    /\ avail' = [avail EXCEPT ![m] = TRUE]
    /\ edge' = edge \cup {m}
    /\ UNCHANGED <<fdmu, pd, local, file, nonblock, bounds>>

Registered == sysfd /\ \A g \in G : pc[g] # "closefunc"

Poll ==
    /\ \/ edge # {} /\ Collect(edge, "noerror")
       \/ (\E g \in G : "error" \in program.calls[g]) /\ Registered /\ Collect(Modes, "error")
    /\ edge' = {}
    /\ UNCHANGED <<fdmu, local, file, avail, nonblock, bounds>>

PollerStep ==
    /\ \/ \E err \in ErrorState : StoreError(err)
       \/ \E m \in Modes : netpollready(m)
    /\ UNCHANGED <<fdmu, local, file, kernel, bounds>>

Injected(g) ==
    /\ Inject(g) /\ Goto(g, "xchg")
    /\ UNCHANGED <<fdmu, file, kernel, bounds>>

-----------------------------------------------------------------------------
\* What a goroutine does once it is in a call.
Continue(g) ==
    \/ pc[g] = "rwlock" /\ rwlock(g)
    \/ Wake(g) \/ prepare(g) \/ Syscall(g) \/ pollWait(g) \/ netpollblock(g) \/ Consume(g)
    \/ Recheck(g) \/ Park(g) \/ Injected(g) \/ Exchange(g) \/ Unlocked(g) \/ Misc(g) \/ SetDeadline(g)
    \/ Decref(g) \/ destroy(g) \/ WakeWaiters(g) \/ evict(g) \/ AwaitClosed(g)

Start(g) == (pc[g] = "idle" /\ rwlock(g)) \/ Incref(g) \/ Close(g)

Next ==
    \/ \E g \in G : Start(g) \/ Continue(g)
    \/ CritStep \/ TimerStep \/ PollerStep \/ Poll \/ Open
    \/ \E m \in Modes : Arrive(m)

\* A goroutine that can run, or that the poller has returned, does run, and so does
\* a critical section.  No call, event or timer need ever come.
Fairness ==
    /\ \A g \in G : WF_vars(Continue(g))
    /\ WF_vars(CritStep)

Spec == Init /\ [][Next]_vars /\ Fairness

-----------------------------------------------------------------------------
Holding(g) == pc[g] \notin {"idle", "rwlock", "sleep", "release", "wait", "csema", "destroy", "closefunc", "throw"}
Using(g, m) == op[g] = m /\ pc[g] \notin {"rwlock", "sleep", "release", "destroy", "closefunc", "throw"}

\* None of the runtime's and the package's fatal errors is reachable: "double
\* wait", "corrupted polldesc", "blocked read on closing polldesc", "close polldesc
\* w/o unblock", "inconsistent read deadline", "inconsistent poll.fdMutex" and the
\* others.
NoThrow == \A g \in G : pc[g] # "throw"

\* The word accounts for what goroutines do: the references, one holder of each
\* lock, and for every goroutine asleep either a waiter still counted, a permit, or
\* a release that close has yet to make.
Accounted ==
    /\ mu.ref = Cardinality({g \in G : Holding(g)})
    /\ \A m \in Mode :
          /\ Cardinality({g \in G : Using(g, m)}) = IF mu.lock[m] THEN 1 ELSE 0
          /\ mu.wait[m] + sema[m] + toWake[m] + Cardinality({g \in G : pc[g] = "release" /\ op[g] = m})
                = Cardinality({g \in G : pc[g] = "sleep" /\ op[g] = m})

\* The descriptor is closed under nobody's feet, by exactly one goroutine, and only
\* after a Close.
OpenWhileUsed ==
    /\ (\E g \in G : Holding(g)) => sysfd
    /\ Cardinality({g \in G : pc[g] \in {"destroy", "closefunc"}}) <= 1
    /\ ~sysfd \/ (\E g \in G : pc[g] \in {"destroy", "closefunc"}) => mu.closed /\ closing

\* The counts in the fdMutex word, the pollDesc and the descriptor agree with what the
\* goroutines on it do: no fatal error, exact counts also at their limit, and no use
\* of the descriptor after it has been closed.
DescriptorInvariant == TypeOK /\ NoThrow /\ Accounted /\ OpenWhileUsed

\* No missed wakeup: a goroutine blocked in the poller is blocked on a file that is
\* not closing and before its deadline, unless it is about to be unblocked.
UnblockedOnError ==
    \A m \in Modes : gp[m] \in G /\ (closing \/ deadline[m] = Past) => m \in crit.todo

\* Edge-triggered readiness is not lost: when a goroutine sleeps in the poller
\* although it could read, an event is still to be reported.
ReadinessKept ==
    \A m \in Modes : gp[m] \in G /\ avail[m] => m \in edge \cup ev

\* A sleeper is where its waker finds it: parked goroutines are blocked on their
\* mode, or in the hands of exactly one of those who will ready them.
ParkedOnce ==
    \A g \in G :
        LET places == {m \in Modes : gp[m] = g} \cup {x \in {"crit"} : g \in crit.ready}
                          \cup {x \in {"run"} : g \in toRun}
        IN  Cardinality(places) = IF pc[g] = "parked" THEN 1 ELSE 0

\* No wakeup of a goroutine in the poller is lost or given twice: not that of a
\* deadline or close, nor that of an edge-triggered event, whichever comes first.
WakeupsKept == UnblockedOnError /\ ReadinessKept /\ ParkedOnce

\* A deadline in the future is served by a timer that is armed for that moment, or
\* that has fired and is not stale; in particular when one timer serves both modes.
DeadlineServed ==
    \A m \in Modes : deadline[m] \in Moment /\ ~closing =>
        \/ \E k \in Modes : LET t == timer[k]
                            IN  t.armed /\ m \in t.f /\ t.seq = seq[k] /\ t.when = deadline[m]
        \/ \E c \in fired : m \in c.modes /\ Current(c) /\ c.when = deadline[m]

\* Only the passing of the deadline in force makes a call time out: a timer call
\* for an earlier deadline, or for a file that used the descriptor before, changes
\* nothing.
TimeoutJustified ==
    [][\A m \in Modes : deadline[m] # Past /\ deadline'[m] = Past =>
          \/ \E g \in G : pc[g] = "set" /\ m \in arg[g].which /\ arg[g].to = Past
          \/ \E c \in fired \ fired' : m \in c.modes /\ c.when = deadline[m]]_vars

\* A read or write waits in the kernel, which only data or room can end.
InKernel(g) == pc[g] = "syscall" /\ ~nonblock /\ ~avail[op[g]]

\* Once the descriptor is closed, all calls in progress return: sleepers and
\* goroutines blocked in the poller give up, the descriptor is destroyed, and Close
\* itself returns; only a read or write that waits in the kernel, for the file has been
\* put into blocking mode, may keep them.
CloseEndsCalls ==
    mu.closed ~> \/ ~sysfd /\ (isBlocking \/ csema = 0) /\ \A g \in G : pc[g] = "idle"
                 \/ \E g \in G : InKernel(g)
====
