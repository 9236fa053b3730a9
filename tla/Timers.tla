---- MODULE Timers ----
(***************************************************************************)
(* runtime/time.go and checkTimers of runtime/proc.go: the timers of the   *)
(* Ps.  A timer's status is a small lock: whoever moves it to Modifying,   *)
(* Removing, Moving or Running owns the timer until the next change.       *)
(* deltimer and modtimer do not take the lock of the heap the timer is on; *)
(* they mark the timer, and whoever holds that lock brings the heap up to  *)
(* date: addtimer, and checkTimers by the M of that P or of another.       *)
(*                                                                         *)
(* A load of the status and the CAS that follows are one step, for a       *)
(* failed CAS only repeats the load.  An M has a P of its own; a goroutine *)
(* in addtimer may have been moved to another M after it has looked up its *)
(* P.  As the comments demand, addtimer gets a new timer, and no other     *)
(* call is made on the timer until it has returned; other calls may        *)
(* overlap.                                                                *)
(*                                                                         *)
(* Left out: numTimers and deletedTimers, which only help to decide        *)
(* whether clearing is worthwhile (here a free choice), wakeNetPoller, and *)
(* moveTimers, which runs while the world is stopped.                      *)
(***************************************************************************)
EXTENDS TimerHeap, FiniteSets

CONSTANTS M, NoM, P, NoP, T, NoT,
          Home,       \* the P of each M
          MaxTime,    \* bound on now
          maxWhen,    \* the largest time
          Programs    \* the timers at the start and new ones, their periods, the calls of
                      \* each M and how many are made, the timers they name and the times
                      \* they ask for

ASSUME TimersAssumption ==
    /\ NoM \notin M /\ NoP \notin P /\ NoT \notin T
    /\ Home \in [M -> P] /\ MaxTime \in Nat \ {0} /\ maxWhen \in Nat /\ maxWhen > MaxTime
    /\ Programs \subseteq [initial : Seq(T \X Nat), new : SUBSET T, period : [T -> Nat],
                           calls : [M -> SUBSET {"add", "del", "mod", "check"}],
                           maxCalls : Nat, targets : SUBSET T, times : SUBSET (Int \ {0})]

VARIABLES program, calls,   \* the program and the calls begun so far
          now,
          status, when, nextwhen, pp,              \* timer
          timers, timer0When, adjustTimers, lock,  \* p: heap, first time, count, timersLock
          pc, op, req,      \* control of each M, its call, what it is asked for
          cur, old,         \* the timer it owns or its request names, the status it found
          i, moved, kept, cearlier,  \* locals of adjusttimers and clearDeletedTimers
          rnow, pollUntil,  \* of checkTimers
          unused,           \* timers that have not been passed to the runtime
          watched,          \* auxiliary: timers a check is to account for
          lifted            \* auxiliary: those that have been moved behind its walk

timer == <<status, when, nextwhen, pp>>
heap == <<timers, timer0When, adjustTimers>>
loop == <<i, moved, kept, cearlier>>
result == <<rnow, pollUntil>>
vars == <<program, calls, now, timer, heap, lock, pc, op, req, cur, old, loop, result, unused, watched, lifted>>

Modified == {"ModifiedEarlier", "ModifiedLater"}
Brief == {"Modifying", "Removing", "Moving", "Running"}
OnHeap == {"Waiting", "Deleted"} \cup Modified
Status == {"NoStatus", "Removed"} \cup OnHeap \cup Brief
Phase == {"clean", "adjust", "run", "clear"}
Control == {"idle", "call", "false", "count", "insert", "settle", "lock", "pulled", "readd",
            "checkAdjust", "checkWhen", "f", "end", "ret"} \cup Phase
NoReq == [t |-> NoT, when |-> 0, p |-> NoP]

TypeOK ==
    /\ program \in Programs /\ calls \in 0..program.maxCalls /\ now \in 1..MaxTime
    /\ status \in [T -> Status] /\ when \in [T -> Nat] /\ nextwhen \in [T -> Nat]
    /\ pp \in [T -> P \cup {NoP}] /\ unused \subseteq T
    /\ timers \in [P -> Seq(T)] /\ timer0When \in [P -> Nat] /\ adjustTimers \in [P -> Int]
    /\ lock \in [P -> M \cup {NoM}]
    /\ pc \in [M -> Control] /\ op \in [M -> {"none", "add", "del", "mod", "check"}]
    /\ req \in [M -> [t : T \cup {NoT}, when : Nat, p : P \cup {NoP}]]
    /\ cur \in [M -> T \cup {NoT}] /\ old \in [M -> Status]
    /\ i \in [M -> Nat] /\ moved \in [M -> Seq(T)] /\ kept \in [M -> Seq(T)] /\ cearlier \in [M -> Nat]
    /\ rnow \in [M -> 0..MaxTime] /\ pollUntil \in [M -> Nat]
    /\ watched \in [M -> SUBSET T] /\ lifted \in [M -> SUBSET T]

-----------------------------------------------------------------------------
\* The heap of p with what depends on its first timer.
Timer0(h, w) == IF h = <<>> THEN 0 ELSE w[h[1]]

\* doaddtimer; w are the times by which the heap is ordered.
Doaddtimer(p, t, w) ==
    LET h == Added(timers[p], w, t)
    IN  /\ pp' = [pp EXCEPT ![t] = p]
        /\ timers' = [timers EXCEPT ![p] = h]
        /\ timer0When' = [timer0When EXCEPT ![p] = IF h[1] = t THEN w[t] ELSE @]

\* dodeltimer and dodeltimer0.
Dodeltimer(p, n, w) ==
    LET h == Deleted(timers[p], w, n)
    IN  /\ pp' = [pp EXCEPT ![timers[p][n]] = NoP]
        /\ timers' = [timers EXCEPT ![p] = h]
        /\ timer0When' = [timer0When EXCEPT ![p] = IF n = 1 THEN Timer0(h, w) ELSE @]

Adjust(p, n) == adjustTimers' = [adjustTimers EXCEPT ![p] = @ + n]
One(b) == IF b THEN 1 ELSE 0

\* Some timers have been added to the first P.
Init ==
    /\ program \in Programs /\ calls = 0 /\ now = 1
    /\ LET start == program.initial
           Started == {start[n][1] : n \in DOMAIN start}
           w == [t \in T |-> IF t \in Started
                             THEN start[CHOOSE n \in DOMAIN start : start[n][1] = t][2] ELSE 0]
           home == CHOOSE p \in P : TRUE
           h[n \in 0..Len(start)] == IF n = 0 THEN <<>> ELSE Added(h[n - 1], w, start[n][1])
       IN  /\ status = [t \in T |-> IF t \in Started THEN "Waiting" ELSE "NoStatus"]
           /\ when = w /\ nextwhen = [t \in T |-> 0]
           /\ pp = [t \in T |-> IF t \in Started THEN home ELSE NoP]
           /\ timers = [p \in P |-> IF p = home THEN h[Len(start)] ELSE <<>>]
           /\ timer0When = [p \in P |-> Timer0(timers[p], w)]
           /\ unused = program.new
    /\ adjustTimers = [p \in P |-> 0] /\ lock = [p \in P |-> NoM]
    /\ pc = [m \in M |-> "idle"] /\ op = [m \in M |-> "none"] /\ req = [m \in M |-> NoReq]
    /\ cur = [m \in M |-> NoT] /\ old = [m \in M |-> "NoStatus"]
    /\ i = [m \in M |-> 1] /\ moved = [m \in M |-> <<>>] /\ kept = [m \in M |-> <<>>]
    /\ cearlier = [m \in M |-> 0]
    /\ rnow = [m \in M |-> 0] /\ pollUntil = [m \in M |-> 0]
    /\ watched = [m \in M |-> {}] /\ lifted = watched

Goto(m, l) == pc' = [pc EXCEPT ![m] = l]
Own(m, t, s) == cur' = [cur EXCEPT ![m] = t] /\ old' = [old EXCEPT ![m] = s]
Mark(t, s) == status' = [status EXCEPT ![t] = s]
Lock(p, m) == lock[p] = NoM /\ lock' = [lock EXCEPT ![p] = m]
Unlock(p) == lock' = [lock EXCEPT ![p] = NoM]
Leave(m) ==
    /\ Goto(m, "idle") /\ op' = [op EXCEPT ![m] = "none"] /\ req' = [req EXCEPT ![m] = NoReq]
    /\ Own(m, NoT, "NoStatus")

-----------------------------------------------------------------------------
\* The timer has been passed to the runtime, and not to an addtimer in progress.
Free(t) ==
    /\ t \notin unused /\ \A m \in M : op[m] = "add" => req[m].t # t
    /\ t \in program.new \/ \E n \in DOMAIN program.initial : program.initial[n][1] = t

\* "when must never be negative": a time that has overflowed is the last one.
NotNegative(w) == IF w < 0 THEN maxWhen ELSE w

\* A call begins.  findrunnable checks the timers of its own P without a time and those
\* of the others with the time that check has told, if any.
Begin(m) ==
    /\ pc[m] = "idle" /\ calls < program.maxCalls /\ calls' = calls + 1
    /\ \E o \in program.calls[m], t \in program.targets, w \in program.times, p \in P, n \in 0..now :
          /\ \/ o = "add" /\ t \in unused
             \/ o = "mod" /\ p = Home[m] /\ (Free(t) \/ t \in unused)
             \/ o = "del" /\ p = Home[m] /\ Free(t)
             \/ o = "check"
          /\ n # 0 => o = "check" /\ p # Home[m]
          /\ op' = [op EXCEPT ![m] = o]
          /\ req' = [req EXCEPT ![m] = [t |-> IF o = "check" THEN NoT ELSE t,
                                        when |-> IF o \in {"add", "mod"} THEN NotNegative(w) ELSE 0, p |-> p]]
          /\ rnow' = [rnow EXCEPT ![m] = n]
          /\ unused' = IF o \in {"add", "mod"} THEN unused \ {t} ELSE unused
          /\ Goto(m, IF o = "check" THEN "checkAdjust" ELSE "call")
    /\ UNCHANGED <<program, now, timer, heap, lock, cur, old, loop, pollUntil>>

\* addtimer up to the lock.
addtimer(m) ==
    /\ pc[m] = "call" /\ op[m] = "add"
    /\ Mark(req[m].t, "Waiting")
    /\ when' = [when EXCEPT ![req[m].t] = req[m].when]
    /\ Goto(m, "lock")
    /\ UNCHANGED <<program, calls, now, nextwhen, pp, heap, lock, op, req, cur, old, loop, result, unused>>

\* The timers deltimer can stop, and those that are no longer to run.
Stoppable == {"Waiting"} \cup Modified
Stopped == {"Deleted", "Removing", "Removed", "NoStatus"}
\* "Timer was already run and t is no longer in a heap."
Inactive == {"NoStatus", "Removed"}

\* deltimer and modtimer: the CAS to Modifying; otherwise they wait for whoever owns
\* the timer.
Seize(m) ==
    LET t == req[m].t
        Takes == IF op[m] = "del" THEN Stoppable ELSE Stoppable \cup Inactive \cup {"Deleted"}
    IN  /\ pc[m] = "call" /\ op[m] \in {"del", "mod"} /\ status[t] \in Takes
        /\ Mark(t, "Modifying")
        /\ old' = [old EXCEPT ![m] = status[t]]
        /\ Goto(m, IF status[t] \in Inactive THEN "insert" ELSE "count")
        /\ UNCHANGED <<program, calls, now, when, nextwhen, pp, heap, lock, op, req, cur, loop, result, unused>>

NotStopped(m) ==
    /\ pc[m] = "call" /\ op[m] = "del" /\ status[req[m].t] \in Stopped
    /\ Goto(m, "false")
    /\ UNCHANGED <<program, calls, now, timer, heap, lock, op, req, cur, old, loop, result, unused>>

NewStatus(m) ==
    IF op[m] = "del" THEN "Deleted"
    ELSE IF old[m] \in Inactive THEN "Waiting"
    ELSE IF req[m].when < when[req[m].t] THEN "ModifiedEarlier" ELSE "ModifiedLater"

\* Mutation: any former modification is subtracted.
AdjustmentOfModified(m) == One(NewStatus(m) = "ModifiedEarlier") - One(old[m] \in Modified)
\* "Subtract one if we are removing a timerModifiedEarlier, add one if we are adding
\* a timerModifiedEarlier."
Adjustment(m) == One(NewStatus(m) = "ModifiedEarlier") - One(old[m] = "ModifiedEarlier")

Count(m) ==
    LET t == req[m].t
    IN  /\ pc[m] = "count"
        /\ nextwhen' = IF op[m] = "mod" THEN [nextwhen EXCEPT ![t] = req[m].when] ELSE nextwhen
        /\ Adjust(pp[t], Adjustment(m))
        /\ Goto(m, "settle")
        /\ UNCHANGED <<program, calls, now, status, when, pp, timers, timer0When, lock, op, req, cur, old,
                       loop, result, unused>>

\* modtimer adds a timer that is on no heap to that of its P.
Insert(m) ==
    /\ pc[m] = "insert" /\ lock[req[m].p] = NoM
    /\ when' = [when EXCEPT ![req[m].t] = req[m].when]
    /\ Doaddtimer(req[m].p, req[m].t, when')
    /\ Goto(m, "settle")
    /\ UNCHANGED <<program, calls, now, status, nextwhen, adjustTimers, lock, op, req, cur, old, loop,
                   result, unused>>

Settle(m) ==
    /\ pc[m] = "settle"
    /\ Mark(req[m].t, NewStatus(m))
    /\ Leave(m)
    /\ UNCHANGED <<program, calls, now, when, nextwhen, pp, heap, lock, loop, result, unused>>

-----------------------------------------------------------------------------
\* With the lock of a heap.

\* The timer that is looked at: the first one, or the one the loop has come to.
Place(m) == IF pc[m] \in {"adjust", "clear"} THEN i[m] ELSE 1
Heap(m) == timers[req[m].p]
Looks(m) == pc[m] \in Phase /\ cur[m] = NoT /\ Place(m) <= Len(Heap(m))
Seen(m) == Heap(m)[Place(m)]

\* On to runtimer, with the time; it is not looked up for an empty heap.
ToRun(m) ==
    /\ Goto(m, "run")
    /\ rnow' = [rnow EXCEPT ![m] = IF @ = 0 /\ Heap(m) # <<>> THEN now ELSE @]

LockHeap(m) ==
    /\ pc[m] = "lock" /\ Lock(req[m].p, m)
    /\ IF op[m] = "add" THEN Goto(m, "clean") /\ UNCHANGED rnow
       ELSE IF Heap(m) = <<>> \/ adjustTimers[req[m].p] = 0 THEN ToRun(m)
       ELSE Goto(m, "adjust") /\ UNCHANGED rnow
    /\ UNCHANGED <<program, calls, now, timer, heap, op, req, cur, old, loop, pollUntil, unused>>

\* A timer that has been deleted or modified is taken over.
Claim(m) ==
    /\ Looks(m)
    /\ LET t == Seen(m)
       IN  /\ \/ status[t] = "Deleted" /\ Mark(t, "Removing")
              \/ status[t] \in Modified /\ Mark(t, "Moving")
           /\ Own(m, t, status[t])
    /\ UNCHANGED <<program, calls, now, when, nextwhen, pp, heap, lock, pc, op, req, loop, result, unused>>

Holds(m, s) == cur[m] # NoT /\ status[cur[m]] = s
Skip(m) == i' = [i EXCEPT ![m] = @ + 1]

\* A deleted timer leaves the heap; clearDeletedTimers just does not keep it.
Remove(m) ==
    /\ Holds(m, "Removing")
    /\ Mark(cur[m], "Removed")
    /\ IF pc[m] = "clear"
       THEN pp' = [pp EXCEPT ![cur[m]] = NoP] /\ Skip(m) /\ UNCHANGED <<timers, timer0When>>
       ELSE Dodeltimer(req[m].p, Place(m), when) /\ UNCHANGED i
    /\ Own(m, NoT, "NoStatus")
    /\ UNCHANGED <<program, calls, now, when, nextwhen, adjustTimers, lock, pc, op, req, moved, kept, cearlier,
                   result, unused>>

\* Mutation: the old time stays.
KeptTime(t) == when
\* "Now we can change the when field."
NewTime(t) == [when EXCEPT ![t] = nextwhen[t]]

\* cleantimers and runtimer take a modified timer off the heap and add it again;
\* adjusttimers holds onto it until it has seen the others.
Pull(m) ==
    LET t == cur[m]
        p == req[m].p
    IN  /\ Holds(m, "Moving") /\ pc[m] \in {"clean", "run", "adjust"}
        /\ when' = NewTime(t)
        /\ Dodeltimer(p, Place(m), when')
        /\ IF pc[m] = "adjust"
           THEN /\ moved' = [moved EXCEPT ![m] = Append(@, t)]
                /\ Adjust(p, -One(old[m] = "ModifiedEarlier"))
                /\ Goto(m, IF old[m] = "ModifiedEarlier" /\ adjustTimers'[p] <= 0 THEN "readd" ELSE "adjust")
                /\ Own(m, NoT, "NoStatus")
           ELSE Goto(m, "pulled") /\ UNCHANGED <<moved, adjustTimers, cur, old>>
        /\ UNCHANGED <<program, calls, now, status, nextwhen, lock, op, req, i, kept, cearlier, result, unused>>

PutBack(m) ==
    /\ pc[m] = "pulled"
    /\ Doaddtimer(req[m].p, cur[m], when)
    /\ Adjust(req[m].p, -One(old[m] = "ModifiedEarlier"))
    /\ Mark(cur[m], "Waiting")
    /\ Own(m, NoT, "NoStatus")
    /\ Goto(m, IF op[m] = "add" THEN "clean" ELSE "run")
    /\ UNCHANGED <<program, calls, now, when, nextwhen, lock, op, req, loop, result, unused>>

\* "Head of timers does not need adjustment": addtimer adds its timer.
FinishAdd(m) ==
    /\ pc[m] = "clean" /\ cur[m] = NoT
    /\ Heap(m) # <<>> => status[Heap(m)[1]] \notin {"Deleted"} \cup Modified
    /\ Doaddtimer(req[m].p, req[m].t, when)
    /\ Unlock(req[m].p)
    /\ Leave(m)
    /\ UNCHANGED <<program, calls, now, status, when, nextwhen, adjustTimers, loop, result, unused>>

-----------------------------------------------------------------------------
\* checkTimers: without the lock, while nothing is to be done.
CheckAdjust(m) ==
    /\ pc[m] = "checkAdjust"
    /\ Goto(m, IF adjustTimers[req[m].p] = 0 THEN "checkWhen" ELSE "lock")
    /\ UNCHANGED <<program, calls, now, timer, heap, lock, op, req, cur, old, loop, result, unused>>

\* The M of the P goes on nonetheless if it is to clear out deleted timers.
CheckWhen(m) ==
    LET next == timer0When[req[m].p]
        time == IF rnow[m] = 0 THEN now ELSE rnow[m]
    IN  /\ pc[m] = "checkWhen"
        /\ IF next = 0 THEN Goto(m, "ret") /\ UNCHANGED result
           ELSE /\ rnow' = [rnow EXCEPT ![m] = time]
                /\ \/ /\ time < next
                      /\ pollUntil' = [pollUntil EXCEPT ![m] = next]
                      /\ Goto(m, "ret")
                   \/ /\ time >= next \/ req[m].p = Home[m]
                      /\ Goto(m, "lock")
                      /\ UNCHANGED pollUntil
        /\ UNCHANGED <<program, calls, now, timer, heap, lock, op, req, cur, old, loop, unused>>

\* A timer that waits is passed over, or kept by clearDeletedTimers.
Pass(m) ==
    /\ pc[m] \in {"adjust", "clear"} /\ Looks(m) /\ status[Seen(m)] = "Waiting"
    /\ Skip(m)
    /\ kept' = IF pc[m] = "adjust" THEN kept ELSE [kept EXCEPT ![m] = Added(@, when, Seen(m))]
    /\ UNCHANGED <<program, calls, now, timer, heap, lock, pc, op, req, cur, old, moved, cearlier, result, unused>>

AdjustEnds(m) ==
    /\ pc[m] = "adjust" /\ cur[m] = NoT /\ i[m] > Len(Heap(m))
    /\ Goto(m, "readd")
    /\ UNCHANGED <<program, calls, now, timer, heap, lock, op, req, cur, old, loop, result, unused>>

addAdjustedTimers(m) ==
    /\ pc[m] = "readd"
    /\ \/ /\ moved[m] = <<>>
          /\ ToRun(m)
          /\ i' = [i EXCEPT ![m] = 1]
          /\ UNCHANGED <<status, pp, timers, timer0When, moved>>
       \/ /\ moved[m] # <<>>
          /\ Doaddtimer(req[m].p, Head(moved[m]), when)
          /\ Mark(Head(moved[m]), "Waiting")
          /\ moved' = [moved EXCEPT ![m] = Tail(@)]
          /\ UNCHANGED <<pc, rnow, i>>
    /\ UNCHANGED <<program, calls, now, when, nextwhen, adjustTimers, lock, op, req, cur, old, kept, cearlier,
                   pollUntil, unused>>

\* runtimer on a first timer that waits, or on an empty heap.
runtimer(m) ==
    /\ pc[m] = "run" /\ cur[m] = NoT
    /\ \/ /\ Heap(m) = <<>>
          /\ Goto(m, "end")
          /\ UNCHANGED <<status, cur, old, pollUntil>>
       \/ /\ Looks(m) /\ status[Seen(m)] = "Waiting"
          /\ IF when[Seen(m)] > rnow[m]
             THEN /\ pollUntil' = [pollUntil EXCEPT ![m] = when[Seen(m)]]
                  /\ Goto(m, "end")
                  /\ UNCHANGED <<status, cur, old>>
             ELSE /\ Mark(Seen(m), "Running")
                  /\ Own(m, Seen(m), "Waiting")
                  /\ UNCHANGED <<pc, pollUntil>>
    /\ UNCHANGED <<program, calls, now, when, nextwhen, pp, heap, lock, op, req, loop, rnow, unused>>

\* Mutation: f is called with the lock.
LockedForF(p) == UNCHANGED lock
\* "unlock(&pp.timersLock)" before f is called.
UnlockForF(p) == Unlock(p)

\* runOneTimer until it calls f.
runOneTimer(m) ==
    LET t == cur[m]
        p == req[m].p
        period == program.period[t]
    IN  /\ Holds(m, "Running")
        /\ IF period = 0
           THEN /\ Dodeltimer(p, 1, when)
                /\ Mark(t, "NoStatus")
                /\ UNCHANGED when
           ELSE /\ when' = [when EXCEPT ![t] = @ + period * (1 + (rnow[m] - @) \div period)]
                /\ timers' = [timers EXCEPT ![p] = siftdownTimer(@, when', 1)]
                /\ timer0When' = [timer0When EXCEPT ![p] = Timer0(timers'[p], when')]
                /\ Mark(t, "Waiting")
                /\ UNCHANGED pp
        /\ Own(m, NoT, "NoStatus")
        /\ UnlockForF(p)
        /\ Goto(m, "f")
        /\ UNCHANGED <<program, calls, now, nextwhen, adjustTimers, op, req, loop, result, unused>>

FReturns(m) ==
    /\ pc[m] = "f" /\ Lock(req[m].p, m)
    /\ Goto(m, "run")
    /\ UNCHANGED <<program, calls, now, timer, heap, op, req, cur, old, loop, result, unused>>

\* The end of checkTimers; the M of the P may clear out deleted timers.
CheckEnds(m) ==
    /\ pc[m] = "end"
    /\ \/ Unlock(req[m].p) /\ Goto(m, "ret")
       \/ req[m].p = Home[m] /\ Goto(m, "clear") /\ UNCHANGED lock
    /\ UNCHANGED <<program, calls, now, timer, heap, op, req, cur, old, loop, result, unused>>

\* clearDeletedTimers: a modified timer is kept at its new place.
KeepMoved(m) ==
    /\ pc[m] = "clear" /\ Holds(m, "Moving")
    /\ when' = NewTime(cur[m])
    /\ kept' = [kept EXCEPT ![m] = Added(@, when', cur[m])]
    /\ cearlier' = [cearlier EXCEPT ![m] = @ + One(old[m] = "ModifiedEarlier")]
    /\ Skip(m)
    /\ Mark(cur[m], "Waiting")
    /\ Own(m, NoT, "NoStatus")
    /\ UNCHANGED <<program, calls, now, nextwhen, pp, heap, lock, pc, op, req, moved, result, unused>>

ClearEnds(m) ==
    LET p == req[m].p
    IN  /\ pc[m] = "clear" /\ cur[m] = NoT /\ i[m] > Len(Heap(m))
        /\ timers' = [timers EXCEPT ![p] = kept[m]]
        /\ Adjust(p, -cearlier[m])
        /\ timer0When' = [timer0When EXCEPT ![p] = Timer0(kept[m], when)]
        /\ Unlock(p)
        /\ Goto(m, "ret")
        /\ i' = [i EXCEPT ![m] = 1]
        /\ kept' = [kept EXCEPT ![m] = <<>>]
        /\ cearlier' = [cearlier EXCEPT ![m] = 0]
        /\ UNCHANGED <<program, calls, now, timer, op, req, cur, old, moved, result, unused>>

\* checkTimers returns, or a deltimer that has not stopped its timer.
Return(m) ==
    /\ pc[m] \in {"ret", "false"}
    /\ Leave(m)
    /\ rnow' = [rnow EXCEPT ![m] = 0] /\ pollUntil' = [pollUntil EXCEPT ![m] = 0]
    /\ UNCHANGED <<program, calls, now, timer, heap, lock, loop, unused>>

Tick ==
    /\ now < MaxTime /\ now' = now + 1
    /\ UNCHANGED <<program, calls, timer, heap, lock, pc, op, req, cur, old, loop, result, unused>>

-----------------------------------------------------------------------------
\* When a timer is to run, as of the last call that has taken effect; 0 if it is
\* not to run.
Due(t) ==
    IF status[t] \in {"Waiting", "Running"} THEN when[t]
    ELSE IF status[t] \in Modified \cup {"Moving"} THEN nextwhen[t]
    ELSE IF \E m \in M : req[m].t = t /\ op[m] = "mod" /\ pc[m] \in {"count", "insert", "settle"}
    THEN req[CHOOSE m \in M : req[m].t = t /\ op[m] = "mod" /\ pc[m] \in {"count", "insert", "settle"}].when
    ELSE 0

\* A check is to account for the timers that were set on its heap when it began and
\* are left alone while it lasts.  It need not if another M was at work on the heap
\* when it looked, which it did without the lock: that M sees to the timers.
Watched(m) ==
    IF pc'[m] = "idle" THEN {}
    ELSE IF pc[m] = "idle"
    THEN {t \in T : op'[m] = "check" /\ pp[t] = req'[m].p /\ status[t] \in {"Waiting"} \cup Modified}
    ELSE IF pc[m] = "checkWhen" /\ lock[req[m].p] # NoM /\ pc'[m] = "ret" THEN {}
    ELSE {t \in watched[m] : Due(t)' = Due(t) /\ status'[t] # "Modifying"}

\* The timers modified to run earlier that adjusttimers has yet to come to and that this
\* step, by putting the last timer in the place of one taken off, moves to where it has been.
MovedBehind(m) ==
    LET p == req[m].p
        h == timers[p]
    IN  {t \in T : /\ pc[m] = "adjust" /\ status[t] = "ModifiedEarlier"
                   /\ \E n \in DOMAIN h : n > i[m] /\ h[n] = t
                   /\ \E n \in DOMAIN timers'[p] : n < i[m] /\ timers'[p][n] = t}

Watch ==
    /\ watched' = [m \in M |-> Watched(m)]
    /\ lifted' = [m \in M |-> IF pc'[m] = "idle" THEN {} ELSE lifted[m] \cup MovedBehind(m)]

Step(m) ==
    \/ addtimer(m) \/ Seize(m) \/ NotStopped(m) \/ Count(m) \/ Insert(m) \/ Settle(m)
    \/ LockHeap(m) \/ Claim(m) \/ Remove(m) \/ Pull(m) \/ PutBack(m) \/ FinishAdd(m)
    \/ CheckAdjust(m) \/ CheckWhen(m) \/ Pass(m) \/ AdjustEnds(m) \/ addAdjustedTimers(m)
    \/ runtimer(m) \/ runOneTimer(m) \/ FReturns(m) \/ CheckEnds(m) \/ KeepMoved(m) \/ ClearEnds(m)
    \/ Return(m)

Next == (Tick \/ \E m \in M : Begin(m) \/ Step(m)) /\ Watch

\* An M in a call goes on; the lock of a heap is a runtime lock, held briefly.
Fairness == \A m \in M : WF_vars(Step(m) /\ Watch)

Spec == Init /\ [][Next]_vars /\ Fairness

-----------------------------------------------------------------------------
\* badTimer and the throws of time.go are out of reach: nobody finds a timer in a
\* status or on a P it cannot have there, and who owns a timer finds it as it left it.
NoBadTimer ==
    \A m \in M :
        /\ Looks(m) => /\ pp[Seen(m)] = req[m].p
                       /\ pc[m] # "clean" => status[Seen(m)] \in OnHeap \cup {"Modifying"}
        /\ cur[m] # NoT => status[cur[m]] \in {"Removing", "Moving", "Running"}
        /\ pc[m] \in {"count", "insert", "settle"} => status[req[m].t] = "Modifying"
        /\ pc[m] = "count" => pp[req[m].t] # NoP
        /\ pc[m] = "insert" \/ (pc[m] = "clean" /\ cur[m] = NoT) => pp[req[m].t] = NoP
        /\ pc[m] = "pulled" => pp[cur[m]] = NoP
        /\ \A n \in DOMAIN moved[m] : pp[moved[m][n]] = NoP /\ status[moved[m][n]] = "Moving"

\* Timers that count for adjustTimers: those modified to run earlier, and those whose
\* modifier has yet to take them out of the count or already has put them in.
Counted(t) ==
    \/ status[t] = "ModifiedEarlier"
    \/ \E m \in M : /\ req[m].t = t
                    /\ \/ pc[m] = "count" /\ old[m] = "ModifiedEarlier"
                       \/ pc[m] = "settle" /\ NewStatus(m) = "ModifiedEarlier"

\* While nobody holds its lock, a heap is ordered and holds exactly the timers that
\* name its P, each once; every timer that has been set is on a heap; timer0When and
\* adjustTimers, which are read without the lock, are exact.
HeapInvariant ==
    \A p \in P : lock[p] = NoM =>
        /\ IsHeap(timers[p], when)
        /\ \A t \in T : Cardinality({n \in DOMAIN timers[p] : timers[p][n] = t}) = One(pp[t] = p)
        /\ \A t \in T : pp[t] = p => status[t] \in OnHeap \cup {"Modifying"}
        /\ timer0When[p] = Timer0(timers[p], when)
        /\ adjustTimers[p] = Cardinality({t \in T : pp[t] = p /\ Counted(t)})

\* Nothing goes wrong with the timers and their heaps, whatever calls overlap.
TimersConsistent == TypeOK /\ NoBadTimer /\ HeapInvariant

\* The timers are due later than the time of the check, and the check has told when to
\* come back for them.
Accounted(m, ts) == \A t \in ts : Due(t) > rnow[m] /\ pollUntil[m] \in 1..Due(t)

\* When checkTimers returns, every timer that was set before it began and has not been
\* touched since has been accounted for, however the unlocked reads, the walk over the
\* heap, the running of timers and clearing overlap with other calls: a check sleeps
\* through no timer, unless adjusttimers has itself moved the timer behind its walk.
CheckAccounts ==
    \A m \in M : pc[m] = "ret" =>
        /\ pollUntil[m] # 0 => pollUntil[m] > rnow[m]
        /\ Accounted(m, watched[m] \ lifted[m])

\* "checkTimers runs any timers for the P that are ready", and adjusttimers, which it
\* calls, "looks through the timers in the current P's heap for any timers that have been
\* modified to run earlier, and puts them in the correct place": a check accounts for
\* every timer that was set before it began and has not been touched since.  The code
\* does not keep this: dodeltimer may lift the last timer to a place the walk has passed.
CheckOverlooksNothing == \A m \in M : pc[m] = "ret" => Accounted(m, watched[m])

CallOf(m) ==
    IF op[m] \in {"none", "check"} THEN NoT
    ELSE [stop |-> op[m] = "del", t |-> req[m].t, when |-> req[m].when, done |-> pc[m] # "call",
          answer |-> op[m] = "del" /\ pc[m] \in {"count", "settle"}]

Service == INSTANCE TimerService WITH
    Client <- M, NoCall <- NoT, period <- program.period,
    due <- [t \in T |-> Due(t)], call <- [m \in M |-> CallOf(m)]

\* The timers do what they promise: what deltimer and modtimer do takes effect at
\* once although the heap learns of it later, a timer runs once and not too soon,
\* and a stopped timer does not run.
ImplementsService == Service!Spec

\* Whoever waits for a timer or a heap that another M works on gets on: every call
\* returns.
CallsReturn == \A m \in M : pc[m] # "idle" ~> pc[m] = "idle"
====
