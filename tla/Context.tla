---- MODULE Context ----
(***************************************************************************)
(* context/context.go: trees of contexts made by WithCancel, WithDeadline  *)
(* and WithTimeout, cancelled by their CancelFunc, their timer or their    *)
(* parent.  WithValue contexts pass Done, Err and Value on to their parent *)
(* and are not nodes of the tree.  A foreign context is of a type of the   *)
(* user's, with a Done channel of its own around a parent.                 *)
(*                                                                         *)
(* A thread is a goroutine of the user's, the goroutine that watches a     *)
(* foreign parent, or the goroutine that a timer starts; it has a stack    *)
(* because cancel calls itself for the children, each with its lock held.  *)
(* Critical sections with nothing to wait for are one step.                *)
(***************************************************************************)
EXTENDS Naturals, Sequences, FiniteSets

CONSTANTS Node, Background, None, NoT,
          G,          \* goroutines of the user's
          Trees,      \* trees to be made: [parent, deadline, foreign]
          MaxTime, MaxCalls

ASSUME ContextAssumption ==
    /\ Background \notin Node
    /\ \A t \in Trees : /\ t.parent \in [Node -> Node \cup {Background}]
                        /\ t.deadline \in [Node -> 0..MaxTime \cup {None}]
                        /\ t.foreign \subseteq Node

VARIABLES tree, now,
          made,       \* nodes whose constructor has returned
          begun,      \* nodes whose constructor has been called
          deadline,   \* what Deadline() returns
          timed,      \* the nodes that are timerCtxs
          late,       \* those made after their deadline
          calls,      \* calls of each CancelFunc
          mu, done, children, err, timer,  \* the fields of cancelCtx and timerCtx
          stack       \* the frames of each thread, innermost first

fields == <<done, children, err, timer>>
vars == <<tree, now, begun, made, deadline, timed, late, calls, mu, fields, stack>>

Thread == G \cup (Node \X {"watch", "timer"})

Frame == [at : {"Done", "select", "Err", "parentCancelCtx", "register", "unlock", "Until", "AfterFunc",
                "return", "watch", "watching", "cancel", "children", "removeChild", "delete", "Stop", "panic"},
          c : Node, err : {None, "Canceled", "DeadlineExceeded"}, remove : BOOLEAN, left : SUBSET Node]

TypeOK ==
    /\ now \in 0..MaxTime
    /\ made \subseteq begun /\ begun \subseteq Node /\ late \subseteq timed /\ timed \subseteq begun
    /\ deadline \in [Node -> 0..MaxTime \cup {None}]
    /\ calls \in [Node -> 0..MaxCalls]
    /\ mu \in [Node -> Thread \cup {NoT}]
    /\ done \in [Node -> {"nil", "open", "closed", "closedchan"}]
    /\ children \in [Node -> SUBSET Node]
    /\ err \in [Node -> {None, "Canceled", "DeadlineExceeded"}]
    /\ timer \in [Node -> {"nil", "pending", "fired"}]
    /\ \A t \in Thread : \A i \in 1..Len(stack[t]) : stack[t][i] \in Frame
    /\ \A c \in Node : mu[c] # NoT => \E i \in 1..Len(stack[mu[c]]) :
          LET f == stack[mu[c]][i]
          IN  (f.at = "children" /\ f.c = c) \/ (f.at = "unlock" /\ tree.parent[f.c] = c)

Init ==
    /\ tree \in Trees /\ now = 0 /\ made = {} /\ begun = {} /\ timed = {} /\ late = {}
    /\ deadline = [c \in Node |-> None]
    /\ calls = [c \in Node |-> 0]
    /\ mu = [c \in Node |-> NoT]
    /\ done = [c \in Node |-> IF c \in tree.foreign THEN "open" ELSE "nil"]
    /\ children = [c \in Node |-> {}]
    /\ err = [c \in Node |-> None]
    /\ timer = [c \in Node |-> "nil"]
    /\ stack = [t \in Thread |-> <<>>]

Parent(c) == tree.parent[c]
Foreign(c) == c \in tree.foreign

Above[c \in Node] == IF Parent(c) = Background THEN {} ELSE {Parent(c)} \cup Above[Parent(c)]

\* parent.Value(&cancelCtxKey): the cancelCtx that c is or is inside, if there is one.
CancelCtx[c \in Node] ==
    IF ~Foreign(c) THEN c ELSE IF Parent(c) = Background THEN None ELSE CancelCtx[Parent(c)]

Unlocked(c) == [mu EXCEPT ![c] = NoT]
Free(c) == c # None => mu[c] = NoT
IsClosed(c) == done[c] \in {"closed", "closedchan"}

\* c.Done() makes the channel.
DoneMade(c) == [done EXCEPT ![c] = IF @ = "nil" THEN "open" ELSE @]

-----------------------------------------------------------------------------
\* The stack of a thread.

At(t, l) == stack[t] # <<>> /\ Head(stack[t]).at = l
C(t) == Head(stack[t]).c
P(t) == Parent(C(t))

NewFrame(l, c, x, r) == [at |-> l, c |-> c, err |-> x, remove |-> r, left |-> {}]
Cancelling(c, r, x) == NewFrame("cancel", c, x, r)

Becomes(t, s) == stack' = [stack EXCEPT ![t] = s \o Tail(@)]
To(t, l) == [Head(stack[t]) EXCEPT !.at = l]
Goto(t, l) == Becomes(t, <<To(t, l)>>)

-----------------------------------------------------------------------------
\* Calls of the user's.

\* Mutation: the deadline of the parent is not looked at.
NeverSooner(cur, d) == FALSE
\* cur.Before(d)
Sooner(cur, d) == cur # None /\ cur < d

\* WithCancel, or WithDeadline, which is WithCancel if the parent's deadline is
\* sooner.  A foreign context is made by its user.
Make(g, c) ==
    LET cur == IF Parent(c) = Background THEN None ELSE deadline[Parent(c)]
        d == tree.deadline[c]
        timer_ == d # None /\ ~Sooner(cur, d)
    IN  /\ stack[g] = <<>> /\ c \notin begun /\ Parent(c) \in made \cup {Background}
        /\ begun' = begun \cup {c}
        /\ deadline' = [deadline EXCEPT ![c] = IF timer_ THEN d ELSE cur]
        /\ timed' = IF timer_ THEN timed \cup {c} ELSE timed
        /\ IF Foreign(c) THEN made' = made \cup {c} /\ UNCHANGED stack
           ELSE stack' = [stack EXCEPT ![g] = <<NewFrame("Done", c, None, FALSE)>>] /\ UNCHANGED made
        /\ UNCHANGED <<tree, now, late, calls, mu, fields>>

\* The CancelFunc; the one of a context made late does not remove it.
CancelFunc(g, c) ==
    /\ stack[g] = <<>> /\ c \in made /\ ~Foreign(c) /\ calls[c] < MaxCalls
    /\ calls' = [calls EXCEPT ![c] = @ + 1]
    /\ stack' = [stack EXCEPT ![g] = <<Cancelling(c, c \notin late, "Canceled")>>]
    /\ UNCHANGED <<tree, now, begun, made, deadline, timed, late, mu, fields>>

Done(g, c) ==
    /\ stack[g] = <<>> /\ c \in made /\ Free(c)
    /\ done' = DoneMade(c) /\ done' # done
    /\ UNCHANGED <<tree, now, begun, made, deadline, timed, late, calls, mu, children, err, timer, stack>>

\* A foreign context is cancelled by its user.
CloseForeign(g, c) ==
    /\ stack[g] = <<>> /\ c \in made /\ Foreign(c) /\ calls[c] = 0
    /\ calls' = [calls EXCEPT ![c] = 1]
    /\ done' = [done EXCEPT ![c] = "closed"]
    /\ err' = [err EXCEPT ![c] = "Canceled"]
    /\ UNCHANGED <<tree, now, begun, made, deadline, timed, late, mu, children, timer, stack>>

-----------------------------------------------------------------------------
\* propagateCancel, for the child C(t) that is being made.

AfterPropagate(t) == To(t, IF C(t) \in timed THEN "Until" ELSE "return")
Propagated(t) == Becomes(t, <<AfterPropagate(t)>>)

ParentDone(t) ==
    /\ At(t, "Done")
    /\ \/ P(t) = Background /\ Propagated(t) /\ UNCHANGED done
       \/ P(t) # Background /\ (~Foreign(P(t)) => Free(P(t))) /\ done' = DoneMade(P(t)) /\ Goto(t, "select")
    /\ UNCHANGED <<made, late, mu, children, err, timer>>

SelectDone(t) ==
    /\ At(t, "select")
    /\ Goto(t, IF IsClosed(P(t)) THEN "Err" ELSE "parentCancelCtx")
    /\ UNCHANGED <<made, late, mu, fields>>

ParentErr(t) ==
    /\ At(t, "Err")
    /\ ~Foreign(P(t)) => Free(P(t))
    /\ Becomes(t, <<Cancelling(C(t), FALSE, err[P(t)]), AfterPropagate(t)>>)
    /\ UNCHANGED <<made, late, mu, fields>>

\* Mutation: the channels are not compared.
InsideCancelCtx(p) == IF p = Background THEN FALSE ELSE CancelCtx[p] # None
\* parentCancelCtx(p): whether p, seen through WithValue contexts, is a cancelCtx.
\* The channels differ if p is a foreign context around one.
HasCancelCtx(p) == p # Background /\ ~Foreign(p) /\ done[p] # "closedchan"
MayCheck(p) == p # Background => Free(CancelCtx[p])

parentCancelCtx(t) ==
    /\ At(t, "parentCancelCtx") /\ MayCheck(P(t))
    /\ IF HasCancelCtx(P(t)) THEN Goto(t, "register")
       ELSE stack' = [stack EXCEPT ![t] = <<AfterPropagate(t)>> \o Tail(@),
                                   ![<<C(t), "watch">>] = <<NewFrame("watch", C(t), None, FALSE)>>]
    /\ UNCHANGED <<made, late, mu, fields>>

\* Mutation: the parent is not looked at again under its lock.
NotAgain(p) == FALSE
\* p.err != nil
CanceledMeanwhile(p) == err[p] # None

Register(t) ==
    /\ At(t, "register") /\ Free(P(t))
    /\ \/ /\ CanceledMeanwhile(P(t))
          /\ mu' = [mu EXCEPT ![P(t)] = t]
          /\ Becomes(t, <<Cancelling(C(t), FALSE, err[P(t)]), To(t, "unlock")>>)
          /\ UNCHANGED children
       \/ /\ ~CanceledMeanwhile(P(t))
          /\ children' = [children EXCEPT ![P(t)] = @ \cup {C(t)}]
          /\ Propagated(t)
          /\ UNCHANGED mu
    /\ UNCHANGED <<made, late, done, err, timer>>

UnlockParent(t) ==
    /\ At(t, "unlock")
    /\ mu' = Unlocked(P(t))
    /\ Propagated(t)
    /\ UNCHANGED <<made, late, fields>>

\* The goroutine that watches a foreign parent: child.Done(), then the select.
Watch(t) ==
    /\ At(t, "watch") /\ Free(C(t))
    /\ done' = DoneMade(C(t))
    /\ Goto(t, "watching")
    /\ UNCHANGED <<made, late, mu, children, err, timer>>

ChildDone(c) == IsClosed(c)

Watching(t) ==
    /\ At(t, "watching")
    /\ \/ IsClosed(P(t)) /\ Becomes(t, <<Cancelling(C(t), FALSE, err[P(t)])>>)
       \/ ChildDone(C(t)) /\ Becomes(t, <<>>)
    /\ UNCHANGED <<made, late, mu, fields>>

-----------------------------------------------------------------------------
\* The rest of WithDeadline.

Until(t) ==
    /\ At(t, "Until")
    /\ IF now >= deadline[C(t)]
       THEN /\ late' = late \cup {C(t)}
            /\ Becomes(t, <<Cancelling(C(t), TRUE, "DeadlineExceeded"), To(t, "return")>>)
       ELSE Goto(t, "AfterFunc") /\ UNCHANGED late
    /\ UNCHANGED <<made, mu, fields>>

\* Mutation: the timer is started whatever has happened to c meanwhile.
ArmAlways(c) == TRUE
\* c.err == nil
StillWanted(c) == err[c] = None

AfterFunc(t) ==
    /\ At(t, "AfterFunc") /\ Free(C(t))
    /\ timer' = IF StillWanted(C(t)) THEN [timer EXCEPT ![C(t)] = "pending"] ELSE timer
    /\ Goto(t, "return")
    /\ UNCHANGED <<made, late, mu, done, children, err>>

Return(t) ==
    /\ At(t, "return")
    /\ made' = made \cup {C(t)}
    /\ Becomes(t, <<>>)
    /\ UNCHANGED <<late, mu, fields>>

-----------------------------------------------------------------------------
\* cancel, of a cancelCtx or a timerCtx.

\* timerCtx.cancel goes on even if the context was cancelled before.
Rest(t, again) ==
    IF Head(stack[t]).remove /\ (C(t) \in timed \/ ~again) THEN <<To(t, "removeChild")>>
    ELSE IF C(t) \in timed THEN <<To(t, "Stop")>> ELSE <<>>

\* Mutation: a later cause takes the place of the first.
CanceledForThis(t) == err[C(t)] = Head(stack[t]).err
\* c.err != nil
AlreadyCanceled(t) == err[C(t)] # None

\* "missing cancel error" comes before the lock; a close of a closed channel panics too.
Cancel(t) ==
    LET c == C(t)
        cause == Head(stack[t]).err
    IN  /\ At(t, "cancel")
        /\ IF cause = None
           THEN /\ Becomes(t, <<To(t, "panic")>>)
                /\ UNCHANGED <<mu, done, err>>
           ELSE /\ Free(c)
                /\ \/ /\ AlreadyCanceled(t)
                      /\ Becomes(t, Rest(t, TRUE))
                      /\ UNCHANGED <<mu, done, err>>
                   \/ /\ ~AlreadyCanceled(t)
                      /\ mu' = [mu EXCEPT ![c] = t]
                      /\ err' = [err EXCEPT ![c] = cause]
                      /\ done' = [done EXCEPT ![c] = IF @ = "nil" THEN "closedchan" ELSE "closed"]
                      /\ Becomes(t, <<[To(t, IF IsClosed(c) THEN "panic" ELSE "children")
                                       EXCEPT !.left = children[c]]>>)
        /\ UNCHANGED <<made, late, children, timer>>

CancelChild(k, x) == Cancelling(k, FALSE, x)

CancelChildren(t) ==
    LET f == Head(stack[t])
    IN  /\ At(t, "children")
        /\ \/ \E k \in f.left :
                 /\ Becomes(t, <<CancelChild(k, f.err), [f EXCEPT !.left = @ \ {k}]>>)
                 /\ UNCHANGED <<mu, children>>
           \/ /\ f.left = {}
              /\ children' = [children EXCEPT ![f.c] = {}]
              /\ mu' = Unlocked(f.c)
              /\ Becomes(t, Rest(t, FALSE))
        /\ UNCHANGED <<made, late, done, err, timer>>

\* removeChild.  The parent's Done channel was made when the child was.
Removed(t) == IF C(t) \in timed THEN <<To(t, "Stop")>> ELSE <<>>

RemoveChild(t) ==
    /\ At(t, "removeChild") /\ MayCheck(P(t))
    /\ Becomes(t, IF HasCancelCtx(P(t)) THEN <<To(t, "delete")>> ELSE Removed(t))
    /\ UNCHANGED <<made, late, mu, fields>>

\* Mutation: the child stays.
Kept(p, c) == children[p]
Without(p, c) == children[p] \ {c}

DeleteChild(t) ==
    /\ At(t, "delete") /\ Free(P(t))
    /\ children' = [children EXCEPT ![P(t)] = Without(P(t), C(t))]
    /\ Becomes(t, Removed(t))
    /\ UNCHANGED <<made, late, mu, done, err, timer>>

StopTimer(t) ==
    /\ At(t, "Stop") /\ Free(C(t))
    /\ timer' = [timer EXCEPT ![C(t)] = "nil"]
    /\ Becomes(t, <<>>)
    /\ UNCHANGED <<made, late, mu, done, children, err>>

-----------------------------------------------------------------------------
\* The timer starts a goroutine.
Fire(c) ==
    /\ timer[c] = "pending" /\ now >= deadline[c]
    /\ timer' = [timer EXCEPT ![c] = "fired"]
    /\ stack' = [stack EXCEPT ![<<c, "timer">>] = <<Cancelling(c, TRUE, "DeadlineExceeded")>>]
    /\ UNCHANGED <<tree, now, begun, made, deadline, timed, late, calls, mu, done, children, err>>

Tick ==
    /\ now < MaxTime
    /\ now' = now + 1
    /\ UNCHANGED <<tree, begun, made, deadline, timed, late, calls, mu, fields, stack>>

Step(t) ==
    /\ \/ ParentDone(t) \/ SelectDone(t) \/ ParentErr(t) \/ parentCancelCtx(t) \/ Register(t)
       \/ UnlockParent(t) \/ Watch(t) \/ Watching(t) \/ Until(t) \/ AfterFunc(t) \/ Return(t)
       \/ Cancel(t) \/ CancelChildren(t) \/ RemoveChild(t) \/ DeleteChild(t) \/ StopTimer(t)
    /\ UNCHANGED <<tree, now, begun, deadline, timed, calls>>

\* What happens without a call of the user's.
Proceed ==
    \/ \E t \in Thread : Step(t)
    \/ \E c \in Node : Fire(c)
    \/ Tick

Next ==
    \/ \E g \in G, c \in Node : Make(g, c) \/ CancelFunc(g, c) \/ Done(g, c) \/ CloseForeign(g, c)
    \/ Proceed

\* Something that can go on does: each call has finitely many steps, so this is all
\* that the fair scheduling of goroutines, timers and time comes to.
Fairness == WF_vars(Proceed)

Spec == Init /\ [][Next]_vars /\ Fairness

-----------------------------------------------------------------------------
\* No channel is closed twice, and nothing is cancelled without an error: whoever
\* finds the parent's channel closed also finds its error.
NoPanic == \A t \in Thread : ~At(t, "panic")

\* Locks are taken from the root towards the leaves: a goroutine that waits for the
\* lock of a context holds those of contexts above it only ("acquiring the child's
\* lock while holding parent's lock").
Wants(t) ==
    CASE stack[t] = <<>> -> None
      [] Head(stack[t]).at \in {"cancel", "watch", "AfterFunc", "Stop"} -> C(t)
      [] Head(stack[t]).at \in {"Done", "Err", "register", "delete"} /\ P(t) # Background -> P(t)
      [] Head(stack[t]).at \in {"parentCancelCtx", "removeChild"} /\ P(t) # Background -> CancelCtx[P(t)]
      [] OTHER -> None
LockOrder ==
    \A t \in Thread : Wants(t) # None => \A c \in Node : mu[c] = t => c \in Above[Wants(t)]

ErrAbove(c) == IF Parent(c) = Background THEN None ELSE err[Parent(c)]

\* Once cancel of a parent has returned, the contexts made from it are cancelled,
\* also those whose constructor ran at the same time.
ChildrenCanceled ==
    \A c \in made : ErrAbove(c) # None /\ ~Foreign(Parent(c)) /\ ~Foreign(c) /\ Free(Parent(c))
                    => err[c] # None

\* Cancelling works its way down the tree without a deadlock or a double close and
\* skips nobody, whoever registers, removes itself or cancels at the same time.
TreeInvariant == TypeOK /\ NoPanic /\ LockOrder /\ ChildrenCanceled

\* The goroutine in cancel of c that still has work after the lock.
InCancel(c) ==
    \E t \in Thread : \E i \in 1..Len(stack[t]) :
        stack[t][i].c = c /\ stack[t][i].at \in {"children", "removeChild", "delete", "Stop"}

\* Cancelling releases what the context holds ("releases resources associated with
\* it"): no timer is left for it, and its parent does not keep it.
NothingLeaks ==
    \A c \in Node : err[c] # None /\ ~InCancel(c) =>
        /\ timer[c] # "pending"
        /\ \A p \in Node : c \in children[p] => err[p] # None

\* A reason for c to be cancelled with an error: its CancelFunc or one above was called,
\* or the deadline that it reports has passed.
Cause(c, error) ==
    CASE error = "Canceled" -> \E a \in {c} \cup Above[c] : calls[a] > 0
      [] error = "DeadlineExceeded" -> deadline[c] # None /\ now >= deadline[c]
      [] OTHER -> error = None

\* A context is cancelled for a reason, and however many causes race - its function, its
\* timer, its parent, a watcher -, the first one is kept: Err never changes its answer
\* ("After Err returns a non-nil error, successive calls to Err return the same error"),
\* and done is not opened again.
FirstCauseKept ==
    [][\A c \in Node : /\ IF err[c] = None THEN Cause(c, err[c])' ELSE err'[c] = err[c]
                       /\ IsClosed(c) => IsClosed(c)']_vars

\* The next three say that something follows from something else sooner or later;
\* neither is ever undone, so that again and again it holds of all contexts at once.

\* Cancellation reaches what was made from the context, through foreign contexts too.
CancelReaches == []<>(\A c \in made : ErrAbove(c) # None /\ ~Foreign(c) => err[c] # None)

\* A context with a deadline of its own is cancelled when that has passed.
DeadlineMet == []<>(\A c \in made \cap timed : now >= deadline[c] => err[c] # None)

\* The goroutine that watches a foreign parent does not outlive the child's need of
\* it: it ends once the child is cancelled.
WatcherEnds == []<>(\A c \in made : err[c] # None => stack[<<c, "watch">>] = <<>>)

\* What has to happen does happen: cancellation spreads, deadlines are kept, and the
\* goroutines that propagateCancel starts come to an end.
CancellationServed == CancelReaches /\ DeadlineMet /\ WatcherEnds
====
