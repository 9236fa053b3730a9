---- MODULE MCOnceCond ----
(***************************************************************************)
(* Once and Cond, the two small users of a sync.Locker, in one run.  They  *)
(* share no state, so a behaviour exercises one of them and leaves the     *)
(* other as it was made.                                                   *)
(***************************************************************************)
EXTENDS Once

CONSTANTS Width, MaxTickets   \* of Cond

ASSUME CondAssumption ==
    /\ Width \in Nat /\ MaxTickets \in Nat
    /\ 2 * MaxTickets < Width

VARIABLES subject,            \* the one a behaviour is about
          L, wait, notify, list, at, ticket, seen, all, hand, held, issued, must

C == INSTANCE Cond WITH pc <- at

condVars == <<L, wait, notify, list, at, ticket, seen, all, hand, held, issued, must>>
allVars == <<subject, vars, condVars>>

EitherInit == subject \in {"Once", "Cond"} /\ Init /\ C!Init

EitherNext ==
    \/ subject = "Once" /\ Next /\ UNCHANGED <<subject, condVars>>
    \/ subject = "Cond" /\ C!Next /\ UNCHANGED <<subject, vars>>

\* The fairness of Once and of Cond.
EitherSpec ==
    /\ EitherInit /\ [][EitherNext]_allVars
    /\ \A g \in G : WF_vars(Step(g)) /\ WF_condVars(C!Step(g))

-----------------------------------------------------------------------------
\* Tickets, list and notifications of notifyList agree at every step of Wait, Signal
\* and Broadcast (see Cond).
NotifyListInvariant == C!NotifyListInvariant

\* A waiter of a Cond that has been notified goes on to lock c.L (see Cond).
NotifiedResumes == C!NotifiedResumes
====
