---- MODULE OwnedLock ----
(***************************************************************************)
(* What a sync.Locker promises: one owner at a time, that got the lock     *)
(* when it was free and keeps it until it unlocks.  sync.Mutex is shown to *)
(* implement it; RWMutex, Once, Cond, Map and the contexts use it for      *)
(* their w, m, L and mu fields.                                            *)
(***************************************************************************)
CONSTANTS G, NoG

VARIABLE owner

Passes(from, to) == owner = from /\ owner' = to

Lock(g) == Passes(NoG, g)
Unlock(g) == Passes(g, NoG)

Free == owner = NoG

ChangesHands == \E g \in G : Lock(g) \/ Unlock(g)

Spec == Free /\ [][ChangesHands]_owner
====
