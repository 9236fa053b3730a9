---- MODULE Semaphore ----
(***************************************************************************)
(* A counting semaphore: what sync.RWMutex and sync.WaitGroup rely on when *)
(* they call runtime_Semacquire, runtime_SemacquireMutex and               *)
(* runtime_Semrelease.  A permit is for whoever takes it first; a caller   *)
(* of Semacquire that has not got one waits.                               *)
(***************************************************************************)
EXTENDS Naturals

VARIABLE permits

Init == permits = 0

\* Semacquire returns: "waits until *s > 0 and then atomically decrements it".
Take == permits > 0 /\ permits' = permits - 1

\* Semrelease "atomically increments *s and notifies a waiting goroutine".
Release == permits' = permits + 1

Spec == Init /\ [][Take \/ Release]_permits
====
