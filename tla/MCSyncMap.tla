---- MODULE MCSyncMap ----
(***************************************************************************)
(* An instance of SyncMap for TLC.  Three goroutines with roles: one puts  *)
(* things into the map, one removes them, one looks them up, so that the   *)
(* map is promoted.  Two goroutines that make all calls with two values.   *)
(* Keys are interchangeable.                                               *)
(***************************************************************************)
EXTENDS SyncMap, TLC

CONSTANTS g1, g2, g3, v1, v2

Calls(ops, v) == [op : ops, val : {v}]
Roles == g1 :> Calls({"Store", "LoadOrStore"}, v1)
         @@ g2 :> Calls({"Delete"}, v1)
         @@ g3 :> Calls({"Load", "Range"}, v1)
Overwrites == g1 :> Calls({"Store", "Delete"}, v1) \cup Calls({"LoadOrStore"}, v2)
              @@ g2 :> Calls({"Store", "Delete", "Load", "Range"}, v2)
              @@ g3 :> {}
AllPrograms == {Roles, Overwrites}

Symmetry == Permutations(K)
====
