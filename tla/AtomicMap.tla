---- MODULE AtomicMap ----
(***************************************************************************)
(* What sync.Map promises: each Store, Delete and LoadOrStore takes effect *)
(* in one step between its call and its return, each Load reports what the *)
(* map held for its key at some moment of the call, and so does each key   *)
(* of a Range.                                                             *)
(***************************************************************************)
CONSTANTS G, K, V, Absent, NoCall, Unknown

VARIABLES content,   \* what the map holds for each key
          call,      \* the call each goroutine makes
          seen,      \* what each key of the call has been mapped to, until it is reported
          result     \* for each key of the call: what the call reports

vars == <<content, call, seen, result>>

Keys(c) == IF c = NoCall THEN {} ELSE c.keys
Pending(g) == {k \in Keys(call[g]) : result[g][k] = Unknown}

Init ==
    /\ content = [k \in K |-> Absent]
    /\ call = [g \in G |-> NoCall]
    /\ seen = [g \in G |-> [k \in K |-> {}]]
    /\ result = [g \in G |-> [k \in K |-> Unknown]]

Begin(g, c) ==
    /\ call[g] = NoCall
    /\ call' = [call EXCEPT ![g] = c]
    /\ seen' = [seen EXCEPT ![g] = [k \in K |-> IF k \in c.keys THEN {content[k]} ELSE {}]]
    /\ UNCHANGED <<content, result>>

\* k is mapped to v by g; everyone concerned witnesses it.
Put(g, k, v) ==
    /\ k \in Pending(g)
    /\ content' = [content EXCEPT ![k] = v]
    /\ seen' = [h \in G |-> [seen[h] EXCEPT ![k] =
                   IF h = g THEN {} ELSE IF k \in Pending(h) THEN @ \cup {v} ELSE @]]
    /\ result' = [result EXCEPT ![g][k] = v]
    /\ UNCHANGED call

Store(g, k) == call[g].op = "Store" /\ Put(g, k, call[g].val)
Delete(g, k) == call[g].op = "Delete" /\ Put(g, k, Absent)
StoreIfAbsent(g, k) ==
    call[g].op = "LoadOrStore" /\ content[k] = Absent /\ Put(g, k, call[g].val)

\* A report of what was there: for a Delete that nothing was, for a LoadOrStore
\* that something was.
Report(g, k, v) ==
    /\ k \in Pending(g)
    /\ v \in seen[g][k]
    /\ \/ call[g].op \in {"Load", "Range"}
       \/ call[g].op = "Delete" /\ v = Absent
       \/ call[g].op = "LoadOrStore" /\ v # Absent
    /\ result' = [result EXCEPT ![g][k] = v]
    /\ seen' = [seen EXCEPT ![g][k] = {}]
    /\ UNCHANGED <<content, call>>

Return(g) ==
    /\ call[g] # NoCall /\ Pending(g) = {}
    /\ call' = [call EXCEPT ![g] = NoCall]
    /\ result' = [result EXCEPT ![g] = [k \in K |-> Unknown]]
    /\ UNCHANGED <<content, seen>>

Next ==
    \E g \in G :
        \/ \E o \in {"Load", "Store", "LoadOrStore", "Delete", "Range"}, s \in SUBSET K, v \in V :
              Begin(g, [op |-> o, keys |-> s, val |-> v])
        \/ \E k \in Keys(call[g]) :
              \/ Store(g, k) \/ Delete(g, k) \/ StoreIfAbsent(g, k)
              \/ \E v \in V \cup {Absent} : Report(g, k, v)
        \/ Return(g)

Spec == Init /\ [][Next]_vars
====
