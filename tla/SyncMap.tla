---- MODULE SyncMap ----
(***************************************************************************)
(* sync/map.go: a map of entries in two halves, read for use without the   *)
(* lock and dirty under it, with entries that are shared by both, marked   *)
(* deleted (nil) or expunged, and a dirty map that is promoted to read.    *)
(*                                                                         *)
(* m.read is replaced as a whole, so looking up a key in it is one step.   *)
(* The loops that load and CAS an entry are one step each: what they do    *)
(* depends on the entry only.  Under m.mu only the writes to entries and   *)
(* to m.read are seen by others; a critical section with at most one of    *)
(* these is one step.  The entries made for a key are numbered, with a     *)
(* number nobody refers to any more.                                       *)
(***************************************************************************)
EXTENDS Naturals, FiniteSets

CONSTANTS G, NoG, K, V,
          Entry,      \* numbers of the entries made for a key
          None,       \* no entry
          Nil, Expunged, Absent, NoCall, Unknown,
          Programs    \* what calls the goroutines make, on any key

Ops == {"Load", "Store", "LoadOrStore", "Delete", "Range"}
AnyCall == [op : Ops, keys : SUBSET K, val : V]

ASSUME SyncMapAssumption ==
    /\ NoG \notin G /\ None \notin Entry
    /\ {Nil, Expunged, Absent, Unknown} \cap V = {} /\ Nil # Expunged /\ Absent # Unknown
    /\ IsFiniteSet(G) /\ IsFiniteSet(K) /\ K # {}
    /\ IsFiniteSet(Entry) => Cardinality(Entry) >= Cardinality(G)  \* enough to make a new one
    /\ NoCall \notin AnyCall
    /\ Programs \subseteq [G -> SUBSET [op : Ops, val : V]]

VARIABLES read, amended,  \* m.read
          dirty, isNil,   \* m.dirty, and whether it is nil
          misses, mu,
          program,        \* the calls each goroutine makes
          p,              \* e.p of each entry of each key
          pc, call,       \* control of each goroutine and its call
          e,              \* entries it has found and not yet used, for each key
          todo,           \* keys dirtyLocked has yet to copy
          result,         \* what the call reports for each key
          seen            \* auxiliary: what the keys of the call have been mapped to

shared == <<read, amended, dirty, isNil, misses, mu>>
vars == <<shared, program, p, pc, call, e, todo, result, seen>>

Map == [K -> Entry \cup {None}]
Empty == [k \in K |-> None]
Nothing == [k \in K |-> Unknown]

TypeOK ==
    /\ read \in Map /\ amended \in BOOLEAN
    /\ dirty \in Map /\ isNil \in BOOLEAN
    /\ program \in Programs
    /\ misses < Cardinality(K) /\ misses \in Nat /\ mu \in G \cup {NoG}
    /\ p \in [K -> [Entry -> V \cup {Nil, Expunged}]]
    /\ pc \in [G -> {"idle", "lock", "entry", "copy", "update", "return", "panic"}]
    /\ call \in [G -> AnyCall \cup {NoCall}]
    /\ e \in [G -> Map]
    /\ todo \subseteq K
    /\ result \in [G -> [K -> V \cup {Absent, Unknown}]]
    /\ seen \in [G -> [K -> SUBSET (V \cup {Absent})]]

Init ==
    /\ read = Empty /\ amended = FALSE
    /\ dirty = Empty /\ isNil = TRUE
    /\ misses = 0 /\ mu = NoG
    /\ program \in Programs
    /\ p = [k \in K |-> [x \in Entry |-> Nil]]
    /\ pc = [g \in G |-> "idle"]
    /\ call = [g \in G |-> NoCall]
    /\ e = [g \in G |-> Empty]
    /\ todo = {}
    /\ result = [g \in G |-> Nothing]
    /\ seen = [g \in G |-> [k \in K |-> {}]]

\* e.load()
Value(k, x) == IF x = None \/ p[k][x] \in {Nil, Expunged} THEN Absent ELSE p[k][x]

\* What the map holds for k: what a Load would find.
Content(k) == Value(k, IF read[k] # None THEN read[k] ELSE IF amended THEN dirty[k] ELSE None)

Goto(g, l) == pc' = [pc EXCEPT ![g] = l]
Key(g) == CHOOSE k \in call[g].keys : TRUE
Op(g) == call[g].op
Reports(g, k, v) == result' = [result EXCEPT ![g][k] = v]

\* The entries of k that are referred to; the others are garbage.
Referred(k) == {read[k], dirty[k]} \cup {e[g][k] : g \in G}

\* The last conjunct of a step that leaves the entries as q: what is garbage is
\* forgotten, and the calls under way witness what the map holds.
Entries(q) ==
    /\ p' = [k \in K |-> [x \in Entry |-> IF x \in Referred(k)' THEN q[k][x] ELSE Nil]]
    /\ seen' = [g \in G |-> [k \in K |->
          IF call'[g] # NoCall /\ k \in call'[g].keys /\ result'[g][k] = Unknown
          THEN seen[g][k] \cup {Content(k)'} ELSE {}]]

Set(k, x, v) == Entries([p EXCEPT ![k][x] = v])

-----------------------------------------------------------------------------
\* A call with its first look at m.read.  Range is content with it if it is all of
\* the map, Load and Delete also if the key is there, the others only if it is there.
Begin(g) ==
    /\ pc[g] = "idle"
    /\ \E o \in program[g], k \in K :
          LET slow == CASE o.op \in {"Load", "Delete"} -> read[k] = None /\ amended
                        [] o.op = "Range" -> amended
                        [] OTHER -> read[k] = None
              keys == IF o.op = "Range" THEN K ELSE {k}
          IN  /\ o.op = "Range" => k = CHOOSE j \in K : TRUE
              /\ call' = [call EXCEPT ![g] = [op |-> o.op, keys |-> keys, val |-> o.val]]
              /\ e' = [e EXCEPT ![g] = [j \in K |-> IF ~slow /\ j \in keys THEN read[j] ELSE None]]
              /\ Goto(g, IF slow THEN "lock" ELSE "entry")
    /\ UNCHANGED <<shared, todo, result>>
    /\ Entries(p)

-----------------------------------------------------------------------------
\* Work on an entry without the lock: e.load, e.delete, tryStore, tryLoadOrStore;
\* Range goes through its entries in any order.
Finds(g) ==
    /\ pc[g] = "entry" /\ Op(g) \in {"Load", "Range"}
    /\ \E k \in {j \in call[g].keys : result[g][j] = Unknown} :
          /\ Reports(g, k, Value(k, e[g][k]))
          /\ Goto(g, IF \A j \in call[g].keys \ {k} : result[g][j] # Unknown THEN "return" ELSE "entry")
          /\ e' = [e EXCEPT ![g][k] = None]
    /\ UNCHANGED <<shared, call, todo>>
    /\ Entries(p)

Deletes(g) ==
    LET k == Key(g)
    IN  /\ pc[g] = "entry" /\ Op(g) = "Delete"
        /\ Reports(g, k, Absent)
        /\ Goto(g, "return") /\ e' = [e EXCEPT ![g] = Empty]
        /\ UNCHANGED <<shared, call, todo>>
        /\ IF Value(k, e[g][k]) = Absent THEN Entries(p) ELSE Set(k, e[g][k], Nil)

\* storeLocked, or tryLoadOrStore on an entry that is not expunged.
StoreEntry(g, k, x) ==
    LET v == IF Op(g) = "LoadOrStore" /\ p[k][x] # Nil THEN p[k][x] ELSE call[g].val
    IN  Reports(g, k, v) /\ Set(k, x, v)

\* Mutation: an expunged entry is updated like a deleted one.
NeverRefused(k, x) == FALSE
Refused(k, x) == p[k][x] = Expunged

TryStore(g) ==
    LET k == Key(g)
    IN  /\ pc[g] = "entry" /\ Op(g) \in {"Store", "LoadOrStore"}
        /\ \/ /\ Refused(k, e[g][k])
              /\ e' = [e EXCEPT ![g] = Empty]
              /\ Goto(g, "lock")
              /\ UNCHANGED <<shared, call, todo, result>>
              /\ Entries(p)
           \/ /\ ~Refused(k, e[g][k])
              /\ Goto(g, "return") /\ e' = [e EXCEPT ![g] = Empty]
              /\ UNCHANGED <<shared, call, todo>>
              /\ StoreEntry(g, k, e[g][k])

-----------------------------------------------------------------------------
Len(m) == Cardinality({k \in K : m[k] # None})

\* m.dirty takes the place of m.read.m
Promoted == dirty

Promote == read' = Promoted /\ amended' = FALSE /\ dirty' = Empty /\ isNil' = TRUE /\ misses' = 0

EnoughMisses == misses + 1 >= Len(dirty)

missLocked ==
    IF EnoughMisses THEN Promote
    ELSE misses' = misses + 1 /\ UNCHANGED <<read, amended, dirty, isNil>>

\* The slow paths of Load, Delete and Range, under the lock.
Locked(g) ==
    LET k == Key(g)
        found == read[k] # None
    IN  /\ pc[g] = "lock" /\ mu = NoG
        /\ \/ /\ Op(g) = "Load"
              /\ e' = [e EXCEPT ![g][k] = IF found THEN read[k] ELSE IF amended THEN dirty[k] ELSE None]
              /\ IF ~found /\ amended THEN missLocked ELSE UNCHANGED <<read, amended, dirty, isNil, misses>>
              /\ Goto(g, "entry")
              /\ UNCHANGED result
           \/ /\ Op(g) = "Delete"
              /\ e' = [e EXCEPT ![g][k] = read[k]]
              /\ dirty' = IF ~found /\ amended THEN [dirty EXCEPT ![k] = None] ELSE dirty
              /\ IF found THEN Goto(g, "entry") /\ UNCHANGED result
                          ELSE Goto(g, "return") /\ Reports(g, k, Absent)
              /\ UNCHANGED <<read, amended, isNil, misses>>
           \/ /\ Op(g) = "Range"
              /\ e' = [e EXCEPT ![g] = IF amended THEN dirty ELSE read]
              /\ IF amended THEN Promote ELSE UNCHANGED <<read, amended, dirty, isNil, misses>>
              /\ Goto(g, "entry")
              /\ UNCHANGED result
        /\ UNCHANGED <<mu, call, todo>>
        /\ Entries(p)

\* Mutation: the entry is not put back into the dirty map.
UnexpungedOnly(k) == dirty
\* m.dirty[key] = e
Restored(k) == [dirty EXCEPT ![k] = read[k]]

\* The slow path of Store and LoadOrStore.  A key in read is updated in its entry,
\* after unexpungeLocked if need be; writing to a nil map panics.
LockToUpdate(g) ==
    LET k == Key(g)
    IN  /\ pc[g] = "lock" /\ mu = NoG /\ Op(g) \in {"Store", "LoadOrStore"}
        /\ mu' = g
        /\ UNCHANGED <<read, amended, misses, call, e, result>>
        /\ \/ /\ read[k] # None /\ p[k][read[k]] = Expunged
              /\ dirty' = Restored(k)
              /\ Goto(g, IF isNil THEN "panic" ELSE "update")
              /\ UNCHANGED <<isNil, todo>>
              /\ Set(k, read[k], Nil)
           \/ /\ read[k] # None /\ p[k][read[k]] # Expunged
              /\ Goto(g, "update")
              /\ UNCHANGED <<dirty, isNil, todo>>
              /\ Entries(p)
           \/ /\ read[k] = None
              /\ IF dirty[k] = None /\ ~amended /\ isNil
                 THEN todo' = {j \in K : read[j] # None} /\ isNil' = FALSE /\ Goto(g, "copy")
                 ELSE UNCHANGED <<todo, isNil>> /\ Goto(g, "update")
              /\ UNCHANGED dirty
              /\ Entries(p)

\* tryExpungeLocked
Expunge(k, x) == IF p[k][x] = Nil THEN Expunged ELSE p[k][x]

\* The loop of dirtyLocked.
CopyToDirty(g) ==
    /\ pc[g] = "copy"
    /\ UNCHANGED <<read, amended, isNil, misses, mu, call, e, result>>
    /\ \/ \E k \in todo :
             LET q == Expunge(k, read[k])
             IN  /\ dirty' = IF q = Expunged THEN dirty ELSE [dirty EXCEPT ![k] = read[k]]
                 /\ todo' = todo \ {k}
                 /\ UNCHANGED pc
                 /\ Set(k, read[k], q)
       \/ todo = {} /\ Goto(g, "update") /\ UNCHANGED <<dirty, todo>> /\ Entries(p)

\* The update itself, and the unlock: in the entry of the key, or in a new entry of
\* the dirty map, of which read is then not all.
Update(g) ==
    LET k == Key(g)
        x == IF read[k] # None THEN read[k] ELSE dirty[k]
        new == CHOOSE y \in Entry : y \notin Referred(k)
    IN  /\ pc[g] = "update" /\ mu = g
        /\ mu' = NoG
        /\ Goto(g, "return")
        /\ UNCHANGED <<call, e, todo>>
        /\ \/ /\ x # None
              /\ IF Op(g) = "LoadOrStore" /\ read[k] = None THEN missLocked
                 ELSE UNCHANGED <<read, amended, dirty, isNil, misses>>
              /\ StoreEntry(g, k, x)
           \/ /\ x = None
              /\ dirty' = [dirty EXCEPT ![k] = new]
              /\ amended' = TRUE
              /\ UNCHANGED <<read, isNil, misses>>
              /\ Reports(g, k, call[g].val) /\ Set(k, new, call[g].val)

Return(g) ==
    /\ pc[g] = "return"
    /\ Goto(g, "idle")
    /\ call' = [call EXCEPT ![g] = NoCall]
    /\ result' = [result EXCEPT ![g] = Nothing]
    /\ UNCHANGED <<shared, e, todo>>
    /\ Entries(p)

-----------------------------------------------------------------------------
Next ==
    /\ \E g \in G :
        \/ Begin(g) \/ Finds(g) \/ Deletes(g) \/ TryStore(g)
        \/ Locked(g) \/ LockToUpdate(g) \/ CopyToDirty(g) \/ Update(g) \/ Return(g)
    /\ UNCHANGED program

Spec == Init /\ [][Next]_vars

-----------------------------------------------------------------------------
\* The two halves fit together: with no copy under way dirty has every entry of read but
\* the expunged ones, under the same key, deleted entries (nil) included; entries are
\* expunged only while there is a dirty map; and keys outside read are in a dirty map
\* that read knows of.
HalvesFit ==
    /\ \A k \in K : read[k] # None /\ k \notin todo =>
          IF p[k][read[k]] = Expunged THEN ~isNil /\ dirty[k] = None
          ELSE ~isNil => dirty[k] = read[k]
    /\ amended => ~isNil
    /\ \A k \in K : dirty[k] # None /\ read[k] = None => amended

\* An entry that a call may still write to without the lock is one that lookups
\* find: a Store does not disappear in an entry that has been dropped.
WritesReachable ==
    \A g \in G : pc[g] = "entry" /\ Op(g) \in {"Store", "LoadOrStore"} =>
        LET k == Key(g)
        IN  p[k][e[g][k]] = Expunged \/ read[k] = e[g][k]

\* "assignment to entry in nil map" is unreachable.
NoPanic == \A g \in G : pc[g] # "panic"

\* The read and the dirty map stay two views of one map through misses, promotions,
\* expunging and copying, and every update goes to an entry that both lead to.
MapInvariant == TypeOK /\ HalvesFit /\ NoPanic /\ WritesReachable

Atomic == INSTANCE AtomicMap WITH content <- [k \in K |-> Content(k)]

\* The map is linearizable: every update takes effect at one moment of its call, and
\* what calls report was true at some moment of the call, however lookups, deletes,
\* copies to the dirty map and promotions interleave.
ImplementsAtomicMap == Atomic!Spec
====
