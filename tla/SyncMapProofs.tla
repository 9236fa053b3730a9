---- MODULE SyncMapProofs ----
(***************************************************************************)
(* Proofs about sync.Map (module SyncMap), for any finite sets of          *)
(* goroutines and keys and any values: the read and the dirty map stay     *)
(* views of one map, and the map implements AtomicMap, that is, it is      *)
(* linearizable.                                                           *)
(*                                                                         *)
(* A call acts on an entry that it found some time ago.  What it does is   *)
(* right because an entry that is not expunged stays in read once it is    *)
(* there (HalvesAt, Reached), and what it reports is right because an      *)
(* entry changes only while it is the one that lookups find, so that every *)
(* change of it is witnessed (Moves, Witnessed).  The proof follows that   *)
(* split: for each kind of change what it does to one key (the lemmas      *)
(* ending in At), then what that is to the goroutines that take no part in *)
(* the step (Bystander) and to the atomic map (QuietStep, PutStep,         *)
(* ReportStep), then the actions one by one.                               *)
(***************************************************************************)
EXTENDS SyncMap, FiniteSetTheorems, TLAPS

-----------------------------------------------------------------------------
\* The inductive invariant.

Setters == {"Store", "LoadOrStore"}
Values == V \cup {Absent}

\* The keys a call has yet to report on.
Pend(g) == {k \in K : call[g] # NoCall /\ k \in call[g].keys /\ result[g][k] = Unknown}

\* Where a goroutine is in its call, what it holds and what it has reported.
Shape(g) ==
    /\ pc[g] = "idle" <=> call[g] = NoCall
    /\ pc[g] # "idle" =>
          /\ call[g] \in AnyCall
          /\ IF Op(g) = "Range" THEN call[g].keys = K ELSE \E k \in K : call[g].keys = {k}
    /\ mu = g <=> pc[g] \in {"copy", "update"}
    /\ pc[g] \in {"copy", "update"} => Op(g) \in Setters
    /\ pc[g] # "panic"
    /\ \A k \in K : e[g][k] # None => pc[g] = "entry" /\ k \in Pend(g)
    /\ pc[g] = "entry" /\ Op(g) \in Setters => \A k \in call[g].keys : e[g][k] # None
    /\ pc[g] = "return" => Pend(g) = {}
    /\ pc[g] # "return" /\ (pc[g] = "entry" => Op(g) # "Range") => result[g] = Nothing
    /\ \A k \in K : call[g] = NoCall \/ k \notin call[g].keys => result[g][k] = Unknown

\* What is known under the lock.
Holder(g) ==
    /\ pc[g] = "copy" => ~isNil /\ ~amended /\ \A k \in call[g].keys : read[k] = None
    /\ pc[g] = "update" =>
          /\ todo = {}
          /\ \A k \in call[g].keys : IF read[k] # None THEN p[k][read[k]] # Expunged ELSE ~isNil

\* The two halves of the map at one key, also while dirtyLocked is copying.
HalvesAt(k) ==
    /\ read[k] # None /\ k \notin todo =>
          IF p[k][read[k]] = Expunged THEN ~isNil /\ dirty[k] = None
          ELSE ~isNil => dirty[k] = read[k]
    /\ k \in todo => read[k] # None /\ dirty[k] = None
    /\ dirty[k] # None => ~isNil /\ p[k][dirty[k]] # Expunged
    /\ dirty[k] # None /\ read[k] = None => amended

\* An entry x of k that lookups find, or that nobody writes to without the lock.
Reached(k, x) == p[k][x] = Expunged \/ read[k] = x

Reaching(g, k) ==
    pc[g] = "entry" /\ k \in call[g].keys /\ Op(g) \in Setters \cup {"Delete"} /\ e[g][k] # None
        => Reached(k, e[g][k])

\* What a pending key has been mapped to is what a call may report.
Witnessed(g, k) ==
    IF k \in Pend(g) THEN /\ Content(k) \in seen[g][k]
                          /\ pc[g] = "entry" => Value(k, e[g][k]) \in seen[g][k]
    ELSE seen[g][k] = {}

IInv ==
    /\ TypeOK
    /\ amended => ~isNil
    /\ mu = NoG => todo = {}
    /\ \A g \in G : Shape(g) /\ Holder(g)
    /\ \A k \in K : HalvesAt(k)
    /\ \A g \in G, k \in K : Reaching(g, k) /\ Witnessed(g, k)

-----------------------------------------------------------------------------
\* What a step does to the entries of one key.

Labels == {"idle", "lock", "entry", "copy", "update", "return", "panic"}
PType == [K -> [Entry -> V \cup {Nil, Expunged}]]

\* The entries of k that are still referred to are as in q.
KeptAt(k, q) ==
    /\ read'[k] # None => p'[k][read'[k]] = q[k][read'[k]]
    /\ dirty'[k] # None => p'[k][dirty'[k]] = q[k][dirty'[k]]
    /\ \A x \in Entry : (\E h \in G : e'[h][k] = x) => p'[k][x] = q[k][x]

\* k is mapped to w by the step, and entries in somebody's hands change to w if at all.
Moves(k, w) ==
    /\ HalvesAt(k)'
    /\ Content(k)' = w
    /\ \A x \in Entry : (\E h \in G : e'[h][k] = x) =>
          /\ Value(k, x)' \in {Value(k, x), w}
          /\ Reached(k, x) => Reached(k, x)'

\* What everybody witnesses of k.
SeenAt(k) ==
    \A h \in G : seen'[h][k] = IF k \in Pend(h)' THEN seen[h][k] \cup {Content(k)'} ELSE {}

\* What a load reports is a value or that there is none.
LEMMA ValueType ==
    ASSUME TypeOK, NEW k \in K
    PROVE  /\ \A x \in Entry \cup {None} : Value(k, x) \in Values
           /\ Content(k) \in Values
  BY DEF TypeOK, Map, Value, Content, Values

\* The last conjunct of every action: garbage is forgotten and nothing else, and the
\* calls under way witness the content.
LEMMA EntriesStep ==
    ASSUME TypeOK, NEW q \in PType, Entries(q), read' \in Map, dirty' \in Map, amended' \in BOOLEAN
    PROVE  /\ p' \in PType
           /\ seen' \in [G -> [K -> SUBSET Values]]
           /\ \A k \in K : KeptAt(k, q) /\ SeenAt(k)
<1>1. p' \in PType
  BY SyncMapAssumption DEF Entries, PType
<1>2. \A k \in K, x \in Entry : x \in Referred(k)' => p'[k][x] = q[k][x]
  BY DEF Entries
<1>3. \A k \in K : KeptAt(k, q)
  BY <1>2, SyncMapAssumption DEF KeptAt, Referred, Map
<1>4. \A k \in K : Content(k)' \in Values
  BY <1>1 DEF Content, Value, Values, PType, Map
<1>5. \A k \in K : SeenAt(k)
  BY DEF Entries, SeenAt, Pend
<1>6. seen' \in [G -> [K -> SUBSET Values]]
  <2>1. seen \in [G -> [K -> SUBSET Values]]
    BY DEF TypeOK, Values
  <2>2. \A h \in G, k \in K : seen'[h][k] \in SUBSET Values
    BY <1>4, <1>5, <2>1 DEF SeenAt
  <2>3. seen' = [g \in G |-> [k \in K |-> seen'[g][k]]]
    BY DEF Entries
  <2>4. QED  BY <2>2, <2>3
<1>7. QED  BY <1>1, <1>3, <1>5, <1>6

\* A key none of whose entries changes, while read may become amended.
LEMMA SameAt ==
    ASSUME NEW k \in K, NEW q, TypeOK, HalvesAt(k), KeptAt(k, q), q[k] = p[k],
           read'[k] = read[k], dirty'[k] = dirty[k], isNil' = isNil, amended => amended',
           amended \in BOOLEAN, amended' \in BOOLEAN, k \in todo' <=> k \in todo
    PROVE  Moves(k, Content(k))
<1>1. read[k] \in Entry \cup {None} /\ dirty[k] \in Entry \cup {None}
  BY DEF TypeOK, Map
<1>2. HalvesAt(k)'
  BY DEF HalvesAt, KeptAt
<1>3. Content(k)' = Content(k)
  BY DEF HalvesAt, KeptAt, Content, Value
<1>4. \A x \in Entry : (\E h \in G : e'[h][k] = x) => p'[k][x] = p[k][x]
  BY DEF KeptAt
<1>5. QED  BY <1>2, <1>3, <1>4 DEF Moves, Value, Reached

\* Promotion: dirty has all that read had, and what was expunged is gone.
LEMMA PromoteAt ==
    ASSUME NEW k \in K, NEW q, TypeOK, HalvesAt(k), KeptAt(k, q), q[k] = p[k],
           Promote, amended, ~isNil, k \notin todo, k \notin todo'
    PROVE  Moves(k, Content(k))
<1>1. read'[k] = dirty[k] /\ ~amended' /\ dirty'[k] = None /\ isNil'
  BY DEF Promote, Promoted, Empty
<1>2. HalvesAt(k)'
  BY <1>1 DEF HalvesAt, KeptAt
<1>3. Content(k)' = Content(k)
  BY <1>1 DEF HalvesAt, KeptAt, Content, Value
<1>4. \A x \in Entry : (\E h \in G : e'[h][k] = x) => p'[k][x] = p[k][x]
  BY DEF KeptAt
<1>5. \A x \in Entry : Reached(k, x) /\ p'[k][x] = p[k][x] => Reached(k, x)'
  BY <1>1, SyncMapAssumption DEF Reached, HalvesAt
<1>6. QED  BY <1>2, <1>3, <1>4, <1>5 DEF Moves, Value

\* A write to the entry that lookups find.
LEMMA WriteAt ==
    ASSUME NEW k \in K, NEW q \in PType, NEW x \in Entry, NEW v \in V \cup {Nil},
           TypeOK, HalvesAt(k), KeptAt(k, q), q[k] = [p[k] EXCEPT ![x] = v],
           p[k][x] # Expunged,
           x = read[k] \/ (read[k] = None /\ amended /\ x = dirty[k]),
           read'[k] = read[k], dirty'[k] = dirty[k], isNil' = isNil, amended' = amended,
           k \in todo' <=> k \in todo
    PROVE  Moves(k, IF v = Nil THEN Absent ELSE v)
<1>1. /\ read[k] \in Entry \cup {None} /\ dirty[k] \in Entry \cup {None} /\ x # None
      /\ v # Expunged /\ p[k] \in [Entry -> V \cup {Nil, Expunged}]
  BY SyncMapAssumption DEF TypeOK, Map
<1>2. \A y \in Entry : q[k][y] = IF y = x THEN v ELSE p[k][y]
  BY <1>1
<1>3. HalvesAt(k)'
  BY <1>1, <1>2 DEF HalvesAt, KeptAt
<1>4. Content(k)' = IF v = Nil THEN Absent ELSE v
  BY <1>1, <1>2, SyncMapAssumption DEF KeptAt, Content, Value
<1>5. \A y \in Entry : (\E h \in G : e'[h][k] = y) => p'[k][y] = IF y = x THEN v ELSE p[k][y]
  BY <1>2 DEF KeptAt
<1>6. \A y \in Entry : p'[k][y] = (IF y = x THEN v ELSE p[k][y]) => (Reached(k, y) => Reached(k, y)')
  BY <1>1 DEF Reached
<1>7. \A y \in Entry : p'[k][y] = (IF y = x THEN v ELSE p[k][y])
                       => Value(k, y)' \in {Value(k, y), IF v = Nil THEN Absent ELSE v}
  BY <1>1, SyncMapAssumption DEF Value
<1>8. QED  BY <1>3, <1>4, <1>5, <1>6, <1>7 DEF Moves

\* Delete under the lock: a key outside read is taken out of dirty.
LEMMA DropAt ==
    ASSUME NEW k \in K, NEW q, TypeOK, HalvesAt(k), KeptAt(k, q), q[k] = p[k],
           read[k] = None, read'[k] = None, dirty'[k] = None, isNil' = isNil,
           amended' = amended, k \in todo' <=> k \in todo
    PROVE  Moves(k, Absent)
<1>1. HalvesAt(k)'
  BY DEF HalvesAt
<1>2. Content(k)' = Absent
  BY DEF Content, Value
<1>3. \A x \in Entry : (\E h \in G : e'[h][k] = x) => p'[k][x] = p[k][x]
  BY DEF KeptAt
<1>4. QED  BY <1>1, <1>2, <1>3 DEF Moves, Value, Reached

\* unexpungeLocked: the entry goes back to dirty, and is still absent.
LEMMA UnexpungeAt ==
    ASSUME NEW k \in K, NEW q \in PType, TypeOK, HalvesAt(k), KeptAt(k, q),
           read[k] # None, p[k][read[k]] = Expunged, q[k] = [p[k] EXCEPT ![read[k]] = Nil],
           read'[k] = read[k], dirty'[k] = read[k], ~isNil, ~isNil', amended' = amended,
           k \notin todo, k \notin todo'
    PROVE  Moves(k, Content(k))
<1>1. read[k] \in Entry /\ p[k] \in [Entry -> V \cup {Nil, Expunged}] /\ Nil # Expunged
  BY SyncMapAssumption DEF TypeOK, Map
<1>2. \A y \in Entry : q[k][y] = IF y = read[k] THEN Nil ELSE p[k][y]
  BY <1>1
<1>3. HalvesAt(k)'
  BY <1>1, <1>2 DEF HalvesAt, KeptAt
<1>4. Content(k)' = Content(k)
  BY <1>1, <1>2 DEF KeptAt, Content, Value
<1>5. \A y \in Entry : (\E h \in G : e'[h][k] = y)
                       => p'[k][y] = IF y = read[k] THEN Nil ELSE p[k][y]
  BY <1>2 DEF KeptAt
<1>6. QED  BY <1>1, <1>3, <1>4, <1>5 DEF Moves, Value, Reached

\* dirtyLocked makes a dirty map, with every key of read still to copy.
LEMMA StartAt ==
    ASSUME NEW k \in K, NEW q, TypeOK, HalvesAt(k), KeptAt(k, q), q[k] = p[k],
           isNil, ~isNil', ~amended, ~amended', read'[k] = read[k], dirty'[k] = dirty[k],
           k \in todo' <=> read[k] # None
    PROVE  Moves(k, Content(k))
<1>1. HalvesAt(k)'
  BY DEF HalvesAt, KeptAt
<1>2. Content(k)' = Content(k)
  BY DEF KeptAt, Content, Value
<1>3. \A x \in Entry : (\E h \in G : e'[h][k] = x) => p'[k][x] = p[k][x]
  BY DEF KeptAt
<1>4. QED  BY <1>1, <1>2, <1>3 DEF Moves, Value, Reached

\* A turn of the loop of dirtyLocked: what is deleted is expunged and not copied.
LEMMA CopyAt ==
    ASSUME NEW k \in K, NEW q \in PType, TypeOK, HalvesAt(k), KeptAt(k, q),
           k \in todo, k \notin todo', ~isNil, ~isNil', amended' = amended, read'[k] = read[k],
           q[k] = [p[k] EXCEPT ![read[k]] = Expunge(k, read[k])],
           dirty'[k] = IF Expunge(k, read[k]) = Expunged THEN dirty[k] ELSE read[k]
    PROVE  Moves(k, Content(k))
<1>1. /\ read[k] \in Entry /\ read[k] # None /\ dirty[k] = None
      /\ p[k] \in [Entry -> V \cup {Nil, Expunged}] /\ Nil # Expunged
  BY SyncMapAssumption DEF TypeOK, Map, HalvesAt
<1>2. \A y \in Entry : q[k][y] = IF y = read[k] THEN Expunge(k, read[k]) ELSE p[k][y]
  BY <1>1
<1>3. p'[k][read[k]] = Expunge(k, read[k])
  BY <1>1, <1>2 DEF KeptAt
<1>4. HalvesAt(k)'
  BY <1>1, <1>3 DEF HalvesAt
<1>5. Content(k)' = Content(k)
  BY <1>1, <1>3 DEF Content, Value, Expunge
<1>6. \A y \in Entry : (\E h \in G : e'[h][k] = y)
                       => p'[k][y] = IF y = read[k] THEN Expunge(k, read[k]) ELSE p[k][y]
  BY <1>2 DEF KeptAt
<1>7. QED  BY <1>1, <1>4, <1>5, <1>6 DEF Moves, Value, Reached, Expunge

\* A new entry, in dirty only, for a key that has none.
LEMMA NewAt ==
    ASSUME NEW k \in K, NEW q \in PType, NEW y \in Entry, NEW v \in V, TypeOK, HalvesAt(k),
           KeptAt(k, q), q[k] = [p[k] EXCEPT ![y] = v], y \notin Referred(k), e' = e,
           read[k] = None, read'[k] = None, dirty'[k] = y, amended', ~isNil, ~isNil',
           k \notin todo, k \notin todo'
    PROVE  Moves(k, v)
<1>1. y # None /\ p[k] \in [Entry -> V \cup {Nil, Expunged}] /\ v \notin {Nil, Expunged}
  BY SyncMapAssumption DEF TypeOK
<1>2. \A x \in Entry : q[k][x] = IF x = y THEN v ELSE p[k][x]
  BY <1>1
<1>3. p'[k][y] = v
  BY <1>1, <1>2 DEF KeptAt
<1>4. HalvesAt(k)'
  BY <1>1, <1>3 DEF HalvesAt
<1>5. Content(k)' = v
  BY <1>1, <1>3 DEF Content, Value
<1>6. \A x \in Entry : (\E h \in G : e'[h][k] = x) => p'[k][x] = p[k][x]
  BY <1>2 DEF KeptAt, Referred
<1>7. QED  BY <1>1, <1>4, <1>5, <1>6 DEF Moves, Value, Reached

\* LoadOrStore under the lock: a write to an entry of dirty that is promoted with it.
LEMMA PromoteWriteAt ==
    ASSUME NEW k \in K, NEW q \in PType, NEW v \in V, TypeOK, HalvesAt(k), KeptAt(k, q),
           read[k] = None, dirty[k] # None, q[k] = [p[k] EXCEPT ![dirty[k]] = v],
           Promote, k \notin todo, k \notin todo'
    PROVE  Moves(k, v)
<1>1. /\ dirty[k] \in Entry /\ p[k] \in [Entry -> V \cup {Nil, Expunged}]
      /\ v \notin {Nil, Expunged}
      /\ read'[k] = dirty[k] /\ ~amended' /\ dirty'[k] = None /\ isNil'
  BY SyncMapAssumption DEF TypeOK, Map, Promote, Promoted, Empty
<1>2. \A x \in Entry : q[k][x] = IF x = dirty[k] THEN v ELSE p[k][x]
  BY <1>1
<1>3. p'[k][dirty[k]] = v
  BY <1>1, <1>2 DEF KeptAt
<1>4. HalvesAt(k)'
  BY <1>1, <1>3 DEF HalvesAt
<1>5. Content(k)' = v
  BY <1>1, <1>3 DEF Content, Value
<1>6. \A x \in Entry : (\E h \in G : e'[h][k] = x)
                       => p'[k][x] = IF x = dirty[k] THEN v ELSE p[k][x]
  BY <1>2 DEF KeptAt
<1>7. QED  BY <1>1, <1>4, <1>5, <1>6, SyncMapAssumption DEF Moves, Value, Reached

-----------------------------------------------------------------------------
\* What a step does to the goroutines.

\* The goroutine h has no part in the step.
Apart(h) ==
    /\ pc'[h] = pc[h] /\ call'[h] = call[h] /\ e'[h] = e[h] /\ result'[h] = result[h]
    /\ mu' = h <=> mu = h

\* A step of g that leaves the entries as q, up to what it does to its own call.
StepBy(g, q) ==
    /\ q \in PType /\ Entries(q)
    /\ read' \in Map /\ dirty' \in Map /\ amended' \in BOOLEAN /\ isNil' \in BOOLEAN
    /\ misses' \in Nat /\ misses' < Cardinality(K)
    /\ mu' \in G \cup {NoG} /\ todo' \subseteq K /\ program' = program
    /\ pc' \in [G -> Labels] /\ call' \in [G -> AnyCall \cup {NoCall}] /\ e' \in [G -> Map]
    /\ result' \in [G -> [K -> V \cup {Absent, Unknown}]]
    /\ \A h \in G \ {g} : Apart(h)
    /\ amended' => ~isNil'
    /\ mu' = NoG => todo' = {}

\* The call of g fits the state again.
Fits(g) == Shape(g)' /\ \A k \in K : Reaching(g, k)' /\ Witnessed(g, k)'

\* A goroutine that takes no part in the step stays consistent, and witnesses it.
LEMMA Bystander ==
    ASSUME IInv, NEW h \in G, NEW k \in K, NEW w, Apart(h), Moves(k, w), SeenAt(k)
    PROVE  Reaching(h, k)' /\ Witnessed(h, k)'
<1>1. e[h][k] \in Entry \cup {None} /\ None \notin Entry
  BY SyncMapAssumption DEF IInv, TypeOK, Map
<1>2. Pend(h)' = Pend(h)
  BY DEF Apart, Pend
<1>3. seen'[h][k] = IF k \in Pend(h) THEN seen[h][k] \cup {w} ELSE {}
  BY <1>2 DEF SeenAt, Moves
<1>4. PICK x \in Entry \cup {None} : e[h][k] = x /\ e'[h][k] = x
  BY <1>1 DEF Apart
<1>5. x # None => /\ Value(k, x)' \in {Value(k, x), w}
                  /\ Reached(k, x) => Reached(k, x)'
  BY <1>4 DEF Moves
<1>6. Reaching(h, k) /\ Witnessed(h, k)
  BY DEF IInv
<1>7. Reaching(h, k)'
  BY <1>4, <1>5, <1>6 DEF Reaching, Reached, Apart, Op
<1>8. pc'[h] = "entry" /\ k \in Pend(h) => Value(k, x)' \in seen'[h][k]
  BY <1>3, <1>4, <1>5, <1>6 DEF Witnessed, Value, Apart
<1>9. Value(k, x)' = Value(k, e[h][k])'
  BY <1>4 DEF Value
<1>10. Content(k)' = w
  BY DEF Moves
<1>11. QED  BY <1>2, <1>3, <1>7, <1>8, <1>9, <1>10 DEF Witnessed

\* So does its control.
LEMMA BystanderShape ==
    ASSUME NEW h \in G, Shape(h), Apart(h)
    PROVE  Shape(h)'
<1>1. Pend(h)' = Pend(h)
  BY DEF Apart, Pend
<1>2. QED  BY <1>1 DEF Apart, Shape, Op, Nothing

\* What an action has to show for the invariant.
LEMMA Assembled ==
    ASSUME IInv, NEW g \in G, NEW q, StepBy(g, q), Fits(g), \A h \in G : Holder(h)',
           \A k \in K : \E w : Moves(k, w)
    PROVE  IInv'
<1>1. /\ p' \in PType /\ seen' \in [G -> [K -> SUBSET Values]]
      /\ \A k \in K : SeenAt(k)
  BY EntriesStep DEF StepBy, IInv
<1>2. TypeOK'
  BY <1>1 DEF StepBy, TypeOK, IInv, PType, Values, Labels
<1>3. \A h \in G : Shape(h)'
  BY BystanderShape DEF Fits, StepBy, IInv
<1>4. \A k \in K : HalvesAt(k)'
  BY DEF Moves
<1>5. \A h \in G, k \in K : Reaching(h, k)' /\ Witnessed(h, k)'
  <2>1. SUFFICES ASSUME NEW h \in G, NEW k \in K PROVE Reaching(h, k)' /\ Witnessed(h, k)'
    OBVIOUS
  <2>2. PICK w : Moves(k, w)
    OBVIOUS
  <2>3. CASE h = g
    BY <2>3 DEF Fits
  <2>4. CASE h # g
    BY <1>1, <2>2, <2>4, Bystander DEF StepBy
  <2>5. QED  BY <2>3, <2>4
<1>6. QED  BY <1>2, <1>3, <1>4, <1>5 DEF IInv, StepBy

\* Those under the lock are not disturbed by steps of others.
LEMMA HoldersKept ==
    ASSUME IInv, NEW g \in G, NEW q, StepBy(g, q), UNCHANGED <<shared, todo>>, Shape(g)',
           pc[g] \notin {"copy", "update"},
           \A k \in K : read[k] # None /\ p[k][read[k]] # Expunged => q[k][read[k]] # Expunged
    PROVE  \A h \in G : Holder(h)'
<1>1. \A k \in K : KeptAt(k, q)
  BY EntriesStep DEF StepBy, IInv
<1>2. SUFFICES ASSUME NEW h \in G PROVE Holder(h)'
  OBVIOUS
<1>3. CASE h = g
  BY <1>3 DEF Shape, Holder, IInv, shared
<1>4. CASE h # g
  <2>1. Apart(h) /\ Holder(h) /\ Shape(h)
    BY <1>4 DEF StepBy, IInv
  <2>2. \A k \in K : read[k] # None /\ p[k][read[k]] # Expunged => p'[k][read'[k]] # Expunged
    BY <1>1 DEF KeptAt, shared
  <2>3. pc[h] # "idle" => call[h].keys \subseteq K
    BY <2>1 DEF Shape, AnyCall
  <2>4. QED  BY <2>1, <2>2, <2>3 DEF Holder, Apart, shared
<1>5. QED  BY <1>3, <1>4

\* With the lock free, or in the hands of g, nobody else is under it.
LEMMA NoOtherHolder ==
    ASSUME IInv, NEW g \in G, NEW q, StepBy(g, q), mu \in {NoG, g}, Holder(g)'
    PROVE  \A h \in G : Holder(h)'
<1>1. SUFFICES ASSUME NEW h \in G \ {g} PROVE Holder(h)'
  OBVIOUS
<1>2. pc[h] \notin {"copy", "update"}
  BY SyncMapAssumption DEF IInv, Shape
<1>3. QED  BY <1>2 DEF StepBy, Apart, Holder

\* The key of a call on one key.
LEMMA KeyIs ==
    ASSUME NEW g \in G, NEW k, call[g].keys = {k}
    PROVE  Key(g) = k
  BY DEF Key

-----------------------------------------------------------------------------
\* What a step is in the atomic map.

\* The abstract calls have the same keys to report on.
LEMMA PendingIs ==
    ASSUME NEW g \in G, Shape(g)
    PROVE  Atomic!Pending(g) = Pend(g)
<1>1. call[g] # NoCall => call[g].keys \subseteq K
  BY DEF Shape, AnyCall
<1>2. QED  BY <1>1 DEF Atomic!Pending, Atomic!Keys, Pend

\* What is seen of a key that the step leaves as it is.
LEMMA SeenSame ==
    ASSUME IInv, NEW h \in G, NEW k \in K, Content(k)' = Content(k), SeenAt(k),
           k \in Pend(h)' <=> k \in Pend(h)
    PROVE  seen'[h][k] = seen[h][k]
  BY DEF IInv, Witnessed, SeenAt

\* A step that reports nothing and changes no mapping is none of the atomic map's.
LEMMA QuietStep ==
    ASSUME IInv, NEW g \in G, NEW q, StepBy(g, q), call' = call, result' = result,
           \A k \in K : Moves(k, Content(k))
    PROVE  UNCHANGED Atomic!vars
<1>1. seen' \in [G -> [K -> SUBSET Values]] /\ \A k \in K : SeenAt(k)
  BY EntriesStep DEF StepBy, IInv
<1>2. \A k \in K : Content(k)' = Content(k)
  BY DEF Moves
<1>3. \A h \in G : Pend(h)' = Pend(h)
  BY DEF Pend
<1>4. \A h \in G, k \in K : seen'[h][k] = seen[h][k]
  BY <1>1, <1>2, <1>3, SeenSame
<1>5. seen \in [G -> [K -> SUBSET Values]]
  BY DEF IInv, TypeOK, Values
<1>6. seen' = seen
  BY <1>1, <1>4, <1>5
<1>7. [k \in K |-> Content(k)]' = [k \in K |-> Content(k)]
  BY <1>2
<1>8. QED  BY <1>6, <1>7 DEF Atomic!vars

\* A call that maps its key to v and reports it.
LEMMA PutStep ==
    ASSUME IInv, NEW g \in G, NEW q, StepBy(g, q), NEW k \in Pend(g), NEW v \in Values,
           call' = call, result' = [result EXCEPT ![g][k] = v],
           Moves(k, v), \A j \in K \ {k} : Moves(j, Content(j))
    PROVE  Atomic!Put(g, k, v)
<1>0. k \in K /\ v # Unknown
  BY SyncMapAssumption DEF Pend, Values
<1>1. seen' \in [G -> [K -> SUBSET Values]] /\ \A j \in K : SeenAt(j)
  BY EntriesStep DEF StepBy, IInv
<1>2. Content(k)' = v /\ \A j \in K \ {k} : Content(j)' = Content(j)
  BY DEF Moves
<1>3. /\ \A h \in G \ {g} : Pend(h)' = Pend(h)
      /\ Pend(g)' = Pend(g) \ {k}
  BY <1>0 DEF Pend, IInv, TypeOK
<1>4. \A h \in G, j \in K \ {k} : seen'[h][j] = seen[h][j]
  BY <1>1, <1>2, <1>3, SeenSame
<1>5. seen \in [G -> [K -> SUBSET Values]]
  BY DEF IInv, TypeOK, Values
<1>6. \A h \in G : seen'[h][k] = IF h = g THEN {}
                   ELSE IF k \in Pend(h) THEN seen[h][k] \cup {v} ELSE seen[h][k]
  <2>1. \A h \in G : k \notin Pend(h) => seen[h][k] = {}
    BY <1>0 DEF IInv, Witnessed
  <2>2. \A h \in G : seen'[h][k] = IF k \in Pend(h)' THEN seen[h][k] \cup {v} ELSE {}
    BY <1>0, <1>1, <1>2 DEF SeenAt
  <2>3. \A h \in G : k \in Pend(h)' <=> h # g /\ k \in Pend(h)
    BY <1>3
  <2>4. QED  BY <2>1, <2>2, <2>3
<1>7. seen' = [h \in G |-> [seen[h] EXCEPT ![k] =
                  IF h = g THEN {} ELSE IF k \in Pend(h) THEN @ \cup {v} ELSE @]]
  <2> DEFINE N(h) == [seen[h] EXCEPT ![k] =
                         IF h = g THEN {} ELSE IF k \in Pend(h) THEN @ \cup {v} ELSE @]
  <2>1. \A h \in G : seen'[h] = N(h)
    <3>1. SUFFICES ASSUME NEW h \in G PROVE seen'[h] = N(h)
      OBVIOUS
    <3>2. seen[h] \in [K -> SUBSET Values] /\ seen'[h] \in [K -> SUBSET Values]
      BY <1>1, <1>5
    <3>3. \A j \in K : seen'[h][j] = N(h)[j]
      BY <1>0, <1>4, <1>6, <3>2
    <3>4. seen'[h] = [j \in K |-> seen'[h][j]] /\ N(h) = [j \in K |-> N(h)[j]]
      BY <3>2
    <3>5. QED  BY <3>3, <3>4
  <2>2. seen' = [h \in G |-> seen'[h]]
    BY <1>1
  <2>3. QED  BY <2>1, <2>2
<1>8. [j \in K |-> Content(j)]' = [[j \in K |-> Content(j)] EXCEPT ![k] = v]
  BY <1>0, <1>2
<1>9. \A h \in G : Atomic!Pending(h) = Pend(h)
  BY PendingIs DEF IInv
<1>10. QED  BY <1>7, <1>8, <1>9 DEF Atomic!Put

\* A call that reports what a key has been mapped to.
LEMMA ReportStep ==
    ASSUME IInv, NEW g \in G, NEW q, StepBy(g, q), NEW k \in Pend(g), NEW v \in seen[g][k],
           call' = call, result' = [result EXCEPT ![g][k] = v], \A j \in K : Moves(j, Content(j)),
           \/ Op(g) \in {"Load", "Range"}
           \/ Op(g) = "Delete" /\ v = Absent
           \/ Op(g) = "LoadOrStore" /\ v # Absent
    PROVE  Atomic!Report(g, k, v) /\ v \in Values
<1>0. k \in K
  BY DEF Pend
<1>1. seen \in [G -> [K -> SUBSET Values]]
  BY DEF IInv, TypeOK, Values
<1>2. v \in Values /\ v # Unknown
  BY <1>0, <1>1, SyncMapAssumption DEF Values
<1>3. seen' \in [G -> [K -> SUBSET Values]] /\ \A j \in K : SeenAt(j)
  BY EntriesStep DEF StepBy, IInv
<1>4. \A j \in K : Content(j)' = Content(j)
  BY DEF Moves
<1>5. /\ \A h \in G \ {g} : Pend(h)' = Pend(h)
      /\ Pend(g)' = Pend(g) \ {k}
  BY <1>0, <1>2 DEF Pend, IInv, TypeOK
<1>6. \A h \in G, j \in K : ~(h = g /\ j = k) => seen'[h][j] = seen[h][j]
  BY <1>3, <1>4, <1>5, SeenSame
<1>7. seen'[g][k] = {}
  BY <1>0, <1>3, <1>5 DEF SeenAt
<1>8. seen' = [seen EXCEPT ![g][k] = {}]
  BY <1>0, <1>1, <1>3, <1>6, <1>7
<1>9. [j \in K |-> Content(j)]' = [j \in K |-> Content(j)]
  BY <1>4
<1>10. k \in Atomic!Pending(g)
  BY PendingIs DEF IInv
<1>11. QED  BY <1>2, <1>8, <1>9, <1>10 DEF Atomic!Report, Op

-----------------------------------------------------------------------------
\* The actions.

\* A step that leaves both halves and all entries alone.
LEMMA StayStep ==
    ASSUME IInv, NEW g \in G, StepBy(g, p), UNCHANGED <<shared, todo>>
    PROVE  /\ \A k \in K : Moves(k, Content(k)) /\ SeenAt(k)
           /\ Shape(g)' /\ pc[g] \notin {"copy", "update"} => \A h \in G : Holder(h)'
<1>1. \A k \in K : KeptAt(k, p) /\ SeenAt(k)
  BY EntriesStep DEF StepBy, IInv
<1>2. \A k \in K : Moves(k, Content(k))
  BY <1>1, SameAt DEF IInv, StepBy, shared, TypeOK
<1>3. QED  BY <1>1, <1>2, HoldersKept

\* A call begins: it has what the atomic map holds to witness.
LEMMA BeginStep ==
    ASSUME IInv, NEW g \in G, Begin(g), UNCHANGED program
    PROVE  IInv' /\ Atomic!Next
<1>1. PICK o \in program[g], k \in K :
          /\ call' = [call EXCEPT ![g] = [op |-> o.op, val |-> o.val,
                                          keys |-> IF o.op = "Range" THEN K ELSE {k}]]
          /\ LET slow == CASE o.op \in {"Load", "Delete"} -> read[k] = None /\ amended
                           [] o.op = "Range" -> amended
                           [] OTHER -> read[k] = None
                 keys == IF o.op = "Range" THEN K ELSE {k}
             IN  /\ e' = [e EXCEPT ![g] = [j \in K |-> IF ~slow /\ j \in keys THEN read[j] ELSE None]]
                 /\ Goto(g, IF slow THEN "lock" ELSE "entry")
  BY DEF Begin
<1> DEFINE slow == CASE o.op \in {"Load", "Delete"} -> read[k] = None /\ amended
                     [] o.op = "Range" -> amended
                     [] OTHER -> read[k] = None
           keys == IF o.op = "Range" THEN K ELSE {k}
           c == [op |-> o.op, keys |-> keys, val |-> o.val]
<1>2. /\ pc[g] = "idle" /\ UNCHANGED <<shared, todo, result>> /\ Entries(p)
      /\ pc' = [pc EXCEPT ![g] = IF slow THEN "lock" ELSE "entry"]
      /\ call' = [call EXCEPT ![g] = c]
      /\ e' = [e EXCEPT ![g] = [j \in K |-> IF ~slow /\ j \in keys THEN read[j] ELSE None]]
  BY <1>1 DEF Begin, Goto
<1>3. o.op \in Ops /\ o.val \in V
  <2>1. program[g] \in SUBSET [op : Ops, val : V]
    BY SyncMapAssumption DEF IInv, TypeOK, Ops
  <2>2. QED  BY <2>1
<1>4. /\ slow \in BOOLEAN /\ keys \subseteq K /\ keys = IF o.op = "Range" THEN K ELSE {k}
      /\ ~slow => \A j \in keys : read[j] # None \/ ~amended
      /\ ~slow /\ o.op \in Setters => \A j \in keys : read[j] # None
  BY <1>3 DEF IInv, TypeOK, Ops, Setters
<1>5. c \in AnyCall /\ c # NoCall /\ c.op = o.op /\ c.keys = keys /\ c.val = o.val
  <2>1. c \in AnyCall /\ c.op = o.op /\ c.keys = keys /\ c.val = o.val
    BY <1>3, <1>4 DEF AnyCall
  <2>2. NoCall \notin AnyCall
    BY SyncMapAssumption DEF AnyCall, Ops
  <2>3. QED  BY <2>1, <2>2
<1> HIDE DEF slow, keys, c
<1>6. /\ pc'[g] = IF slow THEN "lock" ELSE "entry"
      /\ \A j \in K : e'[g][j] = IF ~slow /\ j \in keys THEN read[j] ELSE None
      /\ \A h \in G \ {g} : pc'[h] = pc[h] /\ e'[h] = e[h]
      /\ pc' \in [G -> Labels] /\ e' \in [G -> Map]
  BY <1>2, <1>4 DEF IInv, TypeOK, Labels, Map
<1>7. call'[g] = c /\ (\A h \in G \ {g} : call'[h] = call[h]) /\ call' \in [G -> AnyCall \cup {NoCall}]
  BY <1>2, <1>5 DEF IInv, TypeOK
<1>8. StepBy(g, p)
  BY <1>2, <1>6, <1>7 DEF StepBy, IInv, TypeOK, shared, PType, Apart
<1>9. result[g] = Nothing /\ call[g] = NoCall /\ mu # g
  BY <1>2 DEF IInv, Shape
<1>10. Pend(g)' = keys
  BY <1>2, <1>4, <1>5, <1>7, <1>9 DEF Pend, Nothing
<1>11. Shape(g)'
  BY <1>2, <1>4, <1>5, <1>6, <1>7, <1>9, <1>10 DEF Shape, Op, shared, Nothing, Setters
<1>12. (\A j \in K : Moves(j, Content(j)) /\ SeenAt(j)) /\ \A h \in G : Holder(h)'
  BY <1>2, <1>8, <1>11, StayStep
<1>13. \A j \in K : j \in keys /\ ~slow => Value(j, e[g][j])' = Content(j)'
  BY <1>2, <1>4, <1>6 DEF Value, Content, shared
<1>14. \A j \in K : Reaching(g, j)' /\ Witnessed(g, j)'
  <2>1. \A j \in K : Witnessed(g, j)'
    BY <1>6, <1>10, <1>12, <1>13 DEF Witnessed, SeenAt
  <2>2. \A j \in K : Reaching(g, j)'
    BY <1>2, <1>6, <1>7, <1>5 DEF Reaching, Reached, shared
  <2>3. QED  BY <2>1, <2>2
<1>15. IInv'
  BY <1>8, <1>11, <1>12, <1>14, Assembled DEF Fits
<1>16. Atomic!Begin(g, c)
  <2>1. [j \in K |-> Content(j)]' = [j \in K |-> Content(j)]
    BY <1>12 DEF Moves
  <2>2. seen \in [G -> [K -> SUBSET Values]] /\ seen' \in [G -> [K -> SUBSET Values]]
    BY <1>15 DEF IInv, TypeOK, Values
  <2>3. \A h \in G \ {g} : seen'[h] = seen[h]
    <3>1. \A h \in G \ {g} : Pend(h)' = Pend(h)
      BY <1>2, <1>7 DEF Pend
    <3>2. \A h \in G \ {g}, j \in K : seen'[h][j] = seen[h][j]
      BY <1>12, <3>1, SeenSame DEF Moves
    <3>3. QED  BY <2>2, <3>2
  <2>4. \A j \in K : seen'[g][j] = IF j \in keys THEN {Content(j)} ELSE {}
    <3>1. \A j \in K : seen[g][j] = {}
      BY <1>9 DEF IInv, Witnessed, Pend
    <3>2. QED  BY <1>10, <1>12, <3>1 DEF SeenAt, Moves
  <2>5. seen'[g] = [j \in K |-> IF j \in keys THEN {Content(j)} ELSE {}]
    BY <2>2, <2>4
  <2>6. seen' = [seen EXCEPT ![g] = [j \in K |-> IF j \in keys THEN {Content(j)} ELSE {}]]
    BY <2>2, <2>3, <2>5
  <2>7. \A j \in K : [i \in K |-> Content(i)][j] = Content(j)
    OBVIOUS
  <2>8. [j \in K |-> IF j \in keys THEN {Content(j)} ELSE {}]
        = [j \in K |-> IF j \in c.keys THEN {[i \in K |-> Content(i)][j]} ELSE {}]
    BY <1>5, <2>7
  <2>9. QED  BY <1>2, <1>9, <2>1, <2>6, <2>8 DEF Atomic!Begin
<1>17. c \in [op : {"Load", "Store", "LoadOrStore", "Delete", "Range"}, keys : SUBSET K, val : V]
  BY <1>5 DEF AnyCall, Ops
<1>18. PICK op \in {"Load", "Store", "LoadOrStore", "Delete", "Range"}, s \in SUBSET K, v \in V :
           c = [op |-> op, keys |-> s, val |-> v]
  BY <1>17
<1>19. QED  BY <1>15, <1>16, <1>18 DEF Atomic!Next

\* A call on one key reports on it and is over.
LEMMA FinishFits ==
    ASSUME IInv, NEW g \in G, NEW k \in K, NEW v \in Values, call'[g] = call[g], call[g].keys = {k},
           pc[g] # "idle", pc'[g] = "return", \A j \in K : e'[g][j] = None, mu' # g, Op(g) # "Range",
           result' = [result EXCEPT ![g][k] = v], \A j \in K : SeenAt(j)
    PROVE  Fits(g)
<1>1. v # Unknown /\ result \in [G -> [K -> V \cup {Absent, Unknown}]]
  BY SyncMapAssumption DEF Values, IInv, TypeOK
<1>2. Shape(g)
  BY DEF IInv
<1>3. \A j \in K : result'[g][j] = IF j = k THEN v ELSE result[g][j]
  BY <1>1
<1>4. Pend(g)' = {}
  BY <1>1, <1>3 DEF Pend
<1>5. Shape(g)'
  BY <1>2, <1>3, <1>4 DEF Shape, Op
<1>6. \A j \in K : Reaching(g, j)' /\ Witnessed(g, j)'
  BY <1>4 DEF Reaching, Witnessed, SeenAt
<1>7. QED  BY <1>5, <1>6 DEF Fits

\* A call that still holds an entry may still report what is in it.
LEMMA StillWitnessed ==
    ASSUME IInv, NEW g \in G, NEW k \in K, NEW w, pc[g] = "entry", e'[g][k] = e[g][k],
           k \in Pend(g), Moves(k, w), SeenAt(k)
    PROVE  Witnessed(g, k)'
<1>1. PICK x \in Entry \cup {None} : e[g][k] = x /\ e'[g][k] = x
  BY DEF IInv, TypeOK, Map
<1>2. Witnessed(g, k)
  BY DEF IInv
<1>3. x # None => Value(k, x)' \in {Value(k, x), w}
  BY <1>1 DEF Moves
<1>4. x = None => Value(k, x)' = Value(k, x)
  BY DEF Value
<1>5. Value(k, x)' = Value(k, e[g][k])' /\ Value(k, x) = Value(k, e[g][k])
  BY <1>1 DEF Value
<1>6. Value(k, x) \in seen[g][k]
  BY <1>2, <1>5 DEF Witnessed
<1>7. k \in Pend(g)' => seen'[g][k] = seen[g][k] \cup {w}
  BY DEF SeenAt, Moves
<1>8. k \in Pend(g)' => Value(k, e[g][k])' \in seen'[g][k] /\ Content(k)' \in seen'[g][k]
  BY <1>3, <1>4, <1>5, <1>6, <1>7 DEF Moves
<1>9. QED  BY <1>8 DEF Witnessed, SeenAt

\* The steps of the atomic map, from its operations.
LEMMA AtomicPut ==
    ASSUME NEW g \in G, NEW k \in Pend(g), NEW v, Atomic!Put(g, k, v),
           \/ Op(g) = "Store" /\ v = call[g].val
           \/ Op(g) = "Delete" /\ v = Absent
           \/ Op(g) = "LoadOrStore" /\ v = call[g].val /\ Content(k) = Absent
    PROVE  Atomic!Next
<1>1. k \in Atomic!Keys(call[g]) /\ k \in K
  BY DEF Pend, Atomic!Keys
<1>2. [j \in K |-> Content(j)][k] = Content(k)
  BY <1>1
<1>3. Atomic!Store(g, k) \/ Atomic!Delete(g, k) \/ Atomic!StoreIfAbsent(g, k)
  BY <1>2 DEF Op, Atomic!Store, Atomic!Delete, Atomic!StoreIfAbsent
<1>4. QED  BY <1>1, <1>3 DEF Atomic!Next

\* Its reports.
LEMMA AtomicReport ==
    ASSUME NEW g \in G, NEW k \in Pend(g), NEW v \in Values, Atomic!Report(g, k, v)
    PROVE  Atomic!Next
<1>1. k \in Atomic!Keys(call[g])
  BY DEF Pend, Atomic!Keys
<1>2. QED  BY <1>1 DEF Atomic!Next, Values

\* e.load() of a Load or of one key of a Range.
LEMMA FindsStep ==
    ASSUME IInv, NEW g \in G, Finds(g), UNCHANGED program
    PROVE  IInv' /\ Atomic!Next
<1>1. PICK k \in {j \in call[g].keys : result[g][j] = Unknown} :
          /\ Reports(g, k, Value(k, e[g][k]))
          /\ Goto(g, IF \A j \in call[g].keys \ {k} : result[g][j] # Unknown THEN "return" ELSE "entry")
          /\ e' = [e EXCEPT ![g][k] = None]
  BY DEF Finds
<1> DEFINE v == Value(k, e[g][k])
           last == \A j \in call[g].keys \ {k} : result[g][j] # Unknown
<1>2. /\ pc[g] = "entry" /\ Op(g) \in {"Load", "Range"}
      /\ UNCHANGED <<shared, call, todo>> /\ Entries(p)
  BY DEF Finds
<1>3. /\ Shape(g) /\ call[g] \in AnyCall /\ call[g] # NoCall
      /\ IF Op(g) = "Range" THEN call[g].keys = K ELSE \E j \in K : call[g].keys = {j}
  BY <1>2 DEF IInv, Shape
<1>4. k \in K /\ k \in Pend(g) /\ k \in call[g].keys
  BY <1>3 DEF Pend, AnyCall
<1>5. v \in Values /\ v # Unknown /\ v \in seen[g][k]
  <2>1. e[g][k] \in Entry \cup {None}
    BY <1>4 DEF IInv, TypeOK, Map
  <2>2. v \in Values
    BY <1>4, <2>1, ValueType DEF IInv
  <2>3. v \in seen[g][k]
    BY <1>2, <1>4 DEF IInv, Witnessed
  <2>4. QED  BY <2>2, <2>3, SyncMapAssumption DEF Values
<1>6. /\ pc' = [pc EXCEPT ![g] = IF last THEN "return" ELSE "entry"]
      /\ result' = [result EXCEPT ![g][k] = v]
      /\ last <=> \A j \in call[g].keys \ {k} : result[g][j] # Unknown
      /\ last \in BOOLEAN
  BY <1>1 DEF Goto, Reports
<1> HIDE DEF v, last
<1>7. /\ \A h \in G \ {g} : pc'[h] = pc[h] /\ e'[h] = e[h] /\ result'[h] = result[h]
      /\ pc'[g] = IF last THEN "return" ELSE "entry"
      /\ \A j \in K : e'[g][j] = IF j = k THEN None ELSE e[g][j]
      /\ \A j \in K : result'[g][j] = IF j = k THEN v ELSE result[g][j]
      /\ pc' \in [G -> Labels] /\ e' \in [G -> Map]
      /\ result' \in [G -> [K -> V \cup {Absent, Unknown}]]
  BY <1>1, <1>4, <1>5, <1>6 DEF IInv, TypeOK, Labels, Map, Values
<1>8. StepBy(g, p)
  BY <1>2, <1>7 DEF StepBy, IInv, TypeOK, shared, PType, Apart
<1>9. Pend(g)' = Pend(g) \ {k}
  BY <1>2, <1>5, <1>7 DEF Pend
<1>10. last => Pend(g)' = {}
  BY <1>2, <1>5, <1>6, <1>7 DEF Pend
<1>11. Op(g) = "Load" => last
  BY <1>3, <1>4, <1>6
<1>12. mu' # g
  BY <1>2, <1>3 DEF Shape, shared
<1>13. Shape(g)'
  BY <1>2, <1>3, <1>4, <1>7, <1>9, <1>10, <1>11, <1>12 DEF Shape, Op, Setters
<1>14. (\A j \in K : Moves(j, Content(j)) /\ SeenAt(j)) /\ \A h \in G : Holder(h)'
  BY <1>2, <1>8, <1>13, StayStep
<1>15. \A j \in K : Witnessed(g, j)'
  <2>1. SUFFICES ASSUME NEW j \in K PROVE Witnessed(g, j)'
    OBVIOUS
  <2>2. CASE j \in Pend(g)'
    BY <1>2, <1>7, <1>9, <1>14, <2>2, StillWitnessed
  <2>3. CASE j \notin Pend(g)'
    BY <1>14, <2>3 DEF Witnessed, SeenAt
  <2>4. QED  BY <2>2, <2>3
<1>16. \A j \in K : Reaching(g, j)'
  BY <1>2 DEF Reaching, Op, Setters
<1>17. IInv'
  BY <1>8, <1>13, <1>14, <1>15, <1>16, Assembled DEF Fits
<1>18. Atomic!Report(g, k, v)
  BY <1>2, <1>4, <1>5, <1>6, <1>8, <1>14, ReportStep
<1>19. QED  BY <1>4, <1>5, <1>17, <1>18, AtomicReport

\* A call returns.
LEMMA ReturnStep ==
    ASSUME IInv, NEW g \in G, Return(g), UNCHANGED program
    PROVE  IInv' /\ Atomic!Next
<1>1. /\ pc[g] = "return" /\ UNCHANGED <<shared, e, todo>> /\ Entries(p)
      /\ pc' = [pc EXCEPT ![g] = "idle"]
      /\ call' = [call EXCEPT ![g] = NoCall]
      /\ result' = [result EXCEPT ![g] = Nothing]
  BY DEF Return, Goto
<1>2. Shape(g) /\ call[g] # NoCall /\ Pend(g) = {} /\ \A k \in K : e[g][k] = None
  BY <1>1 DEF IInv, Shape
<1>3. /\ \A h \in G \ {g} : pc'[h] = pc[h] /\ call'[h] = call[h] /\ result'[h] = result[h]
      /\ pc'[g] = "idle" /\ call'[g] = NoCall /\ result'[g] = Nothing
      /\ pc' \in [G -> Labels] /\ call' \in [G -> AnyCall \cup {NoCall}]
      /\ result' \in [G -> [K -> V \cup {Absent, Unknown}]]
  BY <1>1 DEF IInv, TypeOK, Labels, Nothing
<1>4. StepBy(g, p)
  BY <1>1, <1>3 DEF StepBy, IInv, TypeOK, shared, PType, Apart
<1>5. Pend(g)' = {}
  BY <1>3 DEF Pend
<1>6. Shape(g)'
  BY <1>1, <1>2, <1>3, <1>5 DEF Shape, Nothing, shared
<1>7. (\A j \in K : Moves(j, Content(j)) /\ SeenAt(j)) /\ \A h \in G : Holder(h)'
  BY <1>1, <1>4, <1>6, StayStep
<1>8. \A j \in K : Witnessed(g, j)' /\ Reaching(g, j)'
  BY <1>3, <1>5, <1>7 DEF Witnessed, SeenAt, Reaching
<1>9. IInv'
  BY <1>4, <1>6, <1>7, <1>8, Assembled DEF Fits
<1>10. Atomic!Return(g)
  <2>1. [j \in K |-> Content(j)]' = [j \in K |-> Content(j)]
    BY <1>7 DEF Moves
  <2>2. seen \in [G -> [K -> SUBSET Values]] /\ seen' \in [G -> [K -> SUBSET Values]]
    BY <1>9 DEF IInv, TypeOK, Values
  <2>3. \A h \in G : Pend(h)' = Pend(h)
    BY <1>2, <1>3, <1>5 DEF Pend
  <2>4. \A h \in G, j \in K : seen'[h][j] = seen[h][j]
    BY <1>7, <2>3, SeenSame DEF Moves
  <2>5. seen' = seen
    BY <2>2, <2>4
  <2>6. Atomic!Pending(g) = {}
    BY <1>2, PendingIs
  <2>7. QED  BY <1>1, <1>2, <2>1, <2>5, <2>6 DEF Atomic!Return, Nothing
<1>11. QED  BY <1>9, <1>10 DEF Atomic!Next

\* A call on one key.
LEMMA OneKey ==
    ASSUME IInv, NEW g \in G, pc[g] # "idle", Op(g) # "Range"
    PROVE  /\ Shape(g) /\ call[g] \in AnyCall /\ call[g] # NoCall
           /\ Key(g) \in K /\ call[g].keys = {Key(g)}
           /\ pc[g] # "return" => Key(g) \in Pend(g) /\ Pend(g) = {Key(g)} /\ result[g] = Nothing
<1>1. /\ Shape(g) /\ call[g] \in AnyCall /\ call[g] # NoCall
      /\ \E k \in K : call[g].keys = {k}
  BY DEF IInv, Shape
<1>2. PICK k \in K : call[g].keys = {k}
  BY <1>1
<1>3. Key(g) = k
  BY <1>2, KeyIs
<1>4. pc[g] # "return" => result[g] = Nothing
  BY <1>1 DEF Shape
<1>5. result[g] = Nothing => Pend(g) = {k}
  BY <1>1, <1>2 DEF Pend, Nothing
<1>6. QED  BY <1>1, <1>2, <1>3, <1>4, <1>5

\* q is p with v in the entry x of k, which is the one that lookups find.
Written(q, k, x, v) ==
    /\ q = [p EXCEPT ![k][x] = v]
    /\ p[k][x] # Expunged
    /\ x = read[k] \/ (read[k] = None /\ amended /\ x = dirty[k])

\* A write of v to the entry of k that lookups find, with both halves left alone.
LEMMA WriteStep ==
    ASSUME IInv, NEW g \in G, NEW k \in K, NEW x \in Entry, NEW v \in V \cup {Nil},
           NEW q, StepBy(g, q), Written(q, k, x, v),
           UNCHANGED <<read, amended, dirty, isNil, todo>>
    PROVE  /\ Moves(k, IF v = Nil THEN Absent ELSE v)
           /\ \A j \in K \ {k} : Moves(j, Content(j))
           /\ \A j \in K : SeenAt(j)
           /\ \A j \in K : read[j] # None /\ p[j][read[j]] # Expunged => q[j][read[j]] # Expunged
<1>1. p \in PType /\ v # Expunged /\ q = [p EXCEPT ![k][x] = v]
  BY SyncMapAssumption DEF IInv, TypeOK, PType, Written
<1>2. q \in PType /\ q[k] = [p[k] EXCEPT ![x] = v] /\ \A j \in K \ {k} : q[j] = p[j]
  BY <1>1 DEF PType
<1>3. \A j \in K : KeptAt(j, q) /\ SeenAt(j)
  BY EntriesStep DEF StepBy, IInv
<1>4. \A j \in K : HalvesAt(j)
  BY DEF IInv
<1>5. TypeOK /\ amended \in BOOLEAN
  BY DEF IInv, TypeOK
<1>6. \A j \in K : read[j] # None /\ p[j][read[j]] # Expunged => q[j][read[j]] # Expunged
  BY <1>1, <1>2, <1>5 DEF TypeOK, Map, PType
<1>7. Moves(k, IF v = Nil THEN Absent ELSE v)
  BY <1>2, <1>3, <1>4, <1>5, WriteAt DEF Written
<1>8. \A j \in K \ {k} : Moves(j, Content(j))
  BY <1>2, <1>3, <1>4, <1>5, SameAt
<1>9. QED  BY <1>3, <1>6, <1>7, <1>8

\* e.delete() without the lock.
LEMMA DeletesStep ==
    ASSUME IInv, NEW g \in G, Deletes(g), UNCHANGED program
    PROVE  IInv' /\ Atomic!Next
<1> DEFINE k == Key(g)
<1>1. /\ pc[g] = "entry" /\ Op(g) = "Delete"
      /\ result' = [result EXCEPT ![g][k] = Absent]
      /\ pc' = [pc EXCEPT ![g] = "return"] /\ e' = [e EXCEPT ![g] = Empty]
      /\ UNCHANGED <<shared, call, todo>>
      /\ IF Value(k, e[g][k]) = Absent THEN Entries(p) ELSE Set(k, e[g][k], Nil)
  BY DEF Deletes, Goto, Reports
<1>2. /\ Shape(g) /\ call[g] \in AnyCall /\ call[g] # NoCall
      /\ k \in K /\ call[g].keys = {k} /\ k \in Pend(g)
  BY <1>1, OneKey
<1> HIDE DEF k
<1>3. /\ \A h \in G \ {g} : pc'[h] = pc[h] /\ e'[h] = e[h] /\ result'[h] = result[h]
      /\ pc'[g] = "return" /\ \A j \in K : e'[g][j] = None
      /\ pc' \in [G -> Labels] /\ e' \in [G -> Map]
      /\ result' \in [G -> [K -> V \cup {Absent, Unknown}]]
  BY <1>1, <1>2 DEF IInv, TypeOK, Labels, Map, Empty
<1>4. \A q \in PType : Entries(q) => StepBy(g, q)
  BY <1>1, <1>3 DEF StepBy, IInv, TypeOK, shared, Apart
<1>5. Absent \in Values /\ mu' # g
  BY <1>1, <1>2 DEF Values, Shape, shared
<1>6. (\A j \in K : SeenAt(j)) => Fits(g)
  BY <1>1, <1>2, <1>3, <1>5, FinishFits
<1>7. CASE Value(k, e[g][k]) = Absent
  <2>1. p \in PType
    BY DEF IInv, TypeOK, PType
  <2>2. StepBy(g, p)
    BY <1>1, <1>4, <1>7, <2>1
  <2>3. /\ \A j \in K : Moves(j, Content(j)) /\ SeenAt(j)
        /\ Shape(g)' => \A h \in G : Holder(h)'
    BY <1>1, <2>2, StayStep
  <2>4. IInv'
    BY <1>6, <2>2, <2>3, Assembled DEF Fits
  <2>5. Absent \in seen[g][k]
    BY <1>1, <1>2, <1>7 DEF IInv, Witnessed
  <2>6. Atomic!Report(g, k, Absent)
    BY <1>1, <1>2, <2>2, <2>3, <2>5, ReportStep
  <2>7. QED  BY <1>2, <1>5, <2>4, <2>6, AtomicReport
<1>8. CASE Value(k, e[g][k]) # Absent
  <2> DEFINE x == e[g][k]
             q == [p EXCEPT ![k][x] = Nil]
  <2>1. x \in Entry /\ x # None /\ p[k][x] # Expunged
    BY <1>2, <1>8 DEF Value, IInv, TypeOK, Map
  <2>2. x = read[k]
    BY <1>1, <1>2, <2>1 DEF IInv, Reaching, Reached
  <2>3. q \in PType
    BY <1>2, <2>1 DEF IInv, TypeOK, PType
  <2>4. Entries(q)
    BY <1>1, <1>8 DEF Set
  <2>5. StepBy(g, q)
    BY <1>4, <2>3, <2>4
  <2>6. /\ Moves(k, Absent) /\ \A j \in K \ {k} : Moves(j, Content(j))
        /\ \A j \in K : SeenAt(j)
        /\ \A j \in K : read[j] # None /\ p[j][read[j]] # Expunged => q[j][read[j]] # Expunged
    <3>1. UNCHANGED <<read, amended, dirty, isNil, todo>>
      BY <1>1 DEF shared
    <3>2. Nil \in V \cup {Nil} /\ Written(q, k, x, Nil)
      BY <2>1, <2>2 DEF Written
    <3> HIDE DEF x, q
    <3>3. QED  BY <1>2, <2>1, <2>2, <2>5, <3>1, <3>2, WriteStep
  <2> HIDE DEF x, q
  <2>7. \A h \in G : Holder(h)'
    BY <1>1, <1>6, <2>5, <2>6, HoldersKept DEF Fits
  <2>8. \A j \in K : \E w : Moves(j, w)
    BY <2>6
  <2>9. IInv'
    BY <1>6, <2>5, <2>6, <2>7, <2>8, Assembled
  <2>10. Atomic!Put(g, k, Absent)
    BY <1>1, <1>2, <1>5, <2>5, <2>6, PutStep
  <2>11. QED  BY <1>1, <1>2, <2>9, <2>10, AtomicPut
<1>9. QED  BY <1>7, <1>8

\* A Store or LoadOrStore takes effect, or a LoadOrStore reports what is there.
LEMMA StoreDone ==
    ASSUME IInv, NEW g \in G, NEW q, StepBy(g, q), NEW k \in Pend(g), NEW v \in V,
           call' = call, result' = [result EXCEPT ![g][k] = v], Op(g) \in Setters,
           Moves(k, v), \A j \in K \ {k} : Moves(j, Content(j)),
           v = IF Op(g) = "LoadOrStore" /\ Content(k) # Absent THEN Content(k) ELSE call[g].val
    PROVE  Atomic!Next
<1>1. v \in Values /\ v # Absent /\ k \in K
  BY SyncMapAssumption DEF Values, Pend
<1>2. CASE Op(g) = "LoadOrStore" /\ Content(k) # Absent
  <2>1. v = Content(k)
    BY <1>2
  <2>2. \A j \in K : Moves(j, Content(j))
    BY <2>1
  <2>3. v \in seen[g][k]
    BY <1>1, <2>1 DEF IInv, Witnessed
  <2>4. Atomic!Report(g, k, v)
    BY <1>1, <1>2, <2>2, <2>3, ReportStep
  <2>5. QED  BY <1>1, <2>4, AtomicReport
<1>3. CASE ~(Op(g) = "LoadOrStore" /\ Content(k) # Absent)
  <2>1. Atomic!Put(g, k, v)
    BY <1>1, PutStep
  <2>2. v = call[g].val /\ (Op(g) = "LoadOrStore" => Content(k) = Absent)
    BY <1>3
  <2>3. QED  BY <2>1, <2>2, AtomicPut DEF Setters
<1>4. QED  BY <1>2, <1>3

\* tryStore and tryLoadOrStore: refused by an expunged entry, or a write.
LEMMA TryStoreStep ==
    ASSUME IInv, NEW g \in G, TryStore(g), UNCHANGED program
    PROVE  IInv' /\ (Atomic!Next \/ UNCHANGED Atomic!vars)
<1> DEFINE k == Key(g)
           x == e[g][k]
           v == IF Op(g) = "LoadOrStore" /\ p[k][x] # Nil THEN p[k][x] ELSE call[g].val
           q == [p EXCEPT ![k][x] = v]
<1>1. /\ pc[g] = "entry" /\ Op(g) \in Setters /\ UNCHANGED <<shared, call, todo>>
      /\ e' = [e EXCEPT ![g] = Empty]
  BY DEF TryStore, Setters
<1>2. /\ Shape(g) /\ call[g] \in AnyCall /\ call[g] # NoCall /\ Op(g) # "Range"
      /\ k \in K /\ call[g].keys = {k} /\ k \in Pend(g) /\ Pend(g) = {k} /\ result[g] = Nothing
  BY <1>1, OneKey DEF Setters
<1>3. x \in Entry /\ x # None /\ p[k][x] \in V \cup {Nil, Expunged} /\ call[g].val \in V
  BY <1>1, <1>2 DEF Shape, IInv, TypeOK, Map, AnyCall
<1>4. \/ /\ p[k][x] = Expunged /\ pc' = [pc EXCEPT ![g] = "lock"] /\ result' = result /\ Entries(p)
      \/ /\ p[k][x] # Expunged /\ pc' = [pc EXCEPT ![g] = "return"]
         /\ result' = [result EXCEPT ![g][k] = v] /\ Entries(q)
  BY DEF TryStore, Goto, Refused, StoreEntry, Reports, Set
<1> HIDE DEF k, x, v, q
<1>5. /\ \A h \in G \ {g} : e'[h] = e[h]
      /\ \A j \in K : e'[g][j] = None
      /\ e' \in [G -> Map]
  BY <1>1, <1>2 DEF IInv, TypeOK, Map, Empty
<1>6. mu' # g /\ p \in PType
  BY <1>1, <1>2 DEF Shape, shared, IInv, TypeOK, PType
<1>7. CASE p[k][x] = Expunged
  <2>1. /\ \A h \in G \ {g} : pc'[h] = pc[h] /\ result'[h] = result[h]
        /\ pc'[g] = "lock" /\ result'[g] = result[g] /\ call'[g] = call[g]
        /\ pc' \in [G -> Labels] /\ result' \in [G -> [K -> V \cup {Absent, Unknown}]]
    BY <1>1, <1>4, <1>7 DEF IInv, TypeOK, Labels
  <2>2. StepBy(g, p)
    BY <1>1, <1>4, <1>5, <1>7, <2>1 DEF StepBy, IInv, TypeOK, shared, Apart, PType
  <2>3. Pend(g)' = Pend(g)
    BY <2>1 DEF Pend
  <2>4. Shape(g)'
    BY <1>1, <1>2, <1>5, <1>6, <2>1, <2>3 DEF Shape, Op, Nothing
  <2>5. (\A j \in K : Moves(j, Content(j)) /\ SeenAt(j)) /\ \A h \in G : Holder(h)'
    BY <1>1, <2>2, <2>4, StayStep
  <2>6. \A j \in K : Witnessed(g, j)' /\ Reaching(g, j)'
    BY <2>1, <2>5 DEF Witnessed, SeenAt, Reaching
  <2>7. IInv'
    BY <2>2, <2>4, <2>5, <2>6, Assembled DEF Fits
  <2>8. call' = call /\ result' = result
    BY <1>1, <1>4, <1>7
  <2>9. QED  BY <2>2, <2>5, <2>7, <2>8, QuietStep
<1>8. CASE p[k][x] # Expunged
  <2>1. x = read[k]
    BY <1>1, <1>2, <1>3, <1>8 DEF IInv, Reaching, Reached, x, Setters
  <2>2. v \in V /\ v \in Values /\ v # Nil
    BY <1>3, <1>8, SyncMapAssumption DEF v, Values
  <2>3. /\ \A h \in G \ {g} : pc'[h] = pc[h] /\ result'[h] = result[h]
        /\ pc'[g] = "return"
        /\ pc' \in [G -> Labels] /\ result' \in [G -> [K -> V \cup {Absent, Unknown}]]
    <3>1. pc' = [pc EXCEPT ![g] = "return"] /\ result' = [result EXCEPT ![g][k] = v]
      BY <1>4, <1>8
    <3>2. QED  BY <1>2, <2>2, <3>1 DEF IInv, TypeOK, Labels, Values
  <2>4. q \in PType
    BY <1>2, <1>3, <1>6, <2>2 DEF PType, q
  <2>5. StepBy(g, q)
    BY <1>1, <1>4, <1>5, <1>8, <2>3, <2>4 DEF StepBy, IInv, TypeOK, shared, Apart
  <2>6. /\ Moves(k, v) /\ \A j \in K \ {k} : Moves(j, Content(j))
        /\ \A j \in K : SeenAt(j)
        /\ \A j \in K : read[j] # None /\ p[j][read[j]] # Expunged => q[j][read[j]] # Expunged
    <3>1. UNCHANGED <<read, amended, dirty, isNil, todo>>
      BY <1>1 DEF shared
    <3>2. Written(q, k, x, v) /\ v \in V \cup {Nil}
      BY <1>8, <2>1, <2>2 DEF q, Written
    <3>3. QED  BY <1>2, <1>3, <1>8, <2>1, <2>2, <2>5, <3>1, <3>2, WriteStep
  <2>7. Fits(g)
    BY <1>1, <1>2, <1>4, <1>5, <1>6, <1>8, <2>2, <2>3, <2>6, FinishFits
  <2>8. \A h \in G : Holder(h)'
    BY <1>1, <2>5, <2>6, <2>7, HoldersKept DEF Fits
  <2>9. IInv'
    <3>1. \A j \in K : \E w : Moves(j, w)
      BY <2>6
    <3>2. QED  BY <2>5, <2>7, <2>8, <3>1, Assembled
  <2>10. call' = call /\ result' = [result EXCEPT ![g][k] = v]
    BY <1>1, <1>4, <1>8
  <2>11. Content(k) = IF p[k][x] = Nil THEN Absent ELSE p[k][x]
    BY <1>3, <1>8, <2>1 DEF Content, Value
  <2>12. v = IF Op(g) = "LoadOrStore" /\ Content(k) # Absent THEN Content(k) ELSE call[g].val
    BY <1>3, <1>8, <2>11, SyncMapAssumption DEF v
  <2>13. QED  BY <1>1, <1>2, <2>2, <2>5, <2>6, <2>9, <2>10, <2>12, StoreDone
<1>9. QED  BY <1>7, <1>8

\* A call has found its entries: they hold what the map holds.
LEMMA LookFits ==
    ASSUME IInv, NEW g \in G, pc[g] = "lock", pc'[g] = "entry", Op(g) \notin Setters, mu' # g,
           call'[g] = call[g], result'[g] = result[g], \A j \in K : SeenAt(j),
           \A j \in K : e'[g][j] # None => j \in Pend(g),
           \A j \in K : j \in Pend(g) => Value(j, e[g][j])' = Content(j)',
           Op(g) = "Delete" => \A j \in K : e'[g][j] # None => read'[j] = e'[g][j]
    PROVE  Fits(g)
<1>1. Pend(g)' = Pend(g)
  BY DEF Pend
<1>2. Shape(g)
  BY DEF IInv
<1>3. Shape(g)'
  BY <1>1, <1>2 DEF Shape, Op, Nothing
<1>4. \A j \in K : Witnessed(g, j)'
  BY <1>1 DEF Witnessed, SeenAt
<1>5. call[g].keys \subseteq K
  BY <1>2 DEF Shape, AnyCall
<1>6. \A j \in K : Reaching(g, j)'
  BY DEF Reaching, Reached, Op
<1>7. QED  BY <1>3, <1>4, <1>6 DEF Fits

\* Promotion starts counting misses again.
LEMMA PromoteType ==
    ASSUME TypeOK, Promote
    PROVE  /\ read' \in Map /\ dirty' \in Map /\ amended' \in BOOLEAN /\ isNil' \in BOOLEAN
           /\ misses' \in Nat /\ misses' < Cardinality(K) /\ (amended' => ~isNil')
<1>1. Cardinality(K) \in Nat /\ Cardinality(K) > 0
  <2>1. Cardinality(K) \in Nat /\ (Cardinality(K) = 0 <=> K = {})
    BY SyncMapAssumption, FS_CardinalityType, FS_EmptySet
  <2>2. QED  BY <2>1, SyncMapAssumption
<1>2. read' = dirty /\ amended' = FALSE /\ dirty' = Empty /\ isNil' = TRUE /\ misses' = 0
  BY DEF Promote, Promoted
<1>3. read' \in Map /\ dirty' \in Map
  BY <1>2 DEF TypeOK, Empty, Map
<1>4. amended' \in BOOLEAN /\ isNil' \in BOOLEAN /\ (amended' => ~isNil')
  BY <1>2
<1>5. misses' \in Nat /\ misses' < Cardinality(K)
  BY <1>1, <1>2
<1>6. QED  BY <1>3, <1>4, <1>5

\* missLocked counts up to the size of dirty at most, and promotes then.
LEMMA MissType ==
    ASSUME TypeOK, missLocked, amended => ~isNil
    PROVE  /\ read' \in Map /\ dirty' \in Map /\ amended' \in BOOLEAN /\ isNil' \in BOOLEAN
           /\ misses' \in Nat /\ misses' < Cardinality(K) /\ (amended' => ~isNil')
<1>1. Len(dirty) \in Nat /\ Len(dirty) <= Cardinality(K) /\ Cardinality(K) \in Nat
  <2> DEFINE D == {k \in K : dirty[k] # None}
  <2>1. IsFiniteSet(K) /\ D \in SUBSET K
    BY SyncMapAssumption
  <2>2. IsFiniteSet(D) /\ Cardinality(D) <= Cardinality(K)
    BY <2>1, FS_Subset
  <2>3. Cardinality(D) \in Nat /\ Cardinality(K) \in Nat
    BY <2>1, <2>2, FS_CardinalityType
  <2>4. QED  BY <2>2, <2>3 DEF Len
<1>2. CASE EnoughMisses
  BY <1>2, PromoteType DEF missLocked
<1>3. CASE ~EnoughMisses
  BY <1>1, <1>3 DEF missLocked, EnoughMisses, TypeOK
<1>4. QED  BY <1>2, <1>3

\* Neither a miss nor the promotion it may bring changes what the map holds.
LEMMA MissStep ==
    ASSUME IInv, NEW g \in G, NEW q, StepBy(g, q), NEW k \in K, q[k] = p[k], missLocked, amended,
           todo = {}, todo' = {}
    PROVE  Moves(k, Content(k))
<1>1. KeptAt(k, q) /\ HalvesAt(k) /\ TypeOK /\ ~isNil /\ amended \in BOOLEAN /\ amended' \in BOOLEAN
  BY EntriesStep DEF StepBy, IInv, TypeOK
<1>2. CASE EnoughMisses
  BY <1>1, <1>2, PromoteAt DEF missLocked
<1>3. CASE ~EnoughMisses
  BY <1>1, <1>3, SameAt DEF missLocked
<1>4. QED  BY <1>2, <1>3

\* The slow path of Load.
LEMMA LockedLoad ==
    ASSUME IInv, NEW g \in G, Locked(g), Op(g) = "Load", UNCHANGED program
    PROVE  IInv' /\ UNCHANGED Atomic!vars
<1>0. PICK k : k = Key(g)
  OBVIOUS
<1> DEFINE found == read[k] # None
<1>1. /\ pc[g] = "lock" /\ mu = NoG /\ UNCHANGED <<mu, call, todo, result>> /\ Entries(p)
      /\ e' = [e EXCEPT ![g][k] = IF found THEN read[k] ELSE IF amended THEN dirty[k] ELSE None]
      /\ IF ~found /\ amended THEN missLocked ELSE UNCHANGED <<read, amended, dirty, isNil, misses>>
      /\ pc' = [pc EXCEPT ![g] = "entry"]
  BY <1>0 DEF Locked, Goto
<1>2. /\ Shape(g) /\ call[g] \in AnyCall /\ call[g] # NoCall
      /\ k \in K /\ call[g].keys = {k} /\ k \in Pend(g) /\ Pend(g) = {k} /\ result[g] = Nothing
  BY <1>0, <1>1, OneKey
<1>3. todo = {} /\ p \in PType /\ mu' # g /\ \A j \in K : e[g][j] = None
  BY <1>1, <1>2, SyncMapAssumption DEF IInv, TypeOK, PType, Shape
<1>4. /\ \A h \in G \ {g} : pc'[h] = pc[h] /\ e'[h] = e[h]
      /\ pc'[g] = "entry"
      /\ e'[g][k] = IF found THEN read[k] ELSE IF amended THEN dirty[k] ELSE None
      /\ \A j \in K \ {k} : e'[g][j] = None
      /\ pc' \in [G -> Labels] /\ e' \in [G -> Map]
  BY <1>1, <1>2, <1>3 DEF IInv, TypeOK, Labels, Map
<1>5. /\ read' \in Map /\ dirty' \in Map /\ amended' \in BOOLEAN /\ isNil' \in BOOLEAN
      /\ misses' \in Nat /\ misses' < Cardinality(K) /\ (amended' => ~isNil')
  BY <1>1, MissType DEF IInv, TypeOK
<1>6. StepBy(g, p)
  BY <1>1, <1>3, <1>4, <1>5 DEF StepBy, IInv, TypeOK, Apart
<1>7. \A j \in K : KeptAt(j, p) /\ SeenAt(j)
  BY <1>5, <1>6, EntriesStep DEF StepBy, IInv
<1>8. \A j \in K : Moves(j, Content(j))
  <2>1. CASE ~found /\ amended
    BY <1>1, <1>3, <1>6, <2>1, MissStep
  <2>2. CASE ~(~found /\ amended)
    BY <1>1, <1>7, <2>2, SameAt DEF IInv, TypeOK
  <2>3. QED  BY <2>1, <2>2
<1>9. Value(k, e[g][k])' = Content(k)'
  <2>1. CASE ~found /\ amended /\ EnoughMisses
    <3>1. read'[k] = dirty[k] /\ ~amended' /\ e'[g][k] = dirty[k]
      BY <1>1, <1>4, <2>1 DEF missLocked, Promote, Promoted
    <3>2. QED  BY <3>1 DEF Value, Content
  <2>2. CASE ~(~found /\ amended /\ EnoughMisses)
    <3>1. read' = read /\ dirty' = dirty /\ amended' = amended
      BY <1>1, <2>2 DEF missLocked
    <3>2. QED  BY <1>4, <3>1 DEF Value, Content
  <2>3. QED  BY <2>1, <2>2
<1>10. Fits(g)
  <2>1. call'[g] = call[g] /\ result'[g] = result[g] /\ Op(g) \notin Setters /\ Op(g) # "Delete"
    BY <1>1 DEF Setters
  <2>2. \A j \in K : e'[g][j] # None => j \in Pend(g)
    BY <1>2, <1>4
  <2>3. \A j \in K : j \in Pend(g) => Value(j, e[g][j])' = Content(j)'
    BY <1>2, <1>9
  <2>4. QED  BY <1>1, <1>3, <1>4, <1>7, <2>1, <2>2, <2>3, LookFits
<1>11. \A h \in G : Holder(h)'
  BY <1>1, <1>4, <1>6, NoOtherHolder DEF Holder
<1>12. IInv'
  BY <1>6, <1>8, <1>10, <1>11, Assembled
<1>13. QED  BY <1>1, <1>6, <1>8, <1>12, QuietStep

\* The slow path of Delete: the entry is found in read, or the key leaves dirty.
LEMMA LockedDelete ==
    ASSUME IInv, NEW g \in G, Locked(g), Op(g) = "Delete", UNCHANGED program
    PROVE  IInv' /\ (Atomic!Next \/ UNCHANGED Atomic!vars)
<1>0. PICK k : k = Key(g)
  OBVIOUS
<1>1. /\ pc[g] = "lock" /\ mu = NoG /\ UNCHANGED <<mu, call, todo>> /\ Entries(p)
      /\ e' = [e EXCEPT ![g][k] = read[k]]
      /\ dirty' = IF read[k] = None /\ amended THEN [dirty EXCEPT ![k] = None] ELSE dirty
      /\ IF read[k] # None THEN pc' = [pc EXCEPT ![g] = "entry"] /\ result' = result
         ELSE pc' = [pc EXCEPT ![g] = "return"] /\ result' = [result EXCEPT ![g][k] = Absent]
      /\ UNCHANGED <<read, amended, isNil, misses>>
  BY <1>0 DEF Locked, Goto, Reports
<1>2. /\ Shape(g) /\ call[g] \in AnyCall /\ call[g] # NoCall /\ Op(g) # "Range"
      /\ k \in K /\ call[g].keys = {k} /\ k \in Pend(g) /\ Pend(g) = {k} /\ result[g] = Nothing
  BY <1>0, <1>1, OneKey
<1>3. todo = {} /\ p \in PType /\ mu' # g /\ \A j \in K : e[g][j] = None
  BY <1>1, <1>2, SyncMapAssumption DEF IInv, TypeOK, PType, Shape
<1>4. /\ \A h \in G \ {g} : e'[h] = e[h]
      /\ e'[g][k] = read[k] /\ \A j \in K \ {k} : e'[g][j] = None
      /\ e' \in [G -> Map] /\ dirty' \in Map
      /\ dirty'[k] = (IF read[k] = None /\ amended THEN None ELSE dirty[k])
      /\ \A j \in K \ {k} : dirty'[j] = dirty[j]
  BY <1>1, <1>2, <1>3 DEF IInv, TypeOK, Map
<1>5. Absent \in Values
  BY DEF Values
<1>6. StepBy(g, p)
  <2>1. pc' \in [G -> Labels] /\ \A h \in G \ {g} : pc'[h] = pc[h]
    BY <1>1 DEF IInv, TypeOK, Labels
  <2>2. /\ result' \in [G -> [K -> V \cup {Absent, Unknown}]]
        /\ \A h \in G \ {g} : result'[h] = result[h]
    <3>1. result \in [G -> [K -> V \cup {Absent, Unknown}]]
      BY DEF IInv, TypeOK
    <3>2. result' = result \/ result' = [result EXCEPT ![g][k] = Absent]
      BY <1>1
    <3>3. QED  BY <1>2, <3>1, <3>2
  <2>3. QED  BY <1>1, <1>3, <1>4, <2>1, <2>2 DEF StepBy, IInv, TypeOK, Apart
<1>7. \A j \in K : KeptAt(j, p) /\ SeenAt(j) /\ HalvesAt(j)
  BY <1>6, EntriesStep DEF StepBy, IInv
<1>8. TypeOK /\ amended \in BOOLEAN
  BY DEF IInv, TypeOK
<1>9. \A j \in K \ {k} : Moves(j, Content(j))
  BY <1>1, <1>4, <1>7, <1>8, SameAt
<1>10. CASE read[k] # None
  <2>1. Moves(k, Content(k))
    BY <1>1, <1>2, <1>4, <1>7, <1>8, <1>10, SameAt
  <2>2. pc'[g] = "entry" /\ call' = call /\ result' = result
    BY <1>1, <1>10 DEF IInv, TypeOK
  <2>3. \A j \in K : e'[g][j] # None => j \in Pend(g)
    BY <1>2, <1>4
  <2>4. \A j \in K : j \in Pend(g) => Value(j, e[g][j])' = Content(j)'
    BY <1>1, <1>2, <1>4, <1>10 DEF Value, Content
  <2>5. \A j \in K : e'[g][j] # None => read'[j] = e'[g][j]
    BY <1>1, <1>4
  <2>6. Fits(g)
    BY <1>1, <1>3, <1>7, <2>2, <2>3, <2>4, <2>5, LookFits DEF Setters
  <2>7. \A h \in G : Holder(h)'
    BY <1>1, <1>6, <2>2, NoOtherHolder DEF Holder
  <2>8. \A j \in K : Moves(j, Content(j))
    BY <1>9, <2>1
  <2>9. IInv'
    BY <1>6, <2>6, <2>7, <2>8, Assembled
  <2>10. QED  BY <1>6, <2>2, <2>8, <2>9, QuietStep
<1>11. CASE read[k] = None
  <2>1. pc'[g] = "return" /\ call' = call /\ result' = [result EXCEPT ![g][k] = Absent]
    BY <1>1, <1>11 DEF IInv, TypeOK
  <2>2. Moves(k, Absent)
    <3>1. CASE amended
      BY <1>1, <1>2, <1>4, <1>7, <1>8, <1>11, <3>1, DropAt
    <3>2. CASE ~amended
      <4>1. Content(k) = Absent
        BY <1>11, <3>2 DEF Content, Value
      <4>2. Moves(k, Content(k))
        BY <1>1, <1>2, <1>4, <1>7, <1>8, <3>2, SameAt
      <4>3. QED  BY <4>1, <4>2
    <3>3. QED  BY <1>8, <3>1, <3>2
  <2>3. \A j \in K : e'[g][j] = None
    BY <1>4, <1>11
  <2>4. Fits(g)
    BY <1>1, <1>2, <1>3, <1>5, <1>7, <2>1, <2>3, FinishFits
  <2>5. \A h \in G : Holder(h)'
    BY <1>1, <1>6, <2>1, NoOtherHolder DEF Holder
  <2>6. \A j \in K : \E w : Moves(j, w)
    BY <1>9, <2>2
  <2>7. IInv'
    BY <1>6, <2>4, <2>5, <2>6, Assembled
  <2>8. Atomic!Put(g, k, Absent)
    BY <1>2, <1>5, <1>6, <1>9, <2>1, <2>2, PutStep
  <2>9. QED  BY <1>2, <2>7, <2>8, AtomicPut
<1>12. QED  BY <1>10, <1>11

\* The slow path of Range: a dirty map that read does not have all of is promoted.
LEMMA LockedRange ==
    ASSUME IInv, NEW g \in G, Locked(g), Op(g) = "Range", UNCHANGED program
    PROVE  IInv' /\ UNCHANGED Atomic!vars
<1>1. /\ pc[g] = "lock" /\ mu = NoG /\ UNCHANGED <<mu, call, todo, result>> /\ Entries(p)
      /\ e' = [e EXCEPT ![g] = IF amended THEN dirty ELSE read]
      /\ IF amended THEN Promote ELSE UNCHANGED <<read, amended, dirty, isNil, misses>>
      /\ pc' = [pc EXCEPT ![g] = "entry"]
  BY DEF Locked, Goto
<1>2. /\ Shape(g) /\ call[g] # NoCall /\ call[g].keys = K /\ result[g] = Nothing /\ Pend(g) = K
  <2>1. Shape(g) /\ call[g] # NoCall /\ call[g].keys = K /\ result[g] = Nothing
    BY <1>1 DEF IInv, Shape
  <2>2. QED  BY <2>1 DEF Pend, Nothing
<1>3. todo = {} /\ p \in PType /\ mu' # g /\ TypeOK /\ amended \in BOOLEAN /\ (amended => ~isNil)
  BY <1>1, <1>2, SyncMapAssumption DEF IInv, TypeOK, PType, Shape
<1>4. /\ \A h \in G \ {g} : pc'[h] = pc[h] /\ e'[h] = e[h]
      /\ pc'[g] = "entry" /\ e'[g] = IF amended THEN dirty ELSE read
      /\ pc' \in [G -> Labels] /\ e' \in [G -> Map]
  BY <1>1, <1>2, <1>3 DEF TypeOK, Labels
<1>5. /\ read' \in Map /\ dirty' \in Map /\ amended' \in BOOLEAN /\ isNil' \in BOOLEAN
      /\ misses' \in Nat /\ misses' < Cardinality(K) /\ (amended' => ~isNil')
  <2>1. CASE amended
    BY <1>1, <1>3, <2>1, PromoteType
  <2>2. CASE ~amended
    BY <1>1, <1>3, <2>2 DEF TypeOK
  <2>3. QED  BY <1>3, <2>1, <2>2
<1>6. StepBy(g, p)
  BY <1>1, <1>3, <1>4, <1>5 DEF StepBy, TypeOK, Apart
<1>7. \A j \in K : KeptAt(j, p) /\ SeenAt(j) /\ HalvesAt(j)
  BY <1>5, <1>6, EntriesStep DEF StepBy, IInv
<1>8. \A j \in K : Moves(j, Content(j))
  <2>1. CASE amended
    BY <1>1, <1>3, <1>7, <2>1, PromoteAt
  <2>2. CASE ~amended
    BY <1>1, <1>3, <1>7, <2>2, SameAt
  <2>3. QED  BY <1>3, <2>1, <2>2
<1>9. \A j \in K : Value(j, e[g][j])' = Content(j)'
  <2>1. CASE amended
    <3>1. read' = dirty /\ ~amended' /\ e'[g] = dirty
      BY <1>1, <1>4, <2>1 DEF Promote, Promoted
    <3>2. QED  BY <3>1 DEF Value, Content
  <2>2. CASE ~amended
    <3>1. read' = read /\ ~amended' /\ e'[g] = read
      BY <1>1, <1>4, <2>2
    <3>2. QED  BY <3>1 DEF Value, Content
  <2>3. QED  BY <1>3, <2>1, <2>2
<1>10. Fits(g)
  <2>1. call'[g] = call[g] /\ result'[g] = result[g] /\ Op(g) \notin Setters /\ Op(g) # "Delete"
    BY <1>1 DEF Setters
  <2>2. QED  BY <1>1, <1>2, <1>3, <1>4, <1>7, <1>9, <2>1, LookFits
<1>11. \A h \in G : Holder(h)'
  BY <1>1, <1>4, <1>6, NoOtherHolder DEF Holder
<1>12. IInv'
  BY <1>6, <1>8, <1>10, <1>11, Assembled
<1>13. QED  BY <1>1, <1>6, <1>8, <1>12, QuietStep

\* A call that is under the lock has its entry in nobody's hands.
LEMMA UnderLockFits ==
    ASSUME IInv, NEW g \in G, pc[g] \in {"lock", "copy", "update"}, pc'[g] \in {"copy", "update"},
           mu' = g, Op(g) \in Setters, call'[g] = call[g], e'[g] = e[g], result'[g] = result[g],
           \A j \in K : SeenAt(j)
    PROVE  Fits(g)
<1>1. Pend(g)' = Pend(g)
  BY DEF Pend
<1>2. Shape(g)
  BY DEF IInv
<1>3. Shape(g)'
  BY <1>1, <1>2 DEF Shape, Op, Nothing
<1>4. \A j \in K : Witnessed(g, j)' /\ Reaching(g, j)'
  BY DEF Witnessed, SeenAt, Reaching
<1>5. QED  BY <1>3, <1>4 DEF Fits

\* The slow path of Store and LoadOrStore up to the update: nothing panics.
LEMMA LockToUpdateStep ==
    ASSUME IInv, NEW g \in G, LockToUpdate(g), UNCHANGED program
    PROVE  IInv' /\ UNCHANGED Atomic!vars
<1>0. PICK k : k = Key(g)
  OBVIOUS
<1>1. /\ pc[g] = "lock" /\ mu = NoG /\ Op(g) \in Setters /\ mu' = g
      /\ UNCHANGED <<read, amended, misses, call, e, result>>
  BY DEF LockToUpdate, Setters
<1>2. /\ Shape(g) /\ call[g] \in AnyCall /\ call[g] # NoCall /\ Op(g) # "Range"
      /\ k \in K /\ call[g].keys = {k}
  BY <1>0, <1>1, OneKey DEF Setters
<1>3. /\ todo = {} /\ p \in PType /\ TypeOK /\ amended \in BOOLEAN /\ isNil \in BOOLEAN
      /\ amended => ~isNil
      /\ \A j \in K : HalvesAt(j)
  BY <1>1 DEF IInv, TypeOK, PType
<1>4. read[k] \in Entry \cup {None} /\ Nil # Expunged /\ None \notin Entry
  BY <1>2, <1>3, SyncMapAssumption DEF TypeOK, Map
<1>5. ASSUME NEW q \in PType, Entries(q), NEW l \in {"copy", "update"}, pc' = [pc EXCEPT ![g] = l],
             dirty' \in Map, isNil' \in BOOLEAN, ~isNil => ~isNil', todo' \subseteq K,
             (\A j \in K : KeptAt(j, q)) => (\A j \in K : Moves(j, Content(j))) /\ Holder(g)'
      PROVE  IInv' /\ UNCHANGED Atomic!vars
  <2>1. pc' \in [G -> Labels] /\ pc'[g] = l /\ \A h \in G \ {g} : pc'[h] = pc[h]
    BY <1>3, <1>5 DEF TypeOK, Labels
  <2>2. StepBy(g, q)
    <3>1. mu' \in G \cup {NoG} /\ mu' # NoG /\ \A h \in G \ {g} : mu' = h <=> mu = h
      BY <1>1, SyncMapAssumption
    <3>2. QED  BY <1>1, <1>3, <1>5, <2>1, <3>1 DEF StepBy, TypeOK, Apart
  <2>3. \A j \in K : KeptAt(j, q) /\ SeenAt(j)
    BY <1>3, <2>2, EntriesStep DEF StepBy
  <2>4. Fits(g)
    BY <1>1, <2>1, <2>3, UnderLockFits
  <2>5. (\A j \in K : Moves(j, Content(j))) /\ Holder(g)'
    BY <1>5, <2>3
  <2>6. IInv'
    BY <1>1, <2>2, <2>4, <2>5, NoOtherHolder, Assembled
  <2>7. QED  BY <1>1, <2>2, <2>5, <2>6, QuietStep
<1>6. CASE read[k] # None /\ p[k][read[k]] = Expunged
  <2> DEFINE q == [p EXCEPT ![k][read[k]] = Nil]
  <2>1. ~isNil /\ dirty[k] = None
    BY <1>2, <1>3, <1>6 DEF HalvesAt
  <2>2. /\ dirty' = [dirty EXCEPT ![k] = read[k]] /\ pc' = [pc EXCEPT ![g] = "update"]
        /\ UNCHANGED <<isNil, todo>> /\ Entries(q)
    BY <1>0, <1>6, <2>1 DEF LockToUpdate, Restored, Goto, Set
  <2>3. /\ q \in PType /\ q[k] = [p[k] EXCEPT ![read[k]] = Nil] /\ q[k][read[k]] = Nil
        /\ \A j \in K \ {k} : q[j] = p[j]
    BY <1>2, <1>3, <1>4, <1>6 DEF PType
  <2>4. dirty' \in Map /\ dirty'[k] = read[k] /\ \A j \in K \ {k} : dirty'[j] = dirty[j]
    BY <1>2, <1>3, <1>4, <2>2 DEF TypeOK, Map
  <2> HIDE DEF q
  <2>5. ASSUME \A j \in K : KeptAt(j, q)
        PROVE  (\A j \in K : Moves(j, Content(j))) /\ Holder(g)'
    <3>1. Moves(k, Content(k))
      BY <1>1, <1>2, <1>3, <1>6, <2>1, <2>2, <2>3, <2>4, <2>5, UnexpungeAt
    <3>2. \A j \in K \ {k} : Moves(j, Content(j))
      BY <1>1, <1>3, <2>2, <2>3, <2>4, <2>5, SameAt
    <3>3. p'[k][read'[k]] = Nil
      BY <1>1, <1>2, <1>6, <2>3, <2>5 DEF KeptAt
    <3>4. Holder(g)'
      BY <1>1, <1>2, <1>3, <1>4, <1>6, <2>2, <3>3 DEF Holder, TypeOK
    <3>5. QED  BY <3>1, <3>2, <3>4
  <2>6. QED  BY <1>3, <1>5, <2>2, <2>3, <2>4, <2>5
<1>7. CASE read[k] # None /\ p[k][read[k]] # Expunged
  <2>1. pc' = [pc EXCEPT ![g] = "update"] /\ UNCHANGED <<dirty, isNil, todo>> /\ Entries(p)
    BY <1>0, <1>7 DEF LockToUpdate, Goto
  <2>2. ASSUME \A j \in K : KeptAt(j, p)
        PROVE  (\A j \in K : Moves(j, Content(j))) /\ Holder(g)'
    <3>1. \A j \in K : Moves(j, Content(j))
      BY <1>1, <1>3, <2>1, <2>2, SameAt
    <3>2. p'[k][read'[k]] # Expunged
      BY <1>1, <1>2, <1>7, <2>2 DEF KeptAt
    <3>3. Holder(g)'
      BY <1>1, <1>2, <1>3, <1>7, <2>1, <3>2 DEF Holder, TypeOK
    <3>4. QED  BY <3>1, <3>3
  <2>3. dirty' \in Map
    BY <1>3, <2>1 DEF TypeOK
  <2>4. QED  BY <1>3, <1>5, <2>1, <2>2, <2>3
<1>8. CASE read[k] = None /\ dirty[k] = None /\ ~amended /\ isNil
  <2>1. /\ pc' = [pc EXCEPT ![g] = "copy"] /\ UNCHANGED dirty /\ Entries(p)
        /\ todo' = {j \in K : read[j] # None} /\ isNil' = FALSE
    BY <1>0, <1>8 DEF LockToUpdate, Goto
  <2>2. ASSUME \A j \in K : KeptAt(j, p)
        PROVE  (\A j \in K : Moves(j, Content(j))) /\ Holder(g)'
    <3>1. \A j \in K : Moves(j, Content(j))
      BY <1>1, <1>3, <1>8, <2>1, <2>2, StartAt
    <3>2. Holder(g)'
      BY <1>1, <1>2, <1>3, <1>8, <2>1 DEF Holder, TypeOK
    <3>3. QED  BY <3>1, <3>2
  <2>3. dirty' \in Map /\ todo' \subseteq K
    BY <1>3, <2>1 DEF TypeOK
  <2>4. QED  BY <1>3, <1>5, <2>1, <2>2, <2>3
<1>9. CASE read[k] = None /\ ~(dirty[k] = None /\ ~amended /\ isNil)
  <2>1. pc' = [pc EXCEPT ![g] = "update"] /\ UNCHANGED <<dirty, isNil, todo>> /\ Entries(p)
    BY <1>0, <1>9 DEF LockToUpdate, Goto
  <2>2. ~isNil
    BY <1>2, <1>3, <1>9 DEF HalvesAt
  <2>3. ASSUME \A j \in K : KeptAt(j, p)
        PROVE  (\A j \in K : Moves(j, Content(j))) /\ Holder(g)'
    <3>1. \A j \in K : Moves(j, Content(j))
      BY <1>1, <1>3, <2>1, <2>3, SameAt
    <3>2. Holder(g)'
      BY <1>1, <1>2, <1>3, <1>9, <2>1, <2>2 DEF Holder, TypeOK
    <3>3. QED  BY <3>1, <3>2
  <2>4. dirty' \in Map
    BY <1>3, <2>1 DEF TypeOK
  <2>5. QED  BY <1>3, <1>5, <2>1, <2>3, <2>4
<1>10. QED  BY <1>6, <1>7, <1>8, <1>9

\* The loop of dirtyLocked.
LEMMA CopyStep ==
    ASSUME IInv, NEW g \in G, CopyToDirty(g), UNCHANGED program
    PROVE  IInv' /\ UNCHANGED Atomic!vars
<1>1. pc[g] = "copy" /\ UNCHANGED <<read, amended, isNil, misses, mu, call, e, result>>
  BY DEF CopyToDirty
<1>2. /\ Shape(g) /\ Holder(g) /\ Op(g) \in Setters /\ mu = g /\ call[g].keys \subseteq K
      /\ ~isNil /\ ~amended /\ \A k \in call[g].keys : read[k] = None
  <2>1. Shape(g) /\ Holder(g)
    BY DEF IInv
  <2>2. QED  BY <1>1, <2>1 DEF Shape, Holder, AnyCall
<1>3. /\ p \in PType /\ TypeOK /\ amended \in BOOLEAN /\ isNil \in BOOLEAN /\ todo \subseteq K
      /\ \A j \in K : HalvesAt(j)
  BY <1>1 DEF IInv, TypeOK, PType
<1>4. ASSUME NEW q \in PType, Entries(q), NEW l \in {"copy", "update"}, pc' = [pc EXCEPT ![g] = l],
             dirty' \in Map, todo' \subseteq K, l = "update" => todo' = {},
             (\A j \in K : KeptAt(j, q)) => (\A j \in K : Moves(j, Content(j)))
      PROVE  IInv' /\ UNCHANGED Atomic!vars
  <2>1. pc' \in [G -> Labels] /\ pc'[g] = l /\ \A h \in G \ {g} : pc'[h] = pc[h]
    BY <1>3, <1>4 DEF TypeOK, Labels
  <2>2. StepBy(g, q)
    <3>1. mu' \in G \cup {NoG} /\ mu' # NoG /\ \A h \in G : mu' = h <=> mu = h
      BY <1>1, <1>2, SyncMapAssumption
    <3>2. QED  BY <1>1, <1>2, <1>3, <1>4, <2>1, <3>1 DEF StepBy, TypeOK, Apart
  <2>3. \A j \in K : KeptAt(j, q) /\ SeenAt(j)
    BY <1>3, <2>2, EntriesStep DEF StepBy
  <2>4. Fits(g)
    BY <1>1, <1>2, <2>1, <2>3, UnderLockFits
  <2>5. \A j \in K : Moves(j, Content(j))
    BY <1>4, <2>3
  <2>6. Holder(g)'
    BY <1>1, <1>2, <1>4, <2>1 DEF Holder
  <2>7. IInv'
    BY <1>2, <2>2, <2>4, <2>5, <2>6, NoOtherHolder, Assembled
  <2>8. QED  BY <1>1, <2>2, <2>5, <2>7, QuietStep
<1>5. CASE todo = {} /\ Goto(g, "update") /\ UNCHANGED <<dirty, todo>> /\ Entries(p)
  <2>1. ASSUME \A j \in K : KeptAt(j, p)
        PROVE  \A j \in K : Moves(j, Content(j))
    BY <1>1, <1>3, <1>5, <2>1, SameAt
  <2>2. dirty' \in Map /\ todo' \subseteq K /\ todo' = {}
    BY <1>3, <1>5 DEF TypeOK
  <2>3. QED  BY <1>3, <1>4, <1>5, <2>1, <2>2 DEF Goto
<1>6. CASE \E k \in todo :
             /\ dirty' = IF Expunge(k, read[k]) = Expunged THEN dirty ELSE [dirty EXCEPT ![k] = read[k]]
             /\ todo' = todo \ {k}
             /\ UNCHANGED pc
             /\ Set(k, read[k], Expunge(k, read[k]))
  <2>1. PICK k \in todo :
             /\ dirty' = IF Expunge(k, read[k]) = Expunged THEN dirty ELSE [dirty EXCEPT ![k] = read[k]]
             /\ todo' = todo \ {k}
             /\ UNCHANGED pc
             /\ Set(k, read[k], Expunge(k, read[k]))
    BY <1>6
  <2> DEFINE x == Expunge(k, read[k])
             q == [p EXCEPT ![k][read[k]] = x]
  <2>2. k \in K /\ read[k] \in Entry /\ dirty[k] = None
    BY <1>3 DEF HalvesAt, TypeOK, Map
  <2>3. x \in V \cup {Nil, Expunged}
    BY <1>3, <2>2 DEF Expunge, PType
  <2>4. Entries(q)
    BY <2>1 DEF Set
  <2> HIDE DEF x
  <2>5. /\ q \in PType /\ q[k] = [p[k] EXCEPT ![read[k]] = x]
        /\ \A j \in K \ {k} : q[j] = p[j]
    BY <1>3, <2>2, <2>3 DEF PType
  <2>6. /\ dirty' \in Map /\ dirty'[k] = IF x = Expunged THEN dirty[k] ELSE read[k]
        /\ \A j \in K \ {k} : dirty'[j] = dirty[j]
    <3>1. dirty' = IF x = Expunged THEN dirty ELSE [dirty EXCEPT ![k] = read[k]]
      BY <2>1 DEF x
    <3>2. QED  BY <1>3, <2>2, <3>1 DEF TypeOK, Map
  <2>7. k \notin todo' /\ todo' \subseteq K /\ \A j \in K \ {k} : j \in todo' <=> j \in todo
    BY <1>3, <2>1
  <2> HIDE DEF q
  <2>8. ASSUME \A j \in K : KeptAt(j, q)
        PROVE  \A j \in K : Moves(j, Content(j))
    <3>1. Moves(k, Content(k))
      BY <1>1, <1>2, <1>3, <2>2, <2>5, <2>6, <2>7, <2>8, CopyAt DEF x
    <3>2. \A j \in K \ {k} : Moves(j, Content(j))
      BY <1>1, <1>3, <2>5, <2>6, <2>7, <2>8, SameAt
    <3>3. QED  BY <3>1, <3>2
  <2>9. pc' = [pc EXCEPT ![g] = "copy"]
    BY <1>1, <1>3, <2>1 DEF TypeOK
  <2>10. QED  BY <1>4, <2>4, <2>5, <2>6, <2>7, <2>8, <2>9
<1>7. QED  BY <1>5, <1>6 DEF CopyToDirty

\* A number is left for a new entry: the others hold at most one each.
LEMMA FreshEntry ==
    ASSUME IInv, NEW g \in G, NEW k \in K, e[g][k] = None, read[k] = None, dirty[k] = None
    PROVE  \E y \in Entry : y \notin Referred(k)
<1>1. SUFFICES ASSUME \A y \in Entry : y \in Referred(k) PROVE FALSE
  OBVIOUS
<1> DEFINE D == {h \in G \ {g} : e[h][k] \in Entry}
           f == [h \in D |-> e[h][k]]
<1>2. IsFiniteSet(G \ {g}) /\ Cardinality(G \ {g}) = Cardinality(G) - 1 /\ Cardinality(G) \in Nat
  BY SyncMapAssumption, FS_RemoveElement, FS_CardinalityType
<1>3. D \in SUBSET (G \ {g})
  OBVIOUS
<1>4. IsFiniteSet(D) /\ Cardinality(D) <= Cardinality(G \ {g}) /\ Cardinality(D) \in Nat
  BY <1>2, <1>3, FS_Subset, FS_CardinalityType
<1>5. \A y \in Entry : \E h \in D : e[h][k] = y
  BY <1>1, SyncMapAssumption DEF Referred
<1>6. f \in Surjection(D, Entry)
  BY <1>5 DEF Surjection
<1> HIDE DEF D, f
<1>7. IsFiniteSet(Entry) /\ Cardinality(Entry) <= Cardinality(D)
  BY <1>4, <1>6, FS_Surjection
<1>8. Cardinality(Entry) \in Nat /\ Cardinality(Entry) >= Cardinality(G)
  BY <1>7, SyncMapAssumption, FS_CardinalityType
<1>9. QED  BY <1>2, <1>4, <1>7, <1>8

\* The update under the lock, and the unlock.
LEMMA UpdateStep ==
    ASSUME IInv, NEW g \in G, Update(g), UNCHANGED program
    PROVE  IInv' /\ Atomic!Next
<1>0. PICK k : k = Key(g)
  OBVIOUS
<1>1. /\ pc[g] = "update" /\ mu = g /\ mu' = NoG /\ pc' = [pc EXCEPT ![g] = "return"]
      /\ UNCHANGED <<call, e, todo>>
  BY DEF Update, Goto
<1>2. Shape(g) /\ Holder(g) /\ Op(g) \in Setters /\ Op(g) # "Range"
  <2>1. Shape(g) /\ Holder(g)
    BY DEF IInv
  <2>2. QED  BY <1>1, <2>1 DEF Shape, Setters
<1>3. /\ k \in K /\ call[g].keys = {k} /\ k \in Pend(g) /\ call[g].val \in V
      /\ \A j \in K : e[g][j] = None
  BY <1>0, <1>1, <1>2, OneKey DEF AnyCall, Shape
<1>4. /\ todo = {} /\ p \in PType /\ TypeOK /\ amended \in BOOLEAN /\ isNil \in BOOLEAN
      /\ amended => ~isNil
      /\ \A j \in K : HalvesAt(j)
      /\ IF read[k] # None THEN p[k][read[k]] # Expunged ELSE ~isNil
  BY <1>1, <1>2, <1>3 DEF IInv, TypeOK, PType, Holder
<1>5. /\ read[k] \in Entry \cup {None} /\ dirty[k] \in Entry \cup {None}
      /\ None \notin Entry /\ Nil # Expunged
  BY <1>3, <1>4, SyncMapAssumption DEF TypeOK, Map
<1>6. ASSUME NEW q \in PType, Entries(q), NEW v \in V, result' = [result EXCEPT ![g][k] = v],
             read' \in Map, dirty' \in Map, amended' \in BOOLEAN, isNil' \in BOOLEAN,
             misses' \in Nat, misses' < Cardinality(K), amended' => ~isNil',
             v = IF Op(g) = "LoadOrStore" /\ Content(k) # Absent THEN Content(k) ELSE call[g].val,
             StepBy(g, q) /\ (\A j \in K : KeptAt(j, q))
                => Moves(k, v) /\ \A j \in K \ {k} : Moves(j, Content(j))
      PROVE  IInv' /\ Atomic!Next
  <2>0. v \in Values
    BY DEF Values
  <2>1. /\ pc' \in [G -> Labels] /\ pc'[g] = "return" /\ \A h \in G \ {g} : pc'[h] = pc[h]
        /\ result' \in [G -> [K -> V \cup {Absent, Unknown}]]
        /\ \A h \in G \ {g} : result'[h] = result[h]
    BY <1>1, <1>3, <1>4, <1>6 DEF TypeOK, Labels
  <2>2. mu' \in G \cup {NoG} /\ mu' # g /\ \A h \in G \ {g} : mu' = h <=> mu = h
    BY <1>1, SyncMapAssumption
  <2>3. StepBy(g, q)
    BY <1>1, <1>4, <1>6, <2>1, <2>2 DEF StepBy, TypeOK, Apart
  <2>4. \A j \in K : KeptAt(j, q) /\ SeenAt(j)
    BY <1>4, <2>3, EntriesStep DEF StepBy
  <2>5. Moves(k, v) /\ \A j \in K \ {k} : Moves(j, Content(j))
    BY <1>6, <2>3, <2>4
  <2>6. call'[g] = call[g] /\ pc[g] # "idle" /\ \A j \in K : e'[g][j] = None
    BY <1>1, <1>3
  <2>7. Fits(g)
    BY <1>2, <1>3, <1>6, <2>0, <2>1, <2>2, <2>4, <2>6, FinishFits
  <2>8. \A h \in G : Holder(h)'
    BY <1>1, <2>1, <2>3, NoOtherHolder DEF Holder
  <2>9. IInv'
    <3>1. \A j \in K : \E w : Moves(j, w)
      BY <2>5
    <3>2. QED  BY <2>3, <2>7, <2>8, <3>1, Assembled
  <2>10. Atomic!Next
    BY <1>1, <1>2, <1>3, <1>6, <2>3, <2>5, StoreDone
  <2>11. QED  BY <2>9, <2>10
<1> DEFINE x == IF read[k] # None THEN read[k] ELSE dirty[k]
<1>7. CASE x # None
  <2> DEFINE v == IF Op(g) = "LoadOrStore" /\ p[k][x] # Nil THEN p[k][x] ELSE call[g].val
             q == [p EXCEPT ![k][x] = v]
             miss == Op(g) = "LoadOrStore" /\ read[k] = None
  <2>1. /\ IF miss THEN missLocked ELSE UNCHANGED <<read, amended, dirty, isNil, misses>>
        /\ result' = [result EXCEPT ![g][k] = v] /\ Entries(q)
    BY <1>0, <1>7 DEF Update, StoreEntry, Reports, Set
  <2>2. /\ x \in Entry /\ p[k][x] \in V \cup {Nil, Expunged} /\ p[k][x] # Expunged
        /\ x = read[k] \/ (read[k] = None /\ amended /\ x = dirty[k])
    BY <1>3, <1>4, <1>5, <1>7 DEF HalvesAt, PType
  <2>3. v \in V /\ v # Nil
    BY <1>3, <2>2, SyncMapAssumption
  <2>4. Content(k) = IF p[k][x] = Nil THEN Absent ELSE p[k][x]
    BY <1>5, <2>2 DEF Content, Value
  <2>5. v = IF Op(g) = "LoadOrStore" /\ Content(k) # Absent THEN Content(k) ELSE call[g].val
    BY <2>2, <2>4, SyncMapAssumption
  <2> HIDE DEF x, v
  <2>6. /\ q \in PType /\ q[k] = [p[k] EXCEPT ![x] = v] /\ \A j \in K \ {k} : q[j] = p[j]
        /\ Written(q, k, x, v)
    BY <1>3, <1>4, <2>2, <2>3 DEF PType, Written
  <2> HIDE DEF q
  <2>7. /\ read' \in Map /\ dirty' \in Map /\ amended' \in BOOLEAN /\ isNil' \in BOOLEAN
        /\ misses' \in Nat /\ misses' < Cardinality(K) /\ (amended' => ~isNil')
    <3>1. CASE miss
      BY <1>4, <2>1, <3>1, MissType
    <3>2. CASE ~miss
      BY <1>4, <2>1, <3>2 DEF TypeOK
    <3>3. QED  BY <3>1, <3>2
  <2>8. ASSUME StepBy(g, q), \A j \in K : KeptAt(j, q)
        PROVE  Moves(k, v) /\ \A j \in K \ {k} : Moves(j, Content(j))
    <3>1. CASE miss
      <4>1. read[k] = None /\ amended /\ x = dirty[k] /\ dirty[k] # None
        BY <1>5, <2>2, <3>1
      <4>2. missLocked /\ todo' = {}
        BY <1>1, <1>4, <2>1, <3>1
      <4>3. \A j \in K \ {k} : Moves(j, Content(j))
        BY <1>4, <2>6, <2>8, <4>1, <4>2, MissStep
      <4>4. Moves(k, v)
        <5>1. CASE EnoughMisses
          BY <1>3, <1>4, <2>3, <2>6, <2>8, <4>1, <4>2, <5>1, PromoteWriteAt DEF missLocked
        <5>2. CASE ~EnoughMisses
          <6>1. UNCHANGED <<read, amended, dirty, isNil, todo>>
            BY <1>1, <4>2, <5>2 DEF missLocked
          <6>2. QED  BY <1>3, <2>2, <2>3, <2>6, <2>8, <6>1, WriteStep
        <5>3. QED  BY <5>1, <5>2
      <4>5. QED  BY <4>3, <4>4
    <3>2. CASE ~miss
      <4>1. UNCHANGED <<read, amended, dirty, isNil, todo>>
        BY <1>1, <2>1, <3>2
      <4>2. QED  BY <1>3, <2>2, <2>3, <2>6, <2>8, <4>1, WriteStep
    <3>3. QED  BY <3>1, <3>2
  <2>9. QED  BY <1>6, <2>1, <2>3, <2>5, <2>6, <2>7, <2>8
<1>8. CASE x = None
  <2> DEFINE y == CHOOSE z \in Entry : z \notin Referred(k)
             v == call[g].val
             q == [p EXCEPT ![k][y] = v]
  <2>1. read[k] = None /\ dirty[k] = None
    BY <1>8
  <2>2. y \in Entry /\ y \notin Referred(k)
    BY <1>3, <2>1, FreshEntry
  <2>3. /\ dirty' = [dirty EXCEPT ![k] = y] /\ amended' = TRUE
        /\ UNCHANGED <<read, isNil, misses>>
        /\ result' = [result EXCEPT ![g][k] = v] /\ Entries(q)
    BY <1>0, <1>8 DEF Update, Reports, Set
  <2>4. v \in V
    BY <1>3
  <2>5. Content(k) = Absent
    BY <2>1 DEF Content, Value
  <2>6. v = IF Op(g) = "LoadOrStore" /\ Content(k) # Absent THEN Content(k) ELSE call[g].val
    BY <2>5
  <2> HIDE DEF y, v
  <2>7. /\ q \in PType /\ q[k] = [p[k] EXCEPT ![y] = v] /\ \A j \in K \ {k} : q[j] = p[j]
    BY <1>3, <1>4, <2>2, <2>4 DEF PType
  <2>8. /\ dirty' \in Map /\ dirty'[k] = y /\ \A j \in K \ {k} : dirty'[j] = dirty[j]
    BY <1>3, <1>4, <2>2, <2>3 DEF TypeOK, Map
  <2>9. ~isNil /\ ~isNil' /\ amended' \in BOOLEAN
    BY <1>4, <2>1, <2>3
  <2> HIDE DEF q
  <2>10. ASSUME StepBy(g, q), \A j \in K : KeptAt(j, q)
         PROVE  Moves(k, v) /\ \A j \in K \ {k} : Moves(j, Content(j))
    <3>1. Moves(k, v)
      BY <1>1, <1>3, <1>4, <2>1, <2>2, <2>3, <2>4, <2>7, <2>8, <2>9, <2>10, NewAt
    <3>2. \A j \in K \ {k} : Moves(j, Content(j))
      BY <1>1, <1>4, <2>3, <2>7, <2>8, <2>9, <2>10, SameAt
    <3>3. QED  BY <3>1, <3>2
  <2>11. /\ read' \in Map /\ isNil' \in BOOLEAN /\ misses' \in Nat /\ misses' < Cardinality(K)
         /\ amended' => ~isNil'
    BY <1>4, <2>3, <2>9 DEF TypeOK
  <2>12. QED  BY <1>6, <2>3, <2>4, <2>6, <2>7, <2>8, <2>9, <2>10, <2>11
<1>9. QED  BY <1>7, <1>8

-----------------------------------------------------------------------------
\* The theorems.

\* Initially the map is empty and nobody calls.
LEMMA InitStep ==
    ASSUME Init
    PROVE  IInv /\ Atomic!Init
<1>1. Cardinality(K) \in Nat /\ Cardinality(K) > 0
  <2>1. Cardinality(K) \in Nat /\ (Cardinality(K) = 0 <=> K = {})
    BY SyncMapAssumption, FS_CardinalityType, FS_EmptySet
  <2>2. QED  BY <2>1, SyncMapAssumption
<1>2. TypeOK
  BY <1>1 DEF Init, TypeOK, Map, Empty, Nothing
<1>3. \A g \in G : Pend(g) = {}
  BY DEF Init, Pend
<1>4. \A g \in G : Shape(g) /\ Holder(g)
  BY <1>3, SyncMapAssumption DEF Init, Shape, Holder, Empty, Nothing
<1>5. \A k \in K : HalvesAt(k) /\ Content(k) = Absent
  BY DEF Init, HalvesAt, Empty, Content, Value
<1>6. \A g \in G, k \in K : Reaching(g, k) /\ Witnessed(g, k)
  BY <1>3 DEF Init, Reaching, Witnessed
<1>7. IInv
  BY <1>2, <1>4, <1>5, <1>6 DEF IInv, Init
<1>8. [k \in K |-> Content(k)] = [k \in K |-> Absent]
  BY <1>5
<1>9. QED  BY <1>7, <1>8 DEF Init, Atomic!Init, Nothing

\* Every step keeps the invariant, and is a step of the atomic map or none.
LEMMA NextStep ==
    ASSUME IInv, [Next]_vars
    PROVE  IInv' /\ [Atomic!Next]_(Atomic!vars)
<1>1. CASE UNCHANGED vars
  <2>1. IInv'
    BY <1>1 DEF vars, shared, IInv, TypeOK, Shape, Op, Pend, Holder, HalvesAt, Reaching, Reached,
                Witnessed, Content, Value, Nothing
  <2>2. UNCHANGED Atomic!vars
    <3>1. [k \in K |-> Content(k)]' = [k \in K |-> Content(k)]
      BY <1>1 DEF vars, shared, Content, Value
    <3>2. QED  BY <1>1, <3>1 DEF vars, Atomic!vars
  <2>3. QED  BY <2>1, <2>2
<1>2. CASE Next
  <2>1. PICK g \in G : \/ Begin(g) \/ Finds(g) \/ Deletes(g) \/ TryStore(g)
                       \/ Locked(g) \/ LockToUpdate(g) \/ CopyToDirty(g) \/ Update(g) \/ Return(g)
    BY <1>2 DEF Next
  <2>2. UNCHANGED program
    BY <1>2 DEF Next
  <2>3. CASE Begin(g)
    BY <2>2, <2>3, BeginStep
  <2>4. CASE Finds(g)
    BY <2>2, <2>4, FindsStep
  <2>5. CASE Deletes(g)
    BY <2>2, <2>5, DeletesStep
  <2>6. CASE TryStore(g)
    BY <2>2, <2>6, TryStoreStep
  <2>7. CASE Locked(g)
    <3>1. Op(g) = "Load" \/ Op(g) = "Delete" \/ Op(g) = "Range"
      BY <2>7 DEF Locked
    <3>2. QED  BY <2>2, <2>7, <3>1, LockedLoad, LockedDelete, LockedRange
  <2>8. CASE LockToUpdate(g)
    BY <2>2, <2>8, LockToUpdateStep
  <2>9. CASE CopyToDirty(g)
    BY <2>2, <2>9, CopyStep
  <2>10. CASE Update(g)
    BY <2>2, <2>10, UpdateStep
  <2>11. CASE Return(g)
    BY <2>2, <2>11, ReturnStep
  <2>12. QED
    BY <2>1, <2>3, <2>4, <2>5, <2>6, <2>7, <2>8, <2>9, <2>10, <2>11
<1>3. QED  BY <1>1, <1>2

\* The inductive invariant of sync.Map.
THEOREM Invariance == Spec => []IInv
<1>1. Init => IInv
  BY InitStep
<1>2. IInv /\ [Next]_vars => IInv'
  BY NextStep
<1>3. QED  BY <1>1, <1>2, PTL DEF Spec

\* The two halves of sync.Map stay views of one map, no write goes to a nil map, and a
\* write without the lock goes to an entry that lookups find.
THEOREM MapSafety == Spec => []MapInvariant
<1>1. ASSUME IInv PROVE MapInvariant
  <2>1. TypeOK /\ NoPanic
    BY <1>1 DEF IInv, Shape, NoPanic
  <2>2. HalvesFit
    BY <1>1 DEF IInv, HalvesAt, HalvesFit
  <2>3. WritesReachable
    <3>1. SUFFICES ASSUME NEW g \in G, pc[g] = "entry", Op(g) \in {"Store", "LoadOrStore"}
                   PROVE  p[Key(g)][e[g][Key(g)]] = Expunged \/ read[Key(g)] = e[g][Key(g)]
      BY DEF WritesReachable
    <3>2. Shape(g) /\ Key(g) \in K /\ call[g].keys = {Key(g)}
      BY <1>1, <3>1, OneKey
    <3>3. e[g][Key(g)] # None
      BY <3>1, <3>2 DEF Shape, Setters
    <3>4. Reaching(g, Key(g))
      BY <1>1, <3>2 DEF IInv
    <3>5. QED  BY <3>1, <3>2, <3>3, <3>4 DEF Reaching, Reached, Setters
  <2>4. QED  BY <2>1, <2>2, <2>3 DEF MapInvariant
<1>2. QED  BY <1>1, Invariance, PTL

\* sync.Map is linearizable: it implements the atomic map.
THEOREM Linearizable == Spec => ImplementsAtomicMap
<1>1. Init => Atomic!Init
  BY InitStep
<1>2. IInv /\ [Next]_vars => [Atomic!Next]_(Atomic!vars)
  BY NextStep
<1>3. QED  BY <1>1, <1>2, Invariance, PTL DEF Spec, ImplementsAtomicMap, Atomic!Spec
====
