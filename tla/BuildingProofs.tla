---------------------------- MODULE BuildingProofs ----------------------------
(***************************************************************************)
(* Proofs about Building, for every world it may begin with, every number  *)
(* of edits and faults and every exit, alias, loop and scatter: that ids    *)
(* are given out once, that what is not marked is saved, that a command     *)
(* costs at most one exit, and that a lock opens to its key only.           *)
(*                                                                         *)
(* Commands save in a few ways, and each way is a lemma that says when it   *)
(* keeps the invariant; a command is shown to be a case of one of them.     *)
(***************************************************************************)
EXTENDS Building, FiniteSetTheorems, TLAPS

(***************************************************************************)
(* Scattering: what the hash picks is one of the candidates.               *)
(***************************************************************************)

\* Of a finite set of numbers, for every rank there is one that has it.
LEMMA Ranked ==
    ASSUME NEW T \in SUBSET Nat, IsFiniteSet(T), NEW r \in 0 .. (Cardinality(T) - 1)
    PROVE  \E x \in T : Cardinality({y \in T : y < x}) = r
<1> DEFINE n == Cardinality(T)
           Below(x) == {y \in T : y < x}
           rank == [x \in T |-> Cardinality(Below(x))]
<1>1. n \in Nat
  BY FS_CardinalityType
<1>2. ASSUME NEW x \in T
      PROVE  IsFiniteSet(Below(x)) /\ Cardinality(Below(x)) \in 0 .. (n - 1)
  <2>1. IsFiniteSet(T \ {x}) /\ Cardinality(T \ {x}) = n - 1
    BY FS_RemoveElement
  <2>2. Below(x) \in SUBSET (T \ {x})
    OBVIOUS
  <2>3. IsFiniteSet(Below(x)) /\ Cardinality(Below(x)) <= n - 1
    BY <2>1, <2>2, FS_Subset
  <2>4. Cardinality(Below(x)) \in Nat
    BY <2>3, FS_CardinalityType
  <2> HIDE DEF n, Below
  <2> QED
    BY <2>3, <2>4, <1>1
<1>3. ASSUME NEW x \in T, NEW y \in T, x < y
      PROVE  Cardinality(Below(x)) < Cardinality(Below(y))
  <2>1. x \notin Below(x) /\ Below(x) \cup {x} \in SUBSET Below(y)
    <3>1. x \in Nat /\ y \in Nat /\ ~(x < x)
      OBVIOUS
    <3>2. \A z \in T : z < x => z < y
      BY <3>1, <1>3
    <3> QED
      BY <3>1, <3>2, <1>3
  <2>2. Cardinality(Below(x) \cup {x}) = Cardinality(Below(x)) + 1
    BY <1>2, <2>1, FS_AddElement
  <2>3. Cardinality(Below(x) \cup {x}) <= Cardinality(Below(y))
    BY <1>2, <2>1, FS_Subset
  <2>4. Cardinality(Below(x)) \in 0 .. (n - 1) /\ Cardinality(Below(y)) \in 0 .. (n - 1)
    BY <1>2
  <2> HIDE DEF n, Below
  <2> QED
    BY <1>1, <2>2, <2>3, <2>4
<1>4. rank \in [T -> 0 .. (n - 1)]
  BY <1>2
<1>5. ASSUME NEW x \in T, NEW y \in T, rank[x] = rank[y]
      PROVE  x = y
  <2>1. Cardinality(Below(x)) = Cardinality(Below(y))
    BY <1>5
  <2>2. Cardinality(Below(x)) \in Nat /\ Cardinality(Below(y)) \in Nat
    BY <1>1, <1>2
  <2>3. ~(x < y) /\ ~(y < x)
    <3> HIDE DEF Below
    <3> QED
      BY <2>1, <2>2, <1>3
  <2> QED
    BY <2>3
<1>6. rank \in Injection(T, 0 .. (n - 1))
  BY <1>4, <1>5 DEF Injection, IsInjective
<1>7. IsFiniteSet(0 .. (n - 1)) /\ Cardinality(0 .. (n - 1)) = n
  <2>0. 0 \in Int /\ n - 1 \in Int
    <3> HIDE DEF n
    <3> QED
      BY <1>1
  <2>1. IsFiniteSet(0 .. (n - 1)) /\ Cardinality(0 .. (n - 1)) = IF 0 > n - 1 THEN 0 ELSE (n - 1) - 0 + 1
    BY <2>0, FS_Interval
  <2> HIDE DEF n
  <2> QED
    BY <1>1, <2>1
<1>8. rank \in Surjection(T, 0 .. (n - 1))
  BY <1>6, <1>7, FS_Injection
<1>9. PICK x \in T : rank[x] = r
  BY <1>8 DEF Surjection
<1> QED
  BY <1>9

\* Who is scattered ends in a place, or where the exit leads anyway.
LEMMA Scattered ==
    ASSUME NEW o, NEW from \in DOMAIN Scatter, NEW otherwise
    PROVE  \/ PickScatter(o, from, otherwise) = otherwise
           \/ IsPlace(o, PickScatter(o, from, otherwise))
<1> DEFINE to == Scatter[from].to
           there == {x \in DOMAIN to : IsPlace(o, to[x])}
           n == Cardinality(there)
<1>1. CASE there = {}
  BY <1>1 DEF PickScatter
<1>2. CASE there # {}
  <2>1. to \in Seq(Nat)
    BY PlacesAssumption
  <2>2. IsFiniteSet(there) /\ there \in SUBSET Nat
    <3>1. DOMAIN to = 1 .. Len(to) /\ Len(to) \in Nat
      BY <2>1
    <3>2. IsFiniteSet(1 .. Len(to))
      BY <3>1, FS_Interval
    <3> QED
      BY <3>1, <3>2, FS_Subset
  <2>3. n \in Nat /\ n # 0
    BY <1>2, <2>2, FS_CardinalityType, FS_EmptySet
  <2>4. Hash % n \in 0 .. (n - 1)
    <3>1. Hash \in Nat
      BY PlacesAssumption
    <3> HIDE DEF n
    <3> QED
      BY <2>3, <3>1, SMTT(30)
  <2>5. \E x \in there : Cardinality({y \in there : y < x}) = Hash % n
    BY <2>2, <2>4, Ranked
  <2>6. PickScatter(o, from, otherwise) = to[CHOOSE x \in there : Cardinality({y \in there : y < x}) = Hash % n]
    BY <1>2 DEF PickScatter
  <2>7. (CHOOSE x \in there : Cardinality({y \in there : y < x}) = Hash % n) \in there
    BY <2>5
  <2> QED
    BY <2>6, <2>7
<1> QED
  BY <1>1, <1>2

\* An exit leads to something that is there.
LEMMA DestinationIsThere ==
    ASSUME NEW o, NEW from, NEW dir, o[from].exits[dir] \in DOMAIN o
    PROVE  Destination(o, from, dir) \in DOMAIN o
<1>1. LoopEntry(o, o[from].exits[dir]) \in DOMAIN o
  BY DEF LoopEntry, IsPlace, Active
<1>2. ASSUME NEW to \in DOMAIN o
      PROVE  ScatterExit(o, from, dir, to) \in DOMAIN o
  BY Scattered DEF ScatterExit, IsPlace, Active
<1> QED
  BY <1>1, <1>2 DEF Destination

(***************************************************************************)
(* The invariant: what is in the graph and in its row is the same object,  *)
(* of the same kind; the row has all the exits the graph has; and the      *)
(* wizard is there, active, where its row says.                            *)
(***************************************************************************)

Leads(x, row) == \A d \in DOMAIN x.exits : d \in DOMAIN row.exits /\ row.exits[d] = x.exits[d]

Pair(i, x, row) ==
    /\ IsObject(x) /\ x.kind = row.kind
    /\ x.kind \in PlaceKinds => Leads(x, row)
    /\ i = Me => x.kind = "player" /\ x.active /\ row.active /\ x.at = row.at

Sound ==
    /\ counter \in Nat
    /\ {Me, Home} \subseteq DOMAIN rows /\ Me \in DOMAIN graph
    /\ \A i \in DOMAIN rows : IsObject(rows[i])
    /\ \A i \in DOMAIN graph : Pair(i, graph[i], rows[i])

Inv == TypeOK /\ UnsavedIsMarked /\ Sound

(***************************************************************************)
(* Objects: what stays when a field of one is changed.                     *)
(***************************************************************************)

\* An object written as it is fits its row, and is saved.
LEMMA WrittenAlike ==
    ASSUME NEW i, NEW x, IsObject(x), i = Me => x.kind = "player" /\ x.active
    PROVE  Pair(i, x, x) /\ AsSaved(x, x)
BY DEF Pair, Leads, AsSaved

\* Deleting, undeleting, moving an object and attaching scripts to it leave it one of its kind.
LEMMA EditedStays ==
    ASSUME NEW x, IsObject(x), NEW v
    PROVE  /\ IsObject([x EXCEPT !.at = v]) /\ [x EXCEPT !.at = v].kind = x.kind
           /\ [x EXCEPT !.at = v].active = x.active
           /\ IsObject([x EXCEPT !.scripts = v]) /\ [x EXCEPT !.scripts = v].kind = x.kind
           /\ [x EXCEPT !.scripts = v].active = x.active
           /\ v \in BOOLEAN => IsObject([x EXCEPT !.active = v]) /\ [x EXCEPT !.active = v].kind = x.kind
BY DEF IsObject, Fields, Kinds, GateKinds, PortalKinds, PlaceKinds

\* So does adding and taking away exits.
LEMMA Ways ==
    ASSUME NEW x, IsObject(x), x.kind \in PlaceKinds, NEW v
    PROVE  /\ NoDir \notin DOMAIN v => IsObject([x EXCEPT !.exits = v])
           /\ [x EXCEPT !.exits = v].kind = x.kind
           /\ [x EXCEPT !.exits = v].exits = v /\ [x EXCEPT !.exits = v].active = x.active
           /\ IsObject([x EXCEPT !.returns = v]) /\ [x EXCEPT !.returns = v].kind = x.kind
           /\ [x EXCEPT !.returns = v].exits = x.exits /\ [x EXCEPT !.returns = v].active = x.active
BY DEF IsObject, Fields, Kinds, GateKinds, PortalKinds, PlaceKinds

\* And opening, closing, locking and fitting a lock.
LEMMA Leaf ==
    ASSUME NEW x, IsObject(x), x.kind \in GateKinds, NEW v
    PROVE  /\ IsObject([x EXCEPT !.open = v]) /\ [x EXCEPT !.open = v].kind = x.kind
           /\ [x EXCEPT !.open = v].at = x.at /\ [x EXCEPT !.open = v].open = v
           /\ [x EXCEPT !.open = v].lock = x.lock /\ [x EXCEPT !.open = v].locked = x.locked
           /\ IsObject([x EXCEPT !.locked = v]) /\ [x EXCEPT !.locked = v].kind = x.kind
           /\ [x EXCEPT !.locked = v].at = x.at /\ [x EXCEPT !.locked = v].locked = v
           /\ [x EXCEPT !.locked = v].lock = x.lock
           /\ IsObject([x EXCEPT !.lock = v]) /\ [x EXCEPT !.lock = v].kind = x.kind
           /\ [x EXCEPT !.lock = v].at = x.at /\ [x EXCEPT !.lock = v].locked = x.locked
           /\ IsObject([x EXCEPT !.spends = v]) /\ [x EXCEPT !.spends = v].kind = x.kind
           /\ [x EXCEPT !.spends = v].at = x.at /\ [x EXCEPT !.spends = v].locked = x.locked
BY DEF IsObject, Fields, Kinds, GateKinds, PortalKinds, PlaceKinds

\* What a hand holds is no concern of the rest of it.
LEMMA Hand ==
    ASSUME NEW x, IsObject(x), x.kind = "player", NEW v
    PROVE  /\ IsObject([x EXCEPT !.held = v]) /\ [x EXCEPT !.held = v].kind = x.kind
           /\ [x EXCEPT !.held = v].at = x.at /\ [x EXCEPT !.held = v].held = v
           /\ [x EXCEPT !.held = v].active = x.active
BY DEF IsObject, Fields, Kinds, GateKinds, PortalKinds, PlaceKinds

\* New objects are objects.
LEMMA Made ==
    /\ \A kind \in PlaceKinds : \A f :
           IsObject(NewPlace(kind, f)) /\ NewPlace(kind, f).kind = kind
    /\ \A kind : IsObject(Shell(kind))
    /\ \A kind \in PlaceKinds : Shell(kind).kind = kind
    /\ \A lock, at : IsObject(Key(lock, at)) /\ Key(lock, at).kind = "key"
<1>0. DOMAIN <<>> = {}
  OBVIOUS
<1>1. ASSUME NEW kind \in PlaceKinds, NEW f
      PROVE  IsObject(NewPlace(kind, f)) /\ NewPlace(kind, f).kind = kind
  BY <1>0 DEF IsObject, Fields, Kinds, GateKinds, PortalKinds, PlaceKinds, NewPlace
<1>2. ASSUME NEW kind \in PlaceKinds
      PROVE  IsObject(Shell(kind)) /\ Shell(kind).kind = kind
  <2>1. Shell(kind) = [kind |-> kind, active |-> TRUE, at |-> Nil, scripts |-> <<>>,
                       exits |-> <<>>, returns |-> <<>>]
    BY DEF Shell
  <2>2. Shell(kind).kind = kind /\ Shell(kind).active = TRUE /\ Shell(kind).exits = <<>>
    BY <2>1
  <2>3. Fields(kind) = {"kind", "active", "at", "scripts", "exits", "returns"}
    <3>1. kind = "area" \/ kind = "room"
      BY DEF PlaceKinds
    <3> QED
      BY <3>1 DEF Fields, GateKinds, PortalKinds, PlaceKinds
  <2>4. Shell(kind) = [f \in Fields(kind) |-> Shell(kind)[f]]
    BY <2>1, <2>3
  <2> QED
    BY <1>0, <2>2, <2>4 DEF IsObject, Kinds
<1>3. ASSUME NEW kind, kind \notin PlaceKinds
      PROVE  IsObject(Shell(kind))
  <2>1. Shell(kind) = [kind |-> "item", active |-> TRUE, at |-> Nil, scripts |-> <<>>]
    BY <1>3 DEF Shell
  <2>2. Shell(kind).kind = "item" /\ Shell(kind).active = TRUE
    BY <2>1
  <2>3. Fields("item") = {"kind", "active", "at", "scripts"}
    BY DEF Fields, GateKinds, PortalKinds, PlaceKinds
  <2>4. Shell(kind) = [f \in Fields("item") |-> Shell(kind)[f]]
    BY <2>1, <2>3
  <2> QED
    BY <2>2, <2>4 DEF IsObject, Kinds, GateKinds, PortalKinds, PlaceKinds
<1>4. \A lock, at : IsObject(Key(lock, at)) /\ Key(lock, at).kind = "key"
  BY DEF IsObject, Fields, Kinds, GateKinds, PortalKinds, PlaceKinds, Key
<1> QED
  BY <1>1, <1>2, <1>3, <1>4

\* A gate that was saved but for its leaf, and is opened or closed again, is still saved but for
\* its leaf; and it can be told from its row in nothing else.
LEMMA StillSaved ==
    ASSUME NEW x, NEW y, NEW row, IsObject(x), IsObject(y), IsObject(row), AsSaved(x, y), AsSaved(y, row)
    PROVE  AsSaved(x, row) /\ x.kind = y.kind
<1>1. CASE x = y
  BY <1>1
<1>2. CASE y = row
  BY <1>2 DEF AsSaved, IsObject, Fields, Kinds, GateKinds, PortalKinds, PlaceKinds
<1>3. CASE x # y /\ y # row
  <2>1. x.kind \in GateKinds /\ x = [y EXCEPT !.open = x.open, !.locked = x.locked]
    BY <1>3 DEF AsSaved
  <2>2. y.kind \in GateKinds /\ y = [row EXCEPT !.open = y.open, !.locked = y.locked]
    BY <1>3 DEF AsSaved
  <2>3. x.kind = y.kind
    BY <2>1 DEF IsObject, Fields, Kinds, GateKinds, PortalKinds
  <2>4. x = [row EXCEPT !.open = x.open, !.locked = x.locked]
    BY <2>1, <2>2 DEF IsObject, Fields, Kinds, GateKinds, PortalKinds
  <2> QED
    BY <2>1, <2>3, <2>4 DEF AsSaved
<1> QED
  BY <1>1, <1>2, <1>3

\* And it fits its row as before.
LEMMA Alike ==
    ASSUME NEW i, NEW x, NEW y, NEW row, IsObject(x), IsObject(y), AsSaved(x, y), Pair(i, y, row)
    PROVE  Pair(i, x, row)
<1>1. CASE x = y
  BY <1>1
<1>2. CASE x # y
  <2>1. x.kind = y.kind
    BY StillSaved DEF AsSaved
  <2>2. y.kind \in GateKinds
    BY <1>2, <2>1 DEF AsSaved
  <2> QED
    BY <2>1, <2>2 DEF Pair, GateKinds, PortalKinds, PlaceKinds
<1> QED
  BY <1>1, <1>2

(***************************************************************************)
(* Gates: what unlocking and opening them does to the graph.               *)
(***************************************************************************)

\* OpensWithKey, said of the graph that comes out.
Turned(g, gate) ==
    \E k \in DOMAIN graph :
        /\ Active(graph, k) /\ Unlocks(graph[k], graph[gate])
        /\ k \in graph[Me].held \/ graph[k].at = here
        /\ graph[k].once => ~g[k].active /\ k \notin g[Me].held

Handled(g, ids) ==
    /\ ids \subseteq DOMAIN graph /\ DOMAIN g = DOMAIN graph
    /\ \A i \in DOMAIN graph :
        /\ IsObject(g[i]) /\ g[i].kind = graph[i].kind /\ g[i].at = graph[i].at
        /\ graph[i].kind \in PlaceKinds \/ i \notin ids => g[i] = graph[i]
    /\ g[Me].active
    /\ \A gate \in DOMAIN graph :
        graph[gate].kind \in GateKinds /\ IsLocked(graph[gate]) /\ ~IsLocked(g[gate]) => Turned(g, gate)

Objects ==
    /\ \A i \in DOMAIN graph : IsObject(graph[i])
    /\ Me \in DOMAIN graph /\ graph[Me].kind = "player" /\ graph[Me].active

\* Doing nothing.
LEMMA NothingHandled ==
    ASSUME Objects
    PROVE  Handled(graph, {})
BY DEF Objects, Handled

\* The leaf of a gate that is marked is opened.
LEMMA OpenHandled ==
    ASSUME Objects, NEW g, NEW ids, Handled(g, ids), NEW gate \in ids, graph[gate].kind \in GateKinds
    PROVE  /\ Handled(OpenGate(g, gate), ids)
           /\ OpenGate(g, gate)[gate].open /\ IsLocked(OpenGate(g, gate)[gate]) = IsLocked(g[gate])
<1> DEFINE h == OpenGate(g, gate)
<1>1. gate \in DOMAIN g /\ IsObject(g[gate]) /\ g[gate].kind = graph[gate].kind /\ g[gate].at = graph[gate].at
  BY DEF Handled
<1>2. DOMAIN h = DOMAIN g /\ h[gate] = [g[gate] EXCEPT !.open = TRUE] /\ \A i \in DOMAIN g \ {gate} : h[i] = g[i]
  BY <1>1 DEF OpenGate
<1>3. /\ IsObject(h[gate]) /\ h[gate].kind = graph[gate].kind /\ h[gate].at = graph[gate].at
      /\ h[gate].open /\ h[gate].lock = g[gate].lock /\ h[gate].locked = g[gate].locked
  <2> HIDE DEF h
  <2>1. graph[gate].kind \in GateKinds
    OBVIOUS
  <2>2. /\ IsObject(h[gate]) /\ h[gate].kind = g[gate].kind /\ h[gate].at = g[gate].at
        /\ h[gate].open = TRUE /\ h[gate].lock = g[gate].lock /\ h[gate].locked = g[gate].locked
    BY <1>1, <1>2, <2>1 DEF IsObject, Fields, Kinds, GateKinds, PortalKinds, PlaceKinds
  <2> QED
    BY <1>1, <2>2
<1>4. IsLocked(h[gate]) = IsLocked(g[gate])
  BY <1>3 DEF IsLocked, HasLock
<1>5. graph[gate].kind \notin PlaceKinds /\ gate # Me
  BY DEF PlaceKinds, GateKinds, PortalKinds, Objects
<1>6. \A x \in DOMAIN graph : Turned(g, x) => Turned(h, x)
  <2>1. \A k \in DOMAIN graph, x \in DOMAIN graph : Unlocks(graph[k], graph[x]) => k # gate
    BY DEF Unlocks, GateKinds, PortalKinds
  <2> HIDE DEF h
  <2> QED
    BY <1>2, <1>5, <2>1 DEF Turned, Objects, Handled
<1>7. \A x \in DOMAIN graph : IsLocked(h[x]) = IsLocked(g[x])
  BY <1>2, <1>4 DEF Handled
<1> HIDE DEF h
<1>8. Handled(h, ids)
  BY <1>2, <1>3, <1>5, <1>6, <1>7 DEF Handled, Objects
<1> QED
  BY <1>8, <1>3, <1>4 DEF h

\* A one-time key crumbles.
LEMMA Consumed ==
    ASSUME NEW o, NEW k \in DOMAIN o, o[k].kind = "key", \A i \in DOMAIN o : IsObject(o[i])
    PROVE  /\ DOMAIN ConsumeKey(o, k) = DOMAIN o
           /\ ~ConsumeKey(o, k)[k].active
           /\ \A i \in DOMAIN o :
                /\ IsObject(ConsumeKey(o, k)[i])
                /\ ConsumeKey(o, k)[i].kind = o[i].kind /\ ConsumeKey(o, k)[i].at = o[i].at
                /\ i \in Players(o) => ConsumeKey(o, k)[i].active /\ k \notin ConsumeKey(o, k)[i].held
                /\ i \notin Players(o) \cup {k} => ConsumeKey(o, k)[i] = o[i]
<1> DEFINE c == ConsumeKey(o, k)
<1>1. k \notin Players(o)
  BY DEF Players
<1>2. DOMAIN c = DOMAIN o
  BY DEF ConsumeKey
<1>3. c[k] = [o[k] EXCEPT !.active = FALSE]
  BY <1>1 DEF ConsumeKey
<1>4. ASSUME NEW i \in DOMAIN o, i # k
      PROVE  c[i] = IF i \in Players(o) THEN [o[i] EXCEPT !.held = @ \ {k}] ELSE o[i]
  BY <1>4 DEF ConsumeKey
<1>5. /\ IsObject(c[k]) /\ c[k].kind = o[k].kind /\ c[k].at = o[k].at /\ ~c[k].active
  BY <1>3 DEF IsObject, Fields, Kinds, GateKinds, PortalKinds, PlaceKinds
<1>6. ASSUME NEW i \in Players(o)
      PROVE  /\ IsObject(c[i]) /\ c[i].kind = o[i].kind /\ c[i].at = o[i].at /\ c[i].active
             /\ k \notin c[i].held
  <2>1. i \in DOMAIN o /\ o[i].kind = "player" /\ o[i].active /\ i # k
    BY <1>1 DEF Players
  <2>2. c[i] = [o[i] EXCEPT !.held = o[i].held \ {k}]
    BY <1>4, <2>1
  <2> HIDE DEF c
  <2> QED
    BY <2>1, <2>2, Hand
<1> HIDE DEF c
<1> QED
  BY <1>1, <1>2, <1>4, <1>5, <1>6 DEF c

\* Unlocking with a key that fits.
LEMMA UnlockHandled ==
    ASSUME Objects, NEW gate \in DOMAIN graph, graph[gate].kind \in GateKinds,
           NEW k, Active(graph, k), Unlocks(graph[k], graph[gate]), k \in graph[Me].held \/ graph[k].at = here
    PROVE  /\ Handled(UnlockWith(graph, gate, k), UnlockMarks(graph, gate, k))
           /\ ~IsLocked(UnlockWith(graph, gate, k)[gate])
<1> DEFINE opened == [graph EXCEPT ![gate].locked = FALSE,
                                   ![gate].lock = IF graph[gate].spends THEN Nil ELSE @,
                                   ![gate].spends = FALSE]
           g == UnlockWith(graph, gate, k)
           ids == UnlockMarks(graph, gate, k)
<1>1. k \in DOMAIN graph /\ graph[k].kind = "key" /\ k # gate /\ graph[k].active
  BY DEF Active, Unlocks, GateKinds, PortalKinds
<1>2. DOMAIN opened = DOMAIN graph /\ \A i \in DOMAIN graph \ {gate} : opened[i] = graph[i]
  OBVIOUS
<1>3. PICK v : opened[gate] = [[[graph[gate] EXCEPT !.locked = FALSE] EXCEPT !.lock = v] EXCEPT !.spends = FALSE]
  OBVIOUS
<1>4. /\ IsObject(opened[gate]) /\ opened[gate].kind = graph[gate].kind
      /\ opened[gate].at = graph[gate].at /\ opened[gate].locked = FALSE
  <2> HIDE DEF opened
  <2> QED
    BY <1>3 DEF Objects, IsObject, Fields, Kinds, GateKinds, PortalKinds, PlaceKinds
<1>5. \A i \in DOMAIN opened : IsObject(opened[i]) /\ opened[i].kind = graph[i].kind /\ opened[i].at = graph[i].at
  BY <1>2, <1>4 DEF Objects
<1>6. Me \in Players(opened) /\ Players(opened) = Players(graph) /\ Me # gate /\ Me # k /\ gate \notin Players(graph)
  <2>1. graph[gate].kind # "player"
    BY DEF GateKinds, PortalKinds
  <2> HIDE DEF opened
  <2> QED
    BY <1>1, <1>2, <1>4, <2>1 DEF Players, Objects
<1>7. g = IF graph[k].once THEN ConsumeKey(opened, k) ELSE opened
  BY DEF UnlockWith
<1>8. ids = {gate} \cup (IF graph[k].once THEN {k} \cup Players(graph) ELSE {})
  BY DEF UnlockMarks
<1> HIDE DEF opened, g, ids
<1>9. ids \subseteq DOMAIN graph
  BY <1>1, <1>8 DEF Players
<1>10. DOMAIN g = DOMAIN graph /\ g[Me].active
  <2>1. CASE graph[k].once
    <3>1. opened[k].kind = "key" /\ k \in DOMAIN opened
      BY <1>1, <1>2
    <3> QED
      BY <2>1, <1>2, <1>5, <1>6, <1>7, <3>1, Consumed DEF Objects
  <2>2. CASE ~graph[k].once
    BY <2>2, <1>2, <1>6, <1>7 DEF Objects
  <2> QED
    BY <2>1, <2>2
<1>11. ASSUME NEW i \in DOMAIN graph
       PROVE  /\ IsObject(g[i]) /\ g[i].kind = graph[i].kind /\ g[i].at = graph[i].at
              /\ graph[i].kind \in PlaceKinds \/ i \notin ids => g[i] = graph[i]
  <2>1. CASE graph[k].once
    <3>1. opened[k].kind = "key" /\ k \in DOMAIN opened /\ i \in DOMAIN opened
      BY <1>1, <1>2
    <3>2. /\ IsObject(g[i]) /\ g[i].kind = opened[i].kind /\ g[i].at = opened[i].at
          /\ i \notin Players(opened) \cup {k} => g[i] = opened[i]
      BY <2>1, <3>1, <1>5, <1>7, Consumed
    <3>3. graph[i].kind \in PlaceKinds \/ i \notin ids => i # gate /\ i # k /\ i \notin Players(graph)
      BY <2>1, <1>1, <1>8 DEF Players, PlaceKinds, GateKinds, PortalKinds
    <3> QED
      BY <1>2, <1>5, <1>6, <3>1, <3>2, <3>3
  <2>2. CASE ~graph[k].once
    <3>1. graph[i].kind \in PlaceKinds \/ i \notin ids => i # gate
      BY <1>8 DEF PlaceKinds, GateKinds, PortalKinds
    <3> QED
      BY <2>2, <1>2, <1>5, <1>7, <3>1
  <2> QED
    BY <2>1, <2>2
<1>12. g[gate].locked = FALSE /\ \A i \in DOMAIN graph \ {gate} : graph[i].kind \in GateKinds => g[i] = graph[i]
  <2>1. CASE graph[k].once
    <3>1. opened[k].kind = "key" /\ k \in DOMAIN opened
      BY <1>1, <1>2
    <3>2. \A i \in DOMAIN opened : i \notin Players(opened) \cup {k} => g[i] = opened[i]
      BY <2>1, <3>1, <1>5, <1>7, Consumed
    <3>3. \A i \in DOMAIN graph : graph[i].kind \in GateKinds => i # k /\ i \notin Players(graph)
      BY <1>1 DEF Players, GateKinds, PortalKinds
    <3> QED
      BY <1>2, <1>4, <1>6, <3>2, <3>3
  <2>2. CASE ~graph[k].once
    BY <2>2, <1>2, <1>4, <1>7
  <2> QED
    BY <2>1, <2>2
<1>13. Turned(g, gate)
  <2>1. graph[k].once => ~g[k].active /\ k \notin g[Me].held
    <3> SUFFICES ASSUME graph[k].once
                 PROVE  ~g[k].active /\ k \notin g[Me].held
      OBVIOUS
    <3>1. opened[k].kind = "key" /\ k \in DOMAIN opened
      BY <1>1, <1>2
    <3>2. Me \in DOMAIN opened
      BY <1>2 DEF Objects
    <3> QED
      BY <3>1, <3>2, <1>5, <1>6, <1>7, Consumed
  <2> QED
    BY <1>1, <2>1 DEF Turned
<1>14. ~IsLocked(g[gate])
  BY <1>12 DEF IsLocked
<1>15. Handled(g, ids)
  BY <1>9, <1>10, <1>11, <1>12, <1>13 DEF Handled
<1> QED
  BY <1>14, <1>15 DEF g, ids

\* Before passing a gate: it is unlocked if need be, and opened.
LEMMA PrepareHandled ==
    ASSUME Objects, NEW gate \in DOMAIN graph, graph[gate].kind \in GateKinds, NEW p \in PrepareGate(gate)
    PROVE  Handled(p.g, p.ids) /\ ~Blocks(p.g[gate])
<1>1. CASE ~IsLocked(graph[gate])
  <2>1. p = [g |-> OpenGate(graph, gate), ids |-> {gate}]
    BY <1>1 DEF PrepareGate
  <2>2. Handled(graph, {gate})
    BY DEF Handled, Objects
  <2> QED
    BY <1>1, <2>1, <2>2, OpenHandled DEF Blocks
<1>2. CASE IsLocked(graph[gate])
  <2>1. PICK k \in KeysHeld(graph, Me, gate) :
          p = [g |-> OpenGate(UnlockWith(graph, gate, k), gate), ids |-> UnlockMarks(graph, gate, k)]
    BY <1>2 DEF PrepareGate
  <2>2. k \in graph[Me].held /\ Active(graph, k) /\ Unlocks(graph[k], graph[gate])
    BY DEF KeysHeld
  <2>3. /\ Handled(UnlockWith(graph, gate, k), UnlockMarks(graph, gate, k))
        /\ ~IsLocked(UnlockWith(graph, gate, k)[gate])
    BY <2>2, UnlockHandled
  <2>4. gate \in UnlockMarks(graph, gate, k)
    BY DEF UnlockMarks
  <2> QED
    BY <2>1, <2>3, <2>4, OpenHandled DEF Blocks
<1> QED
  BY <1>1, <1>2

\* So whichever way through the exit is taken.
LEMMA PassagesHandled ==
    ASSUME Objects, NEW dir, NEW to, NEW p \in Passages(dir, to)
    PROVE  Handled(p.g, p.ids)
<1>1. CASE p = [g |-> graph, ids |-> {}]
  BY <1>1, NothingHandled
<1>2. CASE p # [g |-> graph, ids |-> {}]
  <2>1. PICK d \in PortalsFor(graph, here, dir) : p \in PrepareGate(d)
    BY <1>2 DEF Passages
  <2>2. d \in DOMAIN graph /\ graph[d].kind \in GateKinds
    BY DEF PortalsFor, GateKinds
  <2> QED
    BY <2>1, <2>2, PrepareHandled
<1> QED
  BY <1>1, <1>2

(***************************************************************************)
(* The ways a command writes: each keeps the invariant.                    *)
(***************************************************************************)

\* What the lemmas on gates ask for.
LEMMA InvObjects ==
    ASSUME Inv
    PROVE  Objects
BY DEF Inv, Sound, Objects, Pair

\* What every object of the next graph has to satisfy, and the sets about it.
LEMMA Kept ==
    ASSUME counter' \in Nat,
           DOMAIN graph' \subseteq DOMAIN rows', DOMAIN rows' \subseteq 1 .. (counter' - 1),
           marked' \subseteq DOMAIN graph', stale' \subseteq DOMAIN graph',
           Me \in DOMAIN graph', {Me, Home} \subseteq DOMAIN rows', here' \in DOMAIN rows' \cup {Nil},
           \A i \in DOMAIN rows' : IsObject(rows'[i]),
           \A i \in DOMAIN graph' : Pair(i, graph'[i], rows'[i]),
           \A i \in DOMAIN graph' \ (marked' \cup stale') : AsSaved(graph'[i], rows'[i])
    PROVE  Inv'
<1>1. \A i \in DOMAIN graph' : graph'[i].kind \in Kinds
  BY DEF Pair, IsObject
<1> QED
  BY <1>1 DEF Inv, Sound, TypeOK, UnsavedIsMarked

\* Persist: what is not written differs from what it was in the leaf of a gate at most.
LEMMA PersistKeeps ==
    ASSUME Inv, NEW g, NEW ids, Persist(g, ids),
           ids \subseteq DOMAIN g, DOMAIN graph \subseteq DOMAIN g, DOMAIN g \subseteq 1 .. (counter' - 1),
           counter' \in Nat, counter <= counter',
           \A i \in DOMAIN g : IsObject(g[i]),
           g[Me].kind = "player", g[Me].active,
           \A i \in DOMAIN g \ ids : i \in DOMAIN graph /\ AsSaved(g[i], graph[i]),
           here' \in DOMAIN g \cup DOMAIN rows \cup {Nil}
    PROVE  Inv'
<1> DEFINE dirty == marked \cup ids
<1>1. /\ graph' = g /\ marked' = {} /\ stale' = stale \ dirty
      /\ rows' = [i \in DOMAIN rows \cup dirty |-> IF i \in dirty THEN g[i] ELSE rows[i]]
  BY DEF Persist
<1>2. DOMAIN rows' = DOMAIN rows \cup dirty /\ dirty \subseteq DOMAIN g
  BY <1>1 DEF Inv, TypeOK
<1>3. DOMAIN rows \subseteq 1 .. (counter' - 1) /\ DOMAIN graph \subseteq DOMAIN rows /\ counter \in Nat
  <2>1. DOMAIN rows \subseteq 1 .. (counter - 1) /\ counter \in Nat /\ DOMAIN graph \subseteq DOMAIN rows
    BY DEF Inv, Sound, TypeOK
  <2> QED
    BY <2>1
<1>4. DOMAIN g \subseteq DOMAIN rows' /\ DOMAIN rows' \subseteq 1 .. (counter' - 1)
  BY <1>2, <1>3
<1>5. Me \in DOMAIN graph' /\ {Me, Home} \subseteq DOMAIN rows' /\ stale' \subseteq DOMAIN graph'
  BY <1>1, <1>2 DEF Inv, Sound, TypeOK
<1>6. \A i \in DOMAIN rows' : IsObject(rows'[i])
  BY <1>1, <1>2 DEF Inv, Sound
<1>7. ASSUME NEW i \in DOMAIN g
      PROVE  /\ Pair(i, graph'[i], rows'[i])
             /\ i \notin marked' \cup stale' => AsSaved(graph'[i], rows'[i])
  <2>1. CASE i \in dirty
    <3>1. graph'[i] = g[i] /\ rows'[i] = g[i]
      BY <1>1, <2>1
    <3> QED
      BY <3>1, WrittenAlike
  <2>2. CASE i \notin dirty
    <3>1. graph'[i] = g[i] /\ rows'[i] = rows[i] /\ i \in DOMAIN graph /\ AsSaved(g[i], graph[i])
      BY <1>1, <1>3, <2>2
    <3>2. Pair(i, graph[i], rows[i]) /\ IsObject(graph[i]) /\ IsObject(rows[i]) /\ IsObject(g[i])
      BY <3>1, <1>3 DEF Inv, Sound, Pair
    <3>3. i \notin marked \cup stale => AsSaved(graph[i], rows[i])
      BY <3>1 DEF Inv, UnsavedIsMarked
    <3>4. i \notin marked' \cup stale' => i \notin marked \cup stale
      BY <1>1, <2>2
    <3> QED
      BY <3>1, <3>2, <3>3, <3>4, StillSaved, Alike
  <2> QED
    BY <2>1, <2>2
<1> HIDE DEF dirty
<1>8. here' \in DOMAIN rows' \cup {Nil}
  BY <1>2, <1>4
<1> QED
  BY <1>1, <1>4, <1>5, <1>6, <1>7, <1>8, Kept

\* With what PrepareGate and its like leave.
LEMMA HandledSaved ==
    ASSUME Inv, NEW g, NEW ids, NEW more, Handled(g, ids), ids \subseteq more, more \subseteq DOMAIN graph,
           Persist(g, more), counter' = counter, here' = here
    PROVE  Inv'
<1>1. g[Me].kind = "player" /\ g[Me].active /\ \A i \in DOMAIN g : IsObject(g[i])
  BY InvObjects DEF Handled, Objects
<1>2. \A i \in DOMAIN g \ more : i \in DOMAIN graph /\ AsSaved(g[i], graph[i])
  BY DEF Handled, AsSaved
<1>3. DOMAIN g = DOMAIN graph
  BY DEF Handled
<1>4. DOMAIN g \subseteq 1 .. (counter' - 1) /\ counter' \in Nat /\ counter <= counter'
  <2>1. counter \in Nat /\ DOMAIN graph \subseteq DOMAIN rows /\ DOMAIN rows \subseteq 1 .. (counter - 1)
    BY DEF Inv, Sound, TypeOK
  <2> QED
    BY <1>3, <2>1
<1>5. here' \in DOMAIN g \cup DOMAIN rows \cup {Nil}
  BY DEF Inv, TypeOK
<1> QED
  BY <1>1, <1>2, <1>3, <1>4, <1>5, PersistKeeps

\* PersistObject and FromRow: the object and its row are written alike.
LEMMA PutKeeps ==
    ASSUME Inv, NEW i \in DOMAIN rows, NEW obj, IsObject(obj), i = Me => obj.kind = "player" /\ obj.active,
           graph' = With(graph, i, obj), rows' = With(rows, i, obj), stale' = stale \ {i},
           marked \subseteq marked', marked' \subseteq marked \cup {i}, counter' = counter, here' = here
    PROVE  Inv'
<1>1. /\ DOMAIN graph' = DOMAIN graph \cup {i} /\ DOMAIN rows' = DOMAIN rows
      /\ graph'[i] = obj /\ rows'[i] = obj
      /\ \A j \in DOMAIN graph \ {i} : graph'[j] = graph[j]
      /\ \A j \in DOMAIN rows \ {i} : rows'[j] = rows[j]
  BY DEF With
<1>2. ASSUME NEW j \in DOMAIN graph'
      PROVE  /\ Pair(j, graph'[j], rows'[j])
             /\ j \notin marked' \cup stale' => AsSaved(graph'[j], rows'[j])
  <2>1. CASE j = i
    BY <1>1, <2>1, WrittenAlike
  <2>2. CASE j # i
    BY <1>1, <2>2 DEF Inv, Sound, TypeOK, UnsavedIsMarked
  <2> QED
    BY <2>1, <2>2
<1>3. \A j \in DOMAIN rows' : IsObject(rows'[j])
  BY <1>1 DEF Inv, Sound
<1>4. /\ counter' \in Nat /\ DOMAIN graph' \subseteq DOMAIN rows' /\ DOMAIN rows' \subseteq 1 .. (counter' - 1)
      /\ marked' \subseteq DOMAIN graph' /\ stale' \subseteq DOMAIN graph' /\ Me \in DOMAIN graph'
      /\ {Me, Home} \subseteq DOMAIN rows' /\ here' \in DOMAIN rows' \cup {Nil}
  BY <1>1 DEF Inv, Sound, TypeOK
<1> QED
  BY <1>2, <1>3, <1>4, Kept

\* The graph stays, and a new row may be there of which it does not know: as after a pipeline of
\* saves that stops.
LEMMA RowKeeps ==
    ASSUME Inv, NEW obj, IsObject(obj), rows' \in {rows, With(rows, counter, obj)},
           graph' = graph, marked' = marked, stale' = stale, counter' = counter + 1, here' = here
    PROVE  Inv'
<1>1. counter \in Nat /\ counter \notin DOMAIN rows /\ DOMAIN rows \subseteq 1 .. (counter - 1)
  BY DEF Inv, Sound, TypeOK
<1>2. /\ DOMAIN rows \subseteq DOMAIN rows' /\ DOMAIN rows' \subseteq DOMAIN rows \cup {counter}
      /\ \A j \in DOMAIN rows : rows'[j] = rows[j]
      /\ counter \in DOMAIN rows' => rows'[counter] = obj
  BY <1>1 DEF With
<1>3. counter' \in Nat /\ DOMAIN rows' \subseteq 1 .. (counter' - 1)
  <2>1. 1 .. (counter' - 1) = 1 .. counter
    BY <1>1
  <2>2. Me \in 1 .. (counter - 1)
    BY <1>1 DEF Inv, Sound
  <2>3. 1 .. (counter - 1) \subseteq 1 .. counter /\ counter \in 1 .. counter
    BY <1>1, <2>2
  <2> QED
    BY <1>1, <1>2, <2>1, <2>3
<1>4. /\ DOMAIN graph' \subseteq DOMAIN rows'
      /\ marked' \subseteq DOMAIN graph' /\ stale' \subseteq DOMAIN graph' /\ Me \in DOMAIN graph'
      /\ {Me, Home} \subseteq DOMAIN rows' /\ here' \in DOMAIN rows' \cup {Nil}
  BY <1>2 DEF Inv, Sound, TypeOK
<1>5. \A j \in DOMAIN rows' : IsObject(rows'[j])
  BY <1>2 DEF Inv, Sound
<1>6. \A j \in DOMAIN graph' : Pair(j, graph'[j], rows'[j])
  BY <1>2 DEF Inv, Sound, TypeOK
<1>7. \A j \in DOMAIN graph' \ (marked' \cup stale') : AsSaved(graph'[j], rows'[j])
  BY <1>2 DEF Inv, UnsavedIsMarked, TypeOK
<1> QED
  BY <1>3, <1>4, <1>5, <1>6, <1>7, Kept

(***************************************************************************)
(* The commands, one by one.                                               *)
(***************************************************************************)

\* Ids are given out in order, so the counter begins behind the last one.
LEMMA InitKeeps ==
    ASSUME Init
    PROVE  Inv
<1>1. PICK n \in 0 .. MaxId : DOMAIN Start = 1 .. n
  BY BuildingAssumption
<1>2. n \in Nat
  BY BuildingAssumption
<1>3. Cardinality(DOMAIN Start) = n
  <2>1. Cardinality(1 .. n) = IF 1 > n THEN 0 ELSE n - 1 + 1
    BY <1>2, FS_Interval
  <2> QED
    BY <1>1, <1>2, <2>1
<1>4. counter = n + 1 /\ graph = Start /\ rows = Start /\ marked = {} /\ stale = {} /\ here = Start[Me].at
  BY <1>3 DEF Init
<1>5. \A i \in DOMAIN Start : Pair(i, Start[i], Start[i]) /\ AsSaved(Start[i], Start[i])
  BY BuildingAssumption, WrittenAlike
<1>6. \A i \in DOMAIN Start : Start[i].kind \in Kinds
  BY BuildingAssumption DEF IsObject
<1>7. counter \in Nat /\ DOMAIN Start \subseteq 1 .. (counter - 1)
  BY <1>1, <1>2, <1>4
<1> QED
  BY <1>4, <1>5, <1>6, <1>7, BuildingAssumption DEF Inv, TypeOK, UnsavedIsMarked, Sound

\* Walking: who is overloaded has the doors marked and stays, who is not is saved.
LEMMA GoKeeps ==
    ASSUME Inv, NEW word, Go(word)
    PROVE  Inv'
<1> DEFINE dir == Resolve(graph, here, word)
           to == Destination(graph, here, dir)
<1>1. PICK p \in Passages(dir, graph[here].exits[dir]) :
        IF Overloaded(p.g, Me)
          THEN Upsert(p.g, p.ids) /\ UNCHANGED <<rows, stale, here>>
          ELSE /\ here' = to
               /\ Persist([p.g EXCEPT ![Me].at = to], p.ids \cup {Me})
  BY DEF Go
<1>2. CanTraverse(graph, here, dir) /\ counter' = counter
  BY DEF Go
<1>3. to \in DOMAIN graph
  BY <1>2, DestinationIsThere DEF CanTraverse, IsPlace, Active
<1>4. Handled(p.g, p.ids) /\ Objects
  BY InvObjects, PassagesHandled
<1> HIDE DEF dir, to
<1>5. CASE Overloaded(p.g, Me)
  <2>1. /\ graph' = p.g /\ marked' = marked \cup p.ids /\ rows' = rows /\ stale' = stale /\ here' = here
        /\ DOMAIN p.g = DOMAIN graph
    BY <1>1, <1>4, <1>5 DEF Upsert, Handled
  <2>2. ASSUME NEW i \in DOMAIN graph'
        PROVE  Pair(i, graph'[i], rows'[i])
    <3>1. Pair(i, graph[i], rows[i]) /\ IsObject(p.g[i]) /\ p.g[i].kind = graph[i].kind /\ p.g[i].at = graph[i].at
      BY <1>4, <2>1 DEF Inv, Sound, Handled
    <3>2. graph[i].kind \in PlaceKinds => p.g[i] = graph[i]
      BY <1>4, <2>1 DEF Handled
    <3>3. i = Me => p.g[i].active
      BY <1>4 DEF Handled
    <3> QED
      BY <2>1, <3>1, <3>2, <3>3 DEF Pair
  <2>3. \A i \in DOMAIN graph' \ (marked' \cup stale') : AsSaved(graph'[i], rows'[i])
    BY <1>4, <2>1 DEF Inv, UnsavedIsMarked, Handled
  <2>4. /\ counter' \in Nat /\ DOMAIN graph' \subseteq DOMAIN rows' /\ DOMAIN rows' \subseteq 1 .. (counter' - 1)
        /\ marked' \subseteq DOMAIN graph' /\ stale' \subseteq DOMAIN graph' /\ Me \in DOMAIN graph'
        /\ {Me, Home} \subseteq DOMAIN rows' /\ here' \in DOMAIN rows' \cup {Nil}
        /\ \A j \in DOMAIN rows' : IsObject(rows'[j])
    BY <1>2, <1>4, <2>1 DEF Inv, Sound, TypeOK, Handled
  <2> QED
    BY <2>2, <2>3, <2>4, Kept
<1>6. CASE ~Overloaded(p.g, Me)
  <2> DEFINE g == [p.g EXCEPT ![Me].at = to]
             ids == p.ids \cup {Me}
  <2>1. Persist(g, ids) /\ here' = to
    BY <1>1, <1>6
  <2>2. DOMAIN p.g = DOMAIN graph /\ Me \in DOMAIN graph
    BY <1>4 DEF Handled, Objects
  <2>3. DOMAIN g = DOMAIN graph /\ g[Me] = [p.g[Me] EXCEPT !.at = to] /\ \A i \in DOMAIN graph \ {Me} : g[i] = p.g[i]
    BY <2>2
  <2>4. Me \in ids /\ p.ids \subseteq ids /\ ids \subseteq DOMAIN graph
    BY <1>4, <2>2 DEF Handled
  <2> HIDE DEF g, ids
  <2>5. IsObject(p.g[Me]) /\ p.g[Me].kind = "player" /\ p.g[Me].active
    BY <1>4 DEF Handled, Objects
  <2>6. IsObject(g[Me]) /\ g[Me].kind = "player" /\ g[Me].active
    BY <2>3, <2>5 DEF IsObject, Fields, Kinds, GateKinds, PortalKinds, PlaceKinds
  <2>7. \A i \in DOMAIN g : IsObject(g[i])
    BY <1>4, <2>3, <2>6 DEF Handled
  <2>8. \A i \in DOMAIN g \ ids : i \in DOMAIN graph /\ AsSaved(g[i], graph[i])
    BY <1>4, <2>3, <2>4 DEF Handled, AsSaved
  <2>9. DOMAIN g \subseteq 1 .. (counter' - 1) /\ counter' \in Nat /\ counter <= counter'
    BY <1>2, <2>3 DEF Inv, Sound, TypeOK
  <2> QED
    BY <1>3, <2>1, <2>3, <2>4, <2>6, <2>7, <2>8, <2>9, PersistKeeps
<1> QED
  BY <1>5, <1>6

\* Opening.
LEMMA OpenKeeps ==
    ASSUME Inv, NEW gate, Open(gate)
    PROVE  Inv'
<1>1. gate \in DOMAIN graph /\ graph[gate].kind \in GateKinds
  BY DEF Open, GatesHere
<1>2. PICK p \in PrepareGate(gate) : Persist(p.g, p.ids)
  BY DEF Open
<1>3. Handled(p.g, p.ids)
  BY <1>1, InvObjects, PrepareHandled
<1>4. p.ids \subseteq DOMAIN graph /\ counter' = counter /\ here' = here
  BY <1>3 DEF Handled, Open
<1> QED
  BY <1>2, <1>3, <1>4, HandledSaved

\* Unlocking.
LEMMA UnlockKeeps ==
    ASSUME Inv, NEW gate, NEW key, Unlock(gate, key)
    PROVE  Inv'
<1>1. /\ gate \in DOMAIN graph /\ graph[gate].kind \in GateKinds
      /\ Active(graph, key) /\ Unlocks(graph[key], graph[gate])
      /\ key \in graph[Me].held \/ graph[key].at = here
      /\ Persist(UnlockWith(graph, gate, key), UnlockMarks(graph, gate, key))
      /\ counter' = counter /\ here' = here
  BY DEF Unlock, GatesHere
<1>2. Handled(UnlockWith(graph, gate, key), UnlockMarks(graph, gate, key))
  BY <1>1, InvObjects, UnlockHandled
<1>3. UnlockMarks(graph, gate, key) \subseteq DOMAIN graph
  BY <1>2 DEF Handled
<1> QED
  BY <1>1, <1>2, <1>3, HandledSaved

\* Closing and locking change the leaf of a gate, and mark nothing.
LEMMA LeafKeeps ==
    ASSUME Inv, NEW gate \in DOMAIN graph, graph[gate].kind \in GateKinds, NEW x,
           \/ x = [graph[gate] EXCEPT !.open = FALSE]
           \/ x = [graph[gate] EXCEPT !.open = FALSE, !.locked = TRUE],
           Persist([graph EXCEPT ![gate] = x], {}), counter' = counter, here' = here
    PROVE  Inv'
<1> DEFINE g == [graph EXCEPT ![gate] = x]
           ids == {}
<1>1. IsObject(graph[gate]) /\ gate # Me
  BY InvObjects DEF Objects, GateKinds, PortalKinds
<1>2. IsObject(x) /\ x.kind = graph[gate].kind /\ AsSaved(x, graph[gate])
  BY <1>1 DEF AsSaved, IsObject, Fields, Kinds, GateKinds, PortalKinds, PlaceKinds
<1>3. DOMAIN g = DOMAIN graph /\ g[gate] = x /\ \A i \in DOMAIN graph \ {gate} : g[i] = graph[i]
  OBVIOUS
<1>4. Persist(g, ids) /\ ids \subseteq DOMAIN g
  OBVIOUS
<1> HIDE DEF g, ids
<1>5. \A i \in DOMAIN g : IsObject(g[i]) /\ AsSaved(g[i], graph[i])
  BY <1>2, <1>3, InvObjects DEF Objects, AsSaved
<1>6. g[Me].kind = "player" /\ g[Me].active
  BY <1>1, <1>3, InvObjects DEF Objects
<1>7. DOMAIN g \subseteq 1 .. (counter' - 1) /\ counter' \in Nat /\ counter <= counter'
  BY <1>3 DEF Inv, Sound, TypeOK
<1>8. here' \in DOMAIN rows \cup {Nil}
  BY DEF Inv, TypeOK
<1> QED
  BY <1>3, <1>4, <1>5, <1>6, <1>7, <1>8, PersistKeeps

\* Closing.
LEMMA CloseKeeps ==
    ASSUME Inv, NEW gate, Close(gate)
    PROVE  Inv'
<1>1. gate \in DOMAIN graph /\ graph[gate].kind \in GateKinds
  BY DEF Close, GatesHere
<1>2. /\ Persist([graph EXCEPT ![gate] = [graph[gate] EXCEPT !.open = FALSE]], {})
      /\ counter' = counter /\ here' = here
  BY DEF Close
<1> QED
  BY <1>1, <1>2, LeafKeeps

\* Locking.
LEMMA LockKeeps ==
    ASSUME Inv, NEW gate, Lock(gate)
    PROVE  Inv'
<1>1. gate \in DOMAIN graph /\ graph[gate].kind \in GateKinds
  BY DEF Lock, GatesHere
<1>2. [graph EXCEPT ![gate].open = FALSE, ![gate].locked = TRUE]
      = [graph EXCEPT ![gate] = [graph[gate] EXCEPT !.open = FALSE, !.locked = TRUE]]
  BY <1>1
<1>3. /\ Persist([graph EXCEPT ![gate] = [graph[gate] EXCEPT !.open = FALSE, !.locked = TRUE]], {})
      /\ counter' = counter /\ here' = here
  BY <1>2 DEF Lock
<1> QED
  BY <1>1, <1>3, LeafKeeps

\* Picking up a key.
LEMMA TakeKeeps ==
    ASSUME Inv, NEW key, Take(key)
    PROVE  Inv'
<1> DEFINE g == [graph EXCEPT ![Me].held = @ \cup {key}, ![key].at = Me]
           ids == {Me, key}
<1>1. /\ key \in DOMAIN graph /\ graph[key].kind = "key" /\ Persist(g, ids)
      /\ counter' = counter /\ here' = here
  BY DEF Take, Active
<1>2. Objects /\ key # Me
  BY <1>1, InvObjects DEF Objects
<1>3. /\ DOMAIN g = DOMAIN graph /\ \A i \in DOMAIN graph \ {Me, key} : g[i] = graph[i]
      /\ g[Me] = [graph[Me] EXCEPT !.held = graph[Me].held \cup {key}]
      /\ g[key] = [graph[key] EXCEPT !.at = Me]
  BY <1>1, <1>2 DEF Objects
<1>4. ids = {Me, key}
  OBVIOUS
<1> HIDE DEF g, ids
<1>5. IsObject(g[Me]) /\ g[Me].kind = "player" /\ g[Me].active
  BY <1>2, <1>3 DEF Objects, IsObject, Fields, Kinds, GateKinds, PortalKinds, PlaceKinds
<1>6. IsObject(g[key])
  BY <1>1, <1>2, <1>3 DEF Objects, IsObject, Fields, Kinds, GateKinds, PortalKinds, PlaceKinds
<1>7. \A i \in DOMAIN g : IsObject(g[i])
  BY <1>2, <1>3, <1>5, <1>6 DEF Objects
<1>8. \A i \in DOMAIN g \ ids : i \in DOMAIN graph /\ AsSaved(g[i], graph[i])
  BY <1>3, <1>4 DEF AsSaved
<1>9. DOMAIN g \subseteq 1 .. (counter' - 1) /\ counter' \in Nat /\ counter <= counter' /\ ids \subseteq DOMAIN g
  BY <1>1, <1>2, <1>3, <1>4 DEF Inv, Sound, TypeOK, Objects
<1>10. here' \in DOMAIN rows \cup {Nil}
  BY <1>1 DEF Inv, TypeOK
<1> QED
  BY <1>1, <1>3, <1>5, <1>7, <1>8, <1>9, <1>10, PersistKeeps

\* @create: a shell and what becomes of it, and in the end the graph has it, marked.
LEMMA CreateKeeps ==
    ASSUME Inv, NEW states, Len(states) \in Nat \ {0}, \A k \in 1 .. Len(states) : IsObject(states[k]),
           Create(states)
    PROVE  Inv'
<1>1. PICK k \in 0 .. Len(states) :
        /\ counter' = counter + 1
        /\ rows' = Written(states, k)
        /\ IF k = Len(states) THEN Upsert(With(graph, counter, states[k]), {counter})
           ELSE UNCHANGED <<graph, marked>>
  BY DEF Create, Allocate
<1>2. here' = here /\ stale' = stale
  BY DEF Create
<1>3. CASE k # Len(states)
  <2>1. graph' = graph /\ marked' = marked
    BY <1>1, <1>3
  <2>2. CASE k = 0
    <3>1. rows' = rows
      BY <1>1, <2>2 DEF Written
    <3>2. IsObject(states[1])
      OBVIOUS
    <3> QED
      BY <1>1, <1>2, <2>1, <3>1, <3>2, RowKeeps
  <2>3. CASE k # 0
    <3>1. rows' = With(rows, counter, states[k]) /\ k \in 1 .. Len(states)
      BY <1>1, <2>3 DEF Written
    <3> QED
      BY <1>1, <1>2, <2>1, <3>1, RowKeeps
  <2> QED
    BY <2>2, <2>3
<1>4. CASE k = Len(states)
  <2> DEFINE obj == states[k]
  <2>1. /\ rows' = With(rows, counter, obj) /\ graph' = With(graph, counter, obj)
        /\ marked' = marked \cup {counter} /\ IsObject(obj)
    BY <1>1, <1>4 DEF Written, Upsert
  <2>2. /\ counter \in Nat /\ DOMAIN rows \subseteq 1 .. (counter - 1) /\ Me \in 1 .. (counter - 1)
        /\ DOMAIN graph \subseteq DOMAIN rows
    BY DEF Inv, Sound, TypeOK
  <2>3. counter \notin DOMAIN rows /\ counter # Me /\ counter' \in Nat /\ counter \in 1 .. (counter' - 1)
        /\ 1 .. (counter - 1) \subseteq 1 .. (counter' - 1)
    BY <1>1, <2>2
  <2>4. /\ DOMAIN rows' = DOMAIN rows \cup {counter} /\ DOMAIN graph' = DOMAIN graph \cup {counter}
        /\ graph'[counter] = obj /\ rows'[counter] = obj
        /\ \A i \in DOMAIN rows : rows'[i] = rows[i]
        /\ \A i \in DOMAIN graph : graph'[i] = graph[i]
    BY <2>1, <2>2, <2>3 DEF With
  <2> HIDE DEF obj
  <2>5. Pair(counter, obj, obj)
    BY <2>1, <2>3, WrittenAlike
  <2>6. \A i \in DOMAIN graph' : Pair(i, graph'[i], rows'[i])
    BY <2>2, <2>4, <2>5 DEF Inv, Sound
  <2>7. \A i \in DOMAIN graph' \ (marked' \cup stale') : AsSaved(graph'[i], rows'[i])
    BY <1>2, <2>1, <2>2, <2>4 DEF Inv, UnsavedIsMarked
  <2>8. \A i \in DOMAIN rows' : IsObject(rows'[i])
    BY <2>1, <2>4 DEF Inv, Sound
  <2>9. /\ DOMAIN graph' \subseteq DOMAIN rows' /\ DOMAIN rows' \subseteq 1 .. (counter' - 1)
        /\ marked' \subseteq DOMAIN graph' /\ stale' \subseteq DOMAIN graph' /\ Me \in DOMAIN graph'
        /\ {Me, Home} \subseteq DOMAIN rows' /\ here' \in DOMAIN rows' \cup {Nil}
    BY <1>2, <2>1, <2>2, <2>3, <2>4 DEF Inv, Sound, TypeOK
  <2> QED
    BY <2>3, <2>6, <2>7, <2>8, <2>9, Kept
<1> QED
  BY <1>3, <1>4

\* @create of a room and of a key.
LEMMA CreateSomethingKeeps ==
    ASSUME Inv, CreateSomething
    PROVE  Inv'
<1>1. ASSUME Create(RoomStates)
      PROVE  Inv'
  <2>1. Len(RoomStates) = 2 /\ RoomStates[1] = Shell("room") /\ RoomStates[2] = [Shell("room") EXCEPT !.at = here]
    BY DEF RoomStates
  <2>2. IsObject(Shell("room"))
    BY Made DEF PlaceKinds
  <2>3. IsObject([Shell("room") EXCEPT !.at = here])
    BY <2>2, EditedStays
  <2>4. \A k \in 1 .. Len(RoomStates) : IsObject(RoomStates[k])
    BY <2>1, <2>2, <2>3
  <2> QED
    BY <1>1, <2>1, <2>4, CreateKeeps
<1>2. ASSUME NEW lock, Create(KeyStates(lock))
      PROVE  Inv'
  <2>1. /\ Len(KeyStates(lock)) = 3 /\ KeyStates(lock)[1] = Shell("item")
        /\ KeyStates(lock)[2] = Key(lock, Nil) /\ KeyStates(lock)[3] = Key(lock, here)
    BY DEF KeyStates
  <2>2. IsObject(Shell("item")) /\ IsObject(Key(lock, Nil)) /\ IsObject(Key(lock, here))
    BY Made
  <2>3. \A k \in 1 .. Len(KeyStates(lock)) : IsObject(KeyStates(lock)[k])
    BY <2>1, <2>2
  <2> QED
    BY <1>2, <2>1, <2>3, CreateKeeps
<1> QED
  BY <1>1, <1>2 DEF CreateSomething

\* What linking makes of the two places: one exit more or led elsewhere here, and there one more
\* under a name that was not one.
LEMMA Linked ==
    ASSUME NEW o, NEW f, NEW from, NEW t, NEW to, NEW dir, NEW reciprocal, NEW return,
           IsObject(from), from.kind \in PlaceKinds, IsObject(to), to.kind \in PlaceKinds, dir # NoDir
    PROVE  LET lk == LinkPlaces(o, f, from, t, to, dir, reciprocal, return)
           IN  /\ IsObject(lk.from) /\ lk.from.kind = from.kind /\ lk.from.exits = With(from.exits, dir, t)
               /\ IsObject(lk.to) /\ lk.to.kind = to.kind /\ Leads(to, lk.to)
<1> DEFINE lk == LinkPlaces(o, f, from, t, to, dir, reciprocal, return)
           there == [from EXCEPT !.exits = With(@, dir, t)]
           reverse == Reverse(from, dir, return)
           back == [to EXCEPT !.exits = With(@, reverse, f)]
           returned == [there EXCEPT !.returns = With(@, dir, reverse)]
<1>1. there = [from EXCEPT !.exits = With(from.exits, dir, t)]
  BY DEF IsObject, Fields, PlaceKinds
<1>0. NoDir \notin DOMAIN from.exits /\ NoDir \notin DOMAIN to.exits
  BY DEF IsObject
<1>2. IsObject(there) /\ there.kind = from.kind /\ there.exits = With(from.exits, dir, t)
  <2>1. NoDir \notin DOMAIN With(from.exits, dir, t)
    BY <1>0 DEF With
  <2> HIDE DEF there
  <2> QED
    BY <1>1, <2>1, Ways
<1>3. IsObject(returned) /\ returned.kind = from.kind /\ returned.exits = With(from.exits, dir, t)
  <2>1. PICK v : returned = [there EXCEPT !.returns = v]
    OBVIOUS
  <2> HIDE DEF there, returned
  <2> QED
    BY <1>2, <2>1, Ways
<1>4. back = [to EXCEPT !.exits = With(to.exits, reverse, f)]
  BY DEF IsObject, Fields, PlaceKinds
<1>5. /\ reverse # NoDir => IsObject(back)
      /\ back.kind = to.kind /\ back.exits = With(to.exits, reverse, f)
  <2>1. reverse # NoDir => NoDir \notin DOMAIN With(to.exits, reverse, f)
    <3> HIDE DEF reverse
    <3> QED
      BY <1>0 DEF With
  <2> HIDE DEF back, reverse
  <2> QED
    BY <1>4, <2>1, Ways
<1>6. Leads(to, to)
  BY DEF Leads
<1>7. CASE ~reciprocal \/ reverse = NoDir \/ Resolve([i \in {t} |-> to], t, reverse) # NoDir
  <2>1. lk.from = there /\ lk.to = to
    BY <1>7 DEF LinkPlaces
  <2> HIDE DEF lk, there
  <2> QED
    BY <1>2, <1>6, <2>1 DEF lk
<1>8. CASE ~(~reciprocal \/ reverse = NoDir \/ Resolve([i \in {t} |-> to], t, reverse) # NoDir)
  <2>1. lk.from = returned /\ lk.to = back
    BY <1>8 DEF LinkPlaces
  <2>2. [i \in {t} |-> to][t] = to
    OBVIOUS
  <2>3. reverse \notin DOMAIN to.exits
    <3> HIDE DEF reverse
    <3> QED
      BY <1>0, <1>8, <2>2 DEF Resolve
  <2>4. Leads(to, back)
    <3> HIDE DEF reverse, back
    <3> QED
      BY <1>5, <2>3 DEF Leads, With
  <2> HIDE DEF lk, returned, back, reverse
  <2> QED
    BY <1>3, <1>5, <1>8, <2>1, <2>4 DEF lk
<1> QED
  BY <1>7, <1>8

\* A command that got as far as a row of something the graph has.
LEMMA HalfKeeps ==
    ASSUME Inv, NEW i \in DOMAIN graph, NEW x, IsObject(x), Pair(i, graph[i], x), NEW obj, IsObject(obj),
           NEW before, before \in {rows, With(rows, counter, obj)}, rows' = With(before, i, x),
           graph' = graph, marked' = marked, stale' = stale \cup {i}, counter' = counter + 1, here' = here
    PROVE  Inv'
<1>1. /\ counter \in Nat /\ DOMAIN rows \subseteq 1 .. (counter - 1) /\ Me \in 1 .. (counter - 1)
      /\ DOMAIN graph \subseteq DOMAIN rows
  BY DEF Inv, Sound, TypeOK
<1>2. /\ counter \notin DOMAIN rows /\ counter' \in Nat /\ counter \in 1 .. (counter' - 1)
      /\ 1 .. (counter - 1) \subseteq 1 .. (counter' - 1)
  BY <1>1
<1>3. /\ DOMAIN rows \subseteq DOMAIN before /\ DOMAIN before \subseteq DOMAIN rows \cup {counter}
      /\ \A j \in DOMAIN rows : before[j] = rows[j]
      /\ counter \in DOMAIN before => before[counter] = obj
  BY <1>2 DEF With
<1>4. /\ DOMAIN rows' = DOMAIN before /\ rows'[i] = x /\ \A j \in DOMAIN before \ {i} : rows'[j] = before[j]
  BY <1>1, <1>3 DEF With
<1>5. \A j \in DOMAIN rows' : IsObject(rows'[j])
  BY <1>3, <1>4 DEF Inv, Sound
<1>6. \A j \in DOMAIN graph' : Pair(j, graph'[j], rows'[j])
  BY <1>1, <1>3, <1>4 DEF Inv, Sound
<1>7. \A j \in DOMAIN graph' \ (marked' \cup stale') : AsSaved(graph'[j], rows'[j])
  BY <1>1, <1>3, <1>4 DEF Inv, UnsavedIsMarked
<1>8. /\ DOMAIN graph' \subseteq DOMAIN rows' /\ DOMAIN rows' \subseteq 1 .. (counter' - 1)
      /\ marked' \subseteq DOMAIN graph' /\ stale' \subseteq DOMAIN graph' /\ Me \in DOMAIN graph'
      /\ {Me, Home} \subseteq DOMAIN rows' /\ here' \in DOMAIN rows' \cup {Nil}
  BY <1>1, <1>2, <1>3, <1>4 DEF Inv, Sound, TypeOK
<1> QED
  BY <1>2, <1>5, <1>6, <1>7, <1>8, Kept

\* @dig, wherever its saves stop.
LEMMA DigKeeps ==
    ASSUME Inv, NEW dir \in Dirs, NEW wanted \in Wanted, NEW reciprocal, NEW return,
           Dig(dir, wanted, reciprocal, return)
    PROVE  Inv'
<1> DEFINE from == graph[here]
           kind == PlaceKind(from, wanted)
           n == counter
           new == NewPlace(kind, here)
           o == With(graph, n, new)
           lk == LinkPlaces(o, here, from, n, new, dir, reciprocal, return)
           saves == IF HierarchyValid(o, n) /\ lk.ok /\ here \notin stale THEN 4 ELSE 2
           dug == Written(<<Shell(kind), new, new>>, 3)
<1>1. /\ here \in DOMAIN graph /\ from.kind \in PlaceKinds /\ dir \notin DOMAIN from.exits /\ here' = here
  BY DEF Dig, IsLocation
<1>2. PICK k \in 0 .. saves :
        /\ counter' = counter + 1
        /\ CASE k = 4 -> Persist(With(With(graph, here, lk.from), n, lk.to), {here, n})
             [] k = 3 -> /\ rows' = With(dug, here, lk.from)
                         /\ stale' = stale \cup {here}
                         /\ UNCHANGED <<graph, marked>>
             [] OTHER -> /\ rows' = Written(<<Shell(kind), new>>, k)
                         /\ UNCHANGED <<graph, marked, stale>>
  BY DEF Dig, Allocate
<1>3. kind \in PlaceKinds
  BY BuildingAssumption DEF PlaceKind, PlaceKinds
<1>4. IsObject(from) /\ IsObject(new) /\ new.kind = kind /\ IsObject(Shell(kind))
  BY <1>1, <1>3, InvObjects, Made DEF Objects
<1>5. /\ IsObject(lk.from) /\ lk.from.kind = from.kind /\ lk.from.exits = With(from.exits, dir, n)
      /\ IsObject(lk.to) /\ lk.to.kind = kind
  <2>1. dir # NoDir
    BY PlacesAssumption
  <2> HIDE DEF from, new, kind, o, n
  <2> QED
    BY <1>1, <1>3, <1>4, <2>1, Linked
<1>6. k \in {0, 1, 2, 3, 4}
  <2>1. saves \in {2, 4}
    OBVIOUS
  <2> HIDE DEF saves
  <2> QED
    BY <2>1
<1>7. <<Shell(kind), new>>[1] = Shell(kind) /\ <<Shell(kind), new>>[2] = new /\ dug = With(rows, n, new)
  BY DEF Written
<1>8. here # Me
  BY <1>1, InvObjects DEF Objects, PlaceKinds
<1> HIDE DEF lk, from, new, kind, dug, saves
<1>9. CASE k = 0
  <2>1. rows' = rows /\ graph' = graph /\ marked' = marked /\ stale' = stale
    BY <1>2, <1>9 DEF Written
  <2> QED
    BY <1>1, <1>2, <1>4, <2>1, RowKeeps
<1>10. CASE k = 1
  <2>1. rows' = With(rows, counter, Shell(kind)) /\ graph' = graph /\ marked' = marked /\ stale' = stale
    BY <1>2, <1>7, <1>10 DEF Written
  <2> QED
    BY <1>1, <1>2, <1>4, <2>1, RowKeeps
<1>11. CASE k = 2
  <2>1. rows' = With(rows, counter, new) /\ graph' = graph /\ marked' = marked /\ stale' = stale
    BY <1>2, <1>7, <1>11 DEF Written
  <2> QED
    BY <1>1, <1>2, <1>4, <2>1, RowKeeps
<1>12. CASE k = 3
  <2>1. rows' = With(dug, here, lk.from) /\ graph' = graph /\ marked' = marked /\ stale' = stale \cup {here}
    BY <1>2, <1>12
  <2>2. Leads(from, lk.from)
    BY <1>1, <1>5 DEF Leads, With
  <2>3. Pair(here, graph[here], lk.from)
    BY <1>1, <1>4, <1>5, <1>8, <2>2 DEF Pair, from
  <2>4. dug \in {rows, With(rows, counter, new)}
    BY <1>7
  <2> QED
    BY <1>1, <1>2, <1>4, <1>5, <2>1, <2>3, <2>4, HalfKeeps
<1>13. CASE k = 4
  <2> DEFINE g == With(With(graph, here, lk.from), n, lk.to)
             ids == {here, n}
  <2>1. Persist(g, ids)
    BY <1>2, <1>13
  <2>2. /\ counter \in Nat /\ DOMAIN graph \subseteq 1 .. (counter - 1) /\ Me \in DOMAIN graph
        /\ here' \in DOMAIN rows \cup {Nil}
    BY <1>1 DEF Inv, Sound, TypeOK
  <2>3. counter \notin DOMAIN graph /\ counter' \in Nat /\ counter \in 1 .. (counter' - 1) /\ counter <= counter'
        /\ DOMAIN graph \subseteq 1 .. (counter' - 1)
    <3>1. Me \in 1 .. (counter - 1)
      BY <2>2
    <3> QED
      BY <1>2, <2>2, <3>1
  <2>4. /\ DOMAIN g = DOMAIN graph \cup {n} /\ g[n] = lk.to /\ g[here] = lk.from
        /\ \A i \in DOMAIN graph \ {here} : g[i] = graph[i]
    BY <1>1, <2>3 DEF With
  <2>5. ids = {here, n}
    OBVIOUS
  <2> HIDE DEF g, ids
  <2>6. \A i \in DOMAIN g : IsObject(g[i])
    BY <1>5, <2>4, InvObjects DEF Objects
  <2>7. g[Me].kind = "player" /\ g[Me].active
    BY <1>8, <2>2, <2>4, InvObjects DEF Objects
  <2>8. \A i \in DOMAIN g \ ids : i \in DOMAIN graph /\ AsSaved(g[i], graph[i])
    BY <2>4, <2>5 DEF AsSaved
  <2>9. ids \subseteq DOMAIN g /\ DOMAIN graph \subseteq DOMAIN g /\ DOMAIN g \subseteq 1 .. (counter' - 1)
    BY <1>1, <2>3, <2>4, <2>5
  <2> QED
    BY <2>1, <2>2, <2>3, <2>6, <2>7, <2>8, <2>9, PersistKeeps
<1> QED
  BY <1>6, <1>9, <1>10, <1>11, <1>12, <1>13

\* A key for a chest, wherever its saves stop.
LEMMA KeyForKeeps ==
    ASSUME Inv, NEW chest, KeyFor(chest)
    PROVE  Inv'
<1> DEFINE lock == IF HasLock(graph[chest]) THEN graph[chest].lock ELSE chest
           locked == [graph[chest] EXCEPT !.lock = lock]
           saves == IF chest \in stale THEN 0 ELSE 4
           key == Key(lock, here)
<1>1. /\ chest \in DOMAIN graph /\ graph[chest].kind \in GateKinds /\ here' = here
  BY DEF KeyFor, GatesHere
<1>2. PICK k \in 0 .. saves :
        /\ IF k = 0 THEN UNCHANGED <<counter, rows>>
           ELSE /\ counter' = counter + 1
                /\ rows' = With(Written(KeyStates(lock), k - 1), chest, locked)
        /\ IF k = 4
             THEN /\ Upsert(With(With(graph, chest, locked), counter, key), {chest, counter})
                  /\ UNCHANGED stale
             ELSE /\ stale' = IF k = 0 THEN stale ELSE stale \cup {chest}
                  /\ UNCHANGED <<graph, marked>>
  BY DEF KeyFor, Allocate
<1>3. IsObject(graph[chest]) /\ chest # Me
  BY <1>1, InvObjects DEF Objects, GateKinds, PortalKinds
<1>4. IsObject(locked) /\ locked.kind = graph[chest].kind
  <2> HIDE DEF lock
  <2> QED
    BY <1>1, <1>3, Leaf
<1>5. /\ IsObject(Shell("item")) /\ IsObject(Key(lock, Nil)) /\ IsObject(key)
      /\ KeyStates(lock)[1] = Shell("item") /\ KeyStates(lock)[2] = Key(lock, Nil) /\ KeyStates(lock)[3] = key
  BY Made DEF KeyStates
<1>6. k \in {0, 1, 2, 3, 4}
  <2>1. saves \in {0, 4}
    OBVIOUS
  <2> HIDE DEF saves
  <2> QED
    BY <2>1
<1>7. Pair(chest, graph[chest], locked)
  <2> HIDE DEF locked
  <2> QED
    BY <1>1, <1>3, <1>4 DEF Pair, PlaceKinds, GateKinds, PortalKinds
<1> HIDE DEF lock, locked, saves, key
<1>8. CASE k = 0
  <2>1. UNCHANGED <<graph, rows, marked, stale, counter, here>>
    BY <1>1, <1>2, <1>8
  <2> QED
    BY <2>1 DEF Inv, TypeOK, UnsavedIsMarked, Sound
<1>9. CASE k \in {1, 2, 3}
  <2>1. /\ counter' = counter + 1 /\ rows' = With(Written(KeyStates(lock), k - 1), chest, locked)
        /\ stale' = stale \cup {chest} /\ graph' = graph /\ marked' = marked
    BY <1>2, <1>9
  <2>2. PICK obj : IsObject(obj) /\ Written(KeyStates(lock), k - 1) \in {rows, With(rows, counter, obj)}
    <3>1. CASE k = 1
      BY <1>5, <3>1 DEF Written
    <3>2. CASE k = 2
      BY <1>5, <3>2 DEF Written
    <3>3. CASE k = 3
      BY <1>5, <3>3 DEF Written
    <3> QED
      BY <1>9, <3>1, <3>2, <3>3
  <2> QED
    BY <1>1, <1>4, <1>7, <2>1, <2>2, HalfKeeps
<1>10. CASE k = 4
  <2>1. /\ counter' = counter + 1 /\ rows' = With(With(rows, counter, key), chest, locked)
        /\ graph' = With(With(graph, chest, locked), counter, key)
        /\ marked' = marked \cup {chest, counter} /\ stale' = stale
    BY <1>2, <1>5, <1>10 DEF Written, Upsert
  <2>2. /\ counter \in Nat /\ DOMAIN rows \subseteq 1 .. (counter - 1) /\ Me \in 1 .. (counter - 1)
        /\ DOMAIN graph \subseteq DOMAIN rows
    BY DEF Inv, Sound, TypeOK
  <2>3. counter \notin DOMAIN rows /\ counter # Me /\ counter' \in Nat /\ counter \in 1 .. (counter' - 1)
        /\ 1 .. (counter - 1) \subseteq 1 .. (counter' - 1)
    BY <2>1, <2>2
  <2>4. /\ DOMAIN rows' = DOMAIN rows \cup {counter} /\ DOMAIN graph' = DOMAIN graph \cup {counter}
        /\ graph'[counter] = key /\ rows'[counter] = key
        /\ graph'[chest] = locked /\ rows'[chest] = locked
        /\ \A i \in DOMAIN rows \ {chest} : rows'[i] = rows[i]
        /\ \A i \in DOMAIN graph \ {chest} : graph'[i] = graph[i]
    BY <1>1, <2>1, <2>2, <2>3 DEF With
  <2>5. Pair(counter, key, key) /\ Pair(chest, locked, locked)
    BY <1>3, <1>4, <1>5, <2>3, WrittenAlike
  <2>6. \A i \in DOMAIN graph' : Pair(i, graph'[i], rows'[i])
    BY <2>2, <2>4, <2>5 DEF Inv, Sound
  <2>7. \A i \in DOMAIN graph' \ (marked' \cup stale') : AsSaved(graph'[i], rows'[i])
    BY <2>1, <2>2, <2>4 DEF Inv, UnsavedIsMarked
  <2>8. \A i \in DOMAIN rows' : IsObject(rows'[i])
    BY <1>4, <1>5, <2>4 DEF Inv, Sound
  <2>9. /\ DOMAIN graph' \subseteq DOMAIN rows' /\ DOMAIN rows' \subseteq 1 .. (counter' - 1)
        /\ marked' \subseteq DOMAIN graph' /\ stale' \subseteq DOMAIN graph' /\ Me \in DOMAIN graph'
        /\ {Me, Home} \subseteq DOMAIN rows' /\ here' \in DOMAIN rows' \cup {Nil}
    BY <1>1, <2>1, <2>2, <2>3, <2>4 DEF Inv, Sound, TypeOK
  <2> QED
    BY <2>3, <2>6, <2>7, <2>8, <2>9, Kept
<1> QED
  BY <1>6, <1>8, <1>9, <1>10

\* Link and Unlink: places are put into the graph, and all of those are saved.
LEMMA PlacesKeep ==
    ASSUME Inv, NEW g, NEW ids \in SUBSET DOMAIN graph, Persist(g, ids), DOMAIN g = DOMAIN graph,
           \A i \in DOMAIN graph \ ids : g[i] = graph[i],
           \A i \in ids : IsObject(g[i]) /\ g[i].kind \in PlaceKinds /\ graph[i].kind \in PlaceKinds,
           counter' = counter, here' = here
    PROVE  Inv'
<1>1. Me \notin ids /\ Objects
  BY InvObjects DEF Objects, PlaceKinds
<1>2. g[Me].kind = "player" /\ g[Me].active /\ \A i \in DOMAIN g : IsObject(g[i])
  BY <1>1 DEF Objects
<1>3. \A i \in DOMAIN g \ ids : i \in DOMAIN graph /\ AsSaved(g[i], graph[i])
  BY DEF AsSaved
<1>4. DOMAIN g \subseteq 1 .. (counter' - 1) /\ counter' \in Nat /\ counter <= counter'
      /\ here' \in DOMAIN rows \cup {Nil}
  BY DEF Inv, Sound, TypeOK
<1> QED
  BY <1>2, <1>3, <1>4, PersistKeeps

\* @link.
LEMMA LinkKeeps ==
    ASSUME Inv, NEW from, NEW dir \in Dirs, NEW to, NEW reciprocal, NEW return,
           Link(from, dir, to, reciprocal, return)
    PROVE  Inv'
<1> DEFINE lk == LinkPlaces(graph, from, graph[from], to, graph[to], dir, reciprocal, return)
           g == With(With(graph, from, lk.from), to, lk.to)
           ids == {from, to}
<1>1. /\ from \in DOMAIN graph /\ graph[from].kind \in PlaceKinds
      /\ to \in DOMAIN graph /\ graph[to].kind \in PlaceKinds
      /\ Persist(g, ids) /\ counter' = counter /\ here' = here
  BY DEF Link, IsLocation
<1>2. IsObject(graph[from]) /\ IsObject(graph[to]) /\ dir # NoDir
  BY <1>1, InvObjects, PlacesAssumption DEF Objects
<1>3. /\ IsObject(lk.from) /\ lk.from.kind = graph[from].kind
      /\ IsObject(lk.to) /\ lk.to.kind = graph[to].kind
  BY <1>1, <1>2, Linked
<1> HIDE DEF lk
<1>4. /\ DOMAIN g = DOMAIN graph /\ g[to] = lk.to /\ (from # to => g[from] = lk.from)
      /\ \A i \in DOMAIN graph \ ids : g[i] = graph[i]
  BY <1>1 DEF With
<1>5. ids \in SUBSET DOMAIN graph
  BY <1>1
<1>6. \A i \in ids : IsObject(g[i]) /\ g[i].kind \in PlaceKinds /\ graph[i].kind \in PlaceKinds
  <2> HIDE DEF g
  <2> QED
    BY <1>1, <1>3, <1>4
<1> HIDE DEF g, ids
<1> QED
  BY <1>1, <1>4, <1>5, <1>6, PlacesKeep

\* @unlink.
LEMMA UnlinkKeeps ==
    ASSUME Inv, NEW from, NEW dir, Unlink(from, dir)
    PROVE  Inv'
<1> DEFINE v == Without(graph[from].exits, dir)
           g == [graph EXCEPT ![from].exits = Without(@, dir)]
           ids == {from}
<1>1. /\ from \in DOMAIN graph /\ graph[from].kind \in PlaceKinds
      /\ Persist(g, ids) /\ counter' = counter /\ here' = here
  BY DEF Unlink, IsLocation
<1>2. IsObject(graph[from])
  BY <1>1, InvObjects DEF Objects
<1>3. /\ DOMAIN g = DOMAIN graph /\ g[from] = [graph[from] EXCEPT !.exits = v]
      /\ \A i \in DOMAIN graph \ ids : g[i] = graph[i]
  BY <1>1
<1>4. NoDir \notin DOMAIN v
  BY <1>1, <1>2 DEF Without, IsObject
<1>5. ids \in SUBSET DOMAIN graph /\ ids = {from}
  BY <1>1
<1> HIDE DEF g, v, ids
<1>6. IsObject(g[from]) /\ g[from].kind = graph[from].kind
  <2>1. /\ IsObject([graph[from] EXCEPT !.exits = v])
        /\ [graph[from] EXCEPT !.exits = v].kind = graph[from].kind
    BY <1>1, <1>2, <1>4, Ways
  <2> QED
    BY <1>3, <2>1
<1>7. \A i \in ids : IsObject(g[i]) /\ g[i].kind \in PlaceKinds /\ graph[i].kind \in PlaceKinds
  BY <1>1, <1>5, <1>6
<1> QED
  BY <1>1, <1>3, <1>5, <1>7, PlacesKeep

\* @delete and @undelete.
LEMMA DeleteOrUndeleteKeeps ==
    ASSUME Inv, NEW i, i # Me, Delete(i) \/ Undelete(i)
    PROVE  Inv'
<1>1. PICK active \in BOOLEAN : FromRow(i, active)
  BY DEF Delete, Undelete
<1>2. i \in DOMAIN rows /\ counter' = counter /\ here' = here
  BY DEF Delete, Undelete, Inv, TypeOK
<1> DEFINE obj == [rows[i] EXCEPT !.active = active]
<1>3. IsObject(rows[i])
  BY <1>2 DEF Inv, Sound
<1>4. IsObject(obj)
  BY <1>3, EditedStays
<1>5. /\ graph' = With(graph, i, obj) /\ rows' = With(rows, i, obj) /\ stale' = stale \ {i}
      /\ marked' = marked \cup {i}
  BY <1>1 DEF FromRow, Upsert
<1> HIDE DEF obj
<1> QED
  BY <1>2, <1>4, <1>5, PutKeeps

\* An object of the graph is changed and saved at once.
LEMMA PersistObjectKeeps ==
    ASSUME Inv, NEW i \in DOMAIN graph, NEW obj, IsObject(obj), obj.kind = graph[i].kind,
           obj.active = graph[i].active, PersistObject(i, obj), counter' = counter, here' = here
    PROVE  Inv'
<1>1. i \in DOMAIN rows /\ (i = Me => obj.kind = "player" /\ obj.active)
  BY InvObjects DEF Inv, TypeOK, Objects
<1>2. /\ graph' = With(graph, i, obj) /\ rows' = With(rows, i, obj) /\ stale' = stale \ {i} /\ marked' = marked
  BY DEF PersistObject
<1> QED
  BY <1>1, <1>2, PutKeeps

\* @set and @unset location.
LEMMA SetLocationKeeps ==
    ASSUME Inv, NEW i, NEW to, SetLocation(i, to)
    PROVE  Inv'
<1> DEFINE obj == [graph[i] EXCEPT !.at = to]
<1>1. i \in DOMAIN graph /\ PersistObject(i, obj) /\ counter' = counter /\ here' = here
  BY DEF SetLocation
<1>2. IsObject(obj) /\ obj.kind = graph[i].kind /\ obj.active = graph[i].active
  BY <1>1, InvObjects, EditedStays DEF Objects
<1> HIDE DEF obj
<1> QED
  BY <1>1, <1>2, PersistObjectKeeps

\* @trigger.
LEMMA TriggerKeeps ==
    ASSUME Inv, NEW i, Trigger(i)
    PROVE  Inv'
<1>1. PICK scripts : PersistObject(i, [graph[i] EXCEPT !.scripts = scripts])
  BY DEF Trigger
<1> DEFINE obj == [graph[i] EXCEPT !.scripts = scripts]
<1>2. i \in DOMAIN graph /\ PersistObject(i, obj) /\ counter' = counter /\ here' = here
  BY <1>1 DEF Trigger
<1>3. IsObject(obj) /\ obj.kind = graph[i].kind /\ obj.active = graph[i].active
  BY <1>2, InvObjects, EditedStays DEF Objects
<1> HIDE DEF obj
<1> QED
  BY <1>2, <1>3, PersistObjectKeeps

\* save.
LEMMA SaveKeeps ==
    ASSUME Inv, NEW i, Save(i)
    PROVE  Inv'
<1>1. i \in DOMAIN graph /\ PersistObject(i, graph[i]) /\ counter' = counter /\ here' = here
  BY DEF Save
<1>2. IsObject(graph[i])
  BY <1>1, InvObjects DEF Objects
<1> QED
  BY <1>1, <1>2, PersistObjectKeeps

\* load: the row is of the same kind, and where the wizard is.
LEMMA LoadKeeps ==
    ASSUME Inv, NEW i, Load(i)
    PROVE  Inv'
<1>1. /\ i \in DOMAIN rows /\ graph' = With(graph, i, rows[i]) /\ stale' = stale \ {i}
      /\ rows' = rows /\ marked' = marked /\ counter' = counter /\ here' = here
  BY DEF Load
<1>2. DOMAIN graph' = DOMAIN graph \cup {i} /\ graph'[i] = rows[i] /\ \A j \in DOMAIN graph \ {i} : graph'[j] = graph[j]
  BY <1>1 DEF With
<1>3. i = Me => rows[i].kind = "player" /\ rows[i].active
  BY DEF Inv, Sound, Pair
<1>4. IsObject(rows[i])
  BY <1>1 DEF Inv, Sound
<1>5. Pair(i, graph'[i], rows'[i]) /\ AsSaved(graph'[i], rows'[i])
  BY <1>1, <1>2, <1>3, <1>4, WrittenAlike
<1>6. \A j \in DOMAIN graph' : Pair(j, graph'[j], rows'[j])
  BY <1>1, <1>2, <1>5 DEF Inv, Sound
<1>7. \A j \in DOMAIN graph' \ (marked' \cup stale') : AsSaved(graph'[j], rows'[j])
  BY <1>1, <1>2, <1>5 DEF Inv, UnsavedIsMarked
<1>8. /\ counter' \in Nat /\ DOMAIN graph' \subseteq DOMAIN rows' /\ DOMAIN rows' \subseteq 1 .. (counter' - 1)
      /\ marked' \subseteq DOMAIN graph' /\ stale' \subseteq DOMAIN graph' /\ Me \in DOMAIN graph'
      /\ {Me, Home} \subseteq DOMAIN rows' /\ here' \in DOMAIN rows' \cup {Nil}
      /\ \A j \in DOMAIN rows' : IsObject(rows'[j])
  BY <1>1, <1>2 DEF Inv, Sound, TypeOK
<1> QED
  BY <1>6, <1>7, <1>8, Kept

\* What was left marked is saved.
LEMMA SaveMarkedKeeps ==
    ASSUME Inv, SaveMarked
    PROVE  Inv'
<1> DEFINE ids == {}
<1>1. Persist(graph, ids) /\ counter' = counter /\ here' = here /\ ids = {}
  BY DEF SaveMarked
<1> HIDE DEF ids
<1>2. Handled(graph, ids)
  BY <1>1, InvObjects, NothingHandled
<1>3. ids \subseteq DOMAIN graph
  BY <1>1
<1> QED
  BY <1>1, <1>2, <1>3, HandledSaved

\* Starting over: the rows become the graph.
LEMMA RestartKeeps ==
    ASSUME Inv, Restart
    PROVE  Inv'
<1> DEFINE o == [i \in {x \in DOMAIN rows : rows[x].active} |-> rows[i]]
<1>1. /\ graph' = o /\ marked' = {} /\ stale' = {} /\ rows' = rows /\ counter' = counter
      /\ here' \in DOMAIN o \cup {Nil, Home}
  BY DEF Restart
<1>2. Me \in DOMAIN o /\ o[Me].kind = "player" /\ o[Me].active
  BY DEF Inv, Sound, Pair
<1>3. DOMAIN o \subseteq DOMAIN rows /\ \A i \in DOMAIN o : o[i] = rows[i] /\ IsObject(rows[i])
  BY DEF Inv, Sound
<1> HIDE DEF o
<1>4. \A i \in DOMAIN graph' : Pair(i, graph'[i], rows'[i]) /\ AsSaved(graph'[i], rows'[i])
  BY <1>1, <1>2, <1>3, WrittenAlike
<1>5. /\ counter' \in Nat /\ DOMAIN graph' \subseteq DOMAIN rows' /\ DOMAIN rows' \subseteq 1 .. (counter' - 1)
      /\ marked' \subseteq DOMAIN graph' /\ stale' \subseteq DOMAIN graph' /\ Me \in DOMAIN graph'
      /\ {Me, Home} \subseteq DOMAIN rows' /\ here' \in DOMAIN rows' \cup {Nil}
      /\ \A j \in DOMAIN rows' : IsObject(rows'[j])
  BY <1>1, <1>2, <1>3 DEF Inv, Sound, TypeOK
<1> QED
  BY <1>4, <1>5, Kept

\* Every command keeps the invariant.
LEMMA NextKeeps ==
    ASSUME Inv, [Next]_vars
    PROVE  Inv'
<1>1. CASE UNCHANGED vars
  BY <1>1 DEF vars, Inv, TypeOK, UnsavedIsMarked, Sound
<1>2. CASE Walk
  BY <1>2, GoKeeps DEF Walk
<1>3. CASE OpenOrClose
  BY <1>3, OpenKeeps, CloseKeeps DEF OpenOrClose
<1>4. CASE LocksAndKeys
  BY <1>4, LockKeeps, KeyForKeeps, UnlockKeeps DEF LocksAndKeys
<1>5. CASE \E key \in Ids : Take(key)
  BY <1>5, TakeKeeps
<1>6. CASE DigOrLink
  BY <1>6, DigKeeps, LinkKeeps, UnlinkKeeps DEF DigOrLink
<1>7. CASE CreateSomething
  BY <1>7, CreateSomethingKeeps
<1>8. CASE DeleteOrUndelete
  BY <1>8, DeleteOrUndeleteKeeps DEF DeleteOrUndelete
<1>9. CASE SetOrUnset
  BY <1>9, SetLocationKeeps DEF SetOrUnset
<1>10. CASE \E i \in Edited : Trigger(i)
  BY <1>10, TriggerKeeps
<1>11. CASE LoadOrSave
  BY <1>11, LoadKeeps, SaveKeeps DEF LoadOrSave
<1>12. CASE SaveMarked
  BY <1>12, SaveMarkedKeeps
<1>13. CASE Restart
  BY <1>13, RestartKeeps
<1> QED
  BY <1>1, <1>2, <1>3, <1>4, <1>5, <1>6, <1>7, <1>8, <1>9, <1>10, <1>11, <1>12, <1>13 DEF Next

\* The invariant holds.
LEMMA InvHolds == Spec => []Inv
<1>1. Init => Inv
  BY InitKeeps
<1>2. Inv /\ [Next]_vars => Inv'
  BY NextKeeps
<1> QED
  BY <1>1, <1>2, PTL DEF Spec

\* The graph, the rows and the session speak of objects that were given out.
THEOREM BuildingTypesHold == Spec => []TypeOK
<1>1. Inv => TypeOK
  BY DEF Inv
<1> QED
  BY <1>1, InvHolds, PTL

\* What a command did not mark it has saved.
THEOREM UnsavedIsMarkedHolds == Spec => []UnsavedIsMarked
<1>1. Inv => UnsavedIsMarked
  BY DEF Inv
<1> QED
  BY <1>1, InvHolds, PTL

(***************************************************************************)
(* What a step may do to ways and locks.                                   *)
(***************************************************************************)

KeepsWays(i) == IsPlace(graph, i) /\ IsPlace(graph', i) => Leads(graph[i], graph'[i])
KeepsLock(i) ==
    graph[i].kind \in GateKinds /\ IsLocked(graph[i]) /\ ~IsLocked(graph'[i]) => OpensWithKey(i) \/ ReadBack(i)
Mild == \A i \in DOMAIN graph \cap DOMAIN graph' : KeepsWays(i) /\ KeepsLock(i)

\* What becomes of an object of which only the place and the scripts change, or nothing.
LEMMA SameMild ==
    ASSUME NEW i \in DOMAIN graph, IsObject(graph[i]), NEW v,
           \/ graph'[i] = graph[i]
           \/ graph'[i] = [graph[i] EXCEPT !.at = v]
           \/ graph'[i] = [graph[i] EXCEPT !.scripts = v]
    PROVE  KeepsWays(i) /\ KeepsLock(i)
<1>1. graph[i].kind \in PlaceKinds => graph'[i].exits = graph[i].exits
  BY DEF IsObject, Fields, Kinds, GateKinds, PortalKinds, PlaceKinds
<1>2. graph[i].kind \in GateKinds => graph'[i].lock = graph[i].lock /\ graph'[i].locked = graph[i].locked
  BY DEF IsObject, Fields, Kinds, GateKinds, PortalKinds, PlaceKinds
<1>3. KeepsWays(i)
  BY <1>1 DEF KeepsWays, IsPlace, IsLocation, Leads
<1>4. KeepsLock(i)
  BY <1>2 DEF KeepsLock, IsLocked, HasLock
<1> QED
  BY <1>3, <1>4

\* And of one that is read back from its row, deleted or not.
LEMMA RowMild ==
    ASSUME Inv, NEW i \in DOMAIN graph, NEW active \in BOOLEAN,
           graph'[i] = rows[i] \/ graph'[i] = [rows[i] EXCEPT !.active = active]
    PROVE  KeepsWays(i) /\ KeepsLock(i)
<1>1. Pair(i, graph[i], rows[i]) /\ IsObject(rows[i])
  BY DEF Inv, Sound, TypeOK
<1>2. graph[i].kind \in PlaceKinds => graph'[i].exits = rows[i].exits
  BY <1>1 DEF Pair, IsObject, Fields, Kinds, GateKinds, PortalKinds, PlaceKinds
<1>3. graph[i].kind \in GateKinds => graph'[i].lock = rows[i].lock /\ graph'[i].locked = rows[i].locked
  BY <1>1 DEF Pair, IsObject, Fields, Kinds, GateKinds, PortalKinds, PlaceKinds
<1>4. KeepsWays(i)
  BY <1>1, <1>2 DEF KeepsWays, IsPlace, IsLocation, Pair, Leads
<1>5. KeepsLock(i)
  BY <1>3 DEF KeepsLock, IsLocked, HasLock, ReadBack
<1> QED
  BY <1>4, <1>5

\* A gate that is unlocked by PrepareGate and its like is unlocked with a key.
LEMMA HandledMild ==
    ASSUME Objects, NEW g, NEW ids, Handled(g, ids), DOMAIN graph' = DOMAIN graph,
           \A i \in DOMAIN graph \ {Me} : graph'[i] = g[i], graph'[Me].held = g[Me].held
    PROVE  Mild
<1> SUFFICES ASSUME NEW i \in DOMAIN graph
             PROVE  KeepsWays(i) /\ KeepsLock(i)
  BY DEF Mild
<1>1. KeepsWays(i)
  <2>1. IsPlace(graph, i) => i # Me /\ g[i] = graph[i]
    BY DEF IsPlace, IsLocation, Objects, PlaceKinds, Handled
  <2> QED
    BY <2>1 DEF KeepsWays, Leads
<1>2. KeepsLock(i)
  <2> SUFFICES ASSUME graph[i].kind \in GateKinds, IsLocked(graph[i]), ~IsLocked(graph'[i])
               PROVE  OpensWithKey(i)
    BY DEF KeepsLock
  <2>1. i # Me
    BY DEF Objects, GateKinds, PortalKinds
  <2>2. Turned(g, i)
    BY <2>1 DEF Handled
  <2>3. PICK k \in DOMAIN graph :
          /\ Active(graph, k) /\ Unlocks(graph[k], graph[i])
          /\ k \in graph[Me].held \/ graph[k].at = here
          /\ graph[k].once => ~g[k].active /\ k \notin g[Me].held
    BY <2>2 DEF Turned
  <2>4. k # Me
    BY <2>3 DEF Unlocks, Objects
  <2> QED
    BY <2>3, <2>4 DEF OpensWithKey
<1> QED
  BY <1>1, <1>2

\* Walking changes no place, and unlocks with a key.
LEMMA GoMild ==
    ASSUME Inv, NEW word, Go(word)
    PROVE  Mild
<1> DEFINE dir == Resolve(graph, here, word)
           to == Destination(graph, here, dir)
<1>1. PICK p \in Passages(dir, graph[here].exits[dir]) :
        graph' = p.g \/ graph' = [p.g EXCEPT ![Me].at = to]
  BY DEF Go, Upsert, Persist
<1>2. Handled(p.g, p.ids) /\ Objects
  BY InvObjects, PassagesHandled
<1> HIDE DEF dir, to
<1>3. DOMAIN p.g = DOMAIN graph /\ IsObject(p.g[Me]) /\ p.g[Me].kind = "player" /\ Me \in DOMAIN graph
  BY <1>2 DEF Handled, Objects
<1>4. DOMAIN graph' = DOMAIN graph /\ \A i \in DOMAIN graph \ {Me} : graph'[i] = p.g[i]
  BY <1>1, <1>3
<1>5. graph'[Me].held = p.g[Me].held
  <2>1. graph'[Me] = p.g[Me] \/ graph'[Me] = [p.g[Me] EXCEPT !.at = to]
    BY <1>1, <1>3
  <2> QED
    BY <1>3, <2>1 DEF IsObject, Fields, PlaceKinds
<1> QED
  BY <1>2, <1>4, <1>5, HandledMild

\* So does opening.
LEMMA OpenMild ==
    ASSUME Inv, NEW gate, Open(gate)
    PROVE  Mild
<1>1. gate \in DOMAIN graph /\ graph[gate].kind \in GateKinds /\ Objects
  BY InvObjects DEF Open, GatesHere
<1>2. PICK p \in PrepareGate(gate) : graph' = p.g
  BY DEF Open, Persist
<1>3. Handled(p.g, p.ids)
  BY <1>1, PrepareHandled
<1>4. DOMAIN graph' = DOMAIN graph
  BY <1>2, <1>3 DEF Handled
<1> QED
  BY <1>1, <1>2, <1>3, <1>4, HandledMild

\* So does unlocking.
LEMMA UnlockMild ==
    ASSUME Inv, NEW gate, NEW key, Unlock(gate, key)
    PROVE  Mild
<1>1. /\ gate \in DOMAIN graph /\ graph[gate].kind \in GateKinds /\ Objects
      /\ Active(graph, key) /\ Unlocks(graph[key], graph[gate])
      /\ key \in graph[Me].held \/ graph[key].at = here
      /\ graph' = UnlockWith(graph, gate, key)
  BY InvObjects DEF Unlock, GatesHere, Persist
<1>2. Handled(UnlockWith(graph, gate, key), UnlockMarks(graph, gate, key))
  BY <1>1, UnlockHandled
<1>3. DOMAIN graph' = DOMAIN graph
  BY <1>1, <1>2 DEF Handled
<1> QED
  BY <1>1, <1>2, <1>3, HandledMild

\* Closing and locking unlock nothing.
LEMMA CloseOrLockMild ==
    ASSUME Inv, NEW gate, Close(gate) \/ Lock(gate)
    PROVE  Mild
<1>1. gate \in DOMAIN graph /\ graph[gate].kind \in GateKinds /\ IsObject(graph[gate])
  BY InvObjects DEF Close, Lock, GatesHere, Objects
<1>2. PICK x : /\ graph' = [graph EXCEPT ![gate] = x]
               /\ \/ x = [graph[gate] EXCEPT !.open = FALSE]
                  \/ x = [graph[gate] EXCEPT !.open = FALSE, !.locked = TRUE]
  <2>1. CASE Close(gate)
    BY <2>1 DEF Close, Persist
  <2>2. CASE Lock(gate)
    <3>1. graph' = [graph EXCEPT ![gate] = [graph[gate] EXCEPT !.open = FALSE, !.locked = TRUE]]
      BY <1>1, <2>2 DEF Lock, Persist
    <3> QED
      BY <3>1
  <2> QED
    BY <2>1, <2>2
<1>3. KeepsLock(gate)
  <2>1. x.lock = graph[gate].lock /\ x.locked \in {graph[gate].locked, TRUE} /\ graph'[gate] = x
    BY <1>1, <1>2 DEF IsObject, Fields, Kinds, GateKinds, PortalKinds, PlaceKinds
  <2> QED
    BY <2>1 DEF KeepsLock, IsLocked, HasLock
<1>4. KeepsWays(gate)
  BY <1>1 DEF KeepsWays, IsPlace, IsLocation, PlaceKinds, GateKinds, PortalKinds
<1>5. \A i \in DOMAIN graph \ {gate} : graph'[i] = graph[i]
  BY <1>2
<1>6. \A i \in DOMAIN graph : IsObject(graph[i])
  BY InvObjects DEF Objects
<1> QED
  BY <1>3, <1>4, <1>5, <1>6, SameMild DEF Mild

\* Neither does picking up a key.
LEMMA TakeMild ==
    ASSUME Inv, NEW key, Take(key)
    PROVE  Mild
<1>1. /\ key \in DOMAIN graph /\ graph[key].kind = "key"
      /\ graph' = [graph EXCEPT ![Me].held = @ \cup {key}, ![key].at = Me]
  BY DEF Take, Active, Persist
<1>2. Objects
  BY InvObjects
<1>3. \A i \in DOMAIN graph \ {Me, key} : graph'[i] = graph[i]
  BY <1>1
<1>4. \A i \in {Me, key} : KeepsWays(i) /\ KeepsLock(i)
  BY <1>1, <1>2 DEF Objects, KeepsWays, KeepsLock, IsPlace, IsLocation, GateKinds, PortalKinds, PlaceKinds
<1>5. \A i \in DOMAIN graph : IsObject(graph[i])
  BY <1>2 DEF Objects
<1> QED
  BY <1>3, <1>4, <1>5, SameMild DEF Mild

\* Digging adds an exit under a name that was none.
LEMMA DigMild ==
    ASSUME Inv, NEW dir \in Dirs, NEW wanted, NEW reciprocal, NEW return,
           Dig(dir, wanted, reciprocal, return)
    PROVE  Mild
<1> DEFINE kind == PlaceKind(graph[here], wanted)
           n == counter
           new == NewPlace(kind, here)
           o == With(graph, n, new)
           lk == LinkPlaces(o, here, graph[here], n, new, dir, reciprocal, return)
<1>1. /\ here \in DOMAIN graph /\ graph[here].kind \in PlaceKinds /\ dir \notin DOMAIN graph[here].exits
      /\ graph' = graph \/ graph' = With(With(graph, here, lk.from), n, lk.to)
  BY DEF Dig, IsLocation, Persist
<1>2. \A i \in DOMAIN graph : IsObject(graph[i])
  BY InvObjects DEF Objects
<1>3. CASE graph' = graph
  BY <1>2, <1>3, SameMild DEF Mild
<1>4. CASE graph' # graph
  <2>1. counter \notin DOMAIN graph
    <3>1. counter \in Nat /\ DOMAIN graph \subseteq 1 .. (counter - 1)
      BY DEF Inv, Sound, TypeOK
    <3> QED
      BY <3>1
  <2>2. graph'[here] = lk.from /\ \A i \in DOMAIN graph \ {here} : graph'[i] = graph[i]
    BY <1>1, <1>4, <2>1 DEF With
  <2>3. Leads(graph[here], lk.from)
    <3>1. lk.from.exits = With(graph[here].exits, dir, n)
      <4> DEFINE there == [graph[here] EXCEPT !.exits = With(@, dir, n)]
      <4>1. there.exits = With(graph[here].exits, dir, n)
        BY <1>1, <1>2 DEF IsObject, Fields, PlaceKinds
      <4>2. \A v : [there EXCEPT !.returns = v].exits = there.exits
        OBVIOUS
      <4>3. lk.from = there \/ \E v : lk.from = [there EXCEPT !.returns = v]
        BY DEF LinkPlaces
      <4> HIDE DEF there, lk
      <4> QED
        BY <4>1, <4>2, <4>3
    <3> HIDE DEF lk
    <3> QED
      BY <1>1, <3>1 DEF Leads, With
  <2> HIDE DEF lk
  <2>4. KeepsWays(here) /\ KeepsLock(here)
    BY <1>1, <2>2, <2>3 DEF KeepsWays, KeepsLock, PlaceKinds, GateKinds, PortalKinds
  <2> QED
    BY <1>2, <2>2, <2>4, SameMild DEF Mild
<1> QED
  BY <1>3, <1>4

\* What is created was not there.
LEMMA CreateMild ==
    ASSUME Inv, NEW states, Create(states)
    PROVE  Mild
<1>1. \A i \in DOMAIN graph : IsObject(graph[i])
  BY InvObjects DEF Objects
<1>2. PICK obj : graph' = graph \/ graph' = With(graph, counter, obj)
  BY DEF Create, Upsert
<1>3. counter \notin DOMAIN graph
  <2>1. counter \in Nat /\ DOMAIN graph \subseteq 1 .. (counter - 1)
    BY DEF Inv, Sound, TypeOK
  <2> QED
    BY <2>1
<1>4. \A i \in DOMAIN graph : graph'[i] = graph[i]
  BY <1>2, <1>3 DEF With
<1> QED
  BY <1>1, <1>4, SameMild DEF Mild

\* A chest that is locked keeps its lock.
LEMMA KeyForMild ==
    ASSUME Inv, NEW chest, KeyFor(chest)
    PROVE  Mild
<1> DEFINE lock == IF HasLock(graph[chest]) THEN graph[chest].lock ELSE chest
           locked == [graph[chest] EXCEPT !.lock = lock]
<1>1. chest \in DOMAIN graph /\ graph[chest].kind \in GateKinds
  BY DEF KeyFor, GatesHere
<1>2. graph' = graph \/ graph' = With(With(graph, chest, locked), counter, Key(lock, here))
  BY DEF KeyFor, Upsert
<1>3. counter \notin DOMAIN graph
  <2>1. counter \in Nat /\ DOMAIN graph \subseteq 1 .. (counter - 1)
    BY DEF Inv, Sound, TypeOK
  <2> QED
    BY <2>1
<1>4. \A i \in DOMAIN graph : IsObject(graph[i])
  BY InvObjects DEF Objects
<1>5. CASE graph' = graph
  BY <1>4, <1>5, SameMild DEF Mild
<1>6. CASE graph' # graph
  <2>1. graph'[chest] = locked /\ \A i \in DOMAIN graph \ {chest} : graph'[i] = graph[i]
    BY <1>1, <1>2, <1>3, <1>6 DEF With
  <2>2. locked.lock = lock /\ locked.locked = graph[chest].locked
    BY <1>1, <1>4 DEF IsObject, Fields, Kinds, GateKinds, PortalKinds, PlaceKinds
  <2>3. KeepsWays(chest) /\ KeepsLock(chest)
    <3> HIDE DEF locked
    <3> QED
      BY <1>1, <2>1, <2>2 DEF KeepsWays, KeepsLock, IsPlace, IsLocation, IsLocked, HasLock, PlaceKinds, GateKinds, PortalKinds
  <2> QED
    BY <1>4, <2>1, <2>3, SameMild DEF Mild
<1> QED
  BY <1>5, <1>6

\* Commands that read a row back.
LEMMA RowsMild ==
    ASSUME Inv, NEW i, Delete(i) \/ Undelete(i) \/ Load(i)
    PROVE  Mild
<1>1. PICK active \in BOOLEAN : graph' \in {With(graph, i, rows[i]), With(graph, i, [rows[i] EXCEPT !.active = active])}
  BY DEF Delete, Undelete, Load, FromRow, Upsert
<1>2. \A j \in DOMAIN graph : IsObject(graph[j])
  BY InvObjects DEF Objects
<1>3. /\ graph'[i] = rows[i] \/ graph'[i] = [rows[i] EXCEPT !.active = active]
      /\ \A j \in DOMAIN graph \ {i} : graph'[j] = graph[j]
  BY <1>1 DEF With
<1> QED
  BY <1>2, <1>3, SameMild, RowMild DEF Mild

\* Commands that change the location or the scripts.
LEMMA EditMild ==
    ASSUME Inv, NEW i, (\E to : SetLocation(i, to)) \/ Trigger(i) \/ Save(i)
    PROVE  Mild
<1>1. PICK v : /\ i \in DOMAIN graph
               /\ graph' \in {With(graph, i, graph[i]), With(graph, i, [graph[i] EXCEPT !.at = v]),
                              With(graph, i, [graph[i] EXCEPT !.scripts = v])}
  BY DEF SetLocation, Trigger, Save, PersistObject
<1>2. \A j \in DOMAIN graph : IsObject(graph[j])
  BY InvObjects DEF Objects
<1>3. /\ graph'[i] \in {graph[i], [graph[i] EXCEPT !.at = v], [graph[i] EXCEPT !.scripts = v]}
      /\ \A j \in DOMAIN graph \ {i} : graph'[j] = graph[j]
  BY <1>1 DEF With
<1> QED
  BY <1>1, <1>2, <1>3, SameMild DEF Mild

\* Saving changes nothing in the graph.
LEMMA SaveMarkedMild ==
    ASSUME Inv, SaveMarked
    PROVE  Mild
<1>1. graph' = graph /\ \A j \in DOMAIN graph : IsObject(graph[j])
  BY InvObjects DEF SaveMarked, Persist, Objects
<1> QED
  BY <1>1, SameMild DEF Mild

\* Nor does starting over, but for what is read back.
LEMMA RestartMild ==
    ASSUME Inv, Restart
    PROVE  Mild
<1>1. \A i \in DOMAIN graph' : graph'[i] = rows[i]
  BY DEF Restart
<1> QED
  BY <1>1, RowMild DEF Mild

(***************************************************************************)
(* WaysKept.                                                               *)
(***************************************************************************)

\* Where all exits are kept, none is lost.
LEMMA NothingLost ==
    ASSUME NEW i, KeepsWays(i)
    PROVE  Lost(i) = {}
BY DEF Lost, KeepsWays, Leads

\* Everything that is lost is one exit, or nothing is.
LEMMA OneLost ==
    ASSUME NEW e, \A i \in DOMAIN graph \cap DOMAIN graph' : Lost(i) \subseteq {e}
    PROVE  Cardinality(UNION {Lost(i) : i \in DOMAIN graph \cap DOMAIN graph'}) <= 1
<1> DEFINE L == UNION {Lost(i) : i \in DOMAIN graph \cap DOMAIN graph'}
<1>1. L = {} \/ L = {e}
  OBVIOUS
<1>2. Cardinality({}) = 0 /\ Cardinality({e}) = 1
  BY FS_EmptySet, FS_Singleton
<1> HIDE DEF L
<1>3. Cardinality(L) <= 1
  BY <1>1, <1>2
<1> QED
  BY <1>3 DEF L

\* A mild step loses none.
LEMMA MildLoses ==
    ASSUME Mild
    PROVE  Cardinality(UNION {Lost(i) : i \in DOMAIN graph \cap DOMAIN graph'}) <= 1
<1>1. \A i \in DOMAIN graph \cap DOMAIN graph' : Lost(i) \subseteq {Nil}
  BY NothingLost DEF Mild
<1> QED
  BY <1>1, OneLost

\* A link leads the one exit elsewhere.
LEMMA LinkLoses ==
    ASSUME Inv, NEW from, NEW dir \in Dirs, NEW to, NEW reciprocal, NEW return,
           Link(from, dir, to, reciprocal, return)
    PROVE  /\ Cardinality(UNION {Lost(i) : i \in DOMAIN graph \cap DOMAIN graph'}) <= 1
           /\ \A i \in DOMAIN graph \cap DOMAIN graph' : KeepsLock(i)
<1> DEFINE lk == LinkPlaces(graph, from, graph[from], to, graph[to], dir, reciprocal, return)
<1>1. /\ from \in DOMAIN graph /\ graph[from].kind \in PlaceKinds
      /\ to \in DOMAIN graph /\ graph[to].kind \in PlaceKinds
      /\ graph' = With(With(graph, from, lk.from), to, lk.to)
  BY DEF Link, IsLocation, Persist
<1>2. \A i \in DOMAIN graph : IsObject(graph[i])
  BY InvObjects DEF Objects
<1>3. lk.from.exits = With(graph[from].exits, dir, to) /\ Leads(graph[to], lk.to)
  <2>1. dir # NoDir
    BY PlacesAssumption
  <2> QED
    BY <1>1, <1>2, <2>1, Linked
<1> HIDE DEF lk
<1>4. /\ graph'[to] = lk.to /\ (from # to => graph'[from] = lk.from)
      /\ \A i \in DOMAIN graph \ {from, to} : graph'[i] = graph[i]
  BY <1>1 DEF With
<1>5. KeepsWays(to) /\ KeepsLock(to) /\ KeepsLock(from)
  BY <1>1, <1>3, <1>4 DEF KeepsWays, KeepsLock, PlaceKinds, GateKinds, PortalKinds
<1>6. \A i \in DOMAIN graph \ {from, to} : KeepsWays(i) /\ KeepsLock(i)
  BY <1>2, <1>4, SameMild
<1>7. from # to => Lost(from) \subseteq {<<from, dir>>}
  BY <1>3, <1>4 DEF Lost, With
<1>8. \A i \in DOMAIN graph \cap DOMAIN graph' : Lost(i) \subseteq {<<from, dir>>}
  BY <1>5, <1>6, <1>7, NothingLost
<1> QED
  BY <1>5, <1>6, <1>8, OneLost

\* Unlinking takes the one exit away.
LEMMA UnlinkLoses ==
    ASSUME Inv, NEW from, NEW dir, Unlink(from, dir)
    PROVE  /\ Cardinality(UNION {Lost(i) : i \in DOMAIN graph \cap DOMAIN graph'}) <= 1
           /\ \A i \in DOMAIN graph \cap DOMAIN graph' : KeepsLock(i)
<1>1. /\ from \in DOMAIN graph /\ graph[from].kind \in PlaceKinds
      /\ graph' = [graph EXCEPT ![from].exits = Without(@, dir)]
  BY DEF Unlink, IsLocation, Persist
<1>2. \A i \in DOMAIN graph : IsObject(graph[i])
  BY InvObjects DEF Objects
<1>3. graph'[from].exits = Without(graph[from].exits, dir)
  BY <1>1, <1>2 DEF IsObject, Fields, PlaceKinds, PortalKinds
<1>4. \A i \in DOMAIN graph \ {from} : graph'[i] = graph[i]
  BY <1>1
<1>5. Lost(from) \subseteq {<<from, dir>>}
  BY <1>3 DEF Lost, Without
<1>6. KeepsLock(from)
  BY <1>1 DEF KeepsLock, PlaceKinds, GateKinds, PortalKinds
<1>7. \A i \in DOMAIN graph \ {from} : KeepsWays(i) /\ KeepsLock(i)
  BY <1>2, <1>4, SameMild
<1>8. \A i \in DOMAIN graph \cap DOMAIN graph' : Lost(i) \subseteq {<<from, dir>>}
  BY <1>5, <1>7, NothingLost
<1> QED
  BY <1>6, <1>7, <1>8, OneLost

\* Every command but linking and unlinking is mild.
LEMMA StepLoses ==
    ASSUME Inv, Next
    PROVE  /\ Cardinality(UNION {Lost(i) : i \in DOMAIN graph \cap DOMAIN graph'}) <= 1
           /\ \A i \in DOMAIN graph \cap DOMAIN graph' : KeepsLock(i)
<1>1. CASE Mild
  BY <1>1, MildLoses DEF Mild
<1>2. ASSUME Walk \/ OpenOrClose
      PROVE  Mild
  BY <1>2, GoMild, OpenMild, CloseOrLockMild DEF Walk, OpenOrClose
<1>3. ASSUME LocksAndKeys \/ \E key \in Ids : Take(key)
      PROVE  Mild
  BY <1>3, CloseOrLockMild, KeyForMild, UnlockMild, TakeMild DEF LocksAndKeys
<1>4. CASE DigOrLink
  BY <1>1, <1>4, DigMild, LinkLoses, UnlinkLoses DEF DigOrLink
<1>5. ASSUME CreateSomething
      PROVE  Mild
  BY <1>5, CreateMild DEF CreateSomething
<1>6. ASSUME DeleteOrUndelete \/ LoadOrSave
      PROVE  Mild
  BY <1>6, RowsMild, EditMild DEF DeleteOrUndelete, LoadOrSave
<1>7. ASSUME SetOrUnset \/ \E i \in Edited : Trigger(i)
      PROVE  Mild
  BY <1>7, EditMild DEF SetOrUnset
<1>8. ASSUME SaveMarked \/ Restart
      PROVE  Mild
  BY <1>8, SaveMarkedMild, RestartMild
<1> QED
  BY <1>1, <1>2, <1>3, <1>4, <1>5, <1>6, <1>7, <1>8 DEF Next

\* A command takes away or redirects at most one exit that was there.
THEOREM WaysKeptHolds == Spec => WaysKept
<1>1. Inv /\ [Next]_vars =>
        [Cardinality(UNION {Lost(i) : i \in DOMAIN graph \cap DOMAIN graph'}) <= 1]_graph
  BY StepLoses DEF vars
<1> QED
  BY <1>1, InvHolds, PTL DEF Spec, WaysKept

(***************************************************************************)
(* LocksHold.                                                              *)
(***************************************************************************)

\* Who walks, walks through an exit; and where nothing stands in it but doors that are shut, one of
\* them is opened by this.
OnlyDoors(dir) == PortalsFor(graph, here, dir) = Doors(dir)

LEMMA WalkOpens ==
    ASSUME Inv, NEW word, Go(word), here' # here, \A dir \in Through : Closed(dir) /\ OnlyDoors(dir)
    PROVE  LeftOpen
<1> DEFINE dir == Resolve(graph, here, word)
           to == Destination(graph, here, dir)
<1>1. PICK p \in Passages(dir, graph[here].exits[dir]) :
        here' = to /\ graph' = [p.g EXCEPT ![Me].at = to]
  BY DEF Go, Persist
<1>2. dir \in DOMAIN graph[here].exits
  BY DEF Go, Resolve
<1> HIDE DEF dir, to
<1>3. dir \in Through
  BY <1>1, <1>2 DEF Through, to
<1>4. /\ PortalsFor(graph, here, dir) = Doors(dir) /\ Doors(dir) # {}
      /\ \A d \in Doors(dir) : Permits(graph[d], graph[here].exits[dir]) /\ Blocks(graph[d])
  BY <1>3 DEF Closed, OnlyDoors
<1>5. PICK d \in Doors(dir) : p \in PrepareGate(d)
  BY <1>4 DEF Passages
<1>6. d \in DOMAIN graph /\ graph[d].kind = "door"
  BY DEF Doors, PortalsFor, Passable
<1>7. Handled(p.g, p.ids) /\ ~Blocks(p.g[d])
  BY <1>5, <1>6, InvObjects, PrepareHandled DEF GateKinds, PortalKinds
<1>8. d # Me
  BY <1>6, InvObjects DEF Objects
<1>9. graph'[d] = p.g[d]
  BY <1>1, <1>6, <1>7, <1>8 DEF Handled
<1> QED
  BY <1>3, <1>5, <1>7, <1>9 DEF LeftOpen

\* Only a walk takes the wizard and the session to another place together.
LEMMA OnlyGoWalks ==
    ASSUME Inv, Next, Walked
    PROVE  \E word : Go(word)
<1>1. here' # here /\ graph'[Me].at # graph[Me].at
  BY DEF Walked
<1>2. ~Restart
  <2> SUFFICES ASSUME Restart
               PROVE  FALSE
    OBVIOUS
  <2>1. Pair(Me, graph[Me], rows[Me]) /\ Me \in DOMAIN rows
    BY DEF Inv, Sound
  <2>2. graph'[Me] = rows[Me]
    BY <2>1 DEF Restart, Pair
  <2> QED
    BY <1>1, <2>1, <2>2 DEF Pair
<1>3. ~(OpenOrClose \/ LocksAndKeys \/ \E key \in Ids : Take(key))
  BY <1>1 DEF OpenOrClose, LocksAndKeys, Open, Close, Lock, KeyFor, Unlock, Take
<1>4. ~(DigOrLink \/ CreateSomething)
  <2>1. ASSUME NEW dir, NEW wanted, NEW reciprocal, NEW return, Dig(dir, wanted, reciprocal, return)
        PROVE  here' = here
    BY <2>1 DEF Dig
  <2>2. ASSUME NEW states, Create(states)
        PROVE  here' = here
    BY <2>2 DEF Create
  <2>3. ASSUME NEW from, NEW dir, NEW to, NEW reciprocal, NEW return,
               Link(from, dir, to, reciprocal, return) \/ Unlink(from, dir)
        PROVE  here' = here
    BY <2>3 DEF Link, Unlink
  <2> QED
    BY <1>1, <2>1, <2>2, <2>3 DEF DigOrLink, CreateSomething
<1>5. ~(DeleteOrUndelete \/ SetOrUnset \/ \E i \in Edited : Trigger(i))
  BY <1>1 DEF DeleteOrUndelete, Delete, Undelete, SetOrUnset, SetLocation, Trigger
<1>6. ~(LoadOrSave \/ SaveMarked)
  BY <1>1 DEF LoadOrSave, Load, Save, SaveMarked
<1> QED
  BY <1>2, <1>3, <1>4, <1>5, <1>6 DEF Next, Walk

\* A lock opens only to a key that fits, or by being read back; and who walks through an exit where
\* nothing stands but closed doors, whichever portal the HashMap gives, leaves one open.
THEOREM LocksHoldAlways == Spec => LocksHold
<1> DEFINE Only == \A gate \in DOMAIN graph \cap DOMAIN graph' :
                     graph[gate].kind \in GateKinds /\ IsLocked(graph[gate]) /\ ~IsLocked(graph'[gate])
                       => OpensWithKey(gate) \/ ReadBack(gate)
           Leaves == Walked /\ (\A dir \in Through : Closed(dir) /\ OnlyDoors(dir)) => LeftOpen
<1>1. ASSUME Inv, Next
      PROVE  Only
  BY <1>1, StepLoses DEF KeepsLock
<1>2. ASSUME Inv, Next
      PROVE  Leaves
  BY <1>2, OnlyGoWalks, WalkOpens DEF Walked
<1> HIDE DEF Only, Leaves
<1>3. Inv /\ [Next]_vars => [Only /\ Leaves]_vars
  BY <1>1, <1>2
<1>4. Spec => [][Only /\ Leaves]_vars
  BY <1>3, InvHolds, PTL DEF Spec
<1> QED
  BY <1>4, PTL DEF LocksHold, Only, Leaves, OnlyDoors
=============================================================================
