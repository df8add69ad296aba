-------------------------- MODULE Dependencies_proofs --------------------------
(***************************************************************************)
(* What is_dirty computes, for every dependency graph without cycles and   *)
(* every changelog: first in closed form what bridging the missing nodes   *)
(* leaves of the graph, then when a table is reported clean.  Last, that   *)
(* the real dependency list has no cycle, and which inputs it lists.       *)
(***************************************************************************)
EXTENDS Dependencies, Tables, FiniteSetTheorems, SequenceTheorems, TLAPS

(* The nodes from which a path leads to b on which all but the ends are in
   s: the least set that has the predecessors of b and of its members in s. *)
ClosedVia(g, s, b, X) ==
  /\ Predecessors(g, b) \subseteq X
  /\ \A x \in X \intersect s : Predecessors(g, x) \subseteq X

Via(g, s, b) ==
  {a \in Nodes(g) : \A X \in SUBSET Nodes(g) : ClosedVia(g, s, b, X) => a \in X}

(* Everything upstream of t. *)
Up(g, t) == Via(g, Nodes(g), t)

(* The depth of the nodes shows that there is no cycle. *)
Levels(g, depth) ==
  /\ depth \in [Nodes(g) -> Nat]
  /\ \A e \in g : e = <<e[1], e[2]>> /\ depth[e[1]] < depth[e[2]]

(* The graph with the nodes in s bridged. *)
Without(g, s) ==
  {e \in (Nodes(g) \ s) \X (Nodes(g) \ s) : e[1] \in Via(g, s, e[2])}

(* Earlier in the changelog. *)
Before(log, p, q) == Index(log, p) < Index(log, q)

-----------------------------------------------------------------------------
LEMMA Minimum ==
  ASSUME NEW S \in SUBSET Nat, S # {}
  PROVE  \E m \in S : \A k \in S : m <= k
<1>1. PICK m \in S : \A k \in S : ~(<<k, m>> \in OpToRel(<, Nat))
  BY WFMin, NatLessThanWellFounded
<1>2. ASSUME NEW k \in S PROVE m <= k
  <2>1. k < m => <<k, m>> \in OpToRel(<, Nat)
    BY DEF OpToRel
  <2>2. ~(k < m)
    BY <1>1, <2>1, Zenon
  <2> QED
    BY <2>2
<1> QED
  BY <1>2

LEMMA EdgeEnds ==
  ASSUME NEW g, NEW e \in g, e = <<e[1], e[2]>>
  PROVE  e[1] \in Nodes(g) /\ e[2] \in Nodes(g) /\ e[1] \in Predecessors(g, e[2])
  BY DEF Nodes, Predecessors

LEMMA PredecessorEdge ==
  ASSUME NEW g, NEW depth, Levels(g, depth), NEW b, NEW a
  PROVE  /\ a \in Predecessors(g, b) <=> <<a, b>> \in g
         /\ a \in Predecessors(g, b) => /\ a \in Nodes(g) /\ b \in Nodes(g)
                                        /\ depth[a] < depth[b]
<1>1. ASSUME NEW e \in g, e[1] = a, e[2] = b
      PROVE  <<a, b>> \in g /\ a \in Nodes(g) /\ b \in Nodes(g) /\ depth[a] < depth[b]
  BY <1>1 DEF Levels, Nodes
<1>2. <<a, b>> \in g => a \in Predecessors(g, b)
  <2>1. <<a, b>>[1] = a /\ <<a, b>>[2] = b
    OBVIOUS
  <2> QED
    BY <2>1 DEF Predecessors
<1> QED
  BY <1>1, <1>2 DEF Predecessors

(* The set that Via defines is the least of those it ranges over, and has
   the property itself.                                                    *)
LEMMA ViaLeast ==
  ASSUME NEW g, NEW s, NEW b, NEW X, ClosedVia(g, s, b, X)
  PROVE  Via(g, s, b) \subseteq X
<1> DEFINE Y == X \intersect Nodes(g)
<1>1. \A n : Predecessors(g, n) \subseteq Nodes(g)
  BY DEF Predecessors, Nodes
<1>2. ClosedVia(g, s, b, Y)
  BY <1>1 DEF ClosedVia
<1>3. Y \in SUBSET Nodes(g)
  OBVIOUS
<1> HIDE DEF Y
<1>4. Via(g, s, b) \subseteq Y
  BY <1>2, <1>3 DEF Via
<1> QED
  BY <1>4 DEF Y

LEMMA ViaClosed ==
  ASSUME NEW g, NEW s, NEW b
  PROVE  Via(g, s, b) \subseteq Nodes(g) /\ ClosedVia(g, s, b, Via(g, s, b))
<1>1. \A n : Predecessors(g, n) \subseteq Nodes(g)
  BY DEF Predecessors, Nodes
<1>2. Predecessors(g, b) \subseteq Via(g, s, b)
  BY <1>1 DEF Via, ClosedVia
<1>3. ASSUME NEW x \in Via(g, s, b) \intersect s, NEW a \in Predecessors(g, x)
      PROVE  a \in Via(g, s, b)
  BY <1>1, <1>3 DEF Via, ClosedVia
<1> QED
  BY <1>2, <1>3 DEF Via, ClosedVia

(* What leads to a node on the way leads to the end. *)
LEMMA ViaTransitive ==
  ASSUME NEW g, NEW s, NEW b, NEW c \in Via(g, s, b), c \in s
  PROVE  Via(g, s, c) \subseteq Via(g, s, b)
<1>1. ClosedVia(g, s, c, Via(g, s, b))
  BY ViaClosed DEF ClosedVia
<1> QED
  BY <1>1, ViaLeast

LEMMA ViaDeeper ==
  ASSUME NEW g, NEW depth, Levels(g, depth), NEW s, NEW b, NEW a \in Via(g, s, b)
  PROVE  a \in Nodes(g) /\ b \in Nodes(g) /\ depth[a] < depth[b]
<1> DEFINE X == {x \in Nodes(g) : b \in Nodes(g) /\ depth[x] < depth[b]}
<1>1. Predecessors(g, b) \subseteq X
  BY PredecessorEdge
<1>2. ASSUME NEW x \in X, NEW p \in Predecessors(g, x)
      PROVE  p \in X
  <2>1. p \in Nodes(g) /\ depth[p] < depth[x]
    BY PredecessorEdge
  <2>2. depth[p] \in Nat /\ depth[x] \in Nat /\ depth[b] \in Nat
    BY <2>1 DEF Levels
  <2> QED
    BY <2>1, <2>2
<1>3. ClosedVia(g, s, b, X)
  BY <1>1, <1>2 DEF ClosedVia
<1> HIDE DEF X
<1>4. a \in X
  BY <1>3, ViaLeast
<1> QED
  BY <1>4 DEF X

-----------------------------------------------------------------------------
LEMMA NothingBridged ==
  ASSUME NEW g, NEW depth, Levels(g, depth)
  PROVE  Without(g, {}) = g
<1>1. ASSUME NEW b PROVE Via(g, {}, b) = Predecessors(g, b)
  <2>1. ClosedVia(g, {}, b, Predecessors(g, b))
    BY DEF ClosedVia
  <2> QED
    BY <2>1, ViaLeast, ViaClosed DEF ClosedVia
<1>2. ASSUME NEW e \in g PROVE e \in Without(g, {})
  <2>1. e = <<e[1], e[2]>>
    BY DEF Levels
  <2>2. e[1] \in Nodes(g) /\ e[2] \in Nodes(g) /\ e[1] \in Via(g, {}, e[2])
    BY <1>1, <2>1, EdgeEnds
  <2> QED
    BY <2>1, <2>2 DEF Without
<1>3. ASSUME NEW e \in Without(g, {}) PROVE e \in g
  <2>1. e = <<e[1], e[2]>> /\ e[1] \in Predecessors(g, e[2])
    BY <1>1 DEF Without
  <2> QED
    BY <2>1, PredecessorEdge
<1> QED
  BY <1>2, <1>3

(* One more node in the set. *)
LEMMA ViaOneMore ==
  ASSUME NEW g, NEW s, NEW n \in s, NEW a, NEW b
  PROVE  a \in Via(g, s, b) <=>
           \/ a \in Via(g, s \ {n}, b)
           \/ n \in Via(g, s \ {n}, b) /\ a \in Via(g, s \ {n}, n)
<1> DEFINE r == s \ {n}
           V == Via(g, r, b)
           X == V \union {x \in Via(g, r, n) : n \in V}
<1>1. ClosedVia(g, r, b, Via(g, s, b))
  BY ViaClosed DEF ClosedVia
<1>2. V \subseteq Via(g, s, b)
  BY <1>1, ViaLeast
<1>3. ASSUME n \in V PROVE Via(g, r, n) \subseteq Via(g, s, b)
  <2>1. ClosedVia(g, r, n, Via(g, s, b))
    BY <1>2, <1>3, ViaClosed DEF ClosedVia
  <2> QED
    BY <2>1, ViaLeast
<1>4. ClosedVia(g, s, b, X)
  <2>1. Predecessors(g, b) \subseteq X
    BY ViaClosed DEF ClosedVia
  <2>2. ASSUME NEW x \in X, x \in s PROVE Predecessors(g, x) \subseteq X
    <3>1. CASE x = n
      <4>1. n \in V
        BY <2>2, <3>1
      <4> QED
        BY <3>1, <4>1, ViaClosed DEF ClosedVia
    <3>2. CASE x # n
      BY <2>2, <3>2, ViaClosed DEF ClosedVia
    <3> QED
      BY <3>1, <3>2
  <2> QED
    BY <2>1, <2>2 DEF ClosedVia
<1>5. Via(g, s, b) \subseteq X
  BY <1>4, ViaLeast
<1> QED
  BY <1>2, <1>3, <1>5

LEMMA WithoutEdge ==
  ASSUME NEW g, NEW s, NEW a, NEW b
  PROVE  <<a, b>> \in Without(g, s) <=>
           a \in Nodes(g) \ s /\ b \in Nodes(g) \ s /\ a \in Via(g, s, b)
  BY DEF Without

LEMMA BridgedEdge ==
  ASSUME NEW h, NEW n, NEW a, NEW b, \A e \in h : e = <<e[1], e[2]>>
  PROVE  <<a, b>> \in BridgeNode(n, h) <=>
           \/ <<a, b>> \in h /\ a # n /\ b # n
           \/ <<a, n>> \in h /\ <<n, b>> \in h
<1>1. \A x, y : <<x, y>>[1] = x /\ <<x, y>>[2] = y
  OBVIOUS
<1>2. a \in Predecessors(h, n) <=> <<a, n>> \in h
  BY <1>1 DEF Predecessors
<1>3. b \in Successors(h, n) <=> <<n, b>> \in h
  BY <1>1 DEF Successors
<1>4. <<a, b>> \in {e \in h : n \notin {e[1], e[2]}} <=> <<a, b>> \in h /\ a # n /\ b # n
  BY <1>1
<1> QED
  BY <1>2, <1>3, <1>4 DEF BridgeNode

(* A turn of the loop of simplify_graph takes the graph without s \ {n} to
   the one without s.                                                      *)
LEMMA BridgeOne ==
  ASSUME NEW g, NEW depth, Levels(g, depth), NEW s, NEW n \in s
  PROVE  BridgeNode(n, Without(g, s \ {n})) = Without(g, s)
<1> DEFINE r == s \ {n}
           h == Without(g, r)
<1>1. \A e \in h : e = <<e[1], e[2]>>
  BY DEF Without
<1>2. n \notin Via(g, r, n)
  <2>1. n \in Via(g, r, n) => depth[n] < depth[n] /\ depth[n] \in Nat
    BY ViaDeeper DEF Levels
  <2> QED
    BY <2>1
<1>3. ASSUME NEW a, NEW b
      PROVE  <<a, b>> \in BridgeNode(n, h) <=> <<a, b>> \in Without(g, s)
  <2>1. <<a, b>> \in BridgeNode(n, h) <=>
           \/ <<a, b>> \in h /\ a # n /\ b # n
           \/ <<a, n>> \in h /\ <<n, b>> \in h
    <3> HIDE DEF h
    <3> QED
      BY <1>1, BridgedEdge
  <2>2. <<a, b>> \in Without(g, s) <=>
           a \in Nodes(g) \ s /\ b \in Nodes(g) \ s /\ a \in Via(g, s, b)
    BY WithoutEdge
  <2>3. a \in Via(g, s, b) <=> a \in Via(g, r, b) \/ (n \in Via(g, r, b) /\ a \in Via(g, r, n))
    BY ViaOneMore
  <2>4. /\ <<a, b>> \in h <=> a \in Nodes(g) \ r /\ b \in Nodes(g) \ r /\ a \in Via(g, r, b)
        /\ <<a, n>> \in h <=> a \in Nodes(g) \ r /\ n \in Nodes(g) \ r /\ a \in Via(g, r, n)
        /\ <<n, b>> \in h <=> n \in Nodes(g) \ r /\ b \in Nodes(g) \ r /\ n \in Via(g, r, b)
    BY WithoutEdge
  <2>5. /\ a \in Via(g, r, n) => a # n /\ a \in Nodes(g) /\ n \in Nodes(g)
        /\ n \in Via(g, r, b) => b # n /\ b \in Nodes(g)
    BY <1>2, ViaDeeper
  <2> HIDE DEF h
  <2> QED
    BY <2>1, <2>2, <2>3, <2>4, <2>5
<1>4. \A e \in BridgeNode(n, h) : \E a, b : e = <<a, b>>
  <2> HIDE DEF h
  <2> QED
    BY <1>1 DEF BridgeNode
<1>5. \A e \in Without(g, s) : \E a, b : e = <<a, b>>
  BY DEF Without
<1> HIDE DEF h
<1>6. BridgeNode(n, h) = Without(g, s)
  BY <1>3, <1>4, <1>5
<1> QED
  BY <1>6 DEF h

(* The loop, one node at a time. *)
Turn(g, f, s) ==
  IF s = {} THEN g ELSE BridgeNode(CHOOSE n \in s : TRUE, f[s \ {CHOOSE n \in s : TRUE}])

LEMMA LoopResult ==
  ASSUME NEW g, NEW depth, Levels(g, depth), NEW S, IsFiniteSet(S),
         NEW f, f = [s \in SUBSET S |-> Turn(g, f, s)]
  PROVE  \A s \in SUBSET S : f[s] = Without(g, s)
<1> DEFINE Bad == {Cardinality(s) : s \in {t \in SUBSET S : f[t] # Without(g, t)}}
<1>1. SUFFICES ASSUME Bad # {} PROVE FALSE
  OBVIOUS
<1>2. Bad \in SUBSET Nat
  BY FS_Subset, FS_CardinalityType
<1>3. PICK m \in Bad : \A k \in Bad : m <= k
  <2> HIDE DEF Bad
  <2> QED
    BY <1>1, <1>2, Minimum
<1>4. PICK s \in SUBSET S : m = Cardinality(s) /\ f[s] # Without(g, s)
  BY <1>3
<1>5. f[s] = Turn(g, f, s)
  OBVIOUS
<1>6. CASE s = {}
  BY <1>4, <1>5, <1>6, NothingBridged DEF Turn
<1>7. CASE s # {}
  <2> DEFINE n == CHOOSE x \in s : TRUE
  <2>1. n \in s
    BY <1>7
  <2>2. f[s] = BridgeNode(n, f[s \ {n}])
    BY <1>5, <1>7 DEF Turn
  <2> HIDE DEF n
  <2>3. IsFiniteSet(s) /\ Cardinality(s) \in Nat
    BY FS_Subset, FS_CardinalityType
  <2>4. Cardinality(s \ {n}) = Cardinality(s) - 1
    BY <2>1, <2>3, FS_RemoveElement
  <2>5. s \ {n} \in SUBSET S /\ ~(m <= Cardinality(s \ {n}))
    BY <1>4, <2>3, <2>4
  <2>6. f[s \ {n}] = Without(g, s \ {n})
    BY <1>3, <2>5
  <2> QED
    BY <1>4, <2>1, <2>2, <2>6, BridgeOne
<1> QED
  BY <1>6, <1>7

LEMMA LoopExists ==
  ASSUME NEW g, NEW depth, Levels(g, depth), NEW S
  PROVE  \E f : f = [s \in SUBSET S |-> Turn(g, f, s)]
<1> DEFINE f == [s \in SUBSET S |-> Without(g, s)]
<1>1. ASSUME NEW s \in SUBSET S PROVE Without(g, s) = Turn(g, f, s)
  <2>1. CASE s = {}
    BY <2>1, NothingBridged DEF Turn
  <2>2. CASE s # {}
    <3> DEFINE n == CHOOSE x \in s : TRUE
    <3>1. n \in s
      BY <2>2
    <3>2. s \ {n} \in SUBSET S
      OBVIOUS
    <3>3. f[s \ {n}] = Without(g, s \ {n})
      BY <3>2
    <3>4. Turn(g, f, s) = BridgeNode(n, f[s \ {n}])
      BY <2>2 DEF Turn
    <3> HIDE DEF n, f
    <3> QED
      BY <3>1, <3>3, <3>4, BridgeOne
  <2> QED
    BY <2>1, <2>2
<1>2. f = [s \in SUBSET S |-> Turn(g, f, s)]
  BY <1>1
<1> QED
  BY <1>2

(* What simplify_graph leaves, whatever the order of the nodes it bridges:
   an edge wherever a path leads from one of the given nodes to another one
   over missing nodes alone.                                               *)
THEOREM SimplifiedGraph ==
  ASSUME NEW g, NEW depth, Levels(g, depth), IsFiniteSet(Nodes(g)), NEW nodes
  PROVE  SimplifyGraph(g, nodes) = Without(g, Nodes(g) \ nodes)
<1> DEFINE S == Nodes(g) \ nodes
           f == CHOOSE f : f = [s \in SUBSET S |-> Turn(g, f, s)]
<1>1. SimplifyGraph(g, nodes) = f[S]
  BY DEF SimplifyGraph, FoldSet, MapThenFoldSet, Turn
<1>2. f = [s \in SUBSET S |-> Turn(g, f, s)]
  BY LoopExists
<1>3. IsFiniteSet(S) /\ S \in SUBSET S
  BY FS_Subset
<1> HIDE DEF f, S
<1>4. f[S] = Without(g, S)
  BY <1>2, <1>3, LoopResult
<1> QED
  BY <1>1, <1>4 DEF S
-----------------------------------------------------------------------------
(* Upstream of t are its predecessors and what is upstream of them. *)
LEMMA UpStep ==
  ASSUME NEW g, NEW t
  PROVE  Up(g, t) = Predecessors(g, t) \union UNION {Up(g, p) : p \in Predecessors(g, t)}
<1> DEFINE Y == Predecessors(g, t) \union UNION {Up(g, p) : p \in Predecessors(g, t)}
<1>1. \A n : Predecessors(g, n) \subseteq Up(g, n)
  BY ViaClosed DEF Up, ClosedVia
<1>2. ASSUME NEW p \in Predecessors(g, t) PROVE Up(g, p) \subseteq Up(g, t)
  <2>1. p \in Up(g, t) /\ p \in Nodes(g)
    BY <1>1, ViaClosed DEF Up
  <2> QED
    BY <2>1, ViaTransitive DEF Up
<1>3. ASSUME NEW x \in Y PROVE Predecessors(g, x) \subseteq Y
  <2>1. CASE x \in Predecessors(g, t)
    BY <1>1, <2>1
  <2>2. ASSUME NEW p \in Predecessors(g, t), x \in Up(g, p) PROVE Predecessors(g, x) \subseteq Y
    <3>1. Up(g, p) \subseteq Nodes(g) /\ ClosedVia(g, Nodes(g), p, Up(g, p))
      BY ViaClosed DEF Up
    <3> QED
      BY <2>2, <3>1 DEF ClosedVia
  <2> QED
    BY <2>1, <2>2
<1>4. ClosedVia(g, Nodes(g), t, Y)
  BY <1>3 DEF ClosedVia
<1>5. Up(g, t) \subseteq Y
  <2> HIDE DEF Y
  <2> QED
    BY <1>4, ViaLeast DEF Up
<1> QED
  BY <1>1, <1>2, <1>5

(* A recursive function that collects what is upstream. *)
LEMMA UpUnique ==
  ASSUME NEW g, NEW depth, Levels(g, depth), NEW f,
         f = [t \in Nodes(g) |->
                Predecessors(g, t) \union UNION {f[p] : p \in Predecessors(g, t)}],
         NEW t \in Nodes(g)
  PROVE  f[t] = Up(g, t)
<1> DEFINE Bad == {depth[x] : x \in {y \in Nodes(g) : f[y] # Up(g, y)}}
<1>1. SUFFICES ASSUME Bad # {} PROVE FALSE
  OBVIOUS
<1>2. PICK m \in Bad : \A k \in Bad : m <= k
  <2>1. Bad \in SUBSET Nat
    BY DEF Levels
  <2> HIDE DEF Bad
  <2> QED
    BY <1>1, <2>1, Minimum
<1>3. PICK x \in Nodes(g) : m = depth[x] /\ f[x] # Up(g, x)
  BY <1>2
<1>4. ASSUME NEW p \in Predecessors(g, x) PROVE f[p] = Up(g, p)
  <2>1. p \in Nodes(g) /\ depth[p] < depth[x]
    BY PredecessorEdge
  <2>2. depth[p] \in Nat /\ depth[x] \in Nat
    BY <2>1 DEF Levels
  <2>3. f[p] # Up(g, p) => depth[p] \in Bad
    BY <2>1
  <2> HIDE DEF Bad
  <2> QED
    BY <1>2, <1>3, <2>1, <2>2, <2>3
<1>5. Up(g, x) = Predecessors(g, x) \union UNION {Up(g, p) : p \in Predecessors(g, x)}
  BY UpStep
<1>6. f[x] = Predecessors(g, x) \union UNION {f[p] : p \in Predecessors(g, x)}
  OBVIOUS
<1>7. UNION {f[p] : p \in Predecessors(g, x)} = UNION {Up(g, p) : p \in Predecessors(g, x)}
  BY <1>4
<1> QED
  BY <1>3, <1>5, <1>6, <1>7

LEMMA UpTransitive ==
  ASSUME NEW g, NEW t, NEW p \in Up(g, t)
  PROVE  Up(g, p) \subseteq Up(g, t)
  BY ViaClosed, ViaTransitive DEF Up

LEMMA UpDeeper ==
  ASSUME NEW g, NEW depth, Levels(g, depth), NEW t, NEW p \in Up(g, t)
  PROVE  p \in Nodes(g) /\ p # t /\ t \notin Up(g, p)
<1>1. /\ p \in Nodes(g) /\ t \in Nodes(g) /\ depth[p] < depth[t]
      /\ t \in Up(g, p) => depth[t] < depth[p]
  BY ViaDeeper DEF Up
<1>2. depth[p] \in Nat /\ depth[t] \in Nat
  BY <1>1 DEF Levels
<1> QED
  BY <1>1, <1>2

LEMMA UpInside ==
  ASSUME NEW g, NEW D, \A t \in D : Predecessors(g, t) \subseteq D, NEW t \in D
  PROVE  Up(g, t) \subseteq D
<1>1. ClosedVia(g, Nodes(g), t, D)
  BY DEF ClosedVia
<1> QED
  BY <1>1, ViaLeast DEF Up

(* A function that asks the same of a node and, recursively, of all its
   predecessors; A has the nodes of which it is true.                      *)
Asks(g, D, A, f) ==
  f = [t \in D |-> t \in A /\ \A p \in Predecessors(g, t) : f[p]]

LEMMA AsksAll ==
  ASSUME NEW g, NEW depth, Levels(g, depth), NEW D, NEW A,
         \A t \in D : Predecessors(g, t) \subseteq D,
         NEW f, Asks(g, D, A, f), NEW t \in D
  PROVE  f[t] <=> t \in A /\ Up(g, t) \subseteq A
<1> DEFINE P(x) == f[x] <=> x \in A /\ Up(g, x) \subseteq A
           level(x) == IF x \in Nodes(g) THEN depth[x] ELSE 0
           Bad == {level(x) : x \in {y \in D : ~P(y)}}
<1>1. SUFFICES ASSUME Bad # {} PROVE FALSE
  OBVIOUS
<1>2. \A x : level(x) \in Nat
  BY DEF Levels
<1>3. PICK m \in Bad : \A k \in Bad : m <= k
  <2>1. Bad \in SUBSET Nat
    BY <1>2
  <2> HIDE DEF Bad
  <2> QED
    BY <1>1, <2>1, Minimum
<1>4. PICK x \in D : m = level(x) /\ ~P(x)
  BY <1>3
<1>5. f[x] <=> x \in A /\ \A p \in Predecessors(g, x) : f[p]
  BY DEF Asks
<1>6. ASSUME NEW p \in Predecessors(g, x) PROVE P(p)
  <2>1. p \in D /\ level(p) < level(x)
    BY PredecessorEdge
  <2>2. level(p) \in Nat /\ level(x) \in Nat
    BY <1>2
  <2> HIDE DEF level, P
  <2>3. ~P(p) => level(p) \in Bad
    BY <2>1
  <2> QED
    BY <1>3, <1>4, <2>1, <2>2, <2>3
<1>7. Up(g, x) = Predecessors(g, x) \union UNION {Up(g, p) : p \in Predecessors(g, x)}
  BY UpStep
<1>8. P(x)
  BY <1>5, <1>6, <1>7
<1> QED
  BY <1>4, <1>8

LEMMA AsksExists ==
  ASSUME NEW g, NEW D, NEW A, \A t \in D : Predecessors(g, t) \subseteq D
  PROVE  \E f : Asks(g, D, A, f)
<1> DEFINE f == [t \in D |-> t \in A /\ Up(g, t) \subseteq A]
<1>1. ASSUME NEW t \in D
      PROVE  (t \in A /\ Up(g, t) \subseteq A) = (t \in A /\ \A p \in Predecessors(g, t) : f[p])
  <2>1. Up(g, t) = Predecessors(g, t) \union UNION {Up(g, p) : p \in Predecessors(g, t)}
    BY UpStep
  <2>2. \A p \in Predecessors(g, t) : f[p] <=> p \in A /\ Up(g, p) \subseteq A
    OBVIOUS
  <2> HIDE DEF f
  <2> QED
    BY <2>1, <2>2
<1>2. Asks(g, D, A, f)
  BY <1>1, Zenon DEF Asks
<1> QED
  BY <1>2

-----------------------------------------------------------------------------
(* Bridging keeps what is upstream of what. *)
LEMMA UpWithout ==
  ASSUME NEW g, NEW depth, Levels(g, depth), NEW s, NEW t, t \notin s
  PROVE  Up(Without(g, s), t) = Up(g, t) \ s
<1> DEFINE h == Without(g, s)
           N == Nodes(g)
<1>1. \A a, b : a \in Predecessors(h, b) <=> a \in N \ s /\ b \in N \ s /\ a \in Via(g, s, b)
  <2>1. \A e \in h : e = <<e[1], e[2]>>
    BY DEF Without
  <2>2. \A a, b : a \in Predecessors(h, b) <=> <<a, b>> \in h
    <3>1. \A a, b : <<a, b>>[1] = a /\ <<a, b>>[2] = b
      OBVIOUS
    <3> HIDE DEF h
    <3> QED
      BY <2>1, <3>1 DEF Predecessors
  <2> QED
    BY <2>2, WithoutEdge
<1>2. Nodes(h) \subseteq N \ s
  BY DEF Without, Nodes
<1> HIDE DEF h
<1>3. \A b : Via(g, s, b) \subseteq N
  BY ViaClosed
<1>4. \A b : Predecessors(g, b) \subseteq N /\ (Predecessors(g, b) # {} => b \in N)
  BY DEF Predecessors, Nodes
<1>5. ASSUME NEW p \in Up(h, t) PROVE p \in Up(g, t) \ s
  <2>1. p \in Nodes(h)
    BY ViaClosed DEF Up
  <2>2. \A b, X : ClosedVia(g, N, b, X) /\ X \subseteq N => Via(g, s, b) \subseteq X
    <3> SUFFICES ASSUME NEW b, NEW X, ClosedVia(g, N, b, X), X \subseteq N
                 PROVE  Via(g, s, b) \subseteq X
      OBVIOUS
    <3>1. ClosedVia(g, s, b, X)
      BY DEF ClosedVia
    <3> QED
      BY <3>1, ViaLeast
  <2>3. Up(g, t) \subseteq N /\ ClosedVia(g, N, t, Up(g, t))
    BY ViaClosed DEF Up
  <2>4. ASSUME NEW x \in Up(g, t) PROVE ClosedVia(g, N, x, Up(g, t))
    BY <2>3 DEF ClosedVia
  <2>5. ClosedVia(h, Nodes(h), t, Up(g, t))
    <3>1. Predecessors(h, t) \subseteq Up(g, t)
      BY <1>1, <2>2, <2>3
    <3>2. ASSUME NEW x \in Up(g, t) PROVE Predecessors(h, x) \subseteq Up(g, t)
      BY <1>1, <2>2, <2>3, <2>4
    <3> QED
      BY <3>1, <3>2 DEF ClosedVia
  <2>6. p \in Up(g, t)
    <3>1. Up(h, t) \subseteq Up(g, t)
      BY <2>5, ViaLeast DEF Up
    <3> QED
      BY <3>1
  <2> QED
    BY <1>2, <2>1, <2>6
<1>6. ASSUME NEW p \in Up(g, t), p \notin s PROVE p \in Up(h, t)
  <2> DEFINE Y == Up(h, t)
             X == Y \union {x \in N \intersect s : Via(g, s, x) \ s \subseteq Y}
  <2>1. Y \subseteq Nodes(h) /\ ClosedVia(h, Nodes(h), t, Y)
    BY ViaClosed DEF Up
  <2>2. ASSUME NEW b, b \notin s, Predecessors(h, b) \subseteq Y
        PROVE  Predecessors(g, b) \subseteq X
    <3>1. Via(g, s, b) \ s \subseteq Y
      BY <1>1, <1>3, <2>2, ViaDeeper
    <3>2. ASSUME NEW a \in Predecessors(g, b) PROVE a \in X
      <4>1. a \in Via(g, s, b)
        BY ViaClosed DEF ClosedVia
      <4>2. a \in s => Via(g, s, a) \subseteq Via(g, s, b)
        BY <4>1, ViaTransitive
      <4> QED
        BY <1>3, <3>1, <4>1, <4>2
    <3> QED
      BY <3>2
  <2>3. ASSUME NEW x \in X, x \in s PROVE Predecessors(g, x) \subseteq X
    <3>1. Via(g, s, x) \ s \subseteq Y
      BY <1>2, <2>1, <2>3
    <3>2. ASSUME NEW a \in Predecessors(g, x) PROVE a \in X
      <4>1. a \in Via(g, s, x)
        BY ViaClosed DEF ClosedVia
      <4>2. a \in s => Via(g, s, a) \subseteq Via(g, s, x)
        BY <4>1, ViaTransitive
      <4> QED
        BY <1>3, <3>1, <4>1, <4>2
    <3> QED
      BY <3>2
  <2>4. ASSUME NEW x \in X, x \notin s PROVE Predecessors(g, x) \subseteq X
    <3>1. Predecessors(h, x) \subseteq Y
      BY <2>1, <2>4 DEF ClosedVia
    <3> QED
      BY <2>2, <2>4, <3>1
  <2>5. Predecessors(g, t) \subseteq X
    <3>1. Predecessors(h, t) \subseteq Y
      BY <2>1 DEF ClosedVia
    <3> QED
      BY <2>2, <3>1
  <2> HIDE DEF Y, X
  <2>6. ClosedVia(g, N, t, X)
    BY <2>3, <2>4, <2>5 DEF ClosedVia
  <2>7. p \in X
    BY <2>6, ViaLeast DEF Up
  <2> QED
    BY <1>6, <2>7 DEF X, Y
<1> QED
  BY <1>5, <1>6 DEF h

LEMMA LevelsWithout ==
  ASSUME NEW g, NEW depth, Levels(g, depth), NEW s
  PROVE  Levels(Without(g, s), [n \in Nodes(Without(g, s)) |-> depth[n]])
<1> DEFINE h == Without(g, s)
           d == [n \in Nodes(h) |-> depth[n]]
<1>1. Nodes(h) \subseteq Nodes(g)
  BY DEF Without, Nodes
<1>2. d \in [Nodes(h) -> Nat]
  BY <1>1 DEF Levels
<1>3. ASSUME NEW e \in h PROVE e = <<e[1], e[2]>> /\ d[e[1]] < d[e[2]]
  <2>1. e = <<e[1], e[2]>> /\ e[1] \in Via(g, s, e[2])
    BY DEF Without
  <2>2. depth[e[1]] < depth[e[2]]
    BY <2>1, ViaDeeper
  <2>3. e[1] \in Nodes(h) /\ e[2] \in Nodes(h)
    BY <2>1, EdgeEnds
  <2> QED
    BY <2>1, <2>2, <2>3
<1> QED
  BY <1>2, <1>3 DEF Levels
LEMMA SortedForm ==
  ASSUME NEW h, NEW depth, Levels(h, depth), NEW log, NEW table \in Range(log),
         \A t \in Range(log) : Predecessors(h, t) \subseteq Range(log)
  PROVE  CheckIfDepsAreSorted(h, table, log) <=>
           \A q \in Up(h, table) \union {table} : CheckIfSorted(h, q, log)
<1> DEFINE D == Range(log)
           A == {t \in D : CheckIfSorted(h, t, log)}
           F(f) == [t \in D |-> /\ CheckIfSorted(h, t, log)
                                /\ \A p \in Predecessors(h, t) : f[p]]
           sorted == CHOOSE f : f = F(f)
<1>1. CheckIfDepsAreSorted(h, table, log) = sorted[table]
  BY DEF CheckIfDepsAreSorted
<1>2. ASSUME NEW f PROVE f = F(f) <=> Asks(h, D, A, f)
  <2>1. \A t \in D : CheckIfSorted(h, t, log) <=> t \in A
    OBVIOUS
  <2>2. F(f) = [t \in D |-> t \in A /\ \A p \in Predecessors(h, t) : f[p]]
    <3> HIDE DEF A, D
    <3> QED
      BY <2>1
  <2> QED
    BY <2>2 DEF Asks
<1>3. sorted = F(sorted)
  <2>1. \E f : f = F(f)
    <3>1. \E f : Asks(h, D, A, f)
      BY AsksExists
    <3> HIDE DEF A, D, F
    <3> QED
      BY <1>2, <3>1
  <2> HIDE DEF F
  <2> QED
    BY <2>1
<1>4. Asks(h, D, A, sorted)
  <2> HIDE DEF F, sorted, A, D
  <2> QED
    BY <1>2, <1>3
<1> HIDE DEF sorted, F
<1>5. sorted[table] <=> table \in A /\ Up(h, table) \subseteq A
  <2> HIDE DEF A
  <2> QED
    BY <1>4, AsksAll
<1>6. Up(h, table) \subseteq D
  BY UpInside
<1> QED
  BY <1>1, <1>5, <1>6

LEMMA IndexType ==
  ASSUME NEW T, NEW log \in Seq(T), NEW t \in Range(log)
  PROVE  Index(log, t) \in DOMAIN log /\ log[Index(log, t)] = t /\ Index(log, t) \in Nat
<1>1. \E i \in DOMAIN log : log[i] = t
  BY DEF Range
<1>2. Index(log, t) \in DOMAIN log /\ log[Index(log, t)] = t
  BY <1>1 DEF Index
<1>3. DOMAIN log \subseteq Nat
  OBVIOUS
<1> QED
  BY <1>2, <1>3

(* is_dirty answers no for a table with a record exactly when the recorded
   changes of it and of everything recorded upstream of it came in the
   order of the flow of information: for every graph without cycles and
   every changelog, whichever nodes have no record.                        *)
THEOREM CleanForm ==
  ASSUME NEW g, NEW depth, Levels(g, depth), IsFiniteSet(Nodes(g)),
         NEW T, NEW log \in Seq(T), NEW t \in Range(log)
  PROVE  ~IsDirty(g, t, log) <=>
           \A q \in (Up(g, t) \intersect Range(log)) \union {t} :
             \A p \in Up(g, q) \intersect Range(log) : Before(log, p, q)
<1> DEFINE s == Nodes(g) \ Range(log)
           h == Without(g, s)
           d == [n \in Nodes(h) |-> depth[n]]
<1>1. SimplifyGraph(g, Range(log)) = h
  BY SimplifiedGraph
<1>2. Levels(h, d)
  BY LevelsWithout
<1>3. \A q : Predecessors(h, q) \subseteq Range(log)
  <2>1. Nodes(h) \subseteq Nodes(g) \ s
    BY DEF Without, Nodes
  <2>2. \A q : Predecessors(h, q) \subseteq Nodes(h)
    <3> HIDE DEF h
    <3> QED
      BY DEF Predecessors, Nodes
  <2> QED
    BY <2>1, <2>2
<1>4. \A q \in Range(log) : Up(h, q) = Up(g, q) \intersect Range(log)
  <2>1. \A q \in Range(log) : Up(h, q) = Up(g, q) \ s
    BY UpWithout
  <2>2. \A q : Up(g, q) \subseteq Nodes(g)
    BY ViaClosed DEF Up
  <2> QED
    BY <2>1, <2>2
<1>5. ~IsDirty(g, t, log) <=> CheckIfDepsAreSorted(h, t, log)
  BY <1>1 DEF IsDirty
<1> HIDE DEF s, h, d
<1>6. CheckIfDepsAreSorted(h, t, log) <=>
        \A q \in Up(h, t) \union {t} : CheckIfSorted(h, q, log)
  BY <1>2, <1>3, SortedForm
<1>7. \A q : Predecessors(h, q) \subseteq Up(h, q)
  BY ViaClosed DEF Up, ClosedVia
<1>8. ASSUME \A q \in Up(h, t) \union {t} : CheckIfSorted(h, q, log),
             NEW q \in Up(h, t) \union {t}
      PROVE  \A p \in Up(h, q) : Before(log, p, q)
  <2> DEFINE X == {p \in Up(h, q) : Before(log, p, q)}
  <2>1. q \in Range(log) /\ Up(h, q) \subseteq Range(log)
    BY <1>4
  <2>2. Up(h, q) \subseteq Up(h, t)
    BY UpTransitive
  <2>3. \A x \in Range(log) : Index(log, x) \in Nat
    BY IndexType
  <2>4. Predecessors(h, q) \subseteq X
    BY <1>7, <1>8 DEF CheckIfSorted, Before
  <2>5. ASSUME NEW x \in X, NEW p \in Predecessors(h, x) PROVE p \in X
    <3>1. p \in Up(h, q)
      BY <1>7, UpTransitive
    <3>2. Index(log, p) < Index(log, x)
      BY <1>8, <2>2 DEF CheckIfSorted
    <3>3. Before(log, p, q)
      BY <2>1, <2>3, <3>1, <3>2 DEF Before
    <3> QED
      BY <3>1, <3>3
  <2>6. ClosedVia(h, Nodes(h), q, X)
    BY <2>4, <2>5 DEF ClosedVia
  <2> HIDE DEF X
  <2>7. Up(h, q) \subseteq X
    BY <2>6, ViaLeast DEF Up
  <2> QED
    BY <2>7 DEF X
<1>9. (\A q \in Up(h, t) \union {t} : CheckIfSorted(h, q, log)) <=>
        \A q \in Up(h, t) \union {t} : \A p \in Up(h, q) : Before(log, p, q)
  <2>1. ASSUME \A q \in Up(h, t) \union {t} : \A p \in Up(h, q) : Before(log, p, q)
        PROVE  \A q \in Up(h, t) \union {t} : CheckIfSorted(h, q, log)
    BY <1>7, <2>1 DEF CheckIfSorted, Before
  <2> QED
    BY <1>8, <2>1
<1>10. Up(h, t) \subseteq Range(log)
  BY <1>4
<1> QED
  BY <1>4, <1>5, <1>6, <1>9, <1>10

-----------------------------------------------------------------------------
(* The changelog after a change of t: t comes last, and the others as they
   were.                                                                   *)
LEMMA RemoveOne ==
  ASSUME NEW T, NEW log \in Seq(T), IsInjective(log), NEW i \in DOMAIN log
  PROVE  LET r == RemoveAt(log, i)
         IN  /\ r \in Seq(T) /\ Len(r) = Len(log) - 1
             /\ \A k \in 1..Len(r) : r[k] = log[IF k < i THEN k ELSE k + 1]
<1> DEFINE a == SubSeq(log, 1, i - 1)
           b == SubSeq(log, i + 1, Len(log))
<1>1. Len(log) \in Nat /\ i \in 1..Len(log)
  OBVIOUS
<1>2. /\ a \in Seq(T) /\ Len(a) = i - 1
      /\ \A k \in 1..(i - 1) : a[k] = log[k]
  BY <1>1
<1>3. /\ b \in Seq(T) /\ Len(b) = Len(log) - i
      /\ \A k \in 1..(Len(log) - i) : b[k] = log[i + k]
  BY <1>1
<1> HIDE DEF a, b
<1>4. /\ a \o b \in Seq(T) /\ Len(a \o b) = Len(log) - 1
      /\ \A k \in 1..(Len(log) - 1) : (a \o b)[k] = IF k <= Len(a) THEN a[k] ELSE b[k - Len(a)]
  <2>1. /\ a \o b \in Seq(T) /\ Len(a \o b) = Len(a) + Len(b)
        /\ \A k \in 1..(Len(a) + Len(b)) : (a \o b)[k] = IF k <= Len(a) THEN a[k] ELSE b[k - Len(a)]
    BY <1>2, <1>3, ConcatProperties
  <2>2. Len(a) + Len(b) = Len(log) - 1
    BY <1>1, <1>2, <1>3
  <2> QED
    BY <2>1, <2>2
<1>5. ASSUME NEW k \in 1..(Len(log) - 1)
      PROVE  (a \o b)[k] = log[IF k < i THEN k ELSE k + 1]
  <2>1. CASE k < i
    BY <1>1, <1>2, <1>4, <2>1
  <2>2. CASE ~(k < i)
    <3>1. k - Len(a) \in 1..(Len(log) - i) /\ i + (k - Len(a)) = k + 1 /\ ~(k <= Len(a))
      BY <1>1, <1>2, <2>2
    <3>2. b[k - Len(a)] = log[k + 1]
      BY <1>3, <3>1
    <3> QED
      BY <1>4, <2>2, <3>1, <3>2
  <2> QED
    BY <2>1, <2>2
<1> QED
  BY <1>4, <1>5 DEF RemoveAt, a, b

(* What is_dirty may rely on: a change of t puts it last, the other tables
   keep their order, and no table has two rows.                            *)
LEMMA Touched ==
  ASSUME NEW T, NEW log \in Seq(T), IsInjective(log), NEW t \in T
  PROVE  LET l == Touch(log, t)
         IN  /\ l \in Seq(T) /\ IsInjective(l) /\ l[Len(l)] = t
             /\ Range(l) = Range(log) \union {t}
             /\ \A p \in Range(log) \ {t} : Before(l, p, t) /\ ~Before(l, t, p)
             /\ \A p, q \in Range(log) \ {t} : Before(l, p, q) <=> Before(log, p, q)
<1> DEFINE i == Index(log, t)
           r == IF t \in Range(log) THEN RemoveAt(log, i) ELSE log
           l == Append(r, t)
           n == Len(log)
           \* the place of an entry of r in log
           old(k) == IF t \in Range(log) /\ ~(k < i) THEN k + 1 ELSE k
<1>1. n \in Nat /\ DOMAIN log = 1..n
  OBVIOUS
<1>2. t \in Range(log) => i \in 1..n /\ log[i] = t
  BY <1>1, IndexType
<1>3. /\ r \in Seq(T) /\ Len(r) = (IF t \in Range(log) THEN n - 1 ELSE n)
      /\ \A k \in 1..Len(r) : r[k] = log[old(k)]
  <2>1. CASE t \in Range(log)
    <3>1. i \in DOMAIN log
      BY <1>1, <1>2, <2>1
    <3>2. LET x == RemoveAt(log, i)
          IN  /\ x \in Seq(T) /\ Len(x) = n - 1
              /\ \A k \in 1..Len(x) : x[k] = log[IF k < i THEN k ELSE k + 1]
      BY <3>1, RemoveOne
    <3>3. r = RemoveAt(log, i)
      BY <2>1
    <3>4. \A k : old(k) = IF k < i THEN k ELSE k + 1
      BY <2>1
    <3> HIDE DEF old, r
    <3> QED
      BY <2>1, <3>2, <3>3, <3>4
  <2>2. CASE t \notin Range(log)
    BY <1>1, <2>2
  <2> QED
    BY <2>1, <2>2
<1> DEFINE m == Len(r)
<1>4. m \in Nat /\ DOMAIN r = 1..m
  BY <1>3
<1>5. /\ l \in Seq(T) /\ Len(l) = m + 1 /\ DOMAIN l = 1..(m + 1)
      /\ l[m + 1] = t /\ \A k \in 1..m : l[k] = r[k]
  BY <1>3, <1>4
<1>6. \A k \in 1..m : old(k) \in 1..n /\ (t \in Range(log) => old(k) # i)
  BY <1>1, <1>2, <1>3
<1>7. \A k, j \in 1..m : old(k) = old(j) => k = j
  BY <1>1, <1>2, <1>3
<1>8. ASSUME NEW p \in Range(log) \ {t}
      PROVE  /\ Index(log, p) \in 1..n /\ (t \in Range(log) => Index(log, p) # i)
             /\ \E k \in 1..m : old(k) = Index(log, p)
  <2> DEFINE j == Index(log, p)
  <2>1. j \in 1..n /\ log[j] = p /\ (t \in Range(log) => j # i)
    BY <1>1, <1>2, IndexType
  <2> HIDE DEF j
  <2> DEFINE k == IF t \in Range(log) /\ i < j THEN j - 1 ELSE j
  <2>2. k \in 1..m
    BY <1>1, <1>2, <1>3, <2>1
  <2>3. old(k) = j
    BY <1>1, <1>2, <2>1
  <2> HIDE DEF k
  <2> QED
    BY <2>1, <2>2, <2>3 DEF j
<1>9. \A k, j \in 1..m : k < j <=> old(k) < old(j)
  BY <1>1, <1>2, <1>3
<1> HIDE DEF old, m, l, r, i
<1>10. \A k \in 1..m : l[k] = log[old(k)] /\ l[k] \in Range(log) /\ l[k] # t
  <2> SUFFICES ASSUME NEW k \in 1..m PROVE l[k] = log[old(k)] /\ l[k] \in Range(log) /\ l[k] # t
    OBVIOUS
  <2>1. l[k] = log[old(k)] /\ old(k) \in 1..n
    BY <1>3, <1>5, <1>6 DEF m
  <2>2. l[k] \in Range(log)
    BY <1>1, <2>1 DEF Range
  <2>3. l[k] # t
    BY <1>1, <1>2, <1>6, <2>1, <2>2 DEF IsInjective
  <2> QED
    BY <2>1, <2>2, <2>3
<1>11. IsInjective(l)
  <2>1. ASSUME NEW k \in 1..m, NEW j \in 1..m, l[k] = l[j] PROVE k = j
    <3>1. old(k) = old(j)
      BY <1>1, <1>6, <1>10, <2>1 DEF IsInjective
    <3> QED
      BY <1>7, <3>1
  <2>2. \A k \in 1..(m + 1) : k \in 1..m \/ k = m + 1
    BY <1>4
  <2> QED
    BY <1>5, <1>10, <2>1, <2>2 DEF IsInjective
<1>12. \A k \in DOMAIN l : Index(l, l[k]) = k
  BY <1>11 DEF Index, IsInjective
<1>13. m + 1 \in DOMAIN l /\ 1..m \subseteq DOMAIN l
  BY <1>4, <1>5
<1>14. Index(l, t) = m + 1
  BY <1>5, <1>12, <1>13
<1>15. ASSUME NEW p \in Range(log) \ {t}
       PROVE  \E k \in 1..m : l[k] = p /\ Index(l, p) = k /\ Index(log, p) = old(k)
  <2>1. PICK k \in 1..m : old(k) = Index(log, p)
    BY <1>8
  <2>2. log[Index(log, p)] = p
    BY IndexType
  <2>3. l[k] = p
    BY <1>10, <2>1, <2>2
  <2> QED
    BY <1>12, <1>13, <2>1, <2>3
<1>16. Range(l) = Range(log) \union {t}
  <2>1. ASSUME NEW k \in DOMAIN l PROVE l[k] \in Range(log) \union {t}
    <3>1. k \in 1..m \/ k = m + 1
      BY <1>4, <1>5
    <3> QED
      BY <1>5, <1>10, <3>1
  <2>2. t \in Range(l)
    BY <1>5, <1>13 DEF Range
  <2>3. ASSUME NEW p \in Range(log) \ {t} PROVE p \in Range(l)
    BY <1>13, <1>15 DEF Range
  <2>4. Range(l) \subseteq Range(log) \union {t}
    BY <2>1 DEF Range
  <2> QED
    BY <2>2, <2>3, <2>4
<1>17. \A p \in Range(log) \ {t} : Before(l, p, t) /\ ~Before(l, t, p)
  BY <1>4, <1>14, <1>15 DEF Before
<1>18. \A p, q \in Range(log) \ {t} : Before(l, p, q) <=> Before(log, p, q)
  BY <1>9, <1>15 DEF Before
<1>19. l = Touch(log, t)
  BY DEF Touch, l, r, i
<1>20. l \in Seq(T) /\ l[Len(l)] = t
  BY <1>5
<1> QED
  BY <1>11, <1>16, <1>17, <1>18, <1>19, <1>20

-----------------------------------------------------------------------------
(* The real dependency list and what the code reads (Tables). *)

(* The nodes of OG in an order that agrees with its edges. *)
Number ==
  [ global_cost_setting |-> 1, tmnt_facility_cost |-> 2, scenario |-> 3,
    tmnt_facility |-> 4, tmnt_facility_attribute |-> 5, tmnt_v |-> 6, subbasin |-> 7,
    tmnt_facility_delineation |-> 8, lgu_boundary |-> 9, graph_edge |-> 10,
    lgu_load |-> 11, tmnt_source_control |-> 12,
    tmnt_source_control_upstream_load_reduced |-> 13, lgu_load_to_structural |-> 14,
    met |-> 15, result_blob |-> 16, result_v |-> 17, load_to_ds_src_ctrl |-> 18,
    tmnt_source_control_downstream_load_reduced |-> 19, subbasin_result |-> 20 ]

Level == [n \in Nodes(OG) |-> Number[n]]

LEMMA OGEdge ==
  ASSUME NEW e
  PROVE  e \in OG <=> \E t \in DOMAIN AdjacencyList : \E p \in AdjacencyList[t] : e = <<p, t>>
  BY DEF OG

LEMMA NumberOfEdge ==
  ASSUME NEW t \in DOMAIN AdjacencyList, NEW p \in AdjacencyList[t]
  PROVE  p \in DOMAIN Number /\ t \in DOMAIN Number /\ Number[p] < Number[t]
  BY DEF AdjacencyList, Number, Upstream, Downstream

LEMMA NumberType ==
  /\ \A n \in DOMAIN Number : Number[n] \in 1..20
  /\ \A n, m \in DOMAIN Number : Number[n] = Number[m] => n = m
<1>1. \A n \in DOMAIN Number : Number[n] \in 1..20
  BY DEF Number
<1>2. \A n, m \in DOMAIN Number : Number[n] = Number[m] => n = m
  BY DEF Number
<1> QED
  BY <1>1, <1>2

LEMMA OGNodes ==
  Nodes(OG) \subseteq DOMAIN Number
<1>1. ASSUME NEW e \in OG PROVE e[1] \in DOMAIN Number /\ e[2] \in DOMAIN Number
  BY OGEdge, NumberOfEdge
<1> QED
  BY <1>1 DEF Nodes

LEMMA OGLevels ==
  Levels(OG, Level) /\ IsFiniteSet(Nodes(OG))
<1>1. Level \in [Nodes(OG) -> Nat]
  BY OGNodes, NumberType DEF Level
<1>2. ASSUME NEW e \in OG PROVE e = <<e[1], e[2]>> /\ Level[e[1]] < Level[e[2]]
  <2>1. PICK t \in DOMAIN AdjacencyList : \E p \in AdjacencyList[t] : e = <<p, t>>
    BY OGEdge
  <2>2. PICK p \in AdjacencyList[t] : e = <<p, t>>
    BY <2>1
  <2>3. e[1] \in Nodes(OG) /\ e[2] \in Nodes(OG)
    BY <2>2, EdgeEnds
  <2> QED
    BY <2>2, <2>3, NumberOfEdge DEF Level
<1>3. IsFiniteSet(Nodes(OG))
  <2>1. IsFiniteSet(1..20)
    <3>1. \A k \in Int : IsFiniteSet(1..k)
      BY FS_Interval
    <3>2. 20 \in Int
      OBVIOUS
    <3> QED
      BY <3>1, <3>2, Zenon
  <2>2. Level \in [Nodes(OG) -> 1..20]
    BY OGNodes, NumberType DEF Level
  <2>3. \A n, m \in Nodes(OG) : Level[n] = Level[m] => n = m
    BY OGNodes, NumberType DEF Level
  <2>4. Level \in Injection(Nodes(OG), 1..20)
    BY <2>2, <2>3 DEF Injection, IsInjective
  <2> QED
    BY <2>1, <2>4, FS_Injection
<1> QED
  BY <1>1, <1>2, <1>3 DEF Levels

LEMMA ListedUp ==
  ASSUME NEW t \in DOMAIN AdjacencyList, NEW p \in AdjacencyList[t]
  PROVE  p \in Up(OG, t)
<1>1. <<p, t>> \in OG
  BY OGEdge
<1>2. p \in Predecessors(OG, t)
  BY <1>1, OGLevels, PredecessorEdge
<1> QED
  BY <1>2, UpStep

LEMMA ListedTwiceUp ==
  ASSUME NEW t \in DOMAIN AdjacencyList, NEW p \in AdjacencyList[t],
         p \in DOMAIN AdjacencyList, NEW q \in AdjacencyList[p]
  PROVE  q \in Up(OG, t)
  BY ListedUp, UpTransitive

LEMMA InputsListed ==
  ASSUME NEW t \in DOMAIN Inputs, NEW p \in Inputs[t], <<p, t>> \notin Unlisted
  PROVE  p \in Up(OG, t)
<1>1. \/ t \in DOMAIN AdjacencyList /\ p \in AdjacencyList[t]
      \/ t = "result_blob" /\ p = "lgu_boundary"
      \/ t = "subbasin_result" /\ p \in {"lgu_load", "lgu_boundary"}
  <2>1. t \in {"lgu_boundary", "tmnt_facility_attribute"} =>
          t \in DOMAIN AdjacencyList /\ p \in AdjacencyList[t]
    BY DEF Inputs, BoundaryInputs, AttributeInputs, AdjacencyList, Unlisted
  <2>2. t \in {"lgu_load", Upstream, "lgu_load_to_structural", "graph_edge"} =>
          t \in DOMAIN AdjacencyList /\ p \in AdjacencyList[t]
    BY DEF Inputs, LoadInputs, SourceControlInputs, GraphInputs, TreatmentView,
           AdjacencyList, Upstream
  <2>3. t \in {"load_to_ds_src_ctrl", Downstream} =>
          t \in DOMAIN AdjacencyList /\ p \in AdjacencyList[t]
    BY DEF Inputs, LoadInputs, SourceControlInputs, AdjacencyList, Downstream
  <2>4. t = "result_blob" => p \in AdjacencyList[t] \union {"lgu_boundary"}
    BY DEF Inputs, SolveInputs, TreatmentView, AdjacencyList
  <2>5. t = "subbasin_result" => p \in AdjacencyList[t] \union {"lgu_load", "lgu_boundary"}
    BY DEF Inputs, LoadInputs, AdjacencyList, Downstream
  <2>6. t \in {"lgu_boundary", "tmnt_facility_attribute", "lgu_load", Upstream,
               "lgu_load_to_structural", "graph_edge", "result_blob", "load_to_ds_src_ctrl",
               Downstream, "subbasin_result"}
    BY DEF Inputs, Upstream, Downstream
  <2>7. {"result_blob", "subbasin_result"} \subseteq DOMAIN AdjacencyList
    BY DEF AdjacencyList
  <2> QED
    BY <2>1, <2>2, <2>3, <2>4, <2>5, <2>6, <2>7
<1>2. "lgu_boundary" \in Up(OG, "result_blob")
  <2>1. /\ "result_blob" \in DOMAIN AdjacencyList /\ "graph_edge" \in AdjacencyList["result_blob"]
        /\ "graph_edge" \in DOMAIN AdjacencyList /\ "lgu_boundary" \in AdjacencyList["graph_edge"]
    BY DEF AdjacencyList
  <2> QED
    BY <2>1, ListedTwiceUp
<1>3. "lgu_load" \in Up(OG, "result_blob")
  <2>1. /\ "result_blob" \in DOMAIN AdjacencyList
        /\ "lgu_load_to_structural" \in AdjacencyList["result_blob"]
        /\ "lgu_load_to_structural" \in DOMAIN AdjacencyList
        /\ "lgu_load" \in AdjacencyList["lgu_load_to_structural"]
    BY DEF AdjacencyList
  <2> QED
    BY <2>1, ListedTwiceUp
<1>4. "result_blob" \in Up(OG, "subbasin_result")
  <2>1. /\ "subbasin_result" \in DOMAIN AdjacencyList
        /\ "load_to_ds_src_ctrl" \in AdjacencyList["subbasin_result"]
        /\ "load_to_ds_src_ctrl" \in DOMAIN AdjacencyList
        /\ "result_blob" \in AdjacencyList["load_to_ds_src_ctrl"]
    BY DEF AdjacencyList
  <2> QED
    BY <2>1, ListedTwiceUp
<1>5. Up(OG, "result_blob") \subseteq Up(OG, "subbasin_result")
  BY <1>4, UpTransitive
<1> QED
  BY <1>1, <1>2, <1>3, <1>5, ListedUp

Replaced == Range(AllResults)

LEMMA ReplacedTables ==
  /\ DOMAIN AllResults = 1..7
  /\ Replaced = {Upstream, "lgu_load_to_structural", "graph_edge", "result_blob",
                 "load_to_ds_src_ctrl", Downstream, "subbasin_result"}
<1>1. DOMAIN AllResults = 1..7
  BY DEF AllResults
<1>2. Replaced = {AllResults[i] : i \in 1..7}
  BY <1>1 DEF Replaced, Range
<1> QED
  BY <1>1, <1>2 DEF AllResults

(* delete_and_refresh_all_results_tables replaces what a table is computed
   from before that table, and everything that its tables are computed from
   is upstream of them in the dependency list.                             *)
THEOREM RealPlan ==
  /\ \A i \in DOMAIN AllResults : \A p \in Inputs[AllResults[i]] \intersect Replaced :
       \E k \in 1..(i - 1) : AllResults[k] = p
  /\ \A t \in Replaced : Inputs[t] \subseteq Up(OG, t)
<1>1. Replaced \subseteq DOMAIN Inputs
  BY ReplacedTables DEF Inputs, Upstream, Downstream
<1>2. \A t \in Replaced : Inputs[t] \subseteq Up(OG, t)
  BY <1>1, ReplacedTables, InputsListed DEF Unlisted, Upstream, Downstream
<1>3. ASSUME NEW i \in 1..7, NEW p \in Inputs[AllResults[i]] \intersect Replaced
      PROVE  \E k \in 1..(i - 1) : AllResults[k] = p
  <2>1. CASE i \in {1, 2, 3}
    BY <2>1, ReplacedTables
       DEF AllResults, Inputs, LoadInputs, SourceControlInputs, GraphInputs, TreatmentView,
           Upstream, Downstream
  <2>2. CASE i \in {4, 5}
    BY <2>2, ReplacedTables
       DEF AllResults, Inputs, LoadInputs, SolveInputs, TreatmentView, Upstream, Downstream
  <2>3. CASE i \in {6, 7}
    BY <2>3, ReplacedTables
       DEF AllResults, Inputs, LoadInputs, SourceControlInputs, Upstream, Downstream
  <2> QED
    BY <2>1, <2>2, <2>3
<1> QED
  BY <1>2, <1>3, ReplacedTables
================================================================================
