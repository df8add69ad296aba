------------------------ MODULE DependencyOrder_proofs ------------------------
(***************************************************************************)
(* The answers of is_dirty over the real dependency list, for any choice   *)
(* of the tables whose changes are recorded and any number of changes.     *)
(***************************************************************************)
EXTENDS DependencyOrder, Dependencies_proofs

LEMMA UpstreamsUp ==
  ASSUME NEW t \in Nodes(OG)
  PROVE  Upstreams[t] = Up(OG, t)
<1> DEFINE F(f) == [n \in Nodes(OG) |->
                      Predecessors(OG, n) \union UNION {f[p] : p \in Predecessors(OG, n)}]
           up == CHOOSE f : f = F(f)
           u == [n \in Nodes(OG) |-> Up(OG, n)]
<1>1. Upstreams = up
  BY DEF Upstreams
<1>2. u = F(u)
  <2>1. ASSUME NEW n \in Nodes(OG)
        PROVE  Up(OG, n) = Predecessors(OG, n) \union UNION {u[p] : p \in Predecessors(OG, n)}
    <3>1. \A p \in Predecessors(OG, n) : u[p] = Up(OG, p)
      BY PredecessorEdge, OGLevels
    <3> HIDE DEF u
    <3> QED
      BY <3>1, UpStep
  <2> QED
    BY <2>1
<1>3. up = F(up)
  <2> HIDE DEF F, u
  <2> QED
    BY <1>2
<1> HIDE DEF up
<1> QED
  BY <1>1, <1>3, OGLevels, UpUnique

-----------------------------------------------------------------------------
(* Whatever is recorded in which order, no table has two rows. *)
THEOREM TypeCorrect == Spec => []TypeOK
<1>1. Init => TypeOK
  BY DEF Init, TypeOK, IsInjective
<1>2. TypeOK /\ [Next]_log => TypeOK'
  BY Touched DEF TypeOK, Next, Change
<1> QED
  BY <1>1, <1>2, PTL DEF Spec

LEMMA CleanInForm ==
  ASSUME NEW l \in Seq(Logged), NEW t \in Range(l)
  PROVE  CleanIn(l, t) <=>
           \A q \in (Up(OG, t) \intersect Range(l)) \union {t} :
             \A p \in Up(OG, q) \intersect Range(l) : Before(l, p, q)
  BY CleanForm, OGLevels DEF CleanIn

(* A table with a record is reported clean exactly when the recorded
   changes came in the order of the flow of information.                   *)
THEOREM CleanInOrder == Spec => []DirtyIffOutOfOrder
<1>1. TypeOK => DirtyIffOutOfOrder
  <2> SUFFICES ASSUME TypeOK, NEW t \in Recorded
               PROVE  LET up == (Upstreams[t] \intersect Recorded) \union {t}
                      IN  Clean(t) <=> \A q \in up : \A p \in Upstreams[q] \intersect Recorded :
                                         Index(log, p) < Index(log, q)
    BY DEF DirtyIffOutOfOrder
  <2>1. Recorded \subseteq Nodes(OG)
    BY LoggedAssumption DEF TypeOK, Recorded, Range
  <2>2. \A q \in Recorded : Upstreams[q] = Up(OG, q)
    BY <2>1, UpstreamsUp
  <2>3. Clean(t) <=> \A q \in (Up(OG, t) \intersect Recorded) \union {t} :
                       \A p \in Up(OG, q) \intersect Recorded : Before(log, p, q)
    BY CleanInForm DEF TypeOK, Recorded, Clean
  <2> QED
    BY <2>2, <2>3 DEF Before
<1> QED
  BY <1>1, TypeCorrect, PTL

(* Nothing but its own replacement turns a table from dirty to clean. *)
THEOREM OwnChange == Spec => OnlyOwnChangeCleans
<1> DEFINE Own == \A t \in Recorded : ~Clean(t) /\ CleanIn(log', t) => log'[Len(log')] = t
<1>1. ASSUME TypeOK, Next PROVE Own
  <2>1. PICK u \in Logged : log' = Touch(log, u)
    BY <1>1 DEF Next, Change
  <2>2. ASSUME NEW t \in Recorded, CleanIn(log', t), t # u PROVE Clean(t)
    <3>1. /\ log \in Seq(Logged) /\ log' \in Seq(Logged)
          /\ Range(log') = Recorded \union {u}
          /\ \A p \in Recorded \ {u} : ~Before(log', u, p)
          /\ \A p, q \in Recorded \ {u} : Before(log', p, q) <=> Before(log, p, q)
      BY <1>1, <2>1, Touched DEF TypeOK, Recorded
    <3>2. \A q \in (Up(OG, t) \intersect Range(log')) \union {t} :
            \A p \in Up(OG, q) \intersect Range(log') : Before(log', p, q)
      BY <2>2, <3>1, CleanInForm
    <3>3. u \notin Up(OG, t)
      BY <2>2, <3>1, <3>2
    <3>4. ASSUME NEW q \in (Up(OG, t) \intersect Recorded) \union {t},
                 NEW p \in Up(OG, q) \intersect Recorded
          PROVE  Before(log, p, q)
      <4>1. Up(OG, q) \subseteq Up(OG, t)
        BY UpTransitive
      <4>2. p # u /\ q # u /\ q \in Recorded
        BY <2>2, <3>3, <4>1
      <4> QED
        BY <3>1, <3>2, <4>2
    <3> QED
      BY <3>1, <3>4, CleanInForm DEF Clean, Recorded
  <2>3. log'[Len(log')] = u
    BY <1>1, <2>1, Touched DEF TypeOK
  <2> QED
    BY <2>2, <2>3
<1>2. TypeOK /\ [Next]_log => [Own]_log
  BY <1>1
<1> QED
  BY <1>2, TypeCorrect, PTL DEF Spec, OnlyOwnChangeCleans

-----------------------------------------------------------------------------
(* A change of what a table is computed from makes it dirty, whatever
   tables are recorded, unless the pair is one of the three in Unlisted.   *)
THEOREM ReadsAreListed == Spec => []ReadIsListed
<1>1. TypeOK => ReadIsListed
  <2> SUFFICES ASSUME TypeOK, NEW t \in DOMAIN Inputs \intersect Recorded,
                      NEW p \in Inputs[t] \intersect Recorded, Index(log, p) > Index(log, t),
                      <<p, t>> \notin Unlisted, Clean(t)
               PROVE  FALSE
    BY DEF ReadIsListed
  <2>1. p \in Up(OG, t)
    BY InputsListed
  <2>2. Before(log, p, t)
    BY <2>1, CleanInForm DEF TypeOK, Clean, Recorded
  <2>3. Index(log, p) \in Nat /\ Index(log, t) \in Nat
    BY IndexType DEF TypeOK, Recorded
  <2> QED
    BY <2>2, <2>3 DEF Before
<1> QED
  BY <1>1, TypeCorrect, PTL
===============================================================================
