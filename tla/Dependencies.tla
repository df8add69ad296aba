----------------------------- MODULE Dependencies -----------------------------
(***************************************************************************)
(* database/dependencies.py: which tables are out of date.  The only       *)
(* evidence is the table tablechangelog, one row per table with the time   *)
(* of its last recorded change.  A changelog is here the sequence of table *)
(* names that the code gets by sorting these rows by last_updated: earlier *)
(* changes first, no table twice.                                          *)
(*                                                                         *)
(* A graph is a set of edges <<p, t>>: the contents of t depend on p.      *)
(***************************************************************************)
EXTENDS Naturals, FiniteSets, SequencesExt

Nodes(g) == {e[1] : e \in g} \union {e[2] : e \in g}
Predecessors(g, n) == {e[1] : e \in {f \in g : f[2] = n}}
Successors(g, n) == {e[2] : e \in {f \in g : f[1] = n}}

(* One turn of the loop of simplify_graph: a missing node is bridged. *)
BridgeNode(n, g) ==
  {e \in g : n \notin {e[1], e[2]}}
    \union (Predecessors(g, n) \X Successors(g, n))

(* The graph at the given nodes, with every other node bridged in turn. *)
SimplifyGraph(g, nodes) == FoldSet(BridgeNode, g, Nodes(g) \ nodes)

Index(log, t) == CHOOSE i \in DOMAIN log : log[i] = t

(* t was changed after each of its predecessors. *)
CheckIfSorted(g, t, log) ==
  \A p \in Predecessors(g, t) : Index(log, p) < Index(log, t)

(* Mutant: only the predecessors of the table itself are compared. *)
CheckNearestOnly(g, table, log) == CheckIfSorted(g, table, log)

(* The same for t, its predecessors, their predecessors and so on. *)
CheckIfDepsAreSorted(g, table, log) ==
  LET sorted[t \in Range(log)] ==
        /\ CheckIfSorted(g, t, log)
        /\ \A p \in Predecessors(g, t) : sorted[p]
  IN  sorted[table]

(* is_dirty, for a table that has a row in the changelog.  async_is_dirty
   answers None for one that has not.                                      *)
IsDirty(g, t, log) ==
  ~CheckIfDepsAreSorted(SimplifyGraph(g, Range(log)), t, log)

(* Mutant: a second row is inserted. *)
TouchInserts(log, t) == Append(log, t)

(* Mutant: the rows are sorted in descending order. *)
TouchDescending(log, t) == <<t>> \o SelectSeq(log, LAMBDA u : u # t)

(* Mutant: the row is inserted and never updated. *)
TouchOnce(log, t) == IF t \in Range(log) THEN log ELSE Append(log, t)

(* sync_log and async_log: the table becomes the last one changed. *)
Touch(log, t) ==
  Append(IF t \in Range(log) THEN RemoveAt(log, Index(log, t)) ELSE log, t)
=============================================================================
