--------------------------- MODULE DependencyOrder ---------------------------
(***************************************************************************)
(* The question that GET /api/rest/results/is_dirty and GET                *)
(* /api/rest/table/{tablename}/is_dirty put to the changelog, over the     *)
(* real dependency graph, after changes of the tables in any order.        *)
(***************************************************************************)
EXTENDS Dependencies, Tables

CONSTANT Logged     \* the tables whose changes are recorded in this instance

ASSUME LoggedAssumption == Logged \subseteq Nodes(OG)

VARIABLE log

Recorded == Range(log)

TypeOK == log \in Seq(Logged) /\ IsInjective(log)

Init == log = << >>

(* An edit through the API, or a task that replaces the table. *)
Change(t) == log' = Touch(log, t)

Next == \E t \in Logged : Change(t)

Spec == Init /\ [][Next]_log

CleanIn(l, t) == t \in Range(l) /\ ~IsDirty(OG, t, l)
Clean(t) == CleanIn(log, t)

-----------------------------------------------------------------------------
(* Whatever a table depends on, however far upstream. *)
Upstreams ==
  LET up[t \in Nodes(OG)] ==
        Predecessors(OG, t) \union UNION {up[p] : p \in Predecessors(OG, t)}
  IN  up

(* A table is reported clean exactly when the recorded changes of the table
   and of everything upstream of it came in the order of the flow of
   information, whichever tables or views in between have no record.  The
   code removes nodes from a copy of the graph while it walks over the
   original, and compares neighbours only.                                 *)
DirtyIffOutOfOrder ==
  \A t \in Recorded :
    LET up == (Upstreams[t] \intersect Recorded) \union {t}
    IN  Clean(t) <=> \A q \in up : \A p \in Upstreams[q] \intersect Recorded :
                       Index(log, p) < Index(log, q)

(* Nothing but its own replacement turns a table from dirty to clean, not
   even the first record of a table that was bridged until then.           *)
OnlyOwnChangeCleans ==
  [][\A t \in Recorded : ~Clean(t) /\ CleanIn(log', t) => log'[Len(log')] = t]_log

(* The adjacency list is kept apart from the code that computes the tables,
   whose queries Inputs names.  A change of what a table is computed from
   makes it dirty, but for the three inputs of Unlisted, after whose change
   the table is still called clean: the list says less than the code reads
   there, and nowhere else.                                                *)
ReadIsListed ==
  \A t \in DOMAIN Inputs \intersect Recorded :
    \A p \in Inputs[t] \intersect Recorded :
      Index(log, p) > Index(log, t) => <<p, t>> \in Unlisted \/ ~Clean(t)
=============================================================================
