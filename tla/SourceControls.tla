---------------------------- MODULE SourceControls ----------------------------
(***************************************************************************)
(* Source controls (table tmnt_source_control): the ones a deployment      *)
(* starts with (src/tmnt/default_tmnt_source_controls.py), their edits     *)
(* (api/endpoints/tmnt_source_control.py) under the constraints of         *)
(* database/schemas/tmnt.py, and the load that they remove                 *)
(* (src/results.py).                                                       *)
(*                                                                         *)
(* One pollutant, one direction and one node in each subbasin: the rows of *)
(* others do not meet these, but for their orders, which the computation   *)
(* takes from all of them.  What remains of a load is represented by the   *)
(* activities that have reduced it.                                        *)
(***************************************************************************)
EXTENDS Integers, Sequences, FiniteSets, Functions

CONSTANTS
  Subbasin,
  Activity, sweeping, dumping,     \* the activities of the defaults
  Order,                           \* what clients send: any integers
  MaxControls

ASSUME SourceControlAssumption ==
  /\ {sweeping, dumping} \subseteq Activity /\ sweeping # dumping
  /\ {0, 1} \subseteq Order /\ Order \subseteq Int

VARIABLE controls

Control == [subbasin : Subbasin, order : Order, activity : Activity]

SourceControlsTypeOK == controls \subseteq Control

Defaults(subbasins, activities) ==
  {[subbasin |-> s, order |-> i - 1, activity |-> activities[i]] :
     s \in subbasins, i \in DOMAIN activities}

(* dummy_tmnt_source_control, foss_tmnt_source_control for some of the
   subbasins, or a database without any.                                   *)
SourceControlsInit ==
  \/ controls = Defaults(Subbasin, <<sweeping, dumping>>)
  \/ \E foss \in SUBSET Subbasin : controls = Defaults(foss, <<sweeping>>)

(* The UniqueConstraints of the table. *)
Unique(rows) ==
  \A a, b \in rows :
    a # b /\ a.subbasin = b.subbasin => a.order # b.order /\ a.activity # b.activity

(* A clash raises and is answered with 422. *)
Store(rows) == Unique(rows) /\ controls' = rows

CreateControl(s, order, a) ==
  /\ Cardinality(controls) < MaxControls
  /\ LET new == [subbasin |-> s, order |-> order, activity |-> a]
     IN  new \notin controls /\ Store(controls \union {new})

(* Any of the fields; the ones that are null are left as they are. *)
PatchControl(old, new) == Store((controls \ {old}) \union {new})

DeleteControl(old) == controls' = controls \ {old}

SourceControlsNext ==
  \/ \E s \in Subbasin, order \in Order, a \in Activity : CreateControl(s, order, a)
  \/ \E old \in controls :
       \/ DeleteControl(old)
       \/ \E s \in Subbasin, order \in Order, a \in Activity :
            LET new == [subbasin |-> s, order |-> order, activity |-> a]
            IN  new \notin controls /\ PatchControl(old, new)

SourceControlsSpec == SourceControlsInit /\ [][SourceControlsNext]_controls

-----------------------------------------------------------------------------
(* calculate_src_ctrl_percent_reduction. *)

(* sorted(df1["order"].unique()) *)
Orders(rows) ==
  LET used == {c.order : c \in rows}
  IN  CHOOSE f \in [1..Cardinality(used) -> used] : \A i, j \in DOMAIN f : i < j => f[i] < f[j]

InSubbasin(rows, s, order) == {c \in rows : c.subbasin = s /\ c.order = order}

(* The assertion before the loop. *)
NoDuplicates(rows) ==
  \A c \in rows : Cardinality(InSubbasin(rows, c.subbasin, c.order)) <= 1

(* df2[i]: list elements count from zero, and from the end if negative. *)
InRange(list, i) == -Len(list) <= i /\ i < Len(list)
Element(list, i) == list[IF i < 0 THEN Len(list) + i + 1 ELSE i + 1]

(* A left merge, and the whole load where it finds nothing. *)
Previous(df2, i, s) ==
  LET found == {c \in Element(df2, i) : c.subbasin = s}
  IN  UNION {c.applied : c \in found}

(* Mutant: what earlier activities have left is not passed on. *)
AppendWhole(df2, rows, orders, i) ==
  Append(df2, {[subbasin |-> c.subbasin, order |-> c.order, applied |-> {c.activity}] :
                 c \in {r \in rows : r.order = orders[i]}})

(* The rows of an order, each with the activities that its load has met.
   The previous order is the index of the frame.                           *)
AppendOrder(df2, rows, orders, i) ==
  Append(df2,
    {[ subbasin |-> c.subbasin, order |-> c.order,
       applied |-> {c.activity}
         \union (IF i = 1 THEN {} ELSE Previous(df2, orders[i - 1], c.subbasin)) ] :
       c \in {r \in rows : r.order = orders[i]}})

(* One pass of the loop, or an IndexError. *)
Pass(acc, rows, orders, i) ==
  IF acc.raised \/ (i > 1 /\ ~InRange(acc.df2, orders[i - 1]))
    THEN [acc EXCEPT !.raised = TRUE]
    ELSE [acc EXCEPT !.df2 = AppendOrder(@, rows, orders, i)]

(* All rows of the result, or an AssertionError or IndexError. *)
Reductions(rows) ==
  LET orders == Orders(rows)
      after[i \in 0..Len(orders)] ==
        IF i = 0 THEN [df2 |-> << >>, raised |-> ~NoDuplicates(rows)]
                 ELSE Pass(after[i - 1], rows, orders, i)
      end == after[Len(orders)]
  IN  [raised |-> end.raised, rows |-> UNION Range(end.df2)]

-----------------------------------------------------------------------------
(* Numbered as the defaults are: from zero, and without a gap in any
   subbasin or over all of them.                                           *)
WellNumbered(rows) ==
  LET used(s) == {c.order : c \in {r \in rows : r.subbasin = s}}
      all == {c.order : c \in rows}
      gapless(orders) == \A a, b \in orders : a..b \subseteq orders
  IN  /\ gapless(all) /\ \A s \in Subbasin : gapless(used(s))
      /\ all # {} => 0 \in all /\ \A o \in all : o >= 0

(* For a subbasin, "will be applied in order least to greatest": each
   activity reduces what those of smaller order have left, once.           *)
InOrder(rows) ==
  LET result == Reductions(rows)
  IN  /\ ~result.raised
      /\ result.rows =
           {[ subbasin |-> c.subbasin, order |-> c.order,
              applied |-> {r.activity : r \in {q \in rows : q.subbasin = c.subbasin
                                                            /\ q.order <= c.order}} ] :
              c \in rows}

(* It is so for orders that are numbered as the defaults are. *)
AppliedInOrder == WellNumbered(controls) => InOrder(controls)

(* It is so for whatever orders the API accepts. *)
AlwaysInOrder == InOrder(controls)
=============================================================================
