------------------------------ MODULE Watershed ------------------------------
(***************************************************************************)
(* Where the load of each piece of land goes: the overlay of delineations  *)
(* and subbasins (src/tmnt/spatial.py), the graph that is drawn from it    *)
(* (src/graph.py), the solution of the graph (src/solve_structural_wq.py)  *)
(* and the tables on the way to subbasin_result (src/loading.py,           *)
(* src/results.py), refreshed one by one while facilities, delineations    *)
(* and source controls change.                                             *)
(*                                                                         *)
(* Land is a set of plots.  A portion is the load of one land surface node *)
(* with the measures that have reduced it; amounts are left out, and so    *)
(* are epochs and pollutants, which do not meet.                           *)
(***************************************************************************)
EXTENDS Naturals, FiniteSets, Functions

CONSTANTS
  Ground,        \* the subbasin of each plot, or Outside
  Outside,       \* the text "None" that stands for no subbasin
  Treatment,     \* altids of facilities
  Delineation,   \* [altid, relid, plots], the ones that may come up
  Absent,        \* null, or no row
  MaxEdits

Places == Range(Ground)

ASSUME WatershedAssumption ==
  /\ Absent \notin Places \union Treatment
  /\ {"upstream", "downstream"} \intersect Treatment = {}
  /\ \A d \in Delineation : d.plots \subseteq DOMAIN Ground
  /\ MaxEdits \in Nat

VARIABLES
  located,     \* tmnt_facility: the place of each facility, or Absent
  placed,      \* subbasin in tmnt_facility_attribute
  drained,     \* tmnt_facility_delineation
  reducing,    \* tmnt_source_control: <<direction, subbasin>>
  boundary,    \* lgu_boundary
  load,        \* lgu_load: the nodes that have one
  delivered,   \* subbasin_result: the portions of each subbasin
  behind,      \* of these three, the ones that are not of the present inputs
  edits

watershedVars ==
  <<located, placed, drained, reducing, boundary, load, delivered, behind, edits>>

SB(s) == <<"SB", s>>
Tmnt(f) == <<"tmnt", f>>
Sound == <<"PUGET_SOUND">>

(* Mutant: the pieces of a delineation share its own node_id. *)
NodeIdOfDelineation(d, s) == <<"ls", d.relid, d.altid>>

(* Each piece is a node of its own. *)
NodeId(d, s) == <<"ls", d.relid, d.altid, s>>

WatershedTypeOK ==
  /\ located \in [Treatment -> Places \union {Absent}]
  /\ placed \in [Treatment -> Places \union {Absent}]
  /\ drained \subseteq Delineation
  /\ reducing \subseteq {"upstream", "downstream"} \X Places
  /\ \A p \in delivered : p.node[1] \in {"ls", "SB"} /\ p.subbasin \in Places
  /\ behind \subseteq {"boundary", "load", "result"}
  /\ edits \in 0..MaxEdits

WatershedInit ==
  /\ located \in [Treatment -> Places \union {Absent}]
  /\ placed = located
  /\ drained \in SUBSET Delineation
  /\ reducing = {}
  /\ boundary = {} /\ load = {} /\ delivered = {}
  /\ behind = {"boundary", "load", "result"}
  /\ edits = 0

-----------------------------------------------------------------------------
(* The GIS service has other facilities, or other delineations; users edit
   the source controls.                                                    *)
Edited(late) ==
  /\ edits < MaxEdits
  /\ edits' = edits + 1
  /\ behind' = behind \union late
  /\ UNCHANGED <<boundary, load, delivered>>

ReplaceFacility(f, where) ==
  /\ Edited({"boundary", "load", "result"})
  /\ located' = [located EXCEPT ![f] = where]
  /\ UNCHANGED <<placed, drained, reducing>>

ReplaceDelineations(new) ==
  /\ Edited({"boundary", "load", "result"})
  /\ drained' = new
  /\ UNCHANGED <<located, placed, reducing>>

EditControl(control) ==
  /\ Edited({"result"})
  /\ reducing' = IF control \in reducing THEN reducing \ {control} ELSE reducing \union {control}
  /\ UNCHANGED <<located, placed, drained>>

(* A row for each new facility; the subbasin of the others stays what it
   was when their row was added, wherever they are now.                    *)
PlaceFacilities ==
  /\ placed' = [f \in Treatment |-> IF placed[f] = Absent THEN located[f] ELSE placed[f]]
  /\ behind' = IF placed' = placed THEN behind ELSE behind \union {"result"}
  /\ UNCHANGED <<located, drained, reducing, boundary, load, delivered, edits>>

-----------------------------------------------------------------------------
(* overlay_rodeo, with the delineations whose facility exists. *)
Overlay ==
  LET delineations == {d \in drained : d.relid \in Treatment /\ located[d.relid] # Absent}
      rest == DOMAIN Ground \ UNION {d.plots : d \in delineations}
  IN  (UNION { {[node |-> NodeId(d, s), relid |-> d.relid, subbasin |-> s] :
                  s \in {Ground[p] : p \in d.plots}} : d \in delineations })
      \union {[node |-> SB(s), relid |-> Absent, subbasin |-> s] :
                s \in {Ground[p] : p \in rest} \ {Outside}}

RefreshBoundary ==
  /\ boundary' = Overlay
  /\ behind' = (behind \ {"boundary"}) \union {"load", "result"}
  /\ UNCHANGED <<located, placed, drained, reducing, load, delivered, edits>>

(* Zonal statistics for each node of the boundary. *)
RefreshLoads ==
  /\ load' = {r.node : r \in boundary}
  /\ behind' = IF "boundary" \in behind THEN behind ELSE (behind \ {"load"}) \union {"result"}
  /\ UNCHANGED <<located, placed, drained, reducing, boundary, delivered, edits>>

-----------------------------------------------------------------------------
(* apply_tidy_load_reduction: one more measure, where the join finds one. *)
Reduced(portion, by, applies) ==
  IF applies THEN [portion EXCEPT !.by = @ \union {by}] ELSE portion

(* The subbasin of a node comes from a join with the boundary. *)
Controlled(direction, node) ==
  \E r \in boundary : r.node = node /\ <<direction, r.subbasin>> \in reducing

LoadToStructural ==
  {Reduced([node |-> n, by |-> {}], "upstream", Controlled("upstream", n)) : n \in load}

(* build_edge_list.  What is below the basins carries nothing that is read
   again.  The view tmnt_v has a null for what its joins do not find.      *)
GraphEdge ==
  {<<r.node, IF r.relid = Absent THEN SB(r.subbasin) ELSE Tmnt(r.relid)>> :
     r \in {q \in boundary : q.node[1] = "ls"}}
  \union {<<Tmnt(f), IF placed[f] = Absent THEN Sound ELSE SB(placed[f])>> :
            f \in {g \in Treatment : located[g] # Absent}}
  \union {<<SB(r.subbasin), <<"B">>>> : r \in boundary}

(* Attributes are needed to model a facility. *)
Treats(node) ==
  node[1] = "tmnt" /\ located[node[2]] # Absent /\ placed[node[2]] # Absent

(* The discharge of every node: its own load, if the graph has the node, and
   what flows in, reduced if it is a facility.                             *)
SolveWatershed ==
  LET nodes == {e[1] : e \in GraphEdge} \union {e[2] : e \in GraphEdge}
      discharged[n \in nodes] ==
        { Reduced(portion, n[2], Treats(n)) :
            portion \in {p \in LoadToStructural : p.node = n}
              \union UNION {discharged[e[1]] : e \in {g \in GraphEdge : g[2] = n}} }
  IN  discharged

(* The rows of the subbasins among the results. *)
LoadToDownstream ==
  LET discharged == SolveWatershed
  IN  UNION { {[subbasin |-> n[2], node |-> p.node, by |-> p.by] : p \in discharged[n]} :
                n \in {m \in DOMAIN discharged : m[1] = "SB"} }

SubbasinResult ==
  {Reduced(p, "downstream", Controlled("downstream", SB(p.subbasin))) : p \in LoadToDownstream}

(* delete_and_refresh_all_results_tables; TableRefresh has its steps. *)
RefreshResults ==
  /\ delivered' = SubbasinResult
  /\ behind' = IF behind \subseteq {"result"} THEN {} ELSE behind
  /\ UNCHANGED <<located, placed, drained, reducing, boundary, load, edits>>

WatershedNext ==
  \/ \E f \in Treatment, where \in Places \union {Absent} : ReplaceFacility(f, where)
  \/ \E new \in SUBSET Delineation : ReplaceDelineations(new)
  \/ \E control \in {"upstream", "downstream"} \X (Places \ {Outside}) : EditControl(control)
  \/ PlaceFacilities
  \/ RefreshBoundary
  \/ RefreshLoads
  \/ RefreshResults

WatershedSpec == WatershedInit /\ [][WatershedNext]_watershedVars

-----------------------------------------------------------------------------
(* The delineations that a plot drains to, of facilities that exist. *)
Draining(plot) ==
  {d \in drained : plot \in d.plots /\ d.relid \in Treatment /\ located[d.relid] # Absent}

(* The plots that no delineation has, in the subbasins of the map. *)
Undrained == {plot \in DOMAIN Ground : Draining(plot) = {} /\ Ground[plot] # Outside}

(* What portion x of land in subbasin s should have met: one facility or
   none, and the source controls.  The downstream controls of a subbasin are
   only found where some land of it is outside of all delineations, because
   its name is looked up in lgu_boundary.                                  *)
Meets(x, s, facilities) ==
  /\ x.by \intersect Treatment = facilities
  /\ "upstream" \in x.by <=> <<"upstream", s>> \in reducing
  /\ "downstream" \in x.by <=>
       /\ <<"downstream", x.subbasin>> \in reducing
       /\ x.subbasin \in {Ground[plot] : plot \in Undrained}

(* The load of a node is delivered in one subbasin, however far the tables
   are apart.  When they are of the present inputs, and every facility has
   attributes, the load of each plot is delivered once for each delineation
   that it drains to, in the subbasin of that facility's attributes and
   after that facility alone has treated it; once, untreated and in its own
   subbasin, if it drains to none; and nothing else is delivered.  So land
   in one delineation is counted once, but land where delineations overlap
   is counted for each of them, possibly in two subbasins: the union of
   geopandas.overlay has a row for each of the overlapping delineations.   *)
LoadsAccounted ==
  /\ \A x, y \in delivered : x.node = y.node => x = y
  /\ behind = {} /\ (\A f \in Treatment : located[f] # Absent => placed[f] # Absent) =>
       /\ \A plot \in DOMAIN Ground : \A d \in Draining(plot) : \E x \in delivered :
            /\ x.node = NodeId(d, Ground[plot]) /\ x.subbasin = placed[d.relid]
            /\ Meets(x, Ground[plot], {d.relid})
       /\ \A plot \in Undrained : \E x \in delivered :
            /\ x.node = SB(Ground[plot]) /\ x.subbasin = Ground[plot]
            /\ Meets(x, Ground[plot], {})
       /\ \A x \in delivered :
            \/ \E plot \in DOMAIN Ground : \E d \in Draining(plot) :
                 x.node = NodeId(d, Ground[plot])
            \/ \E plot \in Undrained : x.node = SB(Ground[plot])
=============================================================================
