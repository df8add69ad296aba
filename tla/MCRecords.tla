------------------------------ MODULE MCRecords ------------------------------
(***************************************************************************)
(* The records that users edit and the computations on them: seven parts     *)
(* that share no variable.  One of them is active, the others keep an      *)
(* initial state; nothing is lost by that, since none can see another.     *)
(***************************************************************************)
EXTENDS Costs, CostTable, SourceControls, Facilities, DefaultAttributes, Prioritization, Watershed,
        TLC

CONSTANTS
  Parts,
  n1, n2, c1, c2, k1, k2, y1, standard, edited, s1, s2,
  f1, f2, v1, v2, t1, t2

ASSUME RecordsAssumption == s1 \in Setting

VARIABLE part

(* Patches of the required costs, of others, of both, of neither, and of a
   type without a model.                                                   *)
MCPatches ==
  {[cost |-> k1], [cost |-> k2, year |-> y1], [cost |-> None], [year |-> y1],
   [type |-> Bad, cost |-> k1], [type |-> edited], [type |-> edited, cost |-> k2]}

(* Installations before, in and after the year of the costs. *)
MCRequest ==
  [ capital_cost : {100}, om_cost_per_yr : {0, 3}, replacement_cost : {Null, 50},
    lifespan_yrs : {Null, 1, 2, 3}, install_year : {Null} \union 3..9,
    planning_horizon_yrs : {0, 2, 5}, cost_basis_year : {6} ]

(* The largest order stands for the default of the column, 1e6, which is
   larger than the number of rows.                                         *)
MCOrder == {-1, 0, 1, 2, 9}

(* Two features with the same altid. *)
MCFeature ==
  {[altid |-> f1, version |-> v1], [altid |-> f1, version |-> v2], [altid |-> f2, version |-> v1]}

Symmetry ==
  Permutations(Node) \union Permutations(Client) \union Permutations(Setting)
    \union Permutations(Updater)

(* Three plots in two subbasins and one outside; p1 and p2 are the whole of
   a subbasin, and p3 is in two delineations.                              *)
MCGround == [p1 |-> "u1", p2 |-> "u1", p3 |-> "u2", p4 |-> "None"]

MCDelineation ==
  {[altid |-> 1, relid |-> t1, plots |-> {"p1"}],
   [altid |-> 2, relid |-> t1, plots |-> {"p2", "p3"}],
   [altid |-> 3, relid |-> t2, plots |-> {"p3", "p4"}]}

CostsRest ==
  /\ row = [n \in Node |-> None] /\ type = [n \in Node |-> None] /\ setting = s1
  /\ request = [c \in Client |-> Idle] /\ raced = {} /\ sole = {} /\ requests = 0

FacilitiesRest ==
  /\ server = << >> /\ download = Nothing /\ facility = {}
  /\ attribute = [a \in Altid |-> Nothing] /\ update = [u \in Updater |-> Nothing]
  /\ changes = 0

RankingRest ==
  matrix = [r \in Ranked |-> [k \in Criterion |-> NaN]] /\ ranking = NaN

WatershedRest ==
  /\ located = [f \in Treatment |-> Absent] /\ placed = located /\ drained = {}
  /\ reducing = {} /\ boundary = {} /\ load = {} /\ delivered = {} /\ edits = 0
  /\ behind = {"boundary", "load", "result"}

OtherRest == [facilitytype |-> "other", infiltrated |-> "other",
              facilitydetail |-> "other", flowcontroltype |-> FALSE]

Init ==
  /\ part \in Parts
  /\ IF part = "costs" THEN CostsInit ELSE CostsRest
  /\ CostTableInit
  /\ IF part = "controls" THEN SourceControlsInit ELSE controls = {}
  /\ IF part = "facilities" THEN FacilitiesInit ELSE FacilitiesRest
  /\ IF part = "defaults" THEN DefaultsInit ELSE given = Defaults_of(OtherRest)
  /\ IF part = "ranking" THEN PrioritizationInit ELSE RankingRest
  /\ IF part = "watershed" THEN WatershedInit ELSE WatershedRest

Next ==
  \/ /\ part = "costs" /\ CostsNext
     /\ UNCHANGED <<part, answer, controls, facilityVars, given, rankingVars, watershedVars>>
  \/ /\ part = "table" /\ CostTableNext
     /\ UNCHANGED <<part, costVars, controls, facilityVars, given, rankingVars, watershedVars>>
  \/ /\ part = "controls" /\ SourceControlsNext
     /\ UNCHANGED <<part, costVars, answer, facilityVars, given, rankingVars, watershedVars>>
  \/ /\ part = "facilities" /\ FacilitiesNext
     /\ UNCHANGED <<part, costVars, answer, controls, given, rankingVars, watershedVars>>
  \/ /\ part = "defaults" /\ DefaultsNext
     /\ UNCHANGED <<part, costVars, answer, controls, facilityVars, rankingVars, watershedVars>>
  \/ /\ part = "ranking" /\ PrioritizationNext
     /\ UNCHANGED <<part, costVars, answer, controls, facilityVars, given, watershedVars>>
  \/ /\ part = "watershed" /\ WatershedNext
     /\ UNCHANGED <<part, costVars, answer, controls, facilityVars, given, rankingVars>>

vars == <<part, costVars, answer, controls, facilityVars, given, rankingVars, watershedVars>>

Spec == Init /\ [][Next]_vars

(* Every variable of the parts keeps its type: a present value has all
   the inputs it needs, an answer has ended its request, and the pages still
   to come are pages of the service.                                       *)
RecordsTypeOK == CostsTypeOK /\ SourceControlsTypeOK /\ FacilitiesTypeOK /\ WatershedTypeOK
=============================================================================
