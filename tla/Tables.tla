-------------------------------- MODULE Tables --------------------------------
(***************************************************************************)
(* The tables of StormPiper, what the adjacency list of dependencies.py    *)
(* says each one depends on, what the code that computes it really reads,  *)
(* and the order in which the task bodies of src/tasks.py replace them.    *)
(***************************************************************************)
Upstream == "tmnt_source_control_upstream_load_reduced"
Downstream == "tmnt_source_control_downstream_load_reduced"

(* DEPENDENCY_ADJACENCY_LIST, a row per table that has predecessors. *)
AdjacencyList ==
  [ tmnt_facility_cost     |-> {"global_cost_setting"},
    scenario               |-> {"global_cost_setting"},
    tmnt_v                 |-> {"tmnt_facility_attribute", "tmnt_facility", "tmnt_facility_cost"},
    lgu_boundary           |-> {"subbasin", "tmnt_facility_delineation"},
    graph_edge             |-> {"lgu_boundary", "tmnt_facility_attribute", "tmnt_facility"},
    lgu_load               |-> {"lgu_boundary"},
    tmnt_source_control_upstream_load_reduced
                           |-> {"lgu_load", "tmnt_source_control", "lgu_boundary"},
    lgu_load_to_structural |-> {Upstream, "lgu_load"},
    result_blob            |-> {"lgu_load_to_structural", "graph_edge",
                                "tmnt_facility_attribute", "met", "tmnt_facility"},
    result_v               |-> {"result_blob"},
    load_to_ds_src_ctrl    |-> {"result_blob"},
    tmnt_source_control_downstream_load_reduced
                           |-> {"load_to_ds_src_ctrl", "tmnt_source_control", "lgu_boundary"},
    subbasin_result        |-> {"load_to_ds_src_ctrl", Downstream} ]

(* Mutant: the row of subbasin_result lists the loads alone. *)
OGWithoutDownstream ==
  (UNION {AdjacencyList[t] \X {t} : t \in DOMAIN AdjacencyList}) \ {<<Downstream, "subbasin_result">>}

(* OG: the list reversed, so that edges follow the flow of information. *)
OG == UNION {AdjacencyList[t] \X {t} : t \in DOMAIN AdjacencyList}

(***************************************************************************)
(* What computing a table reads, from the queries of the functions that    *)
(* src/tasks.py calls.  The view tmnt_v stands for the tables it joins; of *)
(* the columns it adds, the code uses those of the attributes.             *)
(***************************************************************************)

TreatmentView == {"tmnt_facility", "tmnt_facility_attribute"}

BoundaryInputs == {"tmnt_facility", "tmnt_facility_delineation", "subbasin"}

AttributeInputs == {"tmnt_facility", "subbasin"}

GraphInputs == {"lgu_boundary"} \union TreatmentView

SourceControlInputs(loads) == {loads, "lgu_boundary", "tmnt_source_control"}

SolveInputs ==
  TreatmentView \union {"graph_edge", "met", "lgu_boundary", "lgu_load_to_structural"}

LoadInputs ==
  [ lgu_load               |-> {"lgu_boundary"},
    lgu_load_to_structural |-> {"lgu_load", Upstream},
    load_to_ds_src_ctrl    |-> {"result_blob"},
    subbasin_result        |-> {"load_to_ds_src_ctrl", Downstream, "lgu_load", "lgu_boundary"} ]

Inputs ==
  [ lgu_boundary            |-> BoundaryInputs,
    tmnt_facility_attribute |-> AttributeInputs,
    lgu_load                |-> LoadInputs.lgu_load,
    tmnt_source_control_upstream_load_reduced
                            |-> SourceControlInputs("lgu_load"),
    lgu_load_to_structural  |-> LoadInputs.lgu_load_to_structural,
    graph_edge              |-> GraphInputs,
    result_blob             |-> SolveInputs,
    load_to_ds_src_ctrl     |-> LoadInputs.load_to_ds_src_ctrl,
    tmnt_source_control_downstream_load_reduced
                            |-> SourceControlInputs("load_to_ds_src_ctrl"),
    subbasin_result         |-> LoadInputs.subbasin_result ]

(* The inputs that the adjacency list has nowhere upstream of the table: the
   boundary is cut to the subbasins with the delineations of facilities that
   still exist, and the attributes are computed where a facility lies.     *)
Unlisted ==
  { <<"tmnt_facility", "lgu_boundary">>,
    <<"tmnt_facility", "tmnt_facility_attribute">>,
    <<"subbasin", "tmnt_facility_attribute">> }

(* Mutant: the tables of the downstream source controls before the results. *)
AllResultsEarly ==
  << Upstream, "lgu_load_to_structural", "graph_edge", "load_to_ds_src_ctrl",
     Downstream, "result_blob", "subbasin_result" >>

(* delete_and_refresh_all_results_tables. *)
AllResults ==
  << Upstream, "lgu_load_to_structural", "graph_edge", "result_blob",
     "load_to_ds_src_ctrl", Downstream, "subbasin_result" >>
=============================================================================
