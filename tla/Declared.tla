------------------------------- MODULE Declared -------------------------------
(***************************************************************************)
(* What the code of the application declares: the columns of its tables    *)
(* (database/schemas, apps/supersafe/db.py) and the views that it creates  *)
(* from them when it starts (database/schemas/views.py).                   *)
(***************************************************************************)
LOCAL INSTANCE Sequences

TrackedTable == {"time_created"}
MutableTrackedTable == TrackedTable \union {"time_updated", "updated_by"}

-----------------------------------------------------------------------------
(* Columns that are put together from the pollutants of the project. *)

STANDARD_POCS == {"TSS", "TN", "TP", "TCu", "TZn"}
VIRTUAL_POCS == {"PHE", "PYR", "DEHP"}

LoadCol(p) == p \o "_load_lbs"

(* A virtual pollutant has the columns of TSS, with its own name. *)
ConcCol(p) == p \o (IF p \in {"TCu", "TZn"} THEN "_conc_ug/l" ELSE "_conc_mg/l")

POCS == STANDARD_POCS \union VIRTUAL_POCS

LOAD_GENERATED_COLS == {LoadCol(p) : p \in POCS} \union {ConcCol(p) : p \in POCS}

LOAD_REMOVED_COLS ==
  {LoadCol(p) \o x : p \in POCS, x \in {"_inflow", "_removed", "_total_discharged"}}
    \union {ConcCol(p) \o x : p \in POCS, x \in {"_influent", "_effluent"}}

(* results.py, besides node_id, epoch and blob. *)
COLS ==
  {"_version", "_config_version", "ntype", "node_type"}
    \union {"facility_type", "valid_model", "design_intensity_inhr",
            "design_volume_cuft_cumul", "captured_pct", "treated_pct", "retained_pct",
            "bypassed_pct"}
    \union {"area_acres", "ro_coeff", "eff_area_acres"}
    \union {"runoff_volume_cuft" \o x :
              x \in {"", "_total_discharged", "_inflow", "_treated", "_retained",
                     "_captured", "_bypassed"}}
    \union LOAD_GENERATED_COLS \union LOAD_REMOVED_COLS

(* subbasin.py *)
load_cols == {"runoff_volume_cuft"} \union {LoadCol(p) : p \in POCS}

_result_cols ==
  {n \o x : n \in load_cols, x \in {"", "_generated", "_reduced"}}
    \union {"runoff_volume_pct_reduced"} \union {p \o "_load_pct_reduced" : p \in POCS}

-----------------------------------------------------------------------------
User == {"id", "email", "hashed_password", "is_active", "is_superuser", "is_verified",
         "first_name", "last_name", "role", "readonly_token"}

TMNTFacility ==
  {"id", "altid", "node_id", "commonname", "facilitytype", "facilitydetail",
   "flowcontrol", "infiltrated", "waterquality", "flowcontroltype", "waterqualitytype",
   "geom"}

TMNTFacilityAttr ==
  MutableTrackedTable \union
  {"id", "altid", "node_id", "basinname", "subbasin", "facility_type", "hsg",
   "design_storm_depth_inches", "tributary_area_tc_min", "total_volume_cuft",
   "area_sqft", "inf_rate_inhr", "retention_volume_cuft", "media_filtration_rate_inhr",
   "minimum_retention_pct_override", "treatment_rate_cfs", "depth_ft",
   "treatment_drawdown_time_hr", "captured_pct", "retained_pct"}

TMNTFacilityCost ==
  MutableTrackedTable \union
  {"node_id", "capital_cost", "capital_cost_basis_year", "om_cost_per_yr",
   "om_cost_basis_year", "install_year", "lifespan_yrs", "replacement_cost",
   "discount_rate", "inflation_rate", "planning_horizon_yrs", "cost_basis_year",
   "present_value_capital_cost", "present_value_om_cost", "present_value_total_cost",
   "present_value_cost_table", "present_value_chart_table"}

Subbasin ==
  {"id", "basinname", "subbasin", "area_acres", "lu_resair_pct", "lu_commcmu_pct",
   "lu_rgcd_pct", "lu_com_pct", "lu_indh_pct", "lu_indl_pct", "lu_resl_pct",
   "lu_ins_pct", "lu_resm_pct", "lu_resmfhd_pct", "lu_comn_pct", "lu_comnmu_pct",
   "lu_os_pct", "lu_shore_pct", "lu_rgctm_pct", "lc_pasture_pct", "lc_grass_pct",
   "lc_water_pct", "lc_imp_roof_pct", "lc_imp_nonroof_pct", "lc_imp_total_pct",
   "age_of_development_score", "pavement_condition_score", "biodiversity_pct",
   "urban_heat_degc", "discharge_points_count", "access", "economic_value",
   "environmental_value", "livability_value", "opportunity_value", "capacity_rank",
   "rankcriteria", "geom"}

SubbasinResult == {"id", "subbasin", "node_id", "epoch"} \union _result_cols

LGULoadBase == {"id", "node_id", "epoch", "variable", "value", "units"}

TMNTSourceControl ==
  MutableTrackedTable \union
  {"id", "subbasin", "variable", "order", "activity", "direction", "percent_reduction"}

TMNTSourceControlResultsBase ==
  {"id", "node_id", "subbasin", "basinname", "variable", "order", "activity", "direction",
   "epoch", "value", "units", "percent_reduction", "value_remaining_prev",
   "value_remaining", "load_reduced"}

ScenarioTable ==
  MutableTrackedTable \union
  {"id", "created_by", "name", "info", "input", "input_time_updated", "loading_hash",
   "input_hash", "result_time_updated", "lgu_boundary", "lgu_load", "delin_load",
   "structural_tmnt", "graph_edge", "structural_tmnt_result"}

GlobalSetting == MutableTrackedTable \union {"variable", "value"}

(* Base.metadata: the columns of all tables. *)
Metadata ==
  ({"user"} \X User)
    \union ({"tmnt_facility"} \X TMNTFacility)
    \union ({"tmnt_facility_delineation"} \X {"id", "altid", "relid", "node_id", "geom"})
    \union ({"tmnt_facility_attribute"} \X TMNTFacilityAttr)
    \union ({"tmnt_facility_cost"} \X TMNTFacilityCost)
    \union ({"tmnt_source_control"} \X TMNTSourceControl)
    \union ({"tmnt_source_control_upstream_load_reduced",
             "tmnt_source_control_downstream_load_reduced"} \X TMNTSourceControlResultsBase)
    \union ({"subbasin"} \X Subbasin)
    \union ({"subbasin_result"} \X SubbasinResult)
    \union ({"lgu_boundary"} \X
              {"id", "altid", "relid", "node_id", "subbasin", "basinname", "geom"})
    \union ({"lgu_load", "lgu_load_to_structural", "load_to_ds_src_ctrl"} \X LGULoadBase)
    \union ({"result_blob"} \X ({"node_id", "epoch", "blob"} \union COLS))
    \union ({"graph_edge"} \X {"id", "source", "target", "ntype", "subbasin", "basinname"})
    \union ({"met"} \X {"id", "epoch", "mean_annual_precip_depth_inches",
                        "design_storm_precip_depth_inches"})
    \union ({"scenario"} \X ScenarioTable)
    \union ({"global_setting", "global_cost_setting"} \X GlobalSetting)
    \union ({"tablechangelog"} \X ({"id", "tablename", "last_updated"} \union TrackedTable))

-----------------------------------------------------------------------------
(* What the views use: every column of the tables they are built from. *)

build_tmnt_v ==
  ({"tmnt_facility"} \X (TMNTFacility \ {"id"}))
    \union ({"tmnt_facility_attribute"} \X (TMNTFacilityAttr \ {"id", "altid"}))
    \union ({"tmnt_facility_cost"} \X TMNTFacilityCost)
    \union ({"result_blob"} \X ({"node_id", "epoch", "blob"} \union COLS))

build_subbasinwqresult_v ==
  ({"subbasin"} \X {"subbasin", "basinname", "area_acres"})
    \union ({"subbasin_result"} \X (SubbasinResult \ {"id"}))

build_subbasininfo_v ==
  ({"subbasin"} \X (Subbasin \ {"id"}))
    \union ({"subbasinwqresult_v"} \X {"*"})
    \union ({"lgu_boundary"} \X {"relid", "subbasin", "geom", "node_id", "basinname"})
    \union ({"tmnt_facility"} \X {"altid", "flowcontroltype", "waterqualitytype"})
    \union ({"result_blob"} \X {"node_id", "area_acres", "eff_area_acres", "epoch",
                                "node_type"})

(* Mutant: the registry in alphabetical order. *)
VIEW_REGISTRY_sorted ==
  << [view |-> "subbasininfo_v", uses |-> build_subbasininfo_v],
     [view |-> "subbasinwqresult_v", uses |-> build_subbasinwqresult_v],
     [view |-> "tmnt_v", uses |-> build_tmnt_v] >>

(* In the order in which they are created. *)
VIEW_REGISTRY ==
  << [view |-> "tmnt_v", uses |-> build_tmnt_v],
     [view |-> "subbasinwqresult_v", uses |-> build_subbasinwqresult_v],
     [view |-> "subbasininfo_v", uses |-> build_subbasininfo_v] >>
=============================================================================
