------------------------------ MODULE Revisions ------------------------------
(***************************************************************************)
(* The 42 revisions of alembic/versions: for each one the statements of    *)
(* its upgrade and of its downgrade, in their order.  Columns are added    *)
(* and dropped by one statement each in the code; those of one table in a  *)
(* row are one statement here.  Of types, defaults, constraints and        *)
(* indexes only those are kept that some revision changes.                 *)
(***************************************************************************)
EXTENDS Schema, Sequences

Tracked == {"time_created", "time_updated", "updated_by"}

Poc == {"TSS", "TN", "TP", "TCu", "TZn", "PHE", "PYR", "DEHP"}
Load(p) == p \o "_load_lbs"
Conc(p) == p \o IF p \in {"TCu", "TZn"} THEN "_conc_ug/l" ELSE "_conc_mg/l"

(* Each name of a set followed by each suffix. *)
Suffixed(names, suffixes) == {n \o x : n \in names, x \in suffixes}

Of(t, cols) == {t} \X cols

-----------------------------------------------------------------------------
OldRoles == {"none", "public", "user", "editor", "admin"}
NewRoles == OldRoles \union {"reader", "user_admin"}

(* 0001.  The enumeration is created with the table that has it. *)
AddedUsersTable ==
  [ up |-> << CreateType("role", OldRoles),
              CreateTable("users", {"id", "email", "hashed_password", "is_active",
                "is_superuser", "is_verified", "first_name", "last_name", "role"}),
              SetType("users", "role", "role"),
              AddName("users", "users_pkey"),
              AddName("users", "ix_users_email") >>,
    down |-> << DropName("users", "ix_users_email"),
                DropTable("users"),
                DropType("role") >> ]

FacilityColumns ==
  {"altid", "node_id", "commonname", "facilitytype", "facilitydetail", "flowcontrol",
   "infiltrated", "waterquality", "flowcontroltype", "waterqualitytype", "geom"}

ModelingColumns ==
  {"facility_type", "hsg", "design_storm_depth_inches", "tributary_area_tc_min",
   "total_volume_cuft", "area_sqft", "inf_rate_inhr", "retention_volume_cuft",
   "media_filtration_rate_inhr", "minimum_retention_pct_override",
   "treatment_rate_cfs", "depth_ft", "captured_pct", "retained_pct"}

ReferenceColumns == {"treatment_strategy", "ref_data_key"}

(* tmnt_v, with what it takes from the attributes besides their key. *)
TmntV(facility, attributes) ==
  CreateView("tmnt_v", Of("tmnt_facility", facility)
                         \union Of("tmnt_facility_attributes", {"altid"} \union attributes))

TmntV2 == TmntV({"id", "node_id", "altid", "facilitytype", "geom"},
                ModelingColumns \union ReferenceColumns)
TmntV8 == TmntV({"id"} \union FacilityColumns, ModelingColumns \union ReferenceColumns)
TmntV9 == TmntV({"id"} \union FacilityColumns,
                ModelingColumns \union ReferenceColumns \union {"basinname", "subbasin"})

(* 0002 *)
AddTmntTables ==
  [ up |-> << CreateTable("tmnt_facility", {"id"} \union FacilityColumns \union Tracked),
              CreateTable("tmnt_facility_attributes",
                {"id", "altid"} \union ModelingColumns \union ReferenceColumns \union Tracked),
              CreateTable("tmnt_facility_delineation",
                {"id", "altid", "node_id", "geom"} \union Tracked),
              TmntV2 >>,
    down |-> << DropView("tmnt_v"),
                DropTable("tmnt_facility_delineation"),
                DropTable("tmnt_facility_attributes"),
                DropTable("tmnt_facility") >> ]

(* 0003.  The two forms of the view differ in how they convert geom. *)
PatchTmntVGeomType ==
  [ up |-> << DropView("tmnt_v"), TmntV2 >>,
    down |-> << DropView("tmnt_v"), TmntV2 >> ]

(* 0004 *)
AddSubbasinsTable ==
  [ up |-> << CreateTable("subbasin", {"id", "basinname", "subbasin", "geom"}) >>,
    down |-> << DropTable("subbasin") >> ]

(* 0005 *)
AddDelineationRelidColumn ==
  [ up |-> << AddColumns("tmnt_facility_delineation", {"relid"}) >>,
    down |-> << DropColumns("tmnt_facility_delineation", {"relid"}) >> ]

(* 0006 *)
DefaultUsersRole ==
  [ up |-> << SetDefault("users", "role", "none") >>,
    down |-> << SetDefault("users", "role", "null") >> ]

(* 0007.  An index keeps its name when its table is renamed. *)
RenameUsersTableToUser ==
  [ up |-> << RenameTable("users", "user"),
              DropName("user", "ix_users_email"), AddName("user", "ix_user_email"),
              DropName("user", "users_pkey"), AddName("user", "user_pkey") >>,
    down |-> << RenameTable("user", "users"),
                DropName("users", "ix_user_email"), AddName("users", "ix_users_email"),
                DropName("users", "user_pkey"), AddName("users", "users_pkey") >> ]

(* 0008 *)
AddFieldsToTmntView ==
  [ up |-> << DropView("tmnt_v"), TmntV8 >>,
    down |-> << DropView("tmnt_v"), TmntV2 >> ]

(* 0009 *)
AddBasinToTmntAttrs ==
  [ up |-> << AddColumns("tmnt_facility_attributes", {"basinname", "subbasin"}),
              DropView("tmnt_v"), TmntV9 >>,
    down |-> << DropView("tmnt_v"),
                DropColumns("tmnt_facility_attributes", {"basinname", "subbasin"}),
                DropView("tmnt_v"), TmntV8 >> ]

-----------------------------------------------------------------------------
LoadColumns == {"id", "node_id", "epoch", "variable", "value"}

(* 0010 *)
AddLguTables ==
  [ up |-> << CreateTable("lgu_boundary",
                {"id", "altid", "relid", "node_id", "subbasin", "basinname", "geom"}),
              AddName("lgu_boundary", "idx_lgu_boundary_geom"),
              CreateTable("lgu_load", LoadColumns) >>,
    down |-> << DropTable("lgu_load"),
                DropName("lgu_boundary", "idx_lgu_boundary_geom"),
                DropTable("lgu_boundary") >> ]

(* A unique constraint without a name gets one from table and columns. *)
PerActivity(pollutant) == "tmnt_source_control_direction_subbasin_" \o pollutant \o "_activity_key"
PerOrder(pollutant) == "tmnt_source_control_direction_subbasin_" \o pollutant \o "_order_key"

(* 0011 *)
AddSourceControlsTable ==
  [ up |-> << CreateType("direction", {"upstream", "downstream"}),
              CreateTable("tmnt_source_control",
                {"id", "subbasin", "pollutant", "order", "activity", "direction",
                 "percent_reduction"} \union Tracked),
              SetType("tmnt_source_control", "direction", "direction"),
              AddName("tmnt_source_control", PerActivity("pollutant")),
              AddName("tmnt_source_control", PerOrder("pollutant")) >>,
    down |-> << DropTable("tmnt_source_control"), DropType("direction") >> ]

(* 0012 *)
AddGraphAndResultBlobTable ==
  [ up |-> << CreateTable("graph_edge",
                {"id", "source", "target", "ntype", "subbasin", "basinname"}),
              CreateTable("result_blob", {"node_id", "epoch", "blob"}),
              SetType("result_blob", "blob", "json") >>,
    down |-> << DropTable("result_blob"), DropTable("graph_edge") >> ]

ResultV == CreateView("result_v", Of("result_blob", {"node_id", "epoch", "blob"}))

(* 0013 *)
ResultsViewInit ==
  [ up |-> << DropView("result_v"), ResultV >>,
    down |-> << DropView("result_v") >> ]

(* 0014 *)
AddMetTable ==
  [ up |-> << CreateTable("met", {"id", "epoch", "mean_annual_precip_depth_inches",
                                  "design_storm_precip_depth_inches"}) >>,
    down |-> << DropTable("met") >> ]

(* 0015 *)
AddLguUnits ==
  [ up |-> << AddColumns("lgu_load", {"units"}) >>,
    down |-> << DropColumns("lgu_load", {"units"}) >> ]

(* 0016 *)
UpdateTrackedTableChanges ==
  [ up |-> << DropColumns("tmnt_facility", Tracked),
              DropColumns("tmnt_facility_delineation", Tracked) >>,
    down |-> << AddColumns("tmnt_facility_delineation", Tracked),
                AddColumns("tmnt_facility", Tracked) >> ]

(* 0017 *)
CreateChangeLog ==
  [ up |-> << CreateTable("tablechangelog",
                {"id", "tablename", "time_created", "last_updated"}),
              AddName("tablechangelog", "ix_tablechangelog_tablename") >>,
    down |-> << DropName("tablechangelog", "ix_tablechangelog_tablename"),
                DropTable("tablechangelog") >> ]

ReducedTables ==
  [ downstream |-> "tmnt_source_control_downstream_load_reduced",
    upstream |-> "tmnt_source_control_upstream_load_reduced" ]

ReducedColumns ==
  {"id", "node_id", "subbasin", "basinname", "variable", "order", "activity", "direction",
   "epoch", "value", "units", "percent_reduction", "value_remaining_prev",
   "value_remaining", "load_reduced"}

(* 0018.  The new tables use the enumeration of 0011. *)
AddSrcCtrlLoadReductionTables ==
  [ up |-> << CreateTable("lgu_load_to_structural", LoadColumns \union {"units"}),
              CreateTable(ReducedTables.downstream, ReducedColumns),
              SetType(ReducedTables.downstream, "direction", "direction"),
              CreateTable(ReducedTables.upstream, ReducedColumns),
              SetType(ReducedTables.upstream, "direction", "direction"),
              CreateTable("load_to_ds_src_ctrl", LoadColumns \union {"units"}),
              RenameColumn("tmnt_source_control", "pollutant", "variable"),
              DropName("tmnt_source_control", PerActivity("pollutant")),
              DropName("tmnt_source_control", PerOrder("pollutant")),
              AddName("tmnt_source_control", PerActivity("variable")),
              AddName("tmnt_source_control", PerOrder("variable")) >>,
    down |-> << RenameColumn("tmnt_source_control", "variable", "pollutant"),
                DropName("tmnt_source_control", PerActivity("variable")),
                DropName("tmnt_source_control", PerOrder("variable")),
                AddName("tmnt_source_control", PerOrder("pollutant")),
                AddName("tmnt_source_control", PerActivity("pollutant")),
                DropTable(ReducedTables.upstream),
                DropTable(ReducedTables.downstream),
                DropTable("lgu_load_to_structural"),
                DropTable("load_to_ds_src_ctrl") >> ]

EquityColumns == {"access", "economic_value", "environmental_value", "livability_value",
                  "opportunity_value"}

(* 0019 *)
AddEquityFieldsToSubbasin ==
  [ up |-> << AddColumns("subbasin", {"area_acres"} \union EquityColumns) >>,
    down |-> << DropColumns("subbasin", {"area_acres"} \union EquityColumns) >> ]

-----------------------------------------------------------------------------
(* 0020.  The view reads other parts of the same column. *)
AddVirtualPocsToResults ==
  [ up |-> << DropView("result_v"), ResultV >>,
    down |-> << DropView("result_v"), ResultV >> ]

SubbasinLoads == {"runoff_volume_cuft"} \union {Load(p) : p \in Poc}

(* 0021 *)
AddSubbasinResultTable ==
  [ up |-> << CreateTable("subbasin_result",
                {"id", "subbasin", "node_id", "epoch"} \union SubbasinLoads) >>,
    down |-> << DropTable("subbasin_result") >> ]

BlobColumns ==
  {"_version", "_config_version", "node_type", "facility_type", "valid_model",
   "design_intensity_inhr", "design_volume_cuft_cumul", "captured_pct", "treated_pct",
   "retained_pct", "bypassed_pct", "area_acres", "ro_coeff", "eff_area_acres"}
  \union Suffixed({"runoff_volume_cuft"},
                  {"_inflow", "_treated", "_retained", "_captured", "_bypassed"})
  \union {Conc(p) : p \in Poc} \union {Load(p) : p \in Poc}
  \union Suffixed({Conc(p) : p \in Poc}, {"_effluent", "_influent"})
  \union Suffixed({Load(p) : p \in Poc}, {"_inflow", "_removed", "_total_discharged"})

(* 0022, the columns; the view's data is made redundant by them. *)
RefactorResultBlob == << AddColumns("result_blob", BlobColumns), DropView("result_v") >>

(* 0022, back. *)
RestoreResultV ==
  << DropColumns("result_blob", BlobColumns), DropView("result_v"), ResultV >>

SubbasinresultV ==
  CreateView("subbasinresult_v",
    Of("subbasin", {"basinname", "subbasin", "area_acres", "geom"} \union EquityColumns)
      \union Of("subbasin_result", {"node_id", "epoch", "subbasin"} \union SubbasinLoads))

(* 0023 *)
AddSubbasinResultsView ==
  [ up |-> << DropView("subbasinresult_v"), SubbasinresultV >>,
    down |-> << DropView("subbasinresult_v") >> ]

(* 0024 *)
AddAccessTokensToUsers ==
  [ up |-> << AddColumns("user", {"access_token"}) >>,
    down |-> << DropColumns("user", {"access_token"}) >> ]

SettingColumns == {"variable", "value"} \union Tracked

(* 0025 *)
AddGlobalsTable ==
  [ up |-> << CreateTable("global_setting", SettingColumns) >>,
    down |-> << DropTable("global_setting") >> ]

CostColumns == {"capital_cost", "om_cost_per_yr", "lifespan_yrs", "replacement_cost"}
NpvColumns == CostColumns \union {"net_present_value"}

TmntV26 == TmntV({"id"} \union FacilityColumns,
                 ModelingColumns \union ReferenceColumns \union NpvColumns
                   \union {"basinname", "subbasin"})
TmntV27 == TmntV(FacilityColumns,
                 ModelingColumns \union NpvColumns \union Tracked
                   \union {"basinname", "subbasin"})

(* 0026 *)
AddCostColumnsToTmntAttrs ==
  [ up |-> << AddColumns("tmnt_facility_attributes", NpvColumns),
              DropView("tmnt_v"), TmntV26 >>,
    down |-> << DropView("tmnt_v"), TmntV9,
                DropColumns("tmnt_facility_attributes", NpvColumns) >> ]

(* 0027 *)
UpdateTmntAttrs ==
  [ up |-> << DropView("tmnt_v"), TmntV27,
              DropColumns("tmnt_facility_attributes", ReferenceColumns) >>,
    down |-> << AddColumns("tmnt_facility_attributes", ReferenceColumns),
                DropView("tmnt_v"), TmntV26 >> ]

(* A column of an enumeration is moved to a new one of the same name. *)
ReplaceRoleType(values, default) ==
  << RenameType("role", "tmp_role"), CreateType("role", values),
     SetDefault("user", "role", "null"), SetType("user", "role", "role"),
     SetDefault("user", "role", default), DropType("tmp_role") >>

(* 0028 *)
UpdateRoleType ==
  [ up |-> ReplaceRoleType(NewRoles, "public"),
    down |-> << UpdateRole("user_admin", "editor"), UpdateRole("reader", "public"),
                UpdateRole("null", "none") >> \o ReplaceRoleType(OldRoles, "none") ]

(* 0029 *)
RenameAccessTokenToReadonlyToken ==
  [ up |-> << RenameColumn("user", "access_token", "readonly_token") >>,
    down |-> << RenameColumn("user", "readonly_token", "access_token") >> ]

-----------------------------------------------------------------------------
(* 0030.  Concentrations are computed from the columns of 0023. *)
UpdateSubbasinResultsView ==
  [ up |-> << DropView("subbasinresult_v"), SubbasinresultV >>,
    down |-> << DropView("subbasinresult_v"), SubbasinresultV >> ]

(* Mutant: the columns are dropped with the view still there. *)
RefactorNpvTablesBelowView ==
  << RenameTable("tmnt_facility_attributes", "tmnt_facility_attribute"),
     DropColumns("tmnt_facility_attribute", NpvColumns),
     AddColumns("tmnt_facility_attribute", {"node_id"}),
     CreateTable("tmnt_facility_cost", {"node_id"} \union NpvColumns \union Tracked) >>

(* 0031 *)
RefactorNpvTables ==
  << DropView("tmnt_v"),
     RenameTable("tmnt_facility_attributes", "tmnt_facility_attribute"),
     DropColumns("tmnt_facility_attribute", NpvColumns),
     AddColumns("tmnt_facility_attribute", {"node_id"}),
     CreateTable("tmnt_facility_cost", {"node_id"} \union NpvColumns \union Tracked) >>

(* 0031, back. *)
RestoreNpvTables ==
  << RenameTable("tmnt_facility_attribute", "tmnt_facility_attributes"),
     AddColumns("tmnt_facility_attributes", NpvColumns),
     DropView("tmnt_v"), TmntV27,
     DropColumns("tmnt_facility_attributes", {"node_id"}),
     DropTable("tmnt_facility_cost") >>

(* 0032 *)
AddScenarioTable ==
  [ up |-> << CreateTable("scenario",
                {"id", "created_by", "name", "info", "input", "input_time_updated",
                 "loading_hash", "input_hash", "result_time_updated", "lgu_boundary",
                 "lgu_load", "delin_load", "structural_tmnt", "graph_edge",
                 "structural_tmnt_result"} \union Tracked) >>,
    down |-> << DropTable("scenario") >> ]

ReducedResults ==
  Suffixed(SubbasinLoads, {"_generated", "_reduced"})
    \union {"runoff_volume_pct_reduced"} \union Suffixed(Poc, {"_load_pct_reduced"})

(* 0033.  The view dropped by the downgrade is not made again. *)
MoreSubbasinResults ==
  [ up |-> << AddColumns("subbasin_result", ReducedResults) >>,
    down |-> << DropView("subbasinresult_v"),
                DropColumns("subbasin_result", ReducedResults) >> ]

PresentValueColumns ==
  {"capital_cost_basis_year", "om_cost_basis_year", "install_year",
   "present_value_capital_cost", "present_value_om_cost", "present_value_total_cost",
   "present_value_om_cost_table"}

(* Mutant: the downgrade leaves a column. *)
UpdateCostAttrsHalfBack ==
  [ up |-> << DropView("tmnt_v"),
              AddColumns("tmnt_facility_cost", PresentValueColumns),
              DropColumns("tmnt_facility_cost", {"net_present_value"}) >>,
    down |-> << DropView("tmnt_v"),
                DropColumns("tmnt_facility_cost", PresentValueColumns) >> ]

(* 0034 *)
UpdateCostAttrs ==
  [ up |-> << DropView("tmnt_v"),
              AddColumns("tmnt_facility_cost", PresentValueColumns),
              DropColumns("tmnt_facility_cost", {"net_present_value"}) >>,
    down |-> << DropView("tmnt_v"),
                AddColumns("tmnt_facility_cost", {"net_present_value"}),
                DropColumns("tmnt_facility_cost", PresentValueColumns) >> ]

(* 0035 *)
IsolateCostGlobals ==
  [ up |-> << CreateTable("global_cost_setting", SettingColumns) >>,
    down |-> << DropTable("global_cost_setting") >> ]

(* 0036 *)
AddNtypeToResults ==
  [ up |-> << AddColumns("result_blob", {"ntype"}), SetType("result_blob", "blob", "jsonb") >>,
    down |-> << DropColumns("result_blob", {"ntype"}), SetType("result_blob", "blob", "json") >> ]

(* 0037 *)
CostCharts ==
  [ up |-> << RenameColumn("tmnt_facility_cost", "present_value_om_cost_table",
                                                 "present_value_cost_table"),
              AddColumns("tmnt_facility_cost", {"present_value_chart_table"}) >>,
    down |-> << RenameColumn("tmnt_facility_cost", "present_value_cost_table",
                                                   "present_value_om_cost_table"),
                DropColumns("tmnt_facility_cost", {"present_value_chart_table"}) >> ]

CostGlobals == {"discount_rate", "inflation_rate", "planning_horizon_yrs", "cost_basis_year"}

(* 0038 *)
AddCostGlobalsToTmntCostTable ==
  [ up |-> << AddColumns("tmnt_facility_cost", CostGlobals) >>,
    down |-> << DropColumns("tmnt_facility_cost", CostGlobals) >> ]

DischargeColumns == Suffixed({"runoff_volume_cuft"}, {"", "_total_discharged"})

(* 0039 *)
UpdateResultsBlob ==
  [ up |-> << AddColumns("result_blob", DischargeColumns) >>,
    down |-> << DropColumns("result_blob", DischargeColumns) >> ]

LandColumns ==
  Suffixed(Suffixed({"lu_"}, {"resair", "commcmu", "rgcd", "com", "indh", "indl", "resl",
                              "ins", "resm", "resmfhd", "comn", "comnmu", "os", "shore",
                              "rgctm"})
             \union Suffixed({"lc_"}, {"pasture", "grass", "water", "imp_roof",
                                       "imp_nonroof", "imp_total"}), {"_pct"})
  \union {"age_of_development_score", "pavement_condition_score", "biodiversity_pct",
          "urban_heat_degc", "discharge_points_count"}

(* 0040 *)
AddSubbasinFields ==
  [ up |-> << AddColumns("subbasin", LandColumns) >>,
    down |-> << DropColumns("subbasin", LandColumns) >> ]

(* Mutant: a column that the code declares is forgotten. *)
AddCapacityRankOnly ==
  [ up |-> << AddColumns("subbasin", {"capacity_rank"}) >>,
    down |-> << DropColumns("subbasin", {"capacity_rank"}) >> ]

(* 0041 *)
AddCapacityRankToSubbasins ==
  [ up |-> << AddColumns("subbasin", {"capacity_rank", "rankcriteria"}) >>,
    down |-> << DropColumns("subbasin", {"capacity_rank", "rankcriteria"}) >> ]

(* 0042 *)
AddDdtToTmntAttr ==
  [ up |-> << AddColumns("tmnt_facility_attribute", {"treatment_drawdown_time_hr"}) >>,
    down |-> << DropColumns("tmnt_facility_attribute", {"treatment_drawdown_time_hr"}) >> ]

(* down_revision makes a list of them. *)
Revision ==
  << AddedUsersTable, AddTmntTables, PatchTmntVGeomType, AddSubbasinsTable,
     AddDelineationRelidColumn, DefaultUsersRole, RenameUsersTableToUser,
     AddFieldsToTmntView, AddBasinToTmntAttrs, AddLguTables, AddSourceControlsTable,
     AddGraphAndResultBlobTable, ResultsViewInit, AddMetTable, AddLguUnits,
     UpdateTrackedTableChanges, CreateChangeLog, AddSrcCtrlLoadReductionTables,
     AddEquityFieldsToSubbasin, AddVirtualPocsToResults, AddSubbasinResultTable,
     [up |-> RefactorResultBlob, down |-> RestoreResultV],
     AddSubbasinResultsView, AddAccessTokensToUsers, AddGlobalsTable,
     AddCostColumnsToTmntAttrs, UpdateTmntAttrs, UpdateRoleType,
     RenameAccessTokenToReadonlyToken, UpdateSubbasinResultsView,
     [up |-> RefactorNpvTables, down |-> RestoreNpvTables],
     AddScenarioTable, MoreSubbasinResults, UpdateCostAttrs, IsolateCostGlobals,
     AddNtypeToResults, CostCharts, AddCostGlobalsToTmntCostTable, UpdateResultsBlob,
     AddSubbasinFields, AddCapacityRankToSubbasins, AddDdtToTmntAttr >>

Latest == Len(Revision)
=============================================================================
