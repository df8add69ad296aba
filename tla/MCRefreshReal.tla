----------------------------- MODULE MCRefreshReal -----------------------------
(* delete_and_refresh_all_results_tables over the real dependency list,
   while users edit attributes and source controls.                        *)
EXTENDS TableRefresh, Tables, Functions, TLC

CONSTANTS solve, e1

MCTable == Nodes(OG)
MCReads == Restrict(Inputs, Range(AllResults))
MCPlan == (solve :> AllResults)
MCEdited == {"tmnt_facility_attribute", "tmnt_source_control"}
=============================================================================
