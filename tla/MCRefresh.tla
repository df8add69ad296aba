------------------------------- MODULE MCRefresh -------------------------------
(* A facility table from the GIS service, the attributes that users edit,
   a table computed from both, and results computed from that table and,
   through a view without a record, from the attributes.                   *)
EXTENDS TableRefresh, TLC

CONSTANTS facility, attribute, view, edges, results, daily, solve, e1, e2

MCTable == {facility, attribute, view, edges, results}
MCGraph == {<<facility, edges>>, <<attribute, edges>>, <<edges, results>>,
            <<attribute, view>>, <<view, results>>}
MCReads == (facility :> {}) @@ (edges :> {facility, attribute})
             @@ (results :> {edges, attribute})
MCEdited == {attribute}

(* run_refresh_task and solve_watershed. *)
MCPlan == (daily :> <<facility, edges, results>>) @@ (solve :> <<edges, results>>)
MCDailyPlan == (daily :> <<facility, edges, results>>)
=============================================================================
