------------------------------ MODULE MCWorkflow ------------------------------
(* A refresh of everything and one of the results, a page, two requests to  *)
(* solve all scenarios, before and after one was changed, and a request to   *)
(* solve it alone.  The two could take both slots of the worker.             *)
EXTENDS Workflow, TLC

CONSTANTS daily, admin, user, first, second, row, changed

(* One of the four: in the model they do not differ, and have no order. *)
MCStatic == {"delete_and_refresh_subbasin_table"}
MCRuns == (daily :> "refresh_all") @@ (admin :> "_group3")
MCData == (first :> {row}) @@ (second :> {changed})
=============================================================================
