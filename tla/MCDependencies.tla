---------------------------- MODULE MCDependencies ----------------------------
(* Six tables: each input that the list leaves out with the table that
   reads it, and paths to subbasin_result, on which the tables in between,
   and the views, have no record and are bridged.                          *)
EXTENDS DependencyOrder

MCLogged == {"tmnt_facility", "subbasin", "lgu_boundary", "tmnt_facility_attribute",
             Downstream, "subbasin_result"}
=============================================================================
