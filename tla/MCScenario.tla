------------------------------ MODULE MCScenario ------------------------------
(***************************************************************************)
(* Two values of each collection: a row can belong to the input before or  *)
(* to the present one.  Patches come one at a time.                        *)
(***************************************************************************)
EXTENDS Scenario, TLC

CONSTANTS d1, d2, t1, t2, n1, n2, e1
=============================================================================
