------------------------------ MODULE CostTable ------------------------------
(***************************************************************************)
(* The present value of the costs of a facility, year by year (src/npv.py):*)
(* what POST /api/rpc/calculate_present_cost answers.  Rates of discount   *)
(* and inflation are zero and years are whole, so that what remains is     *)
(* which cost falls in which year; rounding is left out.                   *)
(***************************************************************************)
EXTENDS Integers, FiniteSets, Functions, FiniteSetsExt

CONSTANTS
  Request,     \* the requests that clients send
  Null         \* an optional field that is not set

ASSUME CostTableAssumption ==
  \A pv \in Request :
    /\ pv.capital_cost \in Nat /\ pv.om_cost_per_yr \in Nat
    /\ pv.replacement_cost \in Nat \union {Null}
    /\ pv.lifespan_yrs \in (Nat \ {0}) \union {Null}
    /\ pv.install_year \in Nat \union {Null}
    /\ pv.planning_horizon_yrs \in Nat /\ pv.cost_basis_year \in Nat

VARIABLE answer    \* the last one, Null before the first

Default(x, d) == IF x = Null THEN d ELSE x

InstallYear(pv) == Default(pv.install_year, pv.cost_basis_year)
Later(pv) == IF InstallYear(pv) > pv.cost_basis_year THEN InstallYear(pv) ELSE pv.cost_basis_year
Earlier(pv) == IF InstallYear(pv) < pv.cost_basis_year THEN InstallYear(pv) ELSE pv.cost_basis_year

EndYear(pv) == Later(pv) + pv.planning_horizon_yrs + 1

(* Mutant: the table starts with the year that costs are given for. *)
YearsFromBasis(pv) == pv.cost_basis_year .. EndYear(pv) - 1

(* start_analysis_year up to end_analysis_year, which is not in the range. *)
Years(pv) == Earlier(pv) .. EndYear(pv) - 1

(* in_planning_horizon. *)
InHorizon(pv, y) == y + pv.planning_horizon_yrs + 1 >= EndYear(pv)

(* Mutant: the first of the years, that of the installation, is kept. *)
ReplacementAtOnce(pv, y) ==
  LET age == y - InstallYear(pv)
  IN  IF pv.lifespan_yrs = Null THEN 0
      ELSE IF age >= 0 /\ age % pv.lifespan_yrs = 0 THEN Default(pv.replacement_cost, 0) ELSE 0

(* A facility without a lifespan is not replaced; the others are, at the end
   of each lifespan, the installation itself not counted.                  *)
Replacement(pv, y) ==
  LET age == y - InstallYear(pv)
  IN  IF pv.lifespan_yrs = Null THEN 0
      ELSE IF age > 0 /\ age % pv.lifespan_yrs = 0 THEN Default(pv.replacement_cost, 0) ELSE 0

(* compute_bmp_om_pv, column pv_om_cost. *)
MaintenanceCosts(pv) ==
  [y \in Years(pv) |-> IF InHorizon(pv, y) THEN pv.om_cost_per_yr + Replacement(pv, y) ELSE 0]

(* compute_pv_capital_cost, merged into the table by its year. *)
CapitalCosts(pv) ==
  [y \in Years(pv) |-> IF y = InstallYear(pv) THEN pv.capital_cost ELSE 0]

Total(costs) == MapThenSumSet(LAMBDA y : costs[y], DOMAIN costs)

(* compute_bmp_pv. *)
Compute_bmp_pv(pv) ==
  LET om == MaintenanceCosts(pv)
      capital == CapitalCosts(pv)
  IN  [ request |-> pv,
        table |-> [y \in Years(pv) |-> [om |-> om[y], total |-> om[y] + capital[y]]],
        om |-> Total(om),
        total |-> pv.capital_cost + Total(om) ]

CostTableInit == answer = Null

CalculateNpv(pv) == answer' = Compute_bmp_pv(pv)

CostTableNext == \E pv \in Request : CalculateNpv(pv)

CostTableSpec == CostTableInit /\ [][CostTableNext]_answer

-----------------------------------------------------------------------------
(* The table that the page draws adds up to the totals next to it: no cost
   falls outside of its years, wherever the installation lies relative to
   the year that costs are given for.                                      *)
TableAddsUp ==
  answer # Null =>
    answer.total = Total([y \in DOMAIN answer.table |-> answer.table[y].total])

(* A facility is maintained in planning_horizon_yrs + 1 years, none of them
   before it is installed or before the present.  In those of them in which
   its first or a later lifespan is over, and in no other year, it is
   replaced as well, also when it was installed, and replaced before, in the
   years that the horizon leaves out.                                      *)
MaintainedAfterInstallation ==
  answer # Null =>
    LET pv == answer.request
        charged == {y \in DOMAIN answer.table : y >= InstallYear(pv) /\ y >= pv.cost_basis_year}
        worn == {y \in charged : pv.lifespan_yrs # Null
                                  /\ \E n \in 1..y : y = InstallYear(pv) + n * pv.lifespan_yrs}
    IN  /\ Cardinality(charged) = pv.planning_horizon_yrs + 1
        /\ \A y \in DOMAIN answer.table :
             answer.table[y].om =
               (IF y \in charged THEN pv.om_cost_per_yr ELSE 0)
               + (IF y \in worn THEN Default(pv.replacement_cost, 0) ELSE 0)
=============================================================================
