---------------------------- MODULE Prioritization ----------------------------
(***************************************************************************)
(* The ranking of subbasins by PROMETHEE II (src/decision_support): what   *)
(* the task calculate_subbasin_promethee_prioritization answers for the    *)
(* view subbasininfo_v and the criteria, weights and directions that a     *)
(* user chooses.  Scores are integers, in thousandths of a percent.        *)
(***************************************************************************)
EXTENDS Integers, FiniteSets, FiniteSetsExt, Functions

CONSTANTS
  Ranked,        \* the subbasins of the view
  Criterion,     \* the columns that the user has chosen
  Level,         \* values in these columns
  NaN,           \* a column that is null
  Weight

ASSUME PrioritizationAssumption ==
  /\ Level \subseteq Int /\ NaN \notin Level
  /\ Weight \subseteq Nat
  /\ Ranked # {} /\ Criterion # {}
  /\ IsFiniteSet(Ranked) /\ IsFiniteSet(Criterion)

VARIABLES
  matrix,      \* subbasininfo_v
  ranking      \* the request and the scores that answer it, or NaN

rankingVars == <<matrix, ranking>>

PrioritizationInit ==
  /\ matrix \in [Ranked -> [Criterion -> Level \union {NaN}]]
  /\ ranking = NaN

(* usual: a difference of NaN is not positive.  The matrix has been
   multiplied by the direction, 1 or -1.                                   *)
Preferred(a, b, direction) ==
  a # NaN /\ b # NaN /\ direction * a > direction * b

(* Mutant: the difference is not negated for the second sum. *)
FlowSameSign(m, direction, k, r) ==
  Cardinality({s \in DOMAIN m : Preferred(m[r][k], m[s][k], direction)})
    - Cardinality({s \in DOMAIN m : Preferred(m[r][k], m[s][k], direction)})

(* unicriterion_flow, plus minus minus; the division by N - 1 is left out. *)
Flow(m, direction, k, r) ==
  Cardinality({s \in DOMAIN m : Preferred(m[r][k], m[s][k], direction)})
    - Cardinality({s \in DOMAIN m : Preferred(m[s][k], m[r][k], direction)})

(* prom_ii; weights are not normalized, which does not change the order. *)
NetFlow(m, weights, directions) ==
  [r \in DOMAIN m |->
     MapThenSumSet(LAMBDA k : weights[k] * Flow(m, directions[k], k, r), DOMAIN weights)]

(* minmax_normalization, times 100, to three decimals. *)
Normalized(flow) ==
  LET low == Min(Range(flow))
      width == Max(Range(flow)) - low
  IN  [r \in DOMAIN flow |->
         IF width = 0 THEN 100000 ELSE (100000 * (flow[r] - low)) \div width]

(* One request; a task computes each afresh. *)
Prioritize(weights, directions) ==
  /\ ranking = NaN
  /\ ranking' = [ weights |-> weights, directions |-> directions,
                  scores |-> Normalized(NetFlow(matrix, weights, directions)) ]
  /\ UNCHANGED matrix

PrioritizationNext ==
  \E weights \in [Criterion -> Weight], directions \in [Criterion -> {-1, 1}] :
    Prioritize(weights, directions)

PrioritizationSpec == PrioritizationInit /\ [][PrioritizationNext]_rankingVars

-----------------------------------------------------------------------------
(* a is nowhere worse than b in what counts. *)
Dominates(a, b) ==
  \A k \in Criterion : ranking.weights[k] > 0 =>
    /\ matrix[a][k] # NaN /\ matrix[b][k] # NaN
    /\ ranking.directions[k] * matrix[a][k] >= ranking.directions[k] * matrix[b][k]

(* A subbasin that is as good as another one by each criterion gets as high
   a score, and a higher one if it is better by any that counts, whatever
   else is in the table and however it compares.                           *)
DominanceRespected ==
  ranking # NaN =>
    \A a, b \in Ranked : Dominates(a, b) =>
      /\ ranking.scores[a] >= ranking.scores[b]
      /\ ~Dominates(b, a) => ranking.scores[a] > ranking.scores[b]
=============================================================================
