-------------------------- MODULE Computations_proofs --------------------------
(***************************************************************************)
(* The computations: sums over years (CostTable) and over criteria         *)
(* (Prioritization), for any number of either; the defaults of a facility  *)
(* (DefaultAttributes); and the load of each piece of land (Watershed), for *)
(* any map, any delineations and any order of edits and refreshes.         *)
(***************************************************************************)
EXTENDS CostTable, Prioritization, Watershed, DefaultAttributes, FiniteSetTheorems, TLAPS

-----------------------------------------------------------------------------
(* Sums over finite sets.  f has the sums of c over the subsets of its
   domain, in the order in which the fold takes the elements.              *)

First(s) == CHOOSE x \in s : TRUE

SumTurn(c, f, s) == IF s = {} THEN 0 ELSE c[First(s)] + f[s \ {First(s)}]

Sums(c, f) == f = [s \in SUBSET (DOMAIN c) |-> SumTurn(c, f, s)]

(* c is a finite list of amounts. *)
Amounts(c) == c \in [DOMAIN c -> Int] /\ IsFiniteSet(DOMAIN c)

LEMMA Minimum ==
  ASSUME NEW S \in SUBSET Nat, S # {}
  PROVE  \E m \in S : \A k \in S : m <= k
<1>1. PICK m \in S : \A k \in S : ~(<<k, m>> \in OpToRel(<, Nat))
  BY WFMin, NatLessThanWellFounded
<1>2. ASSUME NEW k \in S PROVE m <= k
  <2>1. k < m => <<k, m>> \in OpToRel(<, Nat)
    BY DEF OpToRel
  <2>2. ~(k < m)
    BY <1>1, <2>1, Zenon
  <2> QED
    BY <2>2
<1> QED
  BY <1>2

LEMMA Smallest ==
  ASSUME NEW S, IsFiniteSet(S), NEW Bad \in SUBSET (SUBSET S), Bad # {}
  PROVE  \E s \in Bad : \A x \in s : s \ {x} \notin Bad
<1> DEFINE Sizes == {Cardinality(s) : s \in Bad}
<1>1. \A s \in Bad : IsFiniteSet(s) /\ Cardinality(s) \in Nat
  BY FS_Subset, FS_CardinalityType
<1>2. PICK m \in Sizes : \A k \in Sizes : m <= k
  <2>1. Sizes \in SUBSET Nat /\ Sizes # {}
    BY <1>1
  <2> HIDE DEF Sizes
  <2> QED
    BY <2>1, Minimum
<1>3. PICK s \in Bad : m = Cardinality(s)
  OBVIOUS
<1>4. ASSUME NEW x \in s, s \ {x} \in Bad PROVE FALSE
  <2>1. Cardinality(s \ {x}) = Cardinality(s) - 1
    BY <1>1, FS_RemoveElement
  <2>2. m <= Cardinality(s \ {x})
    BY <1>2, <1>4
  <2> QED
    BY <1>1, <1>3, <2>1, <2>2
<1> QED
  BY <1>4

LEMMA FirstIn ==
  ASSUME NEW s, s # {}
  PROVE  First(s) \in s
  BY DEF First

(* The relation between sets and their sums, as the least that has the
   empty sum and is closed under adding one element.                       *)
Adds(c, R) ==
  /\ <<{}, 0>> \in R
  /\ \A s \in SUBSET (DOMAIN c) : \A v \in Int :
       s # {} /\ <<s \ {First(s)}, v>> \in R => <<s, c[First(s)] + v>> \in R

Pairs(c) == (SUBSET (DOMAIN c)) \X Int

SumOf(c) == {e \in Pairs(c) : \A R \in SUBSET Pairs(c) : Adds(c, R) => e \in R}

LEMMA SumOfAdds ==
  ASSUME NEW c, Amounts(c)
  PROVE  Adds(c, SumOf(c))
<1>1. <<{}, 0>> \in SumOf(c)
  BY DEF SumOf, Pairs, Adds
<1>2. ASSUME NEW s \in SUBSET (DOMAIN c), NEW v \in Int, s # {},
             <<s \ {First(s)}, v>> \in SumOf(c)
      PROVE  <<s, c[First(s)] + v>> \in SumOf(c)
  <2>1. First(s) \in DOMAIN c
    BY <1>2, FirstIn
  <2>2. c[First(s)] + v \in Int
    BY <2>1 DEF Amounts
  <2>3. \A R \in SUBSET Pairs(c) :
          Adds(c, R) => <<s, c[First(s)] + v>> \in R
    BY <1>2 DEF SumOf, Adds
  <2> QED
    BY <2>2, <2>3 DEF SumOf, Pairs
<1> QED
  BY <1>1, <1>2 DEF Adds

LEMMA SumOfLeast ==
  ASSUME NEW c, NEW R \in SUBSET Pairs(c), Adds(c, R)
  PROVE  SumOf(c) \subseteq R
  BY DEF SumOf

(* Nothing is in it but what adding puts there. *)
LEMMA SumOfOnly ==
  ASSUME NEW c, Amounts(c), NEW s \in SUBSET (DOMAIN c), NEW v \in Int, <<s, v>> \in SumOf(c)
  PROVE  IF s = {} THEN v = 0
         ELSE \E u \in Int : <<s \ {First(s)}, u>> \in SumOf(c) /\ v = c[First(s)] + u
<1> DEFINE Why == IF s = {} THEN v = 0
                  ELSE \E u \in Int : <<s \ {First(s)}, u>> \in SumOf(c) /\ v = c[First(s)] + u
           R == SumOf(c) \ {<<s, v>>}
<1> SUFFICES ASSUME ~Why PROVE FALSE
  OBVIOUS
<1>1. Adds(c, SumOf(c))
  BY SumOfAdds
<1>2. <<{}, 0>> \in R
  BY <1>1 DEF Adds
<1>3. ASSUME NEW t \in SUBSET (DOMAIN c), NEW w \in Int, t # {}, <<t \ {First(t)}, w>> \in R
      PROVE  <<t, c[First(t)] + w>> \in R
  <2>1. <<t, c[First(t)] + w>> \in SumOf(c)
    BY <1>1, <1>3 DEF Adds
  <2>2. <<t, c[First(t)] + w>> # <<s, v>>
    BY <1>3
  <2> QED
    BY <2>1, <2>2
<1>4. Adds(c, R) /\ R \in SUBSET Pairs(c)
  <2>1. R \in SUBSET Pairs(c)
    BY DEF SumOf
  <2> HIDE DEF R
  <2> QED
    BY <1>2, <1>3, <2>1 DEF Adds
<1> QED
  BY <1>4, SumOfLeast

LEMMA OneSum ==
  ASSUME NEW c, Amounts(c), NEW s \in SUBSET (DOMAIN c)
  PROVE  \E v \in Int : <<s, v>> \in SumOf(c) /\ \A w \in Int : <<s, w>> \in SumOf(c) => w = v
<1> DEFINE P(t) == \E v \in Int : <<t, v>> \in SumOf(c)
                                  /\ \A w \in Int : <<t, w>> \in SumOf(c) => w = v
           Bad == {t \in SUBSET (DOMAIN c) : ~P(t)}
<1>1. SUFFICES ASSUME Bad # {} PROVE FALSE
  OBVIOUS
<1>2. PICK t \in Bad : \A x \in t : t \ {x} \notin Bad
  <2>1. Bad \in SUBSET (SUBSET (DOMAIN c)) /\ IsFiniteSet(DOMAIN c)
    BY DEF Amounts
  <2> HIDE DEF Bad
  <2> QED
    BY <1>1, <2>1, Smallest
<1>3. Adds(c, SumOf(c))
  BY SumOfAdds
<1>4. CASE t = {}
  <2>1. <<t, 0>> \in SumOf(c)
    BY <1>3, <1>4 DEF Adds
  <2>2. \A w \in Int : <<t, w>> \in SumOf(c) => w = 0
    BY <1>4, SumOfOnly
  <2>3. P(t)
    BY <2>1, <2>2
  <2> QED
    BY <2>3
<1>5. CASE t # {}
  <2> DEFINE x == First(t)
  <2>1. x \in t /\ t \ {x} \in SUBSET (DOMAIN c) /\ c[x] \in Int
    BY <1>5, FirstIn DEF Amounts
  <2>2. P(t \ {x})
    BY <1>2, <2>1
  <2>3. PICK u \in Int : /\ <<t \ {x}, u>> \in SumOf(c)
                         /\ \A w \in Int : <<t \ {x}, w>> \in SumOf(c) => w = u
    BY <2>2
  <2>4. <<t, c[x] + u>> \in SumOf(c)
    BY <1>3, <1>5, <2>3 DEF Adds
  <2>5. ASSUME NEW w \in Int, <<t, w>> \in SumOf(c) PROVE w = c[x] + u
    BY <1>5, <2>3, <2>5, SumOfOnly
  <2>6. P(t)
    <3>1. c[x] + u \in Int
      BY <2>1
    <3> HIDE DEF x
    <3> QED
      BY <2>4, <2>5, <3>1
  <2> QED
    BY <2>6
<1> QED
  BY <1>4, <1>5

LEMMA SumsExist ==
  ASSUME NEW c, Amounts(c)
  PROVE  \E f : Sums(c, f)
<1> DEFINE value(s) == CHOOSE v \in Int : <<s, v>> \in SumOf(c)
           f == [s \in SUBSET (DOMAIN c) |-> value(s)]
<1>1. ASSUME NEW s \in SUBSET (DOMAIN c)
      PROVE  /\ f[s] \in Int /\ <<s, f[s]>> \in SumOf(c)
             /\ \A w \in Int : <<s, w>> \in SumOf(c) => w = f[s]
  BY OneSum
<1>2. ASSUME NEW s \in SUBSET (DOMAIN c) PROVE f[s] = SumTurn(c, f, s)
  <2>1. CASE s = {}
    BY <1>1, <2>1, SumOfOnly DEF SumTurn
  <2>2. CASE s # {}
    <3>1. s \ {First(s)} \in SUBSET (DOMAIN c)
      OBVIOUS
    <3>2. PICK u \in Int : <<s \ {First(s)}, u>> \in SumOf(c) /\ f[s] = c[First(s)] + u
      <4>1. f[s] \in Int /\ <<s, f[s]>> \in SumOf(c)
        BY <1>1
      <4> HIDE DEF f
      <4> QED
        BY <2>2, <4>1, SumOfOnly
    <3>3. u = f[s \ {First(s)}]
      BY <1>1, <3>1, <3>2
    <3> HIDE DEF f
    <3> QED
      BY <2>2, <3>2, <3>3 DEF SumTurn
  <2> QED
    BY <2>1, <2>2
<1>3. f = [s \in SUBSET (DOMAIN c) |-> f[s]]
  <2> HIDE DEF value
  <2> QED
    OBVIOUS
<1>4. f = [s \in SUBSET (DOMAIN c) |-> SumTurn(c, f, s)]
  <2> HIDE DEF f
  <2> QED
    BY <1>2, <1>3
<1> QED
  BY <1>4 DEF Sums

(* One step of the fold, and what follows from it by adding an element. *)
SumRule(c, f) ==
  /\ f[{}] = 0
  /\ \A s \in SUBSET (DOMAIN c) : s # {} =>
       /\ First(s) \in s /\ First(s) \in DOMAIN c /\ c[First(s)] \in Int
       /\ s \ {First(s)} \in SUBSET (DOMAIN c)
       /\ f[s] = c[First(s)] + f[s \ {First(s)}]

LEMMA SumStep ==
  ASSUME NEW c, Amounts(c), NEW f, Sums(c, f)
  PROVE  SumRule(c, f)
<1>1. \A s \in SUBSET (DOMAIN c) : f[s] = SumTurn(c, f, s)
  BY DEF Sums
<1>2. f[{}] = 0
  BY <1>1 DEF SumTurn
<1>3. ASSUME NEW s \in SUBSET (DOMAIN c), s # {}
      PROVE  /\ First(s) \in s /\ First(s) \in DOMAIN c /\ c[First(s)] \in Int
             /\ s \ {First(s)} \in SUBSET (DOMAIN c)
             /\ f[s] = c[First(s)] + f[s \ {First(s)}]
  <2>1. First(s) \in s
    BY <1>3, FirstIn
  <2>2. c[First(s)] \in Int
    BY <2>1 DEF Amounts
  <2> QED
    BY <1>1, <1>3, <2>1, <2>2 DEF SumTurn
<1> QED
  BY <1>2, <1>3 DEF SumRule

LEMMA SumType ==
  ASSUME NEW c, Amounts(c), NEW f, Sums(c, f)
  PROVE  \A s \in SUBSET (DOMAIN c) : f[s] \in Int
<1> DEFINE Bad == {s \in SUBSET (DOMAIN c) : f[s] \notin Int}
<1>r. SumRule(c, f)
  BY SumStep
<1>1. SUFFICES ASSUME Bad # {} PROVE FALSE
  OBVIOUS
<1>2. PICK s \in Bad : \A x \in s : s \ {x} \notin Bad
  <2>1. Bad \in SUBSET (SUBSET (DOMAIN c)) /\ IsFiniteSet(DOMAIN c)
    BY DEF Amounts
  <2> HIDE DEF Bad
  <2> QED
    BY <1>1, <2>1, Smallest
<1>3. s \in SUBSET (DOMAIN c) /\ f[s] \notin Int
  OBVIOUS
<1>4. CASE s = {}
  BY <1>3, <1>4, <1>r DEF SumRule
<1>5. CASE s # {}
  <2>1. /\ First(s) \in s /\ c[First(s)] \in Int
        /\ s \ {First(s)} \in SUBSET (DOMAIN c) /\ f[s] = c[First(s)] + f[s \ {First(s)}]
    BY <1>3, <1>5, <1>r DEF SumRule
  <2>2. f[s \ {First(s)}] \in Int
    BY <1>2, <2>1
  <2> QED
    BY <1>3, <2>1, <2>2
<1> QED
  BY <1>4, <1>5

(* Larger amounts, larger sums. *)
LEMMA SumOrder ==
  ASSUME NEW c, Amounts(c), NEW f, Sums(c, f), NEW d, Amounts(d), NEW g, Sums(d, g),
         DOMAIN d = DOMAIN c, \A x \in DOMAIN c : c[x] <= d[x]
  PROVE  \A s \in SUBSET (DOMAIN c) :
           f[s] <= g[s] /\ ((\E x \in s : c[x] < d[x]) => f[s] < g[s])
<1> DEFINE P(s) == f[s] <= g[s] /\ ((\E x \in s : c[x] < d[x]) => f[s] < g[s])
           Bad == {s \in SUBSET (DOMAIN c) : ~P(s)}
<1>r. SumRule(c, f) /\ SumRule(d, g)
  BY SumStep
<1>1. SUFFICES ASSUME Bad # {} PROVE FALSE
  OBVIOUS
<1>2. PICK s \in Bad : \A x \in s : s \ {x} \notin Bad
  <2>1. Bad \in SUBSET (SUBSET (DOMAIN c)) /\ IsFiniteSet(DOMAIN c)
    BY DEF Amounts
  <2> HIDE DEF Bad
  <2> QED
    BY <1>1, <2>1, Smallest
<1>3. s # {}
  <2>1. f[{}] = 0 /\ g[{}] = 0
    BY <1>r DEF SumRule
  <2> QED
    BY <2>1
<1> DEFINE x == First(s)
           t == s \ {x}
<1>4. /\ x \in s /\ x \in DOMAIN c /\ t \in SUBSET (DOMAIN c)
      /\ c[x] \in Int /\ d[x] \in Int /\ c[x] <= d[x]
      /\ f[s] = c[x] + f[t] /\ g[s] = d[x] + g[t]
  BY <1>2, <1>3, <1>r DEF SumRule
<1>5. f[t] \in Int /\ g[t] \in Int
  BY <1>4, SumType
<1>6. P(t)
  BY <1>2, <1>4
<1>7. ASSUME NEW y \in s, c[y] < d[y] PROVE c[x] < d[x] \/ f[t] < g[t]
  <2>1. y = x \/ y \in t
    OBVIOUS
  <2> QED
    BY <1>6, <1>7, <2>1
<1> HIDE DEF x, t
<1>8. P(s)
  BY <1>4, <1>5, <1>6, <1>7
<1> QED
  BY <1>2, <1>8

LEMMA SumAdd ==
  ASSUME NEW c, Amounts(c), NEW f, Sums(c, f), NEW d, Amounts(d), NEW g, Sums(d, g),
         NEW e, Amounts(e), NEW h, Sums(e, h),
         DOMAIN d = DOMAIN c, DOMAIN e = DOMAIN c, \A x \in DOMAIN c : e[x] = c[x] + d[x]
  PROVE  \A s \in SUBSET (DOMAIN c) : h[s] = f[s] + g[s]
<1> DEFINE Bad == {s \in SUBSET (DOMAIN c) : h[s] # f[s] + g[s]}
<1>r. SumRule(c, f) /\ SumRule(d, g) /\ SumRule(e, h)
  BY SumStep
<1>1. SUFFICES ASSUME Bad # {} PROVE FALSE
  OBVIOUS
<1>2. PICK s \in Bad : \A x \in s : s \ {x} \notin Bad
  <2>1. Bad \in SUBSET (SUBSET (DOMAIN c)) /\ IsFiniteSet(DOMAIN c)
    BY DEF Amounts
  <2> HIDE DEF Bad
  <2> QED
    BY <1>1, <2>1, Smallest
<1>3. s # {}
  <2>1. f[{}] = 0 /\ g[{}] = 0 /\ h[{}] = 0
    BY <1>r DEF SumRule
  <2> QED
    BY <2>1
<1> DEFINE x == First(s)
           t == s \ {x}
<1>4. /\ x \in s /\ x \in DOMAIN c /\ t \in SUBSET (DOMAIN c)
      /\ c[x] \in Int /\ d[x] \in Int /\ e[x] = c[x] + d[x]
      /\ f[s] = c[x] + f[t] /\ g[s] = d[x] + g[t] /\ h[s] = e[x] + h[t]
  BY <1>2, <1>3, <1>r DEF SumRule
<1>5. f[t] \in Int /\ g[t] \in Int
  BY <1>4, SumType
<1>6. h[t] = f[t] + g[t]
  BY <1>2, <1>4
<1> HIDE DEF x, t
<1> QED
  BY <1>2, <1>4, <1>5, <1>6

(* One amount and nothing else. *)
LEMMA SumOne ==
  ASSUME NEW c, Amounts(c), NEW f, Sums(c, f), NEW a, NEW v \in Int,
         \A x \in DOMAIN c : c[x] = IF x = a THEN v ELSE 0
  PROVE  \A s \in SUBSET (DOMAIN c) : f[s] = IF a \in s THEN v ELSE 0
<1> DEFINE P(s) == f[s] = IF a \in s THEN v ELSE 0
           Bad == {s \in SUBSET (DOMAIN c) : ~P(s)}
<1>r. SumRule(c, f)
  BY SumStep
<1>1. SUFFICES ASSUME Bad # {} PROVE FALSE
  OBVIOUS
<1>2. PICK s \in Bad : \A x \in s : s \ {x} \notin Bad
  <2>1. Bad \in SUBSET (SUBSET (DOMAIN c)) /\ IsFiniteSet(DOMAIN c)
    BY DEF Amounts
  <2> HIDE DEF Bad
  <2> QED
    BY <1>1, <2>1, Smallest
<1>3. s # {}
  BY <1>2, <1>r DEF SumRule
<1> DEFINE x == First(s)
           t == s \ {x}
<1>4. /\ x \in s /\ x \in DOMAIN c /\ t \in SUBSET (DOMAIN c)
      /\ c[x] = (IF x = a THEN v ELSE 0) /\ f[s] = c[x] + f[t]
  BY <1>2, <1>3, <1>r DEF SumRule
<1>5. f[t] = IF a \in t THEN v ELSE 0
  BY <1>2, <1>4
<1>6. a \in t <=> a \in s /\ a # x
  OBVIOUS
<1> HIDE DEF x, t
<1>7. P(s)
  BY <1>4, <1>5, <1>6
<1> QED
  BY <1>2, <1>7

(* Amounts between -k and k. *)
LEMMA SumBound ==
  ASSUME NEW c, Amounts(c), NEW f, Sums(c, f), NEW k \in Nat,
         \A x \in DOMAIN c : c[x] <= k /\ 0 - k <= c[x]
  PROVE  \A s \in SUBSET (DOMAIN c) :
           f[s] <= k * Cardinality(s) /\ 0 - k * Cardinality(s) <= f[s]
<1> DEFINE P(s) == f[s] <= k * Cardinality(s) /\ 0 - k * Cardinality(s) <= f[s]
           Bad == {s \in SUBSET (DOMAIN c) : ~P(s)}
<1>r. SumRule(c, f)
  BY SumStep
<1>1. SUFFICES ASSUME Bad # {} PROVE FALSE
  OBVIOUS
<1>2. PICK s \in Bad : \A x \in s : s \ {x} \notin Bad
  <2>1. Bad \in SUBSET (SUBSET (DOMAIN c)) /\ IsFiniteSet(DOMAIN c)
    BY DEF Amounts
  <2> HIDE DEF Bad
  <2> QED
    BY <1>1, <2>1, Smallest
<1>3. IsFiniteSet(s)
  BY <1>2, FS_Subset DEF Amounts
<1>4. s # {}
  <2>1. f[{}] = 0 /\ Cardinality({}) = 0
    BY <1>r, FS_EmptySet DEF SumRule
  <2>2. k * 0 = 0
    OBVIOUS
  <2>3. P({})
    BY <2>1, <2>2
  <2> QED
    BY <2>3
<1> DEFINE x == First(s)
           t == s \ {x}
<1>5. /\ x \in s /\ x \in DOMAIN c /\ t \in SUBSET (DOMAIN c)
      /\ c[x] \in Int /\ c[x] <= k /\ 0 - k <= c[x] /\ f[s] = c[x] + f[t]
  BY <1>2, <1>4, <1>r DEF SumRule
<1>6. f[t] \in Int /\ P(t)
  BY <1>2, <1>5, SumType
<1>7. Cardinality(s) \in Nat /\ Cardinality(t) = Cardinality(s) - 1
  BY <1>3, <1>5, FS_RemoveElement, FS_CardinalityType
<1> HIDE DEF x, t
<1>8. \A n \in Nat : k * (n - 1) + k = k * n
  OBVIOUS
<1>9. k * Cardinality(t) \in Int /\ k * Cardinality(s) = k * Cardinality(t) + k
  BY <1>7, <1>8
<1>10. P(s)
  BY <1>5, <1>6, <1>9
<1> QED
  BY <1>2, <1>10

(* The fold of the community modules. *)
LEMMA TotalSum ==
  ASSUME NEW c, Amounts(c)
  PROVE  \E f : Sums(c, f) /\ Total(c) = f[DOMAIN c]
<1> DEFINE f == CHOOSE g : g = [s \in SUBSET (DOMAIN c) |->
                                  IF s = {} THEN 0
                                  ELSE LET x == CHOOSE y \in s : TRUE IN c[x] + g[s \ {x}]]
<1>1. Total(c) = f[DOMAIN c]
  BY DEF Total, MapThenSumSet, MapThenFoldSet
<1>2. Sums(c, CHOOSE g : Sums(c, g))
  BY SumsExist
<1>3. f = CHOOSE g : Sums(c, g)
  BY DEF Sums, SumTurn, First
<1> QED
  BY <1>1, <1>2, <1>3

-----------------------------------------------------------------------------
(* The cost table.  Every answer is the one to some request. *)

AnswersRequest == answer = Null \/ \E pv \in Request : answer = Compute_bmp_pv(pv)

LEMMA AnswersRequestStep ==
  AnswersRequest /\ [CostTableNext]_answer => AnswersRequest'
BY DEF CostTableNext, CalculateNpv, AnswersRequest

LEMMA AnsweredAlways == CostTableSpec => []AnswersRequest
<1>1. CostTableInit => AnswersRequest
  BY DEF CostTableInit, AnswersRequest
<1>2. AnswersRequest /\ [CostTableNext]_answer => AnswersRequest'
  BY AnswersRequestStep
<1> QED
  BY <1>1, <1>2, PTL DEF CostTableSpec

LEMMA YearsOf ==
  ASSUME NEW pv \in Request
  PROVE  /\ InstallYear(pv) \in Nat /\ pv.cost_basis_year \in Nat
         /\ pv.capital_cost \in Nat /\ pv.om_cost_per_yr \in Nat
         /\ pv.planning_horizon_yrs \in Nat
         /\ Earlier(pv) \in Nat /\ Later(pv) \in Nat /\ EndYear(pv) \in Nat
         /\ Earlier(pv) <= InstallYear(pv) /\ InstallYear(pv) <= Later(pv)
         /\ Earlier(pv) <= Later(pv) /\ pv.cost_basis_year <= Later(pv)
         /\ EndYear(pv) = Later(pv) + pv.planning_horizon_yrs + 1
<1>1. /\ pv.cost_basis_year \in Nat /\ pv.install_year \in Nat \union {Null}
      /\ pv.capital_cost \in Nat /\ pv.om_cost_per_yr \in Nat
      /\ pv.planning_horizon_yrs \in Nat
  BY CostTableAssumption
<1>2. InstallYear(pv) \in Nat
  BY <1>1 DEF InstallYear, Default
<1> QED
  BY <1>1, <1>2 DEF Earlier, Later, EndYear

(* What is paid in each year for maintenance and for the installation. *)
LEMMA CostsOf ==
  ASSUME NEW pv \in Request
  PROVE  /\ Amounts(MaintenanceCosts(pv)) /\ DOMAIN MaintenanceCosts(pv) = Years(pv)
         /\ Amounts(CapitalCosts(pv)) /\ DOMAIN CapitalCosts(pv) = Years(pv)
<1>1. IsFiniteSet(Years(pv)) /\ Years(pv) \subseteq Nat
  <2>1. Earlier(pv) \in Nat /\ EndYear(pv) - 1 \in Int
    BY YearsOf
  <2> QED
    BY <2>1, FS_Interval DEF Years
<1>2. ASSUME NEW y \in Years(pv) PROVE Replacement(pv, y) \in Nat
  <2>1. pv.replacement_cost \in Nat \union {Null}
    BY CostTableAssumption
  <2>2. Default(pv.replacement_cost, 0) \in Nat
    BY <2>1 DEF Default
  <2> QED
    BY <2>2 DEF Replacement
<1>3. ASSUME NEW y \in Years(pv)
      PROVE  MaintenanceCosts(pv)[y] \in Int /\ CapitalCosts(pv)[y] \in Int
  BY <1>2, YearsOf DEF MaintenanceCosts, CapitalCosts
<1>4. /\ DOMAIN MaintenanceCosts(pv) = Years(pv) /\ DOMAIN CapitalCosts(pv) = Years(pv)
      /\ MaintenanceCosts(pv) \in [Years(pv) -> Int]
      /\ CapitalCosts(pv) \in [Years(pv) -> Int]
  BY <1>3 DEF MaintenanceCosts, CapitalCosts
<1> QED
  BY <1>1, <1>3, <1>4 DEF Amounts

(* The fold of a list of amounts, for lists that add up by year. *)
LEMMA TotalAdds ==
  ASSUME NEW c, Amounts(c), NEW d, Amounts(d), NEW e,
         DOMAIN d = DOMAIN c, e = [x \in DOMAIN c |-> c[x] + d[x]]
  PROVE  Total(e) = Total(c) + Total(d)
<1>1. /\ DOMAIN e = DOMAIN c /\ Amounts(e)
      /\ \A x \in DOMAIN c : e[x] = c[x] + d[x]
  BY DEF Amounts
<1>2. PICK f : Sums(c, f) /\ Total(c) = f[DOMAIN c]
  BY TotalSum
<1>3. PICK g : Sums(d, g) /\ Total(d) = g[DOMAIN d]
  BY TotalSum
<1>4. PICK h : Sums(e, h) /\ Total(e) = h[DOMAIN e]
  BY <1>1, TotalSum
<1>5. \A s \in SUBSET (DOMAIN c) : h[s] = f[s] + g[s]
  BY <1>1, <1>2, <1>3, <1>4, SumAdd
<1> QED
  BY <1>1, <1>2, <1>3, <1>4, <1>5

LEMMA TotalOne ==
  ASSUME NEW c, Amounts(c), NEW a \in DOMAIN c, NEW v \in Int,
         \A x \in DOMAIN c : c[x] = IF x = a THEN v ELSE 0
  PROVE  Total(c) = v
<1>1. PICK f : Sums(c, f) /\ Total(c) = f[DOMAIN c]
  BY TotalSum
<1>2. \A s \in SUBSET (DOMAIN c) : f[s] = IF a \in s THEN v ELSE 0
  BY <1>1, SumOne
<1> QED
  BY <1>1, <1>2

LEMMA TotalInt ==
  ASSUME NEW c, Amounts(c)
  PROVE  Total(c) \in Int
<1>1. PICK f : Sums(c, f) /\ Total(c) = f[DOMAIN c]
  BY TotalSum
<1>2. \A s \in SUBSET (DOMAIN c) : f[s] \in Int
  BY <1>1, SumType
<1> QED
  BY <1>1, <1>2

LEMMA AnswersAddUp == AnswersRequest => TableAddsUp
<1>1. ASSUME NEW pv \in Request, answer = Compute_bmp_pv(pv)
      PROVE  answer.total = Total([y \in DOMAIN answer.table |-> answer.table[y].total])
  <2> DEFINE om == MaintenanceCosts(pv)
             capital == CapitalCosts(pv)
             both == [y \in Years(pv) |-> om[y] + capital[y]]
  <2>1. answer.total = pv.capital_cost + Total(om)
    BY <1>1 DEF Compute_bmp_pv
  <2>2. [y \in DOMAIN answer.table |-> answer.table[y].total] = both
    BY <1>1 DEF Compute_bmp_pv
  <2>3. /\ Amounts(om) /\ DOMAIN om = Years(pv)
        /\ Amounts(capital) /\ DOMAIN capital = Years(pv)
    BY CostsOf
  <2>4. /\ InstallYear(pv) \in Years(pv) /\ pv.capital_cost \in Int
        /\ \A y \in Years(pv) :
             capital[y] = IF y = InstallYear(pv) THEN pv.capital_cost ELSE 0
    <3>1. InstallYear(pv) \in Years(pv)
      BY YearsOf DEF Years
    <3> QED
      BY <3>1, YearsOf DEF CapitalCosts
  <2> HIDE DEF om, capital
  <2>5. Total(capital) = pv.capital_cost
    BY <2>3, <2>4, TotalOne
  <2>6. Total(both) = Total(om) + Total(capital)
    BY <2>3, TotalAdds
  <2>7. Total(om) \in Int
    BY <2>3, TotalInt
  <2> QED
    BY <2>1, <2>2, <2>4, <2>5, <2>6, <2>7
<1> QED
  BY <1>1 DEF AnswersRequest, TableAddsUp

(* The table of every answer of calculate_npv adds up to the total next to
   it: compute_bmp_pv leaves no cost out of the years of the table.        *)
THEOREM AddsUp == CostTableSpec => []TableAddsUp
BY AnswersAddUp, AnsweredAlways, PTL

(* A remainder of zero is a whole number of lifespans. *)
LEMMA Multiples ==
  ASSUME NEW a \in Nat, NEW l \in Nat \ {0}
  PROVE  a > 0 /\ a % l = 0 <=> \E n \in Nat \ {0} : a = n * l
<1>1. a = l * (a \div l) + (a % l) /\ a % l \in 0..(l - 1) /\ a \div l \in Int
  OBVIOUS
<1>2. ASSUME a > 0, a % l = 0 PROVE \E n \in Nat \ {0} : a = n * l
  <2>1. a = (a \div l) * l
    BY <1>1, <1>2
  <2>2. a \div l \in Nat \ {0}
    BY <1>1, <1>2, <2>1
  <2> QED
    BY <2>1, <2>2
<1>3. ASSUME NEW n \in Nat \ {0}, a = n * l PROVE a > 0 /\ a % l = 0
  BY <1>3
<1> QED
  BY <1>2, <1>3

LEMMA AnswersMaintained == AnswersRequest => MaintainedAfterInstallation
<1>1. ASSUME NEW pv \in Request, answer = Compute_bmp_pv(pv)
      PROVE  MaintainedAfterInstallation
  <2> DEFINE charged == {y \in DOMAIN answer.table :
                           y >= InstallYear(pv) /\ y >= pv.cost_basis_year}
             worn == {y \in charged : pv.lifespan_yrs # Null
                        /\ \E n \in 1..y : y = InstallYear(pv) + n * pv.lifespan_yrs}
             cost == Default(pv.replacement_cost, 0)
  <2>0. /\ InstallYear(pv) \in Nat /\ pv.cost_basis_year \in Nat /\ Later(pv) \in Nat
        /\ InstallYear(pv) <= Later(pv) /\ pv.cost_basis_year <= Later(pv)
        /\ Later(pv) \in {InstallYear(pv), pv.cost_basis_year}
        /\ pv.om_cost_per_yr \in Nat /\ EndYear(pv) \in Nat /\ Earlier(pv) \in Nat
        /\ Earlier(pv) <= Later(pv) /\ pv.planning_horizon_yrs \in Nat
        /\ EndYear(pv) = Later(pv) + pv.planning_horizon_yrs + 1
    BY YearsOf DEF Later
  <2>1. /\ answer.request = pv /\ DOMAIN answer.table = Years(pv)
        /\ \A y \in Years(pv) : answer.table[y].om = MaintenanceCosts(pv)[y]
    BY <1>1 DEF Compute_bmp_pv
  <2>2. charged = Later(pv) .. EndYear(pv) - 1
    BY <2>0, <2>1 DEF Years
  <2>3. Cardinality(charged) = pv.planning_horizon_yrs + 1
    <3>1. /\ Later(pv) \in Int /\ EndYear(pv) - 1 \in Int
          /\ ~(Later(pv) > EndYear(pv) - 1)
          /\ EndYear(pv) - 1 - Later(pv) + 1 = pv.planning_horizon_yrs + 1
      BY <2>0
    <3> QED
      BY <2>2, <3>1, FS_Interval
  <2>4. ASSUME NEW y \in Years(pv)
        PROVE  answer.table[y].om = (IF y \in charged THEN pv.om_cost_per_yr ELSE 0)
                                    + (IF y \in worn THEN cost ELSE 0)
    <3>1. y \in Nat /\ y <= EndYear(pv) - 1 /\ (y \in charged <=> InHorizon(pv, y))
      BY <2>0, <2>2 DEF Years, InHorizon
    <3>2. answer.table[y].om =
            IF y \in charged THEN pv.om_cost_per_yr + Replacement(pv, y) ELSE 0
      BY <2>1, <3>1 DEF MaintenanceCosts
    <3>3. cost \in Nat
      BY CostTableAssumption DEF Default
    <3>4. CASE y \notin charged
      BY <3>2, <3>4
    <3>5. CASE y \in charged
      <4>1. Replacement(pv, y) = IF y \in worn THEN cost ELSE 0
        <5>1. CASE pv.lifespan_yrs = Null
          BY <5>1 DEF Replacement
        <5>2. CASE pv.lifespan_yrs # Null
          <6> DEFINE age == y - InstallYear(pv)
                     l == pv.lifespan_yrs
          <6>1. l \in Nat \ {0}
            BY <5>2, CostTableAssumption
          <6>2. age \in Nat /\ age <= y /\ y = InstallYear(pv) + age
            BY <2>0, <2>2, <3>1, <3>5
          <6>3. y \in worn <=> \E n \in 1..y : y = InstallYear(pv) + n * l
            BY <3>5, <5>2
          <6>4. Replacement(pv, y) = IF age > 0 /\ age % l = 0 THEN cost ELSE 0
            BY <5>2 DEF Replacement
          <6> HIDE DEF age, l, worn, cost, charged
          <6>5. \A n \in Nat \ {0} : age = n * l => n \in 1..y
            <7>1. ASSUME NEW n \in Nat \ {0}, age = n * l PROVE n <= age
              BY <6>1, <7>1
            <7> QED
              BY <3>1, <6>2, <7>1
          <6>6. (\E n \in 1..y : y = InstallYear(pv) + n * l)
                  <=> \E n \in Nat \ {0} : age = n * l
            <7>1. ASSUME NEW n \in Nat \ {0}
                  PROVE  n * l \in Nat /\ (age = n * l <=> y = InstallYear(pv) + n * l)
              <8>1. n * l \in Nat
                BY <6>1
              <8> QED
                BY <2>0, <6>2, <8>1
            <7>2. \A n \in 1..y : n \in Nat \ {0}
              OBVIOUS
            <7> QED
              BY <6>5, <7>1, <7>2
          <6> QED
            BY <6>1, <6>2, <6>3, <6>4, <6>6, Multiples
        <5> QED
          BY <5>1, <5>2
      <4> QED
        BY <2>0, <3>2, <3>3, <3>5, <4>1
    <3> QED
      BY <3>4, <3>5
  <2> QED
    BY <2>1, <2>3, <2>4 DEF MaintainedAfterInstallation
<1> QED
  BY <1>1 DEF AnswersRequest, MaintainedAfterInstallation

(* compute_bmp_om_pv charges maintenance for as many years as the horizon
   has, none of them before the facility exists or before the present, and
   the replacement in those where some number of lifespans is over.        *)
THEOREM Maintained == CostTableSpec => []MaintainedAfterInstallation
BY AnswersMaintained, AnsweredAlways, PTL

-----------------------------------------------------------------------------
(* The ranking.  m is a table of the view. *)
Table == [Ranked -> [Criterion -> Level \union {NaN}]]

(* A subbasin that is as good as another by a criterion is preferred to as
   many, and as few are preferred to it.                                   *)
LEMMA FlowOrder ==
  ASSUME NEW m \in Table, NEW k \in Criterion, NEW direction \in {-1, 1},
         NEW a \in Ranked, NEW b \in Ranked, m[a][k] # NaN, m[b][k] # NaN,
         direction * m[a][k] >= direction * m[b][k]
  PROVE  /\ Flow(m, direction, k, a) >= Flow(m, direction, k, b)
         /\ direction * m[a][k] > direction * m[b][k] =>
              Flow(m, direction, k, a) > Flow(m, direction, k, b)
<1> DEFINE above(r) == {s \in Ranked : Preferred(m[r][k], m[s][k], direction)}
           below(r) == {s \in Ranked : Preferred(m[s][k], m[r][k], direction)}
<1>1. /\ m[a][k] \in Int /\ m[b][k] \in Int
      /\ \A s \in Ranked : m[s][k] # NaN => m[s][k] \in Int
  BY PrioritizationAssumption DEF Table
<1>2. \A s \in Ranked : m[s][k] # NaN => direction * m[s][k] \in Int
  BY <1>1
<1>3. above(b) \subseteq above(a) /\ below(a) \subseteq below(b)
  BY <1>1, <1>2 DEF Preferred
<1>4. /\ IsFiniteSet(above(a)) /\ IsFiniteSet(above(b))
      /\ IsFiniteSet(below(a)) /\ IsFiniteSet(below(b))
  BY PrioritizationAssumption, FS_Subset
<1>5. \A r \in Ranked : Flow(m, direction, k, r) = Cardinality(above(r)) - Cardinality(below(r))
  BY DEF Flow, Table
<1>6. ASSUME direction * m[a][k] > direction * m[b][k]
      PROVE  b \in above(a) /\ b \notin above(b)
  BY <1>2, <1>6 DEF Preferred
<1> HIDE DEF above, below
<1>7. /\ Cardinality(above(a)) \in Nat /\ Cardinality(above(b)) \in Nat
      /\ Cardinality(below(a)) \in Nat /\ Cardinality(below(b)) \in Nat
  BY <1>4, FS_CardinalityType
<1>8. /\ Cardinality(above(b)) <= Cardinality(above(a))
      /\ Cardinality(below(a)) <= Cardinality(below(b))
      /\ Cardinality(above(a)) = Cardinality(above(b)) => above(a) = above(b)
  BY <1>3, <1>4, FS_Subset
<1> QED
  BY <1>5, <1>6, <1>7, <1>8

LEMMA FlowBound ==
  ASSUME NEW m \in Table, NEW k \in Criterion, NEW direction \in {-1, 1}, NEW r \in Ranked
  PROVE  /\ Cardinality(Ranked) \in Nat /\ Flow(m, direction, k, r) \in Int
         /\ Flow(m, direction, k, r) <= Cardinality(Ranked)
         /\ 0 - Cardinality(Ranked) <= Flow(m, direction, k, r)
<1> DEFINE above == {s \in Ranked : Preferred(m[r][k], m[s][k], direction)}
           below == {s \in Ranked : Preferred(m[s][k], m[r][k], direction)}
<1>1. IsFiniteSet(Ranked) /\ above \subseteq Ranked /\ below \subseteq Ranked
  BY PrioritizationAssumption
<1>2. Flow(m, direction, k, r) = Cardinality(above) - Cardinality(below)
  BY DEF Flow, Table
<1> HIDE DEF above, below
<1>3. /\ Cardinality(above) <= Cardinality(Ranked) /\ Cardinality(below) <= Cardinality(Ranked)
      /\ IsFiniteSet(above) /\ IsFiniteSet(below)
  BY <1>1, FS_Subset
<1>4. Cardinality(above) \in Nat /\ Cardinality(below) \in Nat /\ Cardinality(Ranked) \in Nat
  BY <1>1, <1>3, FS_CardinalityType
<1> QED
  BY <1>2, <1>3, <1>4

(* What each criterion adds to the flow of a subbasin. *)
ByCriterion(m, weights, directions, r) ==
  [k \in Criterion |-> weights[k] * Flow(m, directions[k], k, r)]

LEMMA PartsAmounts ==
  ASSUME NEW m \in Table, NEW weights \in [Criterion -> Weight],
         NEW directions \in [Criterion -> {-1, 1}], NEW r \in Ranked
  PROVE  /\ Amounts(ByCriterion(m, weights, directions, r))
         /\ DOMAIN ByCriterion(m, weights, directions, r) = Criterion
         /\ \A k \in Criterion : weights[k] \in Nat
<1>1. \A k \in Criterion : weights[k] \in Nat /\ Flow(m, directions[k], k, r) \in Int
  BY PrioritizationAssumption, FlowBound
<1>2. \A k \in Criterion : weights[k] * Flow(m, directions[k], k, r) \in Int
  BY <1>1
<1> QED
  BY <1>1, <1>2, PrioritizationAssumption DEF ByCriterion, Amounts

(* The fold of NetFlow is a sum of these parts. *)
LEMMA NetFlowSum ==
  ASSUME NEW m \in Table, NEW weights \in [Criterion -> Weight],
         NEW directions \in [Criterion -> {-1, 1}], NEW r \in Ranked
  PROVE  \E f : /\ Sums(ByCriterion(m, weights, directions, r), f)
                /\ NetFlow(m, weights, directions)[r] = f[Criterion]
<1> DEFINE c == ByCriterion(m, weights, directions, r)
           turns(g) == [s \in SUBSET Criterion |->
                          IF s = {} THEN 0
                          ELSE LET x == CHOOSE y \in s : TRUE
                               IN  weights[x] * Flow(m, directions[x], x, r) + g[s \ {x}]]
           f == CHOOSE g : g = turns(g)
<1>1. NetFlow(m, weights, directions)[r] = f[Criterion]
  <2>1. DOMAIN m = Ranked /\ DOMAIN weights = Criterion
    BY DEF Table
  <2> QED
    BY <2>1 DEF NetFlow, MapThenSumSet, MapThenFoldSet
<1>2. ASSUME NEW g
      PROVE  turns(g) = [s \in SUBSET Criterion |-> SumTurn(c, g, s)]
  <2>1. ASSUME NEW s \in SUBSET Criterion, s # {}
        PROVE  c[First(s)] = weights[First(s)] * Flow(m, directions[First(s)], First(s), r)
    BY <2>1, FirstIn DEF ByCriterion
  <2> HIDE DEF c
  <2> QED
    BY <2>1 DEF SumTurn, First
<1>3. DOMAIN c = Criterion
  BY PartsAmounts
<1>4. PICK g : Sums(c, g)
  BY PartsAmounts, SumsExist
<1>5. g = turns(g)
  BY <1>2, <1>3, <1>4 DEF Sums
<1>6. f = turns(f)
  <2> HIDE DEF turns
  <2> QED
    BY <1>5
<1>7. Sums(c, f)
  <2> HIDE DEF turns, f, c
  <2> QED
    BY <1>2, <1>3, <1>6 DEF Sums
<1> QED
  BY <1>1, <1>7

(* Some subbasin has the least flow, and some the greatest. *)
LEMMA LeastFlow ==
  ASSUME NEW R, IsFiniteSet(R), R # {}, NEW flow \in [R -> Int]
  PROVE  \E r \in R : \A q \in R : flow[r] <= flow[q]
<1> DEFINE P(s) == s # {} => \E r \in s : \A q \in s : flow[r] <= flow[q]
           Bad == {s \in SUBSET R : ~P(s)}
<1>1. SUFFICES ASSUME Bad # {} PROVE FALSE
  OBVIOUS
<1>2. PICK s \in Bad : \A x \in s : s \ {x} \notin Bad
  <2>1. Bad \in SUBSET (SUBSET R)
    OBVIOUS
  <2> HIDE DEF Bad
  <2> QED
    BY <1>1, <2>1, Smallest
<1>3. PICK x \in s : TRUE
  OBVIOUS
<1>4. P(s \ {x}) /\ \A q \in s : flow[q] \in Int
  BY <1>2, <1>3
<1>5. CASE s \ {x} = {}
  <2>1. \A q \in s : q = x
    BY <1>5
  <2>2. P(s)
    BY <1>3, <1>4, <2>1
  <2> QED
    BY <2>2
<1>6. CASE s \ {x} # {}
  <2>1. PICK r \in s \ {x} : \A q \in s \ {x} : flow[r] <= flow[q]
    BY <1>4, <1>6
  <2>2. \A q \in s : q = x \/ q \in s \ {x}
    OBVIOUS
  <2>3. CASE flow[r] <= flow[x]
    <3>1. r \in s /\ \A q \in s : flow[r] <= flow[q]
      BY <2>1, <2>2, <2>3
    <3> QED
      BY <3>1
  <2>4. CASE ~(flow[r] <= flow[x])
    <3>1. \A q \in s : flow[x] <= flow[q]
      BY <1>3, <1>4, <2>1, <2>2, <2>4
    <3> QED
      BY <1>3, <3>1
  <2> QED
    BY <2>3, <2>4
<1> QED
  BY <1>5, <1>6

LEMMA Extremes ==
  ASSUME NEW R, IsFiniteSet(R), R # {}, NEW flow \in [R -> Int]
  PROVE  /\ \E r \in R : Min(Range(flow)) = flow[r] /\ \A q \in R : flow[r] <= flow[q]
         /\ \E r \in R : Max(Range(flow)) = flow[r] /\ \A q \in R : flow[q] <= flow[r]
<1>1. Range(flow) = {flow[q] : q \in R}
  BY DEF Range
<1>2. PICK r \in R : \A q \in R : flow[r] <= flow[q]
  BY LeastFlow
<1>3. PICK h \in R : \A q \in R : flow[q] <= flow[h]
  <2> DEFINE negated == [q \in R |-> 0 - flow[q]]
  <2>1. negated \in [R -> Int]
    OBVIOUS
  <2>2. PICK h \in R : \A q \in R : negated[h] <= negated[q]
    <3> HIDE DEF negated
    <3> QED
      BY <2>1, LeastFlow
  <2>3. \A q \in R : flow[q] <= flow[h]
    BY <2>2
  <2> QED
    BY <2>3
<1>4. Min(Range(flow)) = flow[r]
  <2>1. \A y \in Range(flow) : flow[r] <= y
    BY <1>1, <1>2
  <2>2. flow[r] \in Range(flow)
    BY <1>1
  <2>3. \A x \in Range(flow) : (\A y \in Range(flow) : x <= y) => x = flow[r]
    BY <1>1, <2>1, <2>2
  <2> QED
    BY <2>1, <2>2, <2>3 DEF Min
<1>5. Max(Range(flow)) = flow[h]
  <2>1. \A y \in Range(flow) : flow[h] >= y
    BY <1>1, <1>3
  <2>2. flow[h] \in Range(flow)
    BY <1>1
  <2>3. \A x \in Range(flow) : (\A y \in Range(flow) : x >= y) => x = flow[h]
    BY <1>1, <2>1, <2>2
  <2> QED
    BY <2>1, <2>2, <2>3 DEF Max
<1> QED
  BY <1>2, <1>3, <1>4, <1>5

(* Rounding down keeps the order, and tells apart what is a unit apart. *)
LEMMA DivOrder ==
  ASSUME NEW x \in Int, NEW y \in Int, NEW w \in Nat \ {0}, x >= y
  PROVE  /\ x \div w \in Int /\ y \div w \in Int
         /\ x \div w >= y \div w
         /\ x >= y + w => x \div w > y \div w
<1> DEFINE p == x \div w
           q == y \div w
<1>1. p \in Int /\ q \in Int
  OBVIOUS
<1>2. w * p <= x /\ x < w * p + w /\ w * q <= y /\ y < w * q + w
  OBVIOUS
<1> HIDE DEF p, q
<1>3. \A i, j \in Int : i < j => w * i + w <= w * j
  <2> SUFFICES ASSUME NEW i \in Int, NEW j \in Int, i < j PROVE w * i + w <= w * j
    OBVIOUS
  <2>1. w * (j - i - 1) >= 0
    OBVIOUS
  <2>2. w * (j - i - 1) = w * j - w * i - w
    OBVIOUS
  <2> QED
    BY <2>1, <2>2
<1>4. w * p \in Int /\ w * q \in Int
  BY <1>1
<1>5. p >= q
  BY <1>1, <1>2, <1>3, <1>4
<1>6. ASSUME x >= y + w PROVE p > q
  <2>1. p # q
    BY <1>2, <1>4, <1>6
  <2> QED
    BY <1>1, <1>5, <2>1
<1> QED
  BY <1>1, <1>5, <1>6 DEF p, q

(* Scores are in the order of flows; different flows get different scores
   when the flows are no further apart than a score has steps.             *)
LEMMA ScoreOrder ==
  ASSUME NEW flow \in [Ranked -> Int], NEW a \in Ranked, NEW b \in Ranked,
         flow[a] >= flow[b]
  PROVE  /\ Normalized(flow)[a] >= Normalized(flow)[b]
         /\ flow[a] > flow[b] /\ (\A r, q \in Ranked : flow[r] - flow[q] <= 100000)
              => Normalized(flow)[a] > Normalized(flow)[b]
<1> DEFINE low == Min(Range(flow))
           width == Max(Range(flow)) - low
<1>1. PICK r \in Ranked : low = flow[r] /\ \A q \in Ranked : flow[r] <= flow[q]
  BY PrioritizationAssumption, Extremes
<1>2. PICK h \in Ranked :
        Max(Range(flow)) = flow[h] /\ \A q \in Ranked : flow[q] <= flow[h]
  BY PrioritizationAssumption, Extremes
<1>3. /\ low \in Int /\ width \in Nat /\ width = flow[h] - flow[r]
      /\ flow[a] - flow[b] <= width /\ flow[a] \in Int /\ flow[b] \in Int
  BY <1>1, <1>2
<1>4. \A q \in {a, b} :
        Normalized(flow)[q] = IF width = 0 THEN 100000 ELSE (100000 * (flow[q] - low)) \div width
  BY DEF Normalized
<1> HIDE DEF low, width
<1>5. CASE width = 0
  BY <1>3, <1>4, <1>5
<1>6. CASE width # 0
  <2> DEFINE x == 100000 * (flow[a] - low)
             y == 100000 * (flow[b] - low)
  <2>1. x \in Int /\ y \in Int /\ x >= y /\ width \in Nat \ {0}
    BY <1>3, <1>6
  <2>2. flow[a] > flow[b] /\ width <= 100000 => x >= y + width
    BY <1>3
  <2>3. /\ Normalized(flow)[a] = x \div width
        /\ Normalized(flow)[b] = y \div width
    BY <1>4, <1>6
  <2> HIDE DEF x, y
  <2>4. /\ x \div width >= y \div width
        /\ x >= y + width => x \div width > y \div width
    BY <2>1, DivOrder
  <2> QED
    BY <1>3, <2>2, <2>3, <2>4
<1> QED
  BY <1>5, <1>6

(* a is nowhere worse than b by what counts in a request. *)
AsGood(m, weights, directions, a, b) ==
  \A k \in Criterion : weights[k] > 0 =>
    /\ m[a][k] # NaN /\ m[b][k] # NaN
    /\ directions[k] * m[a][k] >= directions[k] * m[b][k]

LEMMA NetFlowOrder ==
  ASSUME NEW m \in Table, NEW weights \in [Criterion -> Weight],
         NEW directions \in [Criterion -> {-1, 1}], NEW a \in Ranked, NEW b \in Ranked,
         AsGood(m, weights, directions, a, b)
  PROVE  LET net == NetFlow(m, weights, directions)
         IN  /\ net \in [Ranked -> Int] /\ net[a] >= net[b]
             /\ ~AsGood(m, weights, directions, b, a) => net[a] > net[b]
<1> DEFINE net == NetFlow(m, weights, directions)
           parts(r) == ByCriterion(m, weights, directions, r)
           flow(k, r) == Flow(m, directions[k], k, r)
<1>1. net \in [Ranked -> Int]
  <2>1. ASSUME NEW r \in Ranked PROVE net[r] \in Int
    <3>1. PICK f : Sums(parts(r), f) /\ net[r] = f[Criterion]
      BY NetFlowSum
    <3>2. Amounts(parts(r)) /\ DOMAIN parts(r) = Criterion
      BY PartsAmounts
    <3> HIDE DEF parts, net
    <3> QED
      BY <3>1, <3>2, SumType
  <2>2. net = [r \in Ranked |-> net[r]]
    BY DEF NetFlow, Table
  <2> HIDE DEF net
  <2> QED
    BY <2>1, <2>2
<1>2. ASSUME NEW k \in Criterion
      PROVE  /\ parts(b)[k] <= parts(a)[k]
             /\ (weights[k] > 0 /\ directions[k] * m[a][k] > directions[k] * m[b][k])
                  => parts(b)[k] < parts(a)[k]
  <2>1. /\ weights[k] \in Nat /\ flow(k, a) \in Int /\ flow(k, b) \in Int
        /\ parts(a)[k] = weights[k] * flow(k, a) /\ parts(b)[k] = weights[k] * flow(k, b)
    BY PartsAmounts, FlowBound DEF ByCriterion
  <2>2. weights[k] > 0 =>
          /\ flow(k, a) >= flow(k, b)
          /\ directions[k] * m[a][k] > directions[k] * m[b][k] => flow(k, a) > flow(k, b)
    BY FlowOrder DEF AsGood
  <2> HIDE DEF parts, flow
  <2>3. \A w \in Nat : \A i, j \in Int :
          /\ i >= j => w * i >= w * j
          /\ w > 0 /\ i > j => w * i > w * j
          /\ w = 0 => w * i = 0
    OBVIOUS
  <2>4. CASE weights[k] = 0
    BY <2>1, <2>3, <2>4
  <2>5. CASE weights[k] > 0
    BY <2>1, <2>2, <2>3, <2>5
  <2> QED
    BY <2>1, <2>4, <2>5
<1>3. ASSUME ~AsGood(m, weights, directions, b, a)
      PROVE  \E k \in Criterion : parts(b)[k] < parts(a)[k]
  <2>1. PICK k \in Criterion :
          /\ weights[k] > 0
          /\ ~(/\ m[b][k] # NaN /\ m[a][k] # NaN
               /\ directions[k] * m[b][k] >= directions[k] * m[a][k])
    BY <1>3 DEF AsGood
  <2>2. m[a][k] # NaN /\ m[b][k] # NaN
    BY <2>1 DEF AsGood
  <2>3. m[a][k] \in Int /\ m[b][k] \in Int /\ directions[k] \in {-1, 1}
    BY <2>2, PrioritizationAssumption DEF Table
  <2>4. directions[k] * m[a][k] > directions[k] * m[b][k]
    BY <2>1, <2>2, <2>3
  <2> QED
    BY <1>2, <2>1, <2>4
<1>4. PICK f : Sums(parts(a), f) /\ net[a] = f[Criterion]
  BY NetFlowSum
<1>5. PICK g : Sums(parts(b), g) /\ net[b] = g[Criterion]
  BY NetFlowSum
<1>6. /\ Amounts(parts(a)) /\ DOMAIN parts(a) = Criterion
      /\ Amounts(parts(b)) /\ DOMAIN parts(b) = Criterion
  BY PartsAmounts
<1> HIDE DEF parts
<1>7. \A s \in SUBSET Criterion :
        g[s] <= f[s] /\ ((\E k \in s : parts(b)[k] < parts(a)[k]) => g[s] < f[s])
  BY <1>2, <1>4, <1>5, <1>6, SumOrder
<1> HIDE DEF net
<1>8. g[Criterion] <= f[Criterion]
      /\ ((\E k \in Criterion : parts(b)[k] < parts(a)[k]) => g[Criterion] < f[Criterion])
  BY <1>7
<1>9. net[a] >= net[b] /\ (~AsGood(m, weights, directions, b, a) => net[a] > net[b])
  BY <1>1, <1>3, <1>4, <1>5, <1>8
<1> QED
  BY <1>1, <1>9 DEF net

(* Weights of at most most, and so many subbasins and criteria that scores
   still tell flows apart: the flows lie within
   2 * most * Cardinality(Ranked) * Cardinality(Criterion) of each other,
   and scores have 100000 steps.                                           *)
FineEnough(most) ==
  /\ \A w \in Weight : w <= most
  /\ 2 * ((most * Cardinality(Ranked)) * Cardinality(Criterion)) <= 100000

LEMMA NetFlowBound ==
  ASSUME NEW m \in Table, NEW weights \in [Criterion -> Weight],
         NEW directions \in [Criterion -> {-1, 1}], NEW r \in Ranked,
         NEW most \in Nat, FineEnough(most)
  PROVE  LET net == NetFlow(m, weights, directions)[r]
         IN  net \in Int /\ net <= 50000 /\ 0 - 50000 <= net
<1> DEFINE net == NetFlow(m, weights, directions)[r]
           parts == ByCriterion(m, weights, directions, r)
           k == most * Cardinality(Ranked)
<1>1. PICK f : Sums(parts, f) /\ net = f[Criterion]
  BY NetFlowSum
<1>2. Amounts(parts) /\ DOMAIN parts = Criterion
  BY PartsAmounts
<1>3. /\ Cardinality(Ranked) \in Nat /\ Cardinality(Criterion) \in Nat /\ k \in Nat
      /\ k * Cardinality(Criterion) \in Nat
  <2>1. Cardinality(Ranked) \in Nat /\ Cardinality(Criterion) \in Nat
    BY PrioritizationAssumption, FS_CardinalityType
  <2>2. \A i, j \in Nat : i * j \in Nat
    OBVIOUS
  <2> QED
    BY <2>1, <2>2
<1>4. ASSUME NEW c \in Criterion PROVE parts[c] <= k /\ 0 - k <= parts[c]
  <2>1. /\ weights[c] \in Nat /\ weights[c] <= most
        /\ parts[c] = weights[c] * Flow(m, directions[c], c, r)
    <3>1. weights[c] \in Nat
      BY PartsAmounts
    <3>2. weights[c] <= most
      BY DEF FineEnough
    <3>3. parts[c] = weights[c] * Flow(m, directions[c], c, r)
      BY DEF ByCriterion
    <3> QED
      BY <3>1, <3>2, <3>3
  <2>2. /\ Flow(m, directions[c], c, r) \in Int
        /\ Flow(m, directions[c], c, r) <= Cardinality(Ranked)
        /\ 0 - Cardinality(Ranked) <= Flow(m, directions[c], c, r)
    BY FlowBound
  <2>3. ASSUME NEW w \in Nat, NEW x \in Nat, w <= x, NEW n \in Nat, NEW i \in Int,
               i <= n, 0 - n <= i
        PROVE  w * i <= x * n /\ 0 - x * n <= w * i
    <3>1. w * (n - i) >= 0 /\ w * (n + i) >= 0 /\ (x - w) * n >= 0
      BY <2>3
    <3>2. /\ w * (n - i) = w * n - w * i /\ w * (n + i) = w * n + w * i
          /\ (x - w) * n = x * n - w * n
      OBVIOUS
    <3> QED
      BY <3>1, <3>2
  <2> QED
    BY <1>3, <2>1, <2>2, <2>3
<1> HIDE DEF parts, k
<1>5. f[Criterion] <= k * Cardinality(Criterion)
      /\ 0 - k * Cardinality(Criterion) <= f[Criterion]
  BY <1>1, <1>2, <1>3, <1>4, SumBound
<1>6. f[Criterion] \in Int
  BY <1>1, <1>2, SumType
<1>7. 2 * (k * Cardinality(Criterion)) <= 100000
  BY DEF FineEnough, k
<1> HIDE DEF net
<1>8. net \in Int /\ net <= 50000 /\ 0 - 50000 <= net
  BY <1>1, <1>3, <1>5, <1>6, <1>7
<1> QED
  BY <1>8 DEF net

(* The scores are those of some request and of the view as it is. *)
RankedOnce ==
  /\ matrix \in Table
  /\ ranking # NaN =>
       \E weights \in [Criterion -> Weight], directions \in [Criterion -> {-1, 1}] :
         ranking = [ weights |-> weights, directions |-> directions,
                     scores |-> Normalized(NetFlow(matrix, weights, directions)) ]

LEMMA RankedOnceInit == PrioritizationInit => RankedOnce
BY DEF PrioritizationInit, RankedOnce, Table

LEMMA RankedOnceStep ==
  RankedOnce /\ [PrioritizationNext]_rankingVars => RankedOnce'
BY DEF RankedOnce, PrioritizationNext, Prioritize, rankingVars

LEMMA RankedOnceAlways == PrioritizationSpec => []RankedOnce
<1>1. PrioritizationInit => RankedOnce
  BY RankedOnceInit
<1>2. RankedOnce /\ [PrioritizationNext]_rankingVars => RankedOnce'
  BY RankedOnceStep
<1> QED
  BY <1>1, <1>2, PTL DEF PrioritizationSpec

(* A subbasin that is as good as another by each criterion that counts gets
   as high a score, whatever the weights and however many subbasins.       *)
AsHigh ==
  ranking # NaN =>
    \A a, b \in Ranked : Dominates(a, b) => ranking.scores[a] >= ranking.scores[b]

LEMMA RankingOf ==
  ASSUME RankedOnce, ranking # NaN, NEW a \in Ranked, NEW b \in Ranked, Dominates(a, b)
  PROVE  \E net \in [Ranked -> Int] :
           /\ ranking.scores = Normalized(net)
           /\ net[a] >= net[b] /\ (~Dominates(b, a) => net[a] > net[b])
           /\ \A most \in Nat : FineEnough(most) =>
                 \A r, q \in Ranked : net[r] - net[q] <= 100000
<1>1. PICK weights \in [Criterion -> Weight], directions \in [Criterion -> {-1, 1}] :
        ranking = [ weights |-> weights, directions |-> directions,
                    scores |-> Normalized(NetFlow(matrix, weights, directions)) ]
  BY DEF RankedOnce
<1> DEFINE net == NetFlow(matrix, weights, directions)
<1>2. /\ matrix \in Table /\ ranking.scores = Normalized(net)
      /\ ranking.weights = weights /\ ranking.directions = directions
  BY <1>1 DEF RankedOnce
<1>3. /\ AsGood(matrix, weights, directions, a, b)
      /\ ~Dominates(b, a) => ~AsGood(matrix, weights, directions, b, a)
  BY <1>2 DEF Dominates, AsGood
<1>4. /\ net \in [Ranked -> Int] /\ net[a] >= net[b]
      /\ ~Dominates(b, a) => net[a] > net[b]
  BY <1>2, <1>3, NetFlowOrder
<1>5. ASSUME NEW most \in Nat, FineEnough(most), NEW r \in Ranked, NEW q \in Ranked
      PROVE  net[r] - net[q] <= 100000
  <2>1. /\ net[r] \in Int /\ net[r] <= 50000 /\ 0 - 50000 <= net[r]
        /\ net[q] \in Int /\ net[q] <= 50000 /\ 0 - 50000 <= net[q]
    BY <1>2, <1>5, NetFlowBound
  <2> HIDE DEF net
  <2> QED
    BY <2>1
<1> HIDE DEF net
<1> QED
  BY <1>2, <1>4, <1>5

(* The scores of prom_ii respect dominance, but for ties. *)
THEOREM HighAsGood == PrioritizationSpec => []AsHigh
<1>1. ASSUME RankedOnce, ranking # NaN, NEW a \in Ranked, NEW b \in Ranked, Dominates(a, b)
      PROVE  ranking.scores[a] >= ranking.scores[b]
  BY <1>1, RankingOf, ScoreOrder
<1>2. RankedOnce => AsHigh
  BY <1>1 DEF AsHigh
<1> QED
  BY <1>2, RankedOnceAlways, PTL

LEMMA RankedOnceRespects ==
  ASSUME NEW most \in Nat, FineEnough(most)
  PROVE  RankedOnce => DominanceRespected
<1>1. ASSUME RankedOnce, ranking # NaN, NEW a \in Ranked, NEW b \in Ranked, Dominates(a, b)
      PROVE  /\ ranking.scores[a] >= ranking.scores[b]
             /\ ~Dominates(b, a) => ranking.scores[a] > ranking.scores[b]
  <2>1. PICK net \in [Ranked -> Int] :
           /\ ranking.scores = Normalized(net)
           /\ net[a] >= net[b] /\ (~Dominates(b, a) => net[a] > net[b])
           /\ \A r, q \in Ranked : net[r] - net[q] <= 100000
    BY <1>1, RankingOf
  <2> QED
    BY <2>1, ScoreOrder
<1> QED
  BY <1>1 DEF DominanceRespected

(* A dominating subbasin also gets a higher score if it is better by any
   criterion, as long as the rounding of scores to thousandths (prom_ii,
   minmax_normalization) is finer than the differences of flows.           *)
THEOREM Dominance ==
  ASSUME NEW most \in Nat, FineEnough(most)
  PROVE  PrioritizationSpec => []DominanceRespected
<1>1. RankedOnce => DominanceRespected
  BY RankedOnceRespects
<1> QED
  BY <1>1, RankedOnceAlways, PTL

-----------------------------------------------------------------------------
(* The defaults of a new facility: one case for each validator. *)

(* What set_default_tmnt_attributes makes of a type. *)
DefaultsOfType(t) ==
  [ type |-> t,
    simple |-> t # "no_treatment",
    captured |-> Captured,
    retained |-> CASE Validator(t) \in RetainsPartial -> 20
                   [] Validator(t) \in RetainsFull -> Captured
                   [] OTHER -> 0 ]

FitsModel(d) ==
  IF ~d.simple THEN d.retained = 0
  ELSE \E v \in DOMAIN BySimpleValidator :
         /\ d.type \in BySimpleValidator[v]
         /\ CASE v = "SimpleRetFacility" -> d.retained = d.captured
              [] v = "SimpleFacility" -> 0 < d.retained /\ d.retained < d.captured
              [] v = "SimpleTmntFacility" -> d.retained = 0

LEMMA Recognized ==
  ASSUME NEW k \in Kind
  PROVE  \E v \in DOMAIN ByValidator : ModelType(k) \in ByValidator[v]
<1>1. /\ k.facilitytype \in FacilityType /\ k.infiltrated \in Infiltrated
      /\ k.facilitydetail \in Detail /\ k.flowcontroltype \in BOOLEAN
  BY DEF Kind
<1> QED
  BY <1>1 DEF ModelType, Bioretention, Pond, Vault, FacilityType, ByValidator
  
(* No type is in two groups. *)
LEMMA OneValidator ==
  ASSUME NEW v \in DOMAIN ByValidator, NEW t \in ByValidator[v]
  PROVE  Validator(t) = v
<1>1. \A w \in DOMAIN ByValidator : t \in ByValidator[w] => w = v
  BY DEF ByValidator
<1> QED
  BY <1>1 DEF Validator

LEMMA TypesFit ==
  ASSUME NEW v \in DOMAIN ByValidator, NEW t \in ByValidator[v]
  PROVE  FitsModel(DefaultsOfType(t))
<1>1. Validator(t) = v
  BY OneValidator
<1> DEFINE d == DefaultsOfType(t)
<1>2. /\ d.type = t /\ d.captured = 91 /\ d.simple = (t # "no_treatment")
      /\ v \in RetainsPartial => d.retained = 20
      /\ v \in RetainsFull => d.retained = 91
      /\ v \notin RetainsFull \union RetainsPartial => d.retained = 0
  BY <1>1 DEF DefaultsOfType, Captured, RetainsPartial, RetainsFull
<1>3. DOMAIN BySimpleValidator = {"SimpleRetFacility", "SimpleFacility", "SimpleTmntFacility"}
  BY DEF BySimpleValidator
<1> HIDE DEF d
<1>4. CASE v \in RetainsFull
  <2>1. t \in BySimpleValidator["SimpleRetFacility"] /\ t # "no_treatment"
    BY <1>4 DEF RetainsFull, ByValidator, BySimpleValidator
  <2> QED
    BY <1>2, <1>3, <1>4, <2>1 DEF FitsModel, d
<1>5. CASE v \in RetainsPartial
  <2>1. t \in BySimpleValidator["SimpleFacility"] /\ t # "no_treatment"
    BY <1>5 DEF RetainsPartial, ByValidator, BySimpleValidator
  <2>2. d.simple /\ d.type = t /\ 0 < d.retained /\ d.retained < d.captured
    <3>1. d.simple /\ d.type = t
      BY <1>2, <2>1, Zenon
    <3>2. d.retained = 20 /\ d.captured = 91
      BY <1>2, <1>5, Zenon
    <3> QED
      BY <3>1, <3>2
  <2>3. "SimpleFacility" \in DOMAIN BySimpleValidator /\ d.type \in BySimpleValidator["SimpleFacility"]
    BY <1>3, <2>1, <2>2
  <2>4. FitsModel(d)
    BY <2>2, <2>3 DEF FitsModel
  <2> QED
    BY <2>4 DEF d
<1>6. CASE v \notin RetainsFull \union RetainsPartial
  <2>1. v \in {"TmntFacility", "FlowFacility", "PermPoolFacility", "NTFacility"}
    BY <1>6 DEF ByValidator, RetainsFull, RetainsPartial
  <2>2. t # "no_treatment" => t \in BySimpleValidator["SimpleTmntFacility"]
    BY <2>1 DEF ByValidator, BySimpleValidator
  <2>3. FitsModel(d)
    BY <1>2, <1>3, <1>6, <2>2 DEF FitsModel
  <2> QED
    BY <2>3 DEF d
<1> QED
  BY <1>4, <1>5, <1>6

LEMMA DefaultsFit ==
  ASSUME NEW k \in Kind, given = Defaults_of(k)
  PROVE  DefaultsFitModel
<1>1. given = DefaultsOfType(ModelType(k))
  BY DEF Defaults_of, DefaultsOfType
<1>2. FitsModel(given)
  BY <1>1, Recognized, TypesFit
<1> QED
  BY <1>2 DEF FitsModel, DefaultsFitModel

LEMMA DefaultsFitStep ==
  ASSUME DefaultsFitModel, [DefaultsNext]_given
  PROVE  DefaultsFitModel'
<1>1. ASSUME NEW k \in Kind, given' = Defaults_of(k) PROVE DefaultsFitModel'
  <2>1. given' = DefaultsOfType(ModelType(k))
    BY <1>1 DEF Defaults_of, DefaultsOfType
  <2>2. FitsModel(given')
    BY <2>1, Recognized, TypesFit
  <2> QED
    BY <2>2 DEF FitsModel, DefaultsFitModel
<1> QED
  BY <1>1 DEF DefaultsNext, SetDefaults, DefaultsFitModel

(* For all columns of the GIS service that the code tells apart, the defaults
   of set_default_tmnt_attributes agree with the model of the facility.    *)
THEOREM DefaultsAlwaysFit == DefaultsSpec => []DefaultsFitModel
<1>1. DefaultsInit => DefaultsFitModel
  BY DefaultsFit DEF DefaultsInit
<1>2. DefaultsFitModel /\ [DefaultsNext]_given => DefaultsFitModel'
  BY DefaultsFitStep
<1> QED
  BY <1>1, <1>2, PTL DEF DefaultsSpec

-----------------------------------------------------------------------------
(* The load of each piece of land.  The rows of an overlay, of whatever
   inputs: a node tells all of its row.                                    *)

Altids == {d.altid : d \in Delineation}

(* The rows that an overlay may have, of whatever inputs. *)
Row ==
  {[node |-> SB(s), relid |-> Absent, subbasin |-> s] : s \in Places}
  \union {[node |-> <<"ls", f, a, s>>, relid |-> f, subbasin |-> s] :
            f \in Treatment, a \in Altids, s \in Places}

LandNode == {r.node : r \in Row}

(* What the name of a node tells of its row. *)
LEMMA RowFacts ==
  ASSUME NEW r \in Row
  PROVE  /\ r.node[1] \in {"ls", "SB"} /\ r.subbasin \in Places /\ r.node \in LandNode
         /\ r.node[1] = "SB" => r.relid = Absent /\ r.node[2] = r.subbasin /\ r.node = SB(r.subbasin)
         /\ r.node[1] = "ls" => /\ r.relid \in Treatment /\ r.relid # Absent
                                /\ r.node[2] = r.relid /\ r.node[4] = r.subbasin
<1>1. CASE \E s \in Places : r = [node |-> SB(s), relid |-> Absent, subbasin |-> s]
  <2>1. PICK s \in Places : r = [node |-> SB(s), relid |-> Absent, subbasin |-> s]
    BY <1>1
  <2>2. r.node = SB(s) /\ r.relid = Absent /\ r.subbasin = s
    BY <2>1
  <2>3. SB(s)[1] = "SB" /\ SB(s)[2] = s
    BY DEF SB
  <2> QED
    BY <2>2, <2>3 DEF LandNode
<1>2. CASE \E f \in Treatment, a \in Altids, s \in Places :
             r = [node |-> <<"ls", f, a, s>>, relid |-> f, subbasin |-> s]
  <2>1. PICK f \in Treatment, a \in Altids, s \in Places :
             r = [node |-> <<"ls", f, a, s>>, relid |-> f, subbasin |-> s]
    BY <1>2
  <2>2. r.node = <<"ls", f, a, s>> /\ r.relid = f /\ r.subbasin = s
    BY <2>1
  <2>3. r.node[1] = "ls" /\ r.node[2] = f /\ r.node[4] = s
    BY <2>2
  <2>4. f # Absent
    BY WatershedAssumption
  <2> QED
    BY <2>2, <2>3, <2>4 DEF LandNode
<1> QED
  BY <1>1, <1>2 DEF Row

LEMMA SameNode ==
  ASSUME NEW q \in Row, NEW r \in Row, q.node = r.node
  PROVE  q.relid = r.relid /\ q.subbasin = r.subbasin
<1>1. r.node[1] \in {"ls", "SB"}
  BY RowFacts
<1> QED
  BY <1>1, RowFacts

(* The rows of the overlay, by the plots they are of. *)
Piece(d, s) == [node |-> NodeId(d, s), relid |-> d.relid, subbasin |-> s]
Rest(s) == [node |-> SB(s), relid |-> Absent, subbasin |-> s]

LEMMA OverlayOfPlots ==
  ASSUME drained \subseteq Delineation
  PROVE  /\ \A plot \in DOMAIN Ground : \A d \in Draining(plot) : Piece(d, Ground[plot]) \in Overlay
         /\ \A plot \in Undrained : Rest(Ground[plot]) \in Overlay
         /\ \A r \in Overlay :
              \/ \E plot \in DOMAIN Ground : \E d \in Draining(plot) : r = Piece(d, Ground[plot])
              \/ \E plot \in Undrained : r = Rest(Ground[plot])
<1> DEFINE delineations == {d \in drained : d.relid \in Treatment /\ located[d.relid] # Absent}
           rest == DOMAIN Ground \ UNION {d.plots : d \in delineations}
           pieces == { {Piece(d, s) : s \in {Ground[p] : p \in d.plots}} : d \in delineations }
           others == {Rest(s) : s \in {Ground[p] : p \in rest} \ {Outside}}
<1>1. Overlay = (UNION pieces) \union others
  BY DEF Overlay, Piece, Rest
<1>2. \A plot : Draining(plot) = {d \in delineations : plot \in d.plots}
  BY DEF Draining
<1>3. \A d \in delineations : d.plots \subseteq DOMAIN Ground
  BY WatershedAssumption
<1>4. \A plot \in DOMAIN Ground : plot \in rest <=> Draining(plot) = {}
  BY <1>2
<1> HIDE DEF delineations, rest
<1>5. ASSUME NEW plot \in DOMAIN Ground, NEW d \in Draining(plot)
      PROVE  Piece(d, Ground[plot]) \in Overlay
  <2>1. d \in delineations /\ plot \in d.plots
    BY <1>2
  <2>2. Piece(d, Ground[plot]) \in UNION pieces
    BY <2>1
  <2> QED
    BY <1>1, <2>2
<1>6. ASSUME NEW plot \in Undrained PROVE Rest(Ground[plot]) \in Overlay
  <2>1. plot \in rest /\ Ground[plot] # Outside
    BY <1>4 DEF Undrained
  <2>2. Rest(Ground[plot]) \in others
    BY <2>1
  <2> QED
    BY <1>1, <2>2
<1>7. ASSUME NEW r \in UNION pieces
      PROVE  \E plot \in DOMAIN Ground : \E d \in Draining(plot) : r = Piece(d, Ground[plot])
  <2>1. PICK d \in delineations : r \in {Piece(d, s) : s \in {Ground[p] : p \in d.plots}}
    OBVIOUS
  <2>2. PICK plot \in d.plots : r = Piece(d, Ground[plot])
    BY <2>1
  <2>3. plot \in DOMAIN Ground /\ d \in Draining(plot)
    BY <1>2, <1>3
  <2> QED
    BY <2>2, <2>3
<1>8. ASSUME NEW r \in others
      PROVE  \E plot \in Undrained : r = Rest(Ground[plot])
  <2>1. PICK plot \in rest : r = Rest(Ground[plot]) /\ Ground[plot] # Outside
    OBVIOUS
  <2>2. plot \in DOMAIN Ground
    BY DEF rest
  <2> QED
    BY <1>4, <2>1, <2>2 DEF Undrained
<1> QED
  BY <1>1, <1>5, <1>6, <1>7, <1>8

LEMMA OverlayRows ==
  ASSUME drained \subseteq Delineation
  PROVE  Overlay \subseteq Row /\ \A r \in Overlay : r.relid # Absent => located[r.relid] # Absent
<1>1. ASSUME NEW plot \in DOMAIN Ground, NEW d \in Draining(plot)
      PROVE  Piece(d, Ground[plot]) \in Row /\ located[Piece(d, Ground[plot]).relid] # Absent
  <2>1. d.relid \in Treatment /\ located[d.relid] # Absent /\ d.altid \in Altids
    BY DEF Draining, Altids
  <2>2. Ground[plot] \in Places
    BY DEF Places, Range
  <2> QED
    BY <2>1, <2>2 DEF Row, NodeId, Piece
<1>2. ASSUME NEW plot \in Undrained
      PROVE  Rest(Ground[plot]) \in Row /\ Rest(Ground[plot]).relid = Absent
  <2>1. Ground[plot] \in Places
    BY DEF Undrained, Places, Range
  <2> QED
    BY <2>1 DEF Row, Rest
<1> QED
  BY <1>1, <1>2, OverlayOfPlots

(* The name of a subbasin is in the overlay where some plot is undrained. *)
LEMMA OverlayNames ==
  ASSUME drained \subseteq Delineation, NEW s
  PROVE  (\E r \in Overlay : r.node = SB(s)) <=> s \in {Ground[plot] : plot \in Undrained}
<1>1. ASSUME NEW plot \in Undrained, Ground[plot] = s
      PROVE  \E r \in Overlay : r.node = SB(s)
  <2>1. Rest(s) \in Overlay /\ Rest(s).node = SB(s)
    BY <1>1, OverlayOfPlots DEF Rest
  <2> QED
    BY <2>1
<1>2. ASSUME NEW r \in Overlay, r.node = SB(s)
      PROVE  \E plot \in Undrained : Ground[plot] = s
  <2>1. \A d, u : Piece(d, u).node # SB(s)
    BY DEF Piece, NodeId, SB
  <2>2. \A u : Rest(u).node = SB(s) => u = s
    BY DEF Rest, SB
  <2> QED
    BY <1>2, <2>1, <2>2, OverlayOfPlots
<1> QED
  BY <1>1, <1>2

-----------------------------------------------------------------------------
(* The solution of the graph.  Each edge leads to a higher level. *)

TablesSound ==
  /\ located \in [Treatment -> Places \union {Absent}]
  /\ placed \in [Treatment -> Places \union {Absent}]
  /\ boundary \subseteq Row
  /\ load \subseteq LandNode

Height(n) ==
  IF n[1] = "ls" THEN 0 ELSE IF n[1] = "tmnt" THEN 1 ELSE IF n[1] = "SB" THEN 2 ELSE 3

GraphNode == {e[1] : e \in GraphEdge} \union {e[2] : e \in GraphEdge}

LEMMA EdgeKinds ==
  ASSUME TablesSound, NEW e \in GraphEdge
  PROVE  \/ \E r \in boundary : r.node[1] = "ls" /\ e = <<r.node, Tmnt(r.relid)>>
         \/ \E f \in Treatment : located[f] # Absent /\ placed[f] = Absent /\ e = <<Tmnt(f), Sound>>
         \/ \E f \in Treatment :
              located[f] # Absent /\ placed[f] # Absent /\ e = <<Tmnt(f), SB(placed[f])>>
         \/ \E r \in boundary : e = <<SB(r.subbasin), <<"B">>>>
<1>1. \A r \in boundary : r.node[1] = "ls" => r.relid # Absent
  BY RowFacts DEF TablesSound
<1> QED
  BY <1>1 DEF GraphEdge

LEMMA EdgesClimb ==
  ASSUME TablesSound, NEW e \in GraphEdge
  PROVE  Height(e[1]) \in 0..3 /\ Height(e[2]) \in 0..3 /\ Height(e[1]) < Height(e[2])
<1>1. CASE \E r \in boundary : r.node[1] = "ls" /\ e = <<r.node, Tmnt(r.relid)>>
  <2>1. PICK r \in boundary : r.node[1] = "ls" /\ e = <<r.node, Tmnt(r.relid)>>
    BY <1>1
  <2>2. e[1][1] = "ls" /\ e[2][1] = "tmnt"
    BY <2>1 DEF Tmnt
  <2> QED
    BY <2>2 DEF Height
<1>2. CASE \E f \in Treatment : located[f] # Absent /\ placed[f] = Absent /\ e = <<Tmnt(f), Sound>>
  <2>1. e[1][1] = "tmnt" /\ e[2][1] = "PUGET_SOUND"
    BY <1>2 DEF Tmnt, Sound
  <2> QED
    BY <2>1 DEF Height
<1>3. CASE \E f \in Treatment :
             located[f] # Absent /\ placed[f] # Absent /\ e = <<Tmnt(f), SB(placed[f])>>
  <2>1. e[1][1] = "tmnt" /\ e[2][1] = "SB"
    BY <1>3 DEF Tmnt, SB
  <2> QED
    BY <2>1 DEF Height
<1>4. CASE \E r \in boundary : e = <<SB(r.subbasin), <<"B">>>>
  <2>1. e[1][1] = "SB" /\ e[2][1] = "B"
    BY <1>4 DEF SB
  <2> QED
    BY <2>1 DEF Height
<1> QED
  BY <1>1, <1>2, <1>3, <1>4, EdgeKinds

Arriving(h, n) ==
  {p \in LoadToStructural : p.node = n}
    \union UNION {h[e[1]] : e \in {g \in GraphEdge : g[2] = n}}

Discharge(h, n) == {Reduced(portion, n[2], Treats(n)) : portion \in Arriving(h, n)}

Turn(h) == [n \in GraphNode |-> Discharge(h, n)]

(* What is below a level decides what is on it. *)
LEMMA LevelsAgree ==
  ASSUME TablesSound, NEW g, NEW h, NEW k \in 0..3,
         \A n \in GraphNode : Height(n) < k => g[n] = h[n]
  PROVE  \A n \in GraphNode : Height(n) < k + 1 => Turn(g)[n] = Turn(h)[n]
<1> SUFFICES ASSUME NEW n \in GraphNode, Height(n) < k + 1 PROVE Turn(g)[n] = Turn(h)[n]
  OBVIOUS
<1>1. ASSUME NEW e \in GraphEdge, e[2] = n PROVE g[e[1]] = h[e[1]]
  <2>1. e[1] \in GraphNode
    BY DEF GraphNode
  <2>2. Height(e[1]) \in 0..3 /\ Height(n) \in 0..3 /\ Height(e[1]) < Height(n)
    BY <1>1, EdgesClimb
  <2>3. Height(e[1]) < k
    BY <2>2
  <2> QED
    BY <2>1, <2>3
<1>2. {g[e[1]] : e \in {x \in GraphEdge : x[2] = n}} = {h[e[1]] : e \in {x \in GraphEdge : x[2] = n}}
  BY <1>1
<1>3. Discharge(g, n) = Discharge(h, n)
  BY <1>2 DEF Discharge, Arriving
<1> QED
  BY <1>3 DEF Turn

(* The solver's recursion has a solution, and it has found one. *)
LEMMA Solved ==
  ASSUME TablesSound
  PROVE  SolveWatershed = Turn(SolveWatershed)
<1> DEFINE h0 == [n \in GraphNode |-> {}]
           h1 == Turn(h0)
           h2 == Turn(h1)
           h3 == Turn(h2)
           h4 == Turn(h3)
           h5 == Turn(h4)
<1>1. \A n \in GraphNode : Height(n) \in 0..3
  BY DEF Height
<1>2. \A n \in GraphNode : Height(n) < 1 => h1[n] = h2[n]
  <2>1. \A n \in GraphNode : Height(n) < 0 => h0[n] = h1[n]
    BY <1>1
  <2> HIDE DEF h0, h1
  <2> QED
    BY <2>1, LevelsAgree DEF h1
<1>3. \A n \in GraphNode : Height(n) < 2 => h2[n] = h3[n]
  <2> HIDE DEF h1, h2
  <2> QED
    BY <1>2, LevelsAgree DEF h2
<1>4. \A n \in GraphNode : Height(n) < 3 => h3[n] = h4[n]
  <2> HIDE DEF h2, h3
  <2> QED
    BY <1>3, LevelsAgree DEF h3
<1>5. \A n \in GraphNode : Height(n) < 4 => h4[n] = h5[n]
  <2> HIDE DEF h3, h4
  <2> QED
    BY <1>4, LevelsAgree DEF h4
<1>6. h4 = Turn(h4)
  <2>1. \A n \in GraphNode : h4[n] = h5[n]
    <3> HIDE DEF h4, h5
    <3> QED
      BY <1>1, <1>5
  <2>2. h4 = [n \in GraphNode |-> h4[n]] /\ h5 = [n \in GraphNode |-> h5[n]]
    BY DEF Turn
  <2> HIDE DEF h4
  <2> QED
    BY <2>1, <2>2
<1>7. \E h : h = Turn(h)
  <2> HIDE DEF h4
  <2> QED
    BY <1>6
<1>8. SolveWatershed = CHOOSE h : h = Turn(h)
  BY DEF SolveWatershed, Turn, Discharge, Arriving, GraphNode
<1> QED
  BY <1>7, <1>8

(* The load of a node as it enters the graph. *)
Own(n) == Reduced([node |-> n, by |-> {}], "upstream", Controlled("upstream", n))

LEMMA OwnFacts ==
  ASSUME NEW n
  PROVE  /\ Own(n).node = n
         /\ Own(n).by = IF Controlled("upstream", n) THEN {"upstream"} ELSE {}
         /\ Own(n) = [node |-> n, by |-> Own(n).by]
BY DEF Own, Reduced

(* What arrives at a node: its own load and what the nodes above discharge. *)
Comes(p, n) ==
  \/ n \in load /\ p = Own(n)
  \/ \E e \in GraphEdge : e[2] = n /\ p \in SolveWatershed[e[1]]

LEMMA Discharged ==
  ASSUME TablesSound, NEW n \in GraphNode, NEW p
  PROVE  p \in SolveWatershed[n] <=> \E q : Comes(q, n) /\ p = Reduced(q, n[2], Treats(n))
<1> DEFINE D == SolveWatershed
<1>1. D[n] = Discharge(D, n)
  <2>1. D = Turn(D)
    BY Solved
  <2> HIDE DEF D
  <2> QED
    BY <2>1 DEF Turn
<1> HIDE DEF D
<1>2. ASSUME NEW q
      PROVE  q \in Arriving(D, n) <=>
               \/ n \in load /\ q = Own(n)
               \/ \E e \in GraphEdge : e[2] = n /\ q \in D[e[1]]
  <2>1. q \in {x \in LoadToStructural : x.node = n} <=> n \in load /\ q = Own(n)
    <3>1. LoadToStructural = {Own(m) : m \in load}
      BY DEF LoadToStructural, Own
    <3> QED
      BY <3>1, OwnFacts
  <2>2. q \in UNION {D[e[1]] : e \in {g \in GraphEdge : g[2] = n}} <=>
          \E e \in GraphEdge : e[2] = n /\ q \in D[e[1]]
    OBVIOUS
  <2> QED
    BY <2>1, <2>2 DEF Arriving
<1>3. p \in Discharge(D, n) <=> \E q \in Arriving(D, n) : p = Reduced(q, n[2], Treats(n))
  BY DEF Discharge
<1> QED
  BY <1>1, <1>2, <1>3 DEF D, Comes

(* A piece of land discharges its load, and nothing else. *)
LEMMA LandDischarges ==
  ASSUME TablesSound, NEW n \in GraphNode, n[1] = "ls", NEW p
  PROVE  p \in SolveWatershed[n] <=> n \in load /\ p = Own(n)
<1>1. ASSUME NEW e \in GraphEdge PROVE e[2] # n
  <2>1. Height(e[1]) \in 0..3 /\ Height(e[2]) \in 0..3 /\ Height(e[1]) < Height(e[2])
    BY EdgesClimb
  <2>2. Height(n) = 0
    BY DEF Height
  <2> QED
    BY <2>1, <2>2
<1>2. ~Treats(n)
  BY DEF Treats
<1> QED
  BY <1>1, <1>2, Discharged DEF Comes, Reduced

(* A facility discharges what the pieces of its delineations do. *)
LEMMA FacilityDischarges ==
  ASSUME TablesSound, NEW f \in Treatment, Tmnt(f) \in GraphNode, NEW p
  PROVE  p \in SolveWatershed[Tmnt(f)] <=>
           \E r \in boundary :
             /\ r.node[1] = "ls" /\ r.relid = f /\ r.node \in load
             /\ p = Reduced(Own(r.node), f, located[f] # Absent /\ placed[f] # Absent)
<1>1. Tmnt(f)[1] = "tmnt" /\ Tmnt(f)[2] = f
  BY DEF Tmnt
<1>2. Treats(Tmnt(f)) <=> located[f] # Absent /\ placed[f] # Absent
  BY <1>1 DEF Treats
<1>3. Tmnt(f) \notin load
  BY <1>1, RowFacts DEF TablesSound, LandNode
<1>4. ASSUME NEW q
      PROVE  Comes(q, Tmnt(f)) <=>
               \E r \in boundary :
                 r.node[1] = "ls" /\ r.relid = f /\ r.node \in load /\ q = Own(r.node)
  <2>1. ASSUME NEW e \in GraphEdge, e[2] = Tmnt(f), q \in SolveWatershed[e[1]]
        PROVE  \E r \in boundary :
                 r.node[1] = "ls" /\ r.relid = f /\ r.node \in load /\ q = Own(r.node)
    <3>1. PICK r \in boundary : r.node[1] = "ls" /\ e = <<r.node, Tmnt(r.relid)>>
      <4>1. e[2][1] = "tmnt"
        BY <1>1, <2>1
      <4>2. Sound[1] = "PUGET_SOUND" /\ \A s : SB(s)[1] = "SB"
        BY DEF Sound, SB
      <4> QED
        BY <4>1, <4>2, EdgeKinds
    <3>2. r.relid = f
      BY <2>1, <3>1 DEF Tmnt
    <3>3. r.node \in GraphNode
      BY <3>1 DEF GraphNode
    <3> QED
      BY <2>1, <3>1, <3>2, <3>3, LandDischarges
  <2>2. ASSUME NEW r \in boundary, r.node[1] = "ls", r.relid = f, r.node \in load, q = Own(r.node)
        PROVE  \E e \in GraphEdge : e[2] = Tmnt(f) /\ q \in SolveWatershed[e[1]]
    <3>1. f # Absent
      BY WatershedAssumption
    <3>2. <<r.node, Tmnt(f)>> \in GraphEdge
      BY <2>2, <3>1 DEF GraphEdge
    <3>3. r.node \in GraphNode
      BY <3>2 DEF GraphNode
    <3>4. q \in SolveWatershed[r.node]
      BY <2>2, <3>3, LandDischarges
    <3> QED
      BY <3>2, <3>4
  <2> QED
    BY <1>3, <2>1, <2>2 DEF Comes
<1>5. p \in SolveWatershed[Tmnt(f)] <=>
        \E q : Comes(q, Tmnt(f)) /\ p = Reduced(q, f, located[f] # Absent /\ placed[f] # Absent)
  <2>1. p \in SolveWatershed[Tmnt(f)] <=>
          \E q : Comes(q, Tmnt(f)) /\ p = Reduced(q, Tmnt(f)[2], Treats(Tmnt(f)))
    BY Discharged
  <2> QED
    BY <1>1, <1>2, <2>1 DEF Reduced
<1> QED
  BY <1>4, <1>5

(* The load of its own land, or of that of a facility which drains to it. *)
FromAbove(p, s) ==
  \/ SB(s) \in load /\ p = Own(SB(s))
  \/ \E r \in boundary :
       /\ r.node[1] = "ls" /\ r.node \in load
       /\ located[r.relid] # Absent /\ placed[r.relid] = s
       /\ p = Reduced(Own(r.node), r.relid, TRUE)

(* A subbasin discharges the land that drains to it, and its facilities. *)
LEMMA SubbasinDischarges ==
  ASSUME TablesSound, NEW s \in Places, SB(s) \in GraphNode, NEW p
  PROVE  p \in SolveWatershed[SB(s)] <=> FromAbove(p, s)
<1>1. SB(s)[1] = "SB" /\ s # Absent
  BY WatershedAssumption DEF SB
<1>2. p \in SolveWatershed[SB(s)] <=> Comes(p, SB(s))
  <2>1. ~Treats(SB(s))
    BY <1>1 DEF Treats
  <2> QED
    BY <2>1, Discharged DEF Reduced
<1>3. ASSUME NEW e \in GraphEdge, e[2] = SB(s), p \in SolveWatershed[e[1]]
      PROVE  \E r \in boundary :
                /\ r.node[1] = "ls" /\ r.node \in load
                /\ located[r.relid] # Absent /\ placed[r.relid] = s
                /\ p = Reduced(Own(r.node), r.relid, TRUE)
  <2>1. PICK f \in Treatment :
          located[f] # Absent /\ placed[f] # Absent /\ e = <<Tmnt(f), SB(placed[f])>>
    <3>1. e[2][1] = "SB"
      BY <1>1, <1>3
    <3>2. Sound[1] = "PUGET_SOUND" /\ <<"B">>[1] = "B" /\ \A g : Tmnt(g)[1] = "tmnt"
      BY DEF Sound, Tmnt
    <3> QED
      BY <3>1, <3>2, EdgeKinds
  <2>2. placed[f] = s
    BY <1>3, <2>1 DEF SB
  <2>3. Tmnt(f) \in GraphNode
    BY <2>1 DEF GraphNode
  <2>4. \E r \in boundary :
          /\ r.node[1] = "ls" /\ r.relid = f /\ r.node \in load
          /\ p = Reduced(Own(r.node), f, located[f] # Absent /\ placed[f] # Absent)
    BY <1>3, <2>1, <2>3, FacilityDischarges
  <2> QED
    BY <2>1, <2>2, <2>4 DEF Reduced
<1>4. ASSUME NEW r \in boundary, r.node[1] = "ls", r.node \in load,
             located[r.relid] # Absent, placed[r.relid] = s,
             p = Reduced(Own(r.node), r.relid, TRUE)
      PROVE  \E e \in GraphEdge : e[2] = SB(s) /\ p \in SolveWatershed[e[1]]
  <2>1. r.relid \in Treatment
    BY <1>4, RowFacts DEF TablesSound
  <2>2. <<Tmnt(r.relid), SB(s)>> \in GraphEdge
    BY <1>1, <1>4, <2>1 DEF GraphEdge
  <2>3. Tmnt(r.relid) \in GraphNode
    BY <2>2 DEF GraphNode
  <2>4. p = Reduced(Own(r.node), r.relid, located[r.relid] # Absent /\ placed[r.relid] # Absent)
    BY <1>1, <1>4 DEF Reduced
  <2>5. p \in SolveWatershed[Tmnt(r.relid)]
    BY <1>4, <2>1, <2>3, <2>4, FacilityDischarges
  <2> QED
    BY <2>2, <2>5
<1> QED
  BY <1>2, <1>3, <1>4 DEF Comes, FromAbove

-----------------------------------------------------------------------------
(* The rows of the subbasins: what the load of the node of a row becomes. *)

Carried(r) ==
  [subbasin |-> IF r.relid = Absent THEN r.subbasin ELSE placed[r.relid],
   node     |-> r.node,
   by       |-> Own(r.node).by \union ({r.relid} \ {Absent})]

LEMMA DownstreamRows ==
  ASSUME TablesSound, NEW x
  PROVE  x \in LoadToDownstream <=>
           \E s \in Places : SB(s) \in GraphNode /\
             \E p \in SolveWatershed[SB(s)] : x = [subbasin |-> s, node |-> p.node, by |-> p.by]
<1>1. \A n \in GraphNode : n[1] = "SB" => \E s \in Places : n = SB(s)
  <2> SUFFICES ASSUME NEW n \in GraphNode, n[1] = "SB" PROVE \E s \in Places : n = SB(s)
    OBVIOUS
  <2>1. PICK e \in GraphEdge : n = e[1] \/ n = e[2]
    BY DEF GraphNode
  <2>2. Sound[1] = "PUGET_SOUND" /\ <<"B">>[1] = "B" /\ \A g : Tmnt(g)[1] = "tmnt"
    BY DEF Sound, Tmnt
  <2>3. \A r \in boundary : r.subbasin \in Places
    BY RowFacts DEF TablesSound
  <2>4. \A f \in Treatment : placed[f] \in Places \union {Absent}
    BY DEF TablesSound
  <2> QED
    BY <2>1, <2>2, <2>3, <2>4, EdgeKinds
<1>2. DOMAIN SolveWatershed = GraphNode
  BY Solved DEF Turn
<1>3. x \in LoadToDownstream <=>
        \E n \in GraphNode : n[1] = "SB" /\
          \E p \in SolveWatershed[n] : x = [subbasin |-> n[2], node |-> p.node, by |-> p.by]
  BY <1>2 DEF LoadToDownstream
<1>4. \A s : SB(s)[1] = "SB" /\ SB(s)[2] = s
  BY DEF SB
<1> QED
  BY <1>1, <1>3, <1>4

(* Nothing else is discharged by a subbasin... *)
LEMMA OnlyCarried ==
  ASSUME TablesSound, NEW x \in LoadToDownstream
  PROVE  \E r \in Row : r.node \in load /\ x = Carried(r) /\ x.subbasin \in Places
<1>1. PICK s \in Places : SB(s) \in GraphNode /\
        \E p \in SolveWatershed[SB(s)] : x = [subbasin |-> s, node |-> p.node, by |-> p.by]
  BY DownstreamRows
<1>2. PICK p \in SolveWatershed[SB(s)] : x = [subbasin |-> s, node |-> p.node, by |-> p.by]
  BY <1>1
<1>3. CASE SB(s) \in load /\ p = Own(SB(s))
  <2> DEFINE r == [node |-> SB(s), relid |-> Absent, subbasin |-> s]
  <2>1. r \in Row
    BY DEF Row
  <2>2. Own(SB(s)).node = SB(s)
    BY OwnFacts
  <2>3. x = Carried(r)
    BY <1>2, <1>3, <2>2 DEF Carried
  <2> QED
    BY <1>2, <1>3, <2>1, <2>3
<1>4. ASSUME NEW r \in boundary, r.node[1] = "ls", r.node \in load,
             located[r.relid] # Absent, placed[r.relid] = s,
             p = Reduced(Own(r.node), r.relid, TRUE)
      PROVE  r \in Row /\ x = Carried(r)
  <2>1. r \in Row /\ r.relid # Absent
    BY <1>4, RowFacts DEF TablesSound
  <2>2. p.node = r.node /\ p.by = Own(r.node).by \union {r.relid}
    BY <1>4, OwnFacts DEF Reduced
  <2> QED
    BY <1>2, <1>4, <2>1, <2>2 DEF Carried
<1>5. FromAbove(p, s)
  BY <1>1, SubbasinDischarges
<1>6. x.subbasin \in Places
  BY <1>2
<1> QED
  BY <1>3, <1>4, <1>5, <1>6 DEF FromAbove

(* ... and what has a place to go is discharged. *)
LEMMA AllCarried ==
  ASSUME TablesSound, NEW r \in boundary, r.node \in load,
         r.relid # Absent => located[r.relid] # Absent /\ placed[r.relid] # Absent
  PROVE  Carried(r) \in LoadToDownstream
<1>1. r \in Row
  BY DEF TablesSound
<1>2. CASE r.node[1] = "SB"
  <2>1. r.relid = Absent /\ r.node = SB(r.subbasin) /\ r.subbasin \in Places
    BY <1>1, <1>2, RowFacts
  <2>2. <<SB(r.subbasin), <<"B">>>> \in GraphEdge
    BY DEF GraphEdge
  <2>3. SB(r.subbasin) \in GraphNode
    BY <2>2 DEF GraphNode
  <2>4. Own(r.node) \in SolveWatershed[SB(r.subbasin)]
    BY <2>1, <2>3, SubbasinDischarges DEF FromAbove
  <2>5. Carried(r) = [subbasin |-> r.subbasin, node |-> Own(r.node).node, by |-> Own(r.node).by]
    BY <2>1, OwnFacts DEF Carried
  <2> QED
    BY <2>1, <2>3, <2>4, <2>5, DownstreamRows
<1>3. CASE r.node[1] = "ls"
  <2> DEFINE f == r.relid
             s == placed[r.relid]
             p == Reduced(Own(r.node), r.relid, TRUE)
  <2>1. f \in Treatment /\ f # Absent
    BY <1>1, <1>3, RowFacts
  <2>2. s \in Places
    BY <2>1 DEF TablesSound
  <2>3. <<Tmnt(f), SB(s)>> \in GraphEdge
    BY <2>1 DEF GraphEdge
  <2>4. SB(s) \in GraphNode
    BY <2>3 DEF GraphNode
  <2>5. p \in SolveWatershed[SB(s)]
    BY <1>3, <2>1, <2>2, <2>4, SubbasinDischarges DEF FromAbove
  <2>6. p.node = r.node /\ p.by = Own(r.node).by \union {f}
    BY OwnFacts DEF Reduced
  <2>7. Carried(r) = [subbasin |-> s, node |-> p.node, by |-> p.by]
    BY <2>1, <2>6 DEF Carried
  <2> QED
    BY <2>2, <2>4, <2>5, <2>7, DownstreamRows
<1> QED
  BY <1>1, <1>2, <1>3, RowFacts

(* What subbasin_result says of the node of a row. *)
Told(x) == Reduced(x, "downstream", Controlled("downstream", SB(x.subbasin)))

LEMMA ToldFacts ==
  ASSUME NEW r
  PROVE  /\ Told(Carried(r)).node = r.node
         /\ Told(Carried(r)).subbasin = IF r.relid = Absent THEN r.subbasin ELSE placed[r.relid]
         /\ Told(Carried(r)).by =
              (IF Controlled("upstream", r.node) THEN {"upstream"} ELSE {})
              \union ({r.relid} \ {Absent})
              \union (IF Controlled("downstream", SB(Carried(r).subbasin))
                        THEN {"downstream"} ELSE {})
<1>1. Carried(r).node = r.node /\ Carried(r).by = Own(r.node).by \union ({r.relid} \ {Absent})
  BY DEF Carried
<1>2. Carried(r).subbasin = IF r.relid = Absent THEN r.subbasin ELSE placed[r.relid]
  BY DEF Carried
<1>3. Carried(r) = [subbasin |-> Carried(r).subbasin, node |-> Carried(r).node,
                    by |-> Carried(r).by]
  BY DEF Carried
<1>4. ASSUME NEW x, x = [subbasin |-> x.subbasin, node |-> x.node, by |-> x.by]
      PROVE  /\ Told(x).node = x.node /\ Told(x).subbasin = x.subbasin
             /\ Told(x).by = x.by \union (IF Controlled("downstream", SB(x.subbasin))
                                            THEN {"downstream"} ELSE {})
  BY <1>4 DEF Told, Reduced
<1> QED
  BY <1>1, <1>2, <1>3, <1>4, OwnFacts

(* Every row of subbasin_result is that of one node. *)
LEMMA ResultRows ==
  ASSUME TablesSound, NEW x \in SubbasinResult
  PROVE  \E r \in Row : r.node \in load /\ x = Told(Carried(r)) /\ x.subbasin \in Places
<1>1. PICK p \in LoadToDownstream : x = Told(p)
  BY DEF SubbasinResult, Told
<1>2. PICK r \in Row : r.node \in load /\ p = Carried(r) /\ p.subbasin \in Places
  BY OnlyCarried
<1>3. x.subbasin = p.subbasin
  BY <1>1, <1>2, ToldFacts DEF Carried
<1> QED
  BY <1>1, <1>2, <1>3

LEMMA OneRowOfANode ==
  ASSUME TablesSound, NEW x \in SubbasinResult, NEW y \in SubbasinResult, x.node = y.node
  PROVE  x = y
<1>1. PICK r \in Row : x = Told(Carried(r))
  BY ResultRows
<1>2. PICK q \in Row : y = Told(Carried(q))
  BY ResultRows
<1>3. r.node = q.node
  BY <1>1, <1>2, ToldFacts
<1>4. r.relid = q.relid /\ r.subbasin = q.subbasin
  BY <1>3, SameNode
<1>5. Carried(r) = Carried(q)
  BY <1>3, <1>4 DEF Carried
<1> QED
  BY <1>1, <1>2, <1>5

(* Source controls reach a node through the rows of the boundary. *)
LEMMA ControlledUpstream ==
  ASSUME TablesSound, NEW r \in boundary
  PROVE  Controlled("upstream", r.node) <=> <<"upstream", r.subbasin>> \in reducing
<1>1. \A q \in boundary : q.node = r.node => q.subbasin = r.subbasin
  BY SameNode DEF TablesSound
<1> QED
  BY <1>1 DEF Controlled

LEMMA ControlledDownstream ==
  ASSUME TablesSound, NEW s
  PROVE  Controlled("downstream", SB(s)) <=>
           <<"downstream", s>> \in reducing /\ \E q \in boundary : q.node = SB(s)
<1>1. \A q \in boundary : q.node = SB(s) => q.subbasin = s
  <2>1. SB(s)[1] = "SB" /\ SB(s)[2] = s
    BY DEF SB
  <2> QED
    BY <2>1, RowFacts DEF TablesSound
<1> QED
  BY <1>1 DEF Controlled

(* The load of a row of the boundary, when it has a place to go. *)
LEMMA RowAccounted ==
  ASSUME TablesSound, NEW r \in boundary, r.node \in load,
         r.relid # Absent => located[r.relid] # Absent /\ placed[r.relid] # Absent
  PROVE  \E p \in SubbasinResult :
         /\ p.node = r.node
         /\ p.subbasin = IF r.relid = Absent THEN r.subbasin ELSE placed[r.relid]
         /\ p.by \intersect Treatment = {r.relid} \ {Absent}
         /\ "upstream" \in p.by <=> <<"upstream", r.subbasin>> \in reducing
         /\ "downstream" \in p.by <=>
              /\ <<"downstream", p.subbasin>> \in reducing
              /\ \E q \in boundary : q.node = SB(p.subbasin)
<1> DEFINE p == Told(Carried(r))
           up == Controlled("upstream", r.node)
           down == Controlled("downstream", SB(Carried(r).subbasin))
<1>1. p \in SubbasinResult
  BY AllCarried DEF SubbasinResult, Told
<1>2. /\ p.node = r.node
      /\ p.subbasin = IF r.relid = Absent THEN r.subbasin ELSE placed[r.relid]
      /\ p.subbasin = Carried(r).subbasin
      /\ p.by = (IF up THEN {"upstream"} ELSE {}) \union ({r.relid} \ {Absent})
                \union (IF down THEN {"downstream"} ELSE {})
  BY ToldFacts DEF Carried
<1>3. up <=> <<"upstream", r.subbasin>> \in reducing
  BY ControlledUpstream
<1>4. down <=> /\ <<"downstream", p.subbasin>> \in reducing
               /\ \E q \in boundary : q.node = SB(p.subbasin)
  BY <1>2, ControlledDownstream
<1>5. {r.relid} \ {Absent} \subseteq Treatment
  BY RowFacts DEF TablesSound
<1>6. "upstream" \notin Treatment /\ "downstream" \notin Treatment
  BY WatershedAssumption
<1> HIDE DEF p, up, down
<1>7. p.by \intersect Treatment = {r.relid} \ {Absent}
  BY <1>2, <1>5, <1>6
<1>8. ("upstream" \in p.by <=> up) /\ ("downstream" \in p.by <=> down)
  BY <1>2, <1>5, <1>6
<1> QED
  BY <1>1, <1>2, <1>3, <1>4, <1>7, <1>8

(* What LoadsAccounted says of tables that are of the present inputs, of the
   rows that a refresh of the results would write.                         *)
EachPlotAccounted ==
  /\ \A plot \in DOMAIN Ground : \A d \in Draining(plot) : \E x \in SubbasinResult :
       /\ x.node = NodeId(d, Ground[plot]) /\ x.subbasin = placed[d.relid]
       /\ Meets(x, Ground[plot], {d.relid})
  /\ \A plot \in Undrained : \E x \in SubbasinResult :
       /\ x.node = SB(Ground[plot]) /\ x.subbasin = Ground[plot]
       /\ Meets(x, Ground[plot], {})
  /\ \A x \in SubbasinResult :
       \/ \E plot \in DOMAIN Ground : \E d \in Draining(plot) : x.node = NodeId(d, Ground[plot])
       \/ \E plot \in Undrained : x.node = SB(Ground[plot])

LEMMA PlotsAccounted ==
  ASSUME TablesSound, drained \subseteq Delineation,
         boundary = Overlay, load = {r.node : r \in boundary},
         \A f \in Treatment : located[f] # Absent => placed[f] # Absent
  PROVE  EachPlotAccounted
<1>1. ASSUME NEW r \in boundary
      PROVE  \E x \in SubbasinResult :
               /\ x.node = r.node
               /\ x.subbasin = IF r.relid = Absent THEN r.subbasin ELSE placed[r.relid]
               /\ Meets(x, r.subbasin, {r.relid} \ {Absent})
  <2>1. r.relid # Absent => r.relid \in Treatment /\ located[r.relid] # Absent
    BY OverlayRows, RowFacts DEF TablesSound
  <2>2. PICK x \in SubbasinResult :
               /\ x.node = r.node
               /\ x.subbasin = IF r.relid = Absent THEN r.subbasin ELSE placed[r.relid]
               /\ x.by \intersect Treatment = {r.relid} \ {Absent}
               /\ "upstream" \in x.by <=> <<"upstream", r.subbasin>> \in reducing
               /\ "downstream" \in x.by <=>
                    /\ <<"downstream", x.subbasin>> \in reducing
                    /\ \E q \in boundary : q.node = SB(x.subbasin)
    BY <2>1, RowAccounted
  <2>3. (\E q \in boundary : q.node = SB(x.subbasin)) <=>
          x.subbasin \in {Ground[plot] : plot \in Undrained}
    BY OverlayNames
  <2>4. Meets(x, r.subbasin, {r.relid} \ {Absent})
    BY <2>2, <2>3 DEF Meets
  <2> QED
    BY <2>2, <2>4
<1>2. ASSUME NEW plot \in DOMAIN Ground, NEW d \in Draining(plot)
      PROVE  \E x \in SubbasinResult :
               /\ x.node = NodeId(d, Ground[plot]) /\ x.subbasin = placed[d.relid]
               /\ Meets(x, Ground[plot], {d.relid})
  <2> DEFINE r == Piece(d, Ground[plot])
  <2>1. r \in boundary
    BY OverlayOfPlots
  <2>2. r.node = NodeId(d, Ground[plot]) /\ r.relid = d.relid /\ r.subbasin = Ground[plot]
    BY DEF Piece
  <2>3. d.relid # Absent
    BY WatershedAssumption DEF Draining
  <2>4. {d.relid} \ {Absent} = {d.relid}
    BY <2>3
  <2> HIDE DEF r
  <2> QED
    BY <1>1, <2>1, <2>2, <2>3, <2>4
<1>3. ASSUME NEW plot \in Undrained
      PROVE  \E x \in SubbasinResult :
               /\ x.node = SB(Ground[plot]) /\ x.subbasin = Ground[plot]
               /\ Meets(x, Ground[plot], {})
  <2> DEFINE r == Rest(Ground[plot])
  <2>1. r \in boundary
    BY OverlayOfPlots
  <2>2. r.node = SB(Ground[plot]) /\ r.relid = Absent /\ r.subbasin = Ground[plot]
    BY DEF Rest
  <2>3. {Absent} \ {Absent} = {}
    OBVIOUS
  <2> HIDE DEF r
  <2> QED
    BY <1>1, <2>1, <2>2, <2>3
<1>4. ASSUME NEW x \in SubbasinResult
      PROVE  \/ \E plot \in DOMAIN Ground : \E d \in Draining(plot) : x.node = NodeId(d, Ground[plot])
             \/ \E plot \in Undrained : x.node = SB(Ground[plot])
  <2>1. PICK q \in Row : q.node \in load /\ x = Told(Carried(q))
    BY ResultRows
  <2>2. x.node = q.node
    BY <2>1, ToldFacts
  <2>3. PICK r \in Overlay : r.node = x.node
    BY <2>1, <2>2
  <2>4. \A d, s : Piece(d, s).node = NodeId(d, s) /\ Rest(s).node = SB(s)
    BY DEF Piece, Rest
  <2> QED
    BY <2>3, <2>4, OverlayOfPlots
<1> QED
  BY <1>2, <1>3, <1>4 DEF EachPlotAccounted

-----------------------------------------------------------------------------
(* The inductive invariant: of what inputs the tables are that are not
   behind, and that what is delivered is of rows, one of each node.        *)

BoundaryOfInputs == "boundary" \notin behind => boundary = Overlay

LoadOfBoundary ==
  "load" \notin behind => "boundary" \notin behind /\ load = {r.node : r \in boundary}

WatershedInv ==
  /\ WatershedTypeOK
  /\ boundary \subseteq Row
  /\ load \subseteq LandNode
  /\ BoundaryOfInputs
  /\ LoadOfBoundary
  /\ LoadsAccounted

LEMMA WatershedInvTables ==
  ASSUME WatershedInv
  PROVE  TablesSound
BY DEF WatershedInv, WatershedTypeOK, TablesSound

LEMMA WatershedInitInv ==
  ASSUME WatershedInit
  PROVE  WatershedInv
<1>1. WatershedTypeOK
  <2>1. edits \in 0..MaxEdits
    BY WatershedAssumption DEF WatershedInit
  <2> QED
    BY <2>1 DEF WatershedInit, WatershedTypeOK
<1>2. BoundaryOfInputs /\ LoadOfBoundary /\ LoadsAccounted
  BY DEF WatershedInit, BoundaryOfInputs, LoadOfBoundary, LoadsAccounted
<1> QED
  BY <1>1, <1>2 DEF WatershedInit, WatershedInv

(* An edit leaves a table behind, and the rest as it is. *)
LEMMA EditedInv ==
  ASSUME WatershedInv, NEW late \in {{"result"}, {"boundary", "load", "result"}},
         Edited(late),
         located' \in [Treatment -> Places \union {Absent}], placed' = placed,
         drained' \subseteq Delineation,
         reducing' \subseteq {"upstream", "downstream"} \X Places,
         late = {"result"} => located' = located /\ drained' = drained
  PROVE  WatershedInv'
<1>1. WatershedTypeOK'
  <2>1. edits' \in 0..MaxEdits
    BY WatershedAssumption DEF Edited, WatershedInv, WatershedTypeOK
  <2>2. behind' \subseteq {"boundary", "load", "result"}
    BY DEF Edited, WatershedInv, WatershedTypeOK
  <2> QED
    BY <2>1, <2>2 DEF Edited, WatershedInv, WatershedTypeOK
<1>2. boundary' \subseteq Row /\ load' \subseteq LandNode
  BY DEF Edited, WatershedInv
<1>3. BoundaryOfInputs' /\ LoadOfBoundary'
  <2>1. CASE late = {"result"}
    <3>1. Overlay' = Overlay
      BY <2>1 DEF Overlay
    <3> QED
      BY <2>1, <3>1 DEF Edited, WatershedInv, BoundaryOfInputs, LoadOfBoundary
  <2>2. CASE late # {"result"}
    BY <2>2 DEF Edited, WatershedInv, BoundaryOfInputs, LoadOfBoundary
  <2> QED
    BY <2>1, <2>2
<1>4. LoadsAccounted'
  <2>1. behind' # {} /\ delivered' = delivered
    BY DEF Edited
  <2>2. \A p, q \in delivered : p.node = q.node => p = q
    BY DEF WatershedInv, LoadsAccounted
  <2> QED
    BY <2>1, <2>2 DEF LoadsAccounted
<1> QED
  BY <1>1, <1>2, <1>3, <1>4 DEF WatershedInv

LEMMA RefreshResultsInv ==
  ASSUME WatershedInv, RefreshResults
  PROVE  WatershedInv'
<1>1. TablesSound
  BY WatershedInvTables
<1>2. \A x \in SubbasinResult : x.node[1] \in {"ls", "SB"} /\ x.subbasin \in Places
  <2> SUFFICES ASSUME NEW x \in SubbasinResult
               PROVE  x.node[1] \in {"ls", "SB"} /\ x.subbasin \in Places
    OBVIOUS
  <2>1. PICK r \in Row : x = Told(Carried(r)) /\ x.subbasin \in Places
    BY <1>1, ResultRows
  <2>2. x.node = r.node
    BY <2>1, ToldFacts
  <2> QED
    BY <2>1, <2>2, RowFacts
<1>3. WatershedTypeOK'
  BY <1>2 DEF WatershedInv, WatershedTypeOK, RefreshResults
<1>4. boundary' \subseteq Row /\ load' \subseteq LandNode
  BY DEF WatershedInv, RefreshResults
<1>5. BoundaryOfInputs' /\ LoadOfBoundary'
  BY DEF WatershedInv, RefreshResults, BoundaryOfInputs, LoadOfBoundary, Overlay
<1>6. LoadsAccounted'
  <2>1. \A p, q \in SubbasinResult : p.node = q.node => p = q
    BY <1>1, OneRowOfANode
  <2>2. ASSUME behind' = {}, \A f \in Treatment : located[f] # Absent => placed[f] # Absent
        PROVE  EachPlotAccounted
    <3>1. "load" \notin behind
      BY <2>2 DEF RefreshResults
    <3>2. boundary = Overlay /\ load = {r.node : r \in boundary}
      BY <3>1 DEF WatershedInv, LoadOfBoundary, BoundaryOfInputs
    <3> QED
      BY <1>1, <2>2, <3>2, PlotsAccounted DEF WatershedInv, WatershedTypeOK
  <2>3. /\ delivered' = SubbasinResult
        /\ \A plot : Draining(plot)' = Draining(plot)
        /\ UNCHANGED <<located, placed, reducing>>
    BY DEF RefreshResults, Draining
  <2>4. Undrained' = Undrained
    BY <2>3 DEF Undrained
  <2>5. ASSUME NEW x, NEW s, NEW facilities
        PROVE  Meets(x, s, facilities)' <=> Meets(x, s, facilities)
    BY <2>3, <2>4 DEF Meets
  <2> QED
    BY <2>1, <2>2, <2>3, <2>4, <2>5 DEF LoadsAccounted, EachPlotAccounted
<1> QED
  BY <1>3, <1>4, <1>5, <1>6 DEF WatershedInv

LEMMA WatershedStepInv ==
  ASSUME WatershedInv, [WatershedNext]_watershedVars
  PROVE  WatershedInv'
<1> USE DEF WatershedInv
<1>0. ASSUME UNCHANGED watershedVars
      PROVE  WatershedInv'
  <2> USE <1>0 DEF watershedVars
  <2>1. WatershedTypeOK'
    BY DEF WatershedTypeOK
  <2>2. BoundaryOfInputs' /\ LoadOfBoundary'
    BY DEF BoundaryOfInputs, LoadOfBoundary, Overlay
  <2>3. LoadsAccounted'
    <3>1. \A plot : Draining(plot)' = Draining(plot)
      BY DEF Draining
    <3>2. Undrained' = Undrained
      BY <3>1 DEF Undrained
    <3>3. ASSUME NEW x, NEW s, NEW facilities
          PROVE  Meets(x, s, facilities)' <=> Meets(x, s, facilities)
      BY <3>2 DEF Meets
    <3>4. LoadsAccounted
      BY DEF WatershedInv
    <3> QED
      BY <3>1, <3>2, <3>3, <3>4 DEF LoadsAccounted
  <2> QED
    BY <2>1, <2>2, <2>3
<1>1. ASSUME NEW f \in Treatment, NEW where \in Places \union {Absent}, ReplaceFacility(f, where)
      PROVE  WatershedInv'
  <2>1. located' \in [Treatment -> Places \union {Absent}]
    BY <1>1 DEF ReplaceFacility, WatershedTypeOK
  <2>2. /\ placed' = placed /\ drained' \subseteq Delineation
        /\ reducing' \subseteq {"upstream", "downstream"} \X Places
    BY <1>1 DEF ReplaceFacility, WatershedTypeOK
  <2> QED
    BY <1>1, <2>1, <2>2, EditedInv DEF ReplaceFacility
<1>2. ASSUME NEW new \in SUBSET Delineation, ReplaceDelineations(new)
      PROVE  WatershedInv'
  <2>1. /\ located' = located /\ placed' = placed /\ drained' \subseteq Delineation
        /\ reducing' \subseteq {"upstream", "downstream"} \X Places
        /\ located' \in [Treatment -> Places \union {Absent}]
    BY <1>2 DEF ReplaceDelineations, WatershedTypeOK
  <2> QED
    BY <1>2, <2>1, EditedInv DEF ReplaceDelineations
<1>3. ASSUME NEW control \in {"upstream", "downstream"} \X (Places \ {Outside}), EditControl(control)
      PROVE  WatershedInv'
  <2>1. control \in {"upstream", "downstream"} \X Places
    OBVIOUS
  <2>2. /\ located' = located /\ placed' = placed /\ drained' \subseteq Delineation
        /\ reducing' \subseteq {"upstream", "downstream"} \X Places
        /\ located' \in [Treatment -> Places \union {Absent}]
    BY <1>3, <2>1 DEF EditControl, WatershedTypeOK
  <2> QED
    BY <1>3, <2>2, EditedInv DEF EditControl
<1>4. CASE PlaceFacilities
  <2>1. CASE placed' = placed
    <3>1. UNCHANGED watershedVars
      BY <1>4, <2>1 DEF PlaceFacilities, watershedVars
    <3> QED
      BY <1>0, <3>1
  <2>2. CASE placed' # placed
    <3>1. behind' = behind \union {"result"}
      BY <1>4, <2>2 DEF PlaceFacilities
    <3>2. placed' \in [Treatment -> Places \union {Absent}]
      BY <1>4 DEF PlaceFacilities, WatershedTypeOK
    <3>3. WatershedTypeOK'
      BY <1>4, <3>1, <3>2 DEF PlaceFacilities, WatershedTypeOK
    <3>4. BoundaryOfInputs' /\ LoadOfBoundary'
      BY <1>4, <3>1 DEF PlaceFacilities, BoundaryOfInputs, LoadOfBoundary, Overlay
    <3>5. LoadsAccounted'
      BY <1>4, <3>1 DEF PlaceFacilities, LoadsAccounted
    <3> QED
      BY <1>4, <3>3, <3>4, <3>5 DEF PlaceFacilities
  <2> QED
    BY <2>1, <2>2
<1>5. CASE RefreshBoundary
  <2>1. boundary' \subseteq Row /\ Overlay' = Overlay
    BY <1>5, OverlayRows DEF RefreshBoundary, WatershedTypeOK, Overlay
  <2>2. WatershedTypeOK'
    BY <1>5 DEF RefreshBoundary, WatershedTypeOK
  <2>3. BoundaryOfInputs' /\ LoadOfBoundary'
    BY <1>5, <2>1 DEF RefreshBoundary, BoundaryOfInputs, LoadOfBoundary
  <2>4. LoadsAccounted'
    BY <1>5 DEF RefreshBoundary, LoadsAccounted
  <2> QED
    BY <1>5, <2>1, <2>2, <2>3, <2>4 DEF RefreshBoundary
<1>6. CASE RefreshLoads
  <2>1. load' \subseteq LandNode
    BY <1>6 DEF RefreshLoads, LandNode
  <2>2. behind' \subseteq {"boundary", "load", "result"} /\ behind' # {}
    BY <1>6 DEF RefreshLoads, WatershedTypeOK
  <2>3. WatershedTypeOK'
    BY <1>6, <2>2 DEF RefreshLoads, WatershedTypeOK
  <2>4. BoundaryOfInputs' /\ LoadOfBoundary'
    BY <1>6 DEF RefreshLoads, BoundaryOfInputs, LoadOfBoundary, Overlay
  <2>5. LoadsAccounted'
    BY <1>6, <2>2 DEF RefreshLoads, LoadsAccounted
  <2> QED
    BY <1>6, <2>1, <2>3, <2>4, <2>5 DEF RefreshLoads
<1>7. CASE RefreshResults
  BY <1>7, RefreshResultsInv
<1> QED
  BY <1>0, <1>1, <1>2, <1>3, <1>4, <1>5, <1>6, <1>7 DEF WatershedNext

LEMMA WatershedAlways == WatershedSpec => []WatershedInv
<1>1. WatershedInit => WatershedInv
  BY WatershedInitInv
<1>2. WatershedInv /\ [WatershedNext]_watershedVars => WatershedInv'
  BY WatershedStepInv
<1> QED
  BY <1>1, <1>2, PTL DEF WatershedSpec

(* The tables hold what their types say, whatever is edited between two
   steps of the refresh: results are of land in the watershed and of
   places that the map has.                                                *)
THEOREM WatershedTypeCorrect == WatershedSpec => []WatershedTypeOK
<1>1. WatershedInv => WatershedTypeOK
  BY DEF WatershedInv
<1> QED
  BY <1>1, WatershedAlways, PTL

(* Once the tables are of the present inputs, the load of each plot is
   delivered once for each delineation that it drains to, in the subbasin of
   that facility's attributes, treated by that facility alone and reduced by
   exactly the source controls that it meets, once in its own subbasin if it
   drains to none, and nothing else is delivered; for any map, delineations
   and facilities (overlay_rodeo_from_database, the loading steps of
   src/loading.py, build_edge_list).                                       *)
THEOREM LoadsAlwaysAccounted == WatershedSpec => []LoadsAccounted
<1>1. WatershedInv => LoadsAccounted
  BY DEF WatershedInv
<1> QED
  BY <1>1, WatershedAlways, PTL
================================================================================
