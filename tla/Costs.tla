-------------------------------- MODULE Costs --------------------------------
(***************************************************************************)
(* The costs of treatment facilities (table tmnt_facility_cost), the       *)
(* global settings that discount them, and the requests that change them:  *)
(* the patch of a facility (api/endpoints/tmnt_attr.py), the recalculation *)
(* of one or of all present values (api/endpoints/npv.py, src/npv.py) and  *)
(* the patch of a setting (api/endpoints/globals.py).                      *)
(*                                                                         *)
(* cost stands for the two inputs that PVRequest requires, year for the    *)
(* optional ones.  A present value is represented by what it was computed  *)
(* from; CostTable has the computation.                                    *)
(***************************************************************************)
EXTENDS Naturals, FiniteSets, Functions

CONSTANTS
  Node, Client,
  Cost, Year, Type,     \* values of the inputs, facility types that validate
  Setting,              \* values of the global settings
  Garbled,              \* a setting whose text is not a number
  Bad,                  \* a facility type without a model
  None,
  Patches,              \* the bodies that clients send
  MaxRequests

ASSUME CostsAssumption ==
  /\ None \notin Cost \union Year \union Setting \union Type
  /\ Garbled \notin Setting /\ Bad \notin Type
  /\ \A p \in Patches : /\ DOMAIN p \subseteq {"cost", "year", "type"}
                        /\ "cost" \in DOMAIN p => p.cost \in Cost \union {None}
                        /\ "year" \in DOMAIN p => p.year \in Year \union {None}
                        /\ "type" \in DOMAIN p => p.type \in Type \union {Bad}
  /\ MaxRequests \in Nat

VARIABLES
  row,        \* the cost of each facility, None if it has no row
  type,       \* facility_type in the attributes, None if it has no row
  setting,    \* global_cost_setting
  request,    \* what each client's request is doing
  raced,      \* facilities valued from inputs that changed in the meantime
  sole,       \* clients whose request nobody else's write has met
  requests    \* how many have been made

costVars == <<row, type, setting, request, raced, sole, requests>>

Value == [cost : Cost, year : Year \union {None}, setting : Setting]

(* Row.setting is the copy of the settings that a value brings with it. *)
CostRow == [ cost : Cost \union {None}, year : Year \union {None},
             setting : Setting \union {None}, pv : Value \union {None} ]

(* None is no record, either. *)
ASSUME NoneAssumption == None \notin Value \union CostRow

Idle == [at |-> "idle"]
Answered(status) == [at |-> "answered", status |-> status]

Busy(c) == request[c].at \notin {"idle", "answered"}

CostsTypeOK ==
  /\ row \in [Node -> CostRow \union {None}]
  /\ type \in [Node -> Type \union {None}]
  /\ setting \in Setting \union {Garbled}
  /\ \A c \in Client : request[c].at \in {"idle", "answered", "patch", "upsert", "read", "write"}
  /\ raced \subseteq {n \in Node : row[n] # None}
  /\ sole \subseteq Client
  /\ requests \in 0..MaxRequests

(* Facilities with and without attributes; costs that a patch has set. *)
CostsInit ==
  /\ setting \in Setting
  /\ row \in [Node -> {None} \union
                {[cost |-> k, year |-> None, setting |-> setting,
                  pv |-> [cost |-> k, year |-> None, setting |-> setting]] : k \in Cost}]
  /\ type \in [Node -> Type \union {None}]
  /\ request = [c \in Client |-> Idle]
  /\ raced = {}
  /\ sole = {}
  /\ requests = 0

Begin(c, r) ==
  /\ ~Busy(c)
  /\ requests < MaxRequests
  /\ requests' = requests + 1
  /\ request' = [request EXCEPT ![c] = r]

Become(c, r) == request' = [request EXCEPT ![c] = r] /\ UNCHANGED requests

(* A write of c is news to all the others. *)
Wrote(c) == sole' = sole \intersect {c}

Overwrite(r, new) == [f \in DOMAIN r |-> IF f \in DOMAIN new THEN new[f] ELSE r[f]]

-----------------------------------------------------------------------------
(* Mutant: null is taken for a number. *)
ValidatesPresent(inputs) == "cost" \in DOMAIN inputs

(* PVRequest: the required inputs are present and numbers. *)
Validates(inputs) == "cost" \in DOMAIN inputs /\ inputs.cost # None

Compute(inputs, s) ==
  [ cost |-> inputs.cost,
    year |-> IF "year" \in DOMAIN inputs THEN inputs.year ELSE None,
    setting |-> s ]

Valued(inputs, s) ==
  [f \in DOMAIN inputs \union {"setting", "pv"} |->
     CASE f = "setting" -> s
       [] f = "pv" -> Compute(inputs, s)
       [] OTHER -> inputs[f]]

(* Mutant: a value that cannot be computed any more is left in place. *)
MaybeUpdateKeeps(p, s) ==
  LET costs == Restrict(p, DOMAIN p \intersect {"cost", "year"})
  IN  IF Validates(costs) THEN Valued(costs, s) ELSE costs

(* maybe_update_pv_params: from the patch alone, without the row. *)
MaybeUpdate(p, s) ==
  LET costs == Restrict(p, DOMAIN p \intersect {"cost", "year"})
  IN  CASE DOMAIN costs = {} -> None
        [] Validates(costs) -> Valued(costs, s)
        [] OTHER -> [f \in DOMAIN costs \union {"pv"} |-> IF f = "pv" THEN None ELSE costs[f]]

(* validate_tmnt_update: reads the settings and raises for a type without a
   model, or for a setting that is not a number.                           *)
Rejected(p) ==
  \/ setting = Garbled
  \/ "type" \in DOMAIN p /\ p.type = Bad

SubmitPatch(c, n, p) ==
  /\ Begin(c, IF Rejected(p) THEN Answered("422")
              ELSE [at |-> "patch", node |-> n, patch |-> p, update |-> MaybeUpdate(p, setting)])
  /\ sole' = sole \union {c}
  /\ UNCHANGED <<row, type, setting, raced>>

(* The attributes, committed on their own. *)
PatchAttributes(c) ==
  LET q == request[c]
      n == q.node
      more == type[n] # None /\ q.update # None
      found == more /\ row[n] # None
  IN  /\ q.at = "patch"
      /\ type' = IF type[n] # None /\ "type" \in DOMAIN q.patch
                   THEN [type EXCEPT ![n] = q.patch.type] ELSE type
      /\ Become(c, IF more THEN [at |-> "upsert", node |-> n, update |-> q.update, found |-> found]
                   ELSE Answered(IF type[n] = None THEN "404" ELSE "200"))
      /\ UNCHANGED <<row, setting, raced, sole>>

EmptyRow == [cost |-> None, year |-> None, setting |-> None, pv |-> None]

(* CRUDTMNTFacilityCost.upsert, after it has looked for the row: an update,
   or an insert that fails if somebody else's came first.                  *)
UpsertCosts(c) ==
  LET q == request[c]
      n == q.node
      clash == ~q.found /\ row[n] # None
  IN  /\ q.at = "upsert"
      /\ \/ clash /\ Become(c, Answered("500")) /\ UNCHANGED <<row, raced, sole>>
         \/ /\ ~clash
            /\ row' = [row EXCEPT ![n] = Overwrite(IF @ = None THEN EmptyRow ELSE @, q.update)]
            /\ raced' = raced \ {n}
            /\ Wrote(c)
            /\ Become(c, Answered("200"))
      /\ UNCHANGED <<type, setting>>

-----------------------------------------------------------------------------
(* calculate_pv_for_existing_tmnt_in_db for one row, or for all of them in
   turn.  The session keeps the rows as it has read them first: the query
   for each of the list returns the old contents.                          *)
StartCalculation(c, nodes, all) ==
  LET found == {n \in nodes : row[n] # None}
  IN  /\ Begin(c, IF found = {} THEN Answered("404")
                  ELSE [at |-> "read", all |-> all, todo |-> Restrict(row, found)])
      /\ sole' = sole \union {c}
      /\ UNCHANGED <<row, type, setting, raced>>

(* Mutant: the settings that the row was valued with before win. *)
InputsOfRow(r, s) ==
  IF Validates(r) THEN Valued(r, IF r.setting = None THEN s ELSE r.setting) ELSE [pv |-> None]

(* The row with the settings written over its own; only the results are
   written back, and the copy of the settings with them.                   *)
Inputs(r, s) ==
  IF Validates(r) THEN Restrict(Valued(r, s), {"setting", "pv"}) ELSE [pv |-> None]

ReadSettings(c) ==
  LET q == request[c]
  IN  /\ q.at = "read"
      /\ \/ setting = Garbled /\ Become(c, Answered("500"))
         \/ /\ setting # Garbled
            /\ \E n \in DOMAIN q.todo :
                 Become(c, [at |-> "write", all |-> q.all, todo |-> q.todo,
                            node |-> n, update |-> Inputs(q.todo[n], setting)])
      /\ UNCHANGED <<row, type, setting, raced, sole>>

(* The first row that does not validate loses its value and ends it all. *)
WriteValue(c) ==
  LET q == request[c]
      n == q.node
      seen == q.todo[n]
      rest == DOMAIN q.todo \ {n}
      valid == q.update.pv # None
      changed == <<row[n].cost, row[n].year>> # <<seen.cost, seen.year>>
  IN  /\ q.at = "write"
      /\ row' = [row EXCEPT ![n] = Overwrite(@, q.update)]
      /\ raced' = IF valid /\ changed THEN raced \union {n} ELSE raced \ {n}
      /\ Wrote(c)
      /\ Become(c, IF ~valid THEN Answered("404")
                   ELSE IF rest # {} THEN [at |-> "read", all |-> q.all, todo |-> Restrict(q.todo, rest)]
                   ELSE Answered(IF q.all THEN "success" ELSE "200"))
      /\ UNCHANGED <<type, setting>>

(* No value is recomputed, or marked as out of date. *)
PatchSetting(c, s) ==
  /\ Begin(c, Answered("200"))
  /\ setting' = s
  /\ sole' = {c}
  /\ UNCHANGED <<row, type, raced>>

CostsNext ==
  \E c \in Client :
    \/ \E n \in Node, p \in Patches : SubmitPatch(c, n, p)
    \/ PatchAttributes(c)
    \/ UpsertCosts(c)
    \/ \E n \in Node : StartCalculation(c, {n}, FALSE)
    \/ StartCalculation(c, Node, TRUE)
    \/ ReadSettings(c)
    \/ WriteValue(c)
    \/ \E s \in Setting \union {Garbled} : PatchSetting(c, s)

CostsSpec == CostsInit /\ [][CostsNext]_costVars

-----------------------------------------------------------------------------
(* A facility never shows a present value of costs that it does not have,
   and the settings next to the value are those it was computed with:
   "if it doesn't validate then set npv calc to None so that it's not out
   of date".  Two exceptions are the code's: a calculation in a thread that
   a patch overtakes (raced), and a patch of the required costs alone,
   which values them as if the row had no other inputs.                    *)
PresentValueFits ==
  \A n \in Node : row[n] # None /\ row[n].pv # None =>
    LET pv == row[n].pv
    IN  /\ pv.setting = row[n].setting
        /\ n \notin raced => pv.cost = row[n].cost /\ pv.year \in {row[n].year, None}

(* "Present value successfully recalculated for all treatment facilities
   in the database": whatever patches, races and old settings have left
   behind, after that answer each value is that of its row and of the
   present settings, as long as nobody has written in between or since.    *)
RefreshedAll ==
  \A c \in sole : request[c] = Answered("success") =>
    /\ setting # Garbled
    /\ \A n \in Node : row[n] # None => row[n].pv = Compute(row[n], setting)
=============================================================================
