------------------------------- MODULE Scenario -------------------------------
(***************************************************************************)
(* One scenario: its row in the database, the editors that patch it        *)
(* (api/endpoints/scenario.py, models/scenario_validator.py) and the       *)
(* background tasks that solve it (src/scenario.py).  A task works on the  *)
(* row as it was when it was submitted, and writes the whole row back.     *)
(*                                                                         *)
(* A computed value is represented by what it was computed from, and a     *)
(* hash by what was hashed; that an input is stored with identifiers and   *)
(* areas added to its delineations is left out.  The lock of the task is   *)
(* on its arguments, the snapshot and the flag, so that the tasks in       *)
(* progress form a set.                                                    *)
(***************************************************************************)
EXTENDS Naturals, FiniteSets

CONSTANTS
  Delin, Tmnt,    \* delineation and treatment facility collections
  Name,
  None,
  Editor,         \* requests that patch the scenario
  Race,           \* whether a patch may overlap other writes of the row
  MaxPatches, MaxSolves

ASSUME ScenarioAssumption ==
  /\ None \notin Delin \union Tmnt \union Name /\ Name # {}
  /\ Race \in BOOLEAN
  /\ MaxPatches \in Nat /\ MaxSolves \in Nat

(* An input may also be null, None.  Either collection may be missing. *)
Input == [delin : Delin \union {None}, tmnt : Tmnt \union {None}]
Delineation(i) == IF i = None THEN None ELSE i.delin
Facilities(i) == IF i = None THEN None ELSE i.tmnt

Result == [load : Delin, tmnt : Tmnt]

(***************************************************************************)
(* load stands for lgu_boundary, lgu_load and delin_load, result for       *)
(* graph_edge and structural_tmnt_result; each group is always set and     *)
(* cleared together.  structural is the table of facilities with their     *)
(* costs, and ratio the cost per load removed that is added to it.         *)
(***************************************************************************)
Row == [ name : Name,
         input : Input \union {None},
         input_hash : Input \union {None},
         loading_hash : Delin \union {None},
         structural : Tmnt \union {None},
         ratio : Result \union {None},
         load : Delin \union {None},
         result : Result \union {None} ]

Patch == [field : {"name"}, value : Name] \union [field : {"input"}, value : Input \union {None}]

VARIABLES
  row,      \* the row, or None
  patch,    \* for each editor, the patch and the row it has read, or None
  solving,  \* the tasks in progress
  count     \* patches and solves so far

vars == <<row, patch, solving, count>>

Solve == [row : Row, force : BOOLEAN]
Pending == [patch : Patch, seen : Row]

(* None is no record, either. *)
ASSUME NoneAssumption == None \notin Input \union Result \union Row \union Pending

TypeOK ==
  /\ row \in Row \union {None}
  /\ patch \in [Editor -> Pending \union {None}]
  /\ solving \subseteq Solve
  /\ count \in [patches : 0..MaxPatches, solves : 0..MaxSolves]

-----------------------------------------------------------------------------
(* What scenario_validator adds to an input, to be written with it: the
   hashes, and the facilities with their costs.  What it does not mention
   keeps the value it has in the row r.                                    *)
Validated(r, input) ==
  LET delin == Delineation(input)
      tmnt == Facilities(input)
  IN  [r EXCEPT !.input = input,
                !.input_hash = IF input = None THEN @ ELSE input,
                !.loading_hash = IF delin = None THEN @ ELSE delin,
                !.structural = IF tmnt = None THEN @ ELSE tmnt,
                !.ratio = IF tmnt = None THEN @ ELSE None]

(* Mutant: Cleared looks at the loading hash only. *)
ClearedByLoading(r, seen, input) ==
  IF seen.loading_hash = Delineation(input) THEN r
                                            ELSE [r EXCEPT !.load = None, !.result = None]

(* update_scenario clears what the hashes of the row it has read show to be
   out of date.  A missing input or delineation has no hash.               *)
Cleared(r, seen, input) ==
  [r EXCEPT !.load = IF seen.loading_hash # Delineation(input) THEN None ELSE @,
            !.result = IF seen.input_hash # input THEN None ELSE @]

Patched(r, seen, p) ==
  IF p.field = "name" THEN [r EXCEPT !.name = p.value]
                      ELSE Cleared(Validated(r, p.value), seen, p.value)

(* solve_scenario_data and maybe_include_cost_effectiveness. *)
Solved(r, force) ==
  LET delin == Delineation(r.input)
      recalculate_loading == delin # None /\ (force \/ r.load = None)
      recalculate_wq == /\ delin # None /\ Facilities(r.input) # None
                        /\ force \/ recalculate_loading \/ r.result = None
      load == IF recalculate_loading THEN delin ELSE r.load
      result == IF recalculate_wq THEN [load |-> load, tmnt |-> r.structural]
                                  ELSE r.result
  IN  [r EXCEPT !.load = load,
                !.result = result,
                !.ratio = IF r.structural = None \/ result = None THEN @ ELSE result]

-----------------------------------------------------------------------------
Blank == [ name |-> CHOOSE n \in Name : TRUE,
           input |-> None,
           input_hash |-> None, loading_hash |-> None, structural |-> None,
           ratio |-> None, load |-> None, result |-> None ]

(* create_scenario, for a scenario without and with an input. *)
Init ==
  /\ row \in {Blank} \union {Validated(Blank, i) : i \in Input}
  /\ patch = [e \in Editor |-> None]
  /\ solving = {}
  /\ count = [patches |-> 0, solves |-> 0]

Undisturbed == Race \/ \A e \in Editor : patch[e] = None

(* Mutant: there may be no row. *)
PatchReadUnchecked(e, p) ==
  /\ count.patches < MaxPatches
  /\ patch[e] = None
  /\ Undisturbed
  /\ patch' = [patch EXCEPT ![e] = [patch |-> p, seen |-> row]]
  /\ count' = [count EXCEPT !.patches = @ + 1]
  /\ UNCHANGED <<row, solving>>

(* update_scenario reads the row, or answers 404, and has to wait for the
   database...                                                             *)
PatchRead(e, p) ==
  /\ count.patches < MaxPatches
  /\ row # None /\ patch[e] = None
  /\ Undisturbed
  /\ patch' = [patch EXCEPT ![e] = [patch |-> p, seen |-> row]]
  /\ count' = [count EXCEPT !.patches = @ + 1]
  /\ UNCHANGED <<row, solving>>

(* ...to write the fields of the patch; there may be no row any more. *)
PatchWrite(e) ==
  /\ patch[e] # None
  /\ row' = IF row = None THEN None ELSE Patched(row, patch[e].seen, patch[e].patch)
  /\ patch' = [patch EXCEPT ![e] = None]
  /\ UNCHANGED <<solving, count>>

(* solve_single_scenario, and each element of solve_all_scenarios. *)
SubmitSolve(force) ==
  /\ count.solves < MaxSolves
  /\ row # None
  /\ solving' = solving \union {[row |-> row, force |-> force]}
  /\ count' = [count EXCEPT !.solves = @ + 1]
  /\ UNCHANGED <<row, patch>>

(* Mutant: a task leaves the hashes to the editors. *)
WriteBackUnhashed(s) ==
  /\ s \in solving
  /\ Undisturbed
  /\ row' = IF row = None THEN None
            ELSE [Solved(s.row, s.force) EXCEPT !.input_hash = row.input_hash,
                                                !.loading_hash = row.loading_hash]
  /\ solving' \in {solving, solving \ {s}}
  /\ UNCHANGED <<patch, count>>

(* solve_scenario_db: every field of the solved snapshot.  When the row has
   been deleted the update returns none and the task fails.  A worker lost
   before it acknowledges the task runs it again (acks_late).              *)
WriteBack(s) ==
  /\ s \in solving
  /\ Undisturbed
  /\ row' = IF row = None THEN None ELSE Solved(s.row, s.force)
  /\ solving' \in {solving, solving \ {s}}
  /\ UNCHANGED <<patch, count>>

(* Earth Engine or the solver raises, or the worker is lost. *)
SolveFails(s) ==
  /\ s \in solving
  /\ solving' = solving \ {s}
  /\ UNCHANGED <<row, patch, count>>

Delete ==
  /\ row # None
  /\ Undisturbed
  /\ row' = None
  /\ UNCHANGED <<patch, solving, count>>

Next ==
  \/ \E e \in Editor : PatchWrite(e) \/ \E p \in Patch : PatchRead(e, p)
  \/ \E force \in BOOLEAN : SubmitSolve(force)
  \/ \E s \in solving : WriteBack(s) \/ SolveFails(s)
  \/ Delete

Spec == Init /\ [][Next]_vars

-----------------------------------------------------------------------------
Exists == row # None

(* The comment on the column input: it is hashed to see what must be
   computed again to keep the results in sync.  Loads and results in the
   row are those of the input next to them, whichever snapshots were
   written over newer rows in between; so are the facilities and their cost
   ratios, as long as the input has any.                                   *)
InSync ==
  Exists =>
    LET delin == Delineation(row.input)
        tmnt == Facilities(row.input)
    IN  /\ row.load # None => row.load = delin
        /\ row.result # None => row.result = [load |-> delin, tmnt |-> tmnt]
        /\ tmnt # None => row.structural = tmnt /\ row.ratio \in {None, row.result}

(* A patch decides by the hashes in the row what to clear: they are those
   of the input next to them, though editors and tasks write both.  An
   input that is null or has no delineation leaves the hash before it.     *)
HashOfInput ==
  Exists =>
    /\ row.input # None => row.input_hash = row.input
    /\ Delineation(row.input) # None => row.loading_hash = Delineation(row.input)

(* "If 'force' is false, then only missing fields will be filled": a task
   without the flag changes no field that has a value.                     *)
OnlyMissingFilled ==
  [][\A s \in solving :
       ~s.force /\ WriteBack(s) /\ Exists =>
         /\ row'.name = row.name /\ row'.input = row.input
         /\ row.load # None => row'.load = row.load
         /\ row.result # None => row'.result = row.result]_vars
=============================================================================
