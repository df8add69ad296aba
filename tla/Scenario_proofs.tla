--------------------------- MODULE Scenario_proofs ---------------------------
(***************************************************************************)
(* For any collections and any number of patches and tasks: the hashes and *)
(* the facilities in the row are those of its input, whatever overlaps; as *)
(* long as no patch of the input is decided by hashes that are out of      *)
(* date, the loads and results are, too.                                   *)
(***************************************************************************)
EXTENDS Scenario, TLAPS

(* The parts of InSync and HashOfInput, for any row: a snapshot that a task
   carries is written over the row one day.                                *)
Hashed(r) ==
  /\ r.input # None => r.input_hash = r.input
  /\ Delineation(r.input) # None => r.loading_hash = Delineation(r.input)

Filed(r) ==
  Facilities(r.input) # None =>
    r.structural = Facilities(r.input) /\ r.ratio \in {None, r.result}

Fresh(r) ==
  /\ r.load # None => r.load = Delineation(r.input)
  /\ r.result # None =>
       r.result = [load |-> Delineation(r.input), tmnt |-> Facilities(r.input)]

(* What no overlap of patches and tasks breaks. *)
Kept(r) == r \in Row /\ Hashed(r) /\ Filed(r)

KeptInv ==
  /\ TypeOK
  /\ row # None => Kept(row)
  /\ \A s \in solving : Kept(s.row)

IInv ==
  /\ KeptInv
  /\ row # None => Fresh(row)
  /\ \A s \in solving : Fresh(s.row)

(* The hashes by which a pending patch of the input decides what to clear
   are still those in the row.                                             *)
SeenHashes ==
  \A e \in Editor :
    /\ patch[e] # None /\ row # None
    /\ patch[e].patch.field = "input"
    => /\ patch[e].seen.input_hash = row.input_hash
       /\ patch[e].seen.loading_hash = row.loading_hash

(* Patches that overlap no other write have seen the present row. *)
PatchOK ==
  /\ \A e \in Editor : patch[e] # None => patch[e].seen = row
  /\ \A e, f \in Editor : patch[e] # None /\ patch[f] # None => e = f

-----------------------------------------------------------------------------
(* The operators on rows. *)

LEMMA DelineationType ==
  ASSUME NEW i \in Input \union {None}
  PROVE  /\ Delineation(i) \in Delin \union {None}
         /\ Facilities(i) \in Tmnt \union {None}
         /\ i # None => i = [delin |-> Delineation(i), tmnt |-> Facilities(i)]
         /\ i = None => Delineation(i) = None /\ Facilities(i) = None
  BY ScenarioAssumption, NoneAssumption DEF Delineation, Facilities, Input

LEMMA ValidatedFields ==
  ASSUME NEW r \in Row, NEW i \in Input \union {None}
  PROVE  /\ Validated(r, i) \in Row
         /\ Validated(r, i).input = i
         /\ Validated(r, i).load = r.load
         /\ Validated(r, i).result = r.result
         /\ i # None => Validated(r, i).input_hash = i
         /\ Delineation(i) # None => Validated(r, i).loading_hash = Delineation(i)
         /\ Facilities(i) # None =>
              /\ Validated(r, i).structural = Facilities(i)
              /\ Validated(r, i).ratio = None
<1> DEFINE delin == Delineation(i)
           tmnt == Facilities(i)
           hash == IF i = None THEN r.input_hash ELSE i
           loading == IF delin = None THEN r.loading_hash ELSE delin
           structural == IF tmnt = None THEN r.structural ELSE tmnt
           ratio == IF tmnt = None THEN r.ratio ELSE None
<1>1. /\ hash \in Input \union {None} /\ loading \in Delin \union {None}
      /\ structural \in Tmnt \union {None} /\ ratio \in Result \union {None}
      /\ i # None => hash = i
      /\ delin # None => loading = delin
      /\ tmnt # None => structural = tmnt /\ ratio = None
  BY DelineationType DEF Row
<1>2. Validated(r, i) = [r EXCEPT !.input = i, !.input_hash = hash,
                                  !.loading_hash = loading,
                                  !.structural = structural, !.ratio = ratio]
  BY DEF Validated
<1> HIDE DEF hash, loading, structural, ratio
<1> QED
  BY <1>1, <1>2 DEF Row

(* A create, in whose row nothing has been computed. *)
LEMMA BlankFresh ==
  \A r \in {Blank} \union {Validated(Blank, i) : i \in Input} : Kept(r) /\ Fresh(r)
<1>1. Blank \in Row
  BY ScenarioAssumption DEF Blank, Row
<1>2. Kept(Blank) /\ Fresh(Blank)
  BY <1>1 DEF Kept, Fresh, Filed, Hashed, Blank, Delineation, Facilities
<1>3. ASSUME NEW i \in Input PROVE Kept(Validated(Blank, i)) /\ Fresh(Validated(Blank, i))
  BY <1>1, ValidatedFields, NoneAssumption DEF Kept, Fresh, Filed, Hashed, Blank
<1> QED
  BY <1>2, <1>3

LEMMA RenamedFields ==
  ASSUME NEW r \in Row, NEW n \in Name
  PROVE  LET q == [r EXCEPT !.name = n]
         IN  q \in Row /\ \A f \in {"input", "input_hash", "loading_hash", "structural",
                                   "ratio", "load", "result"} : q[f] = r[f]
  BY DEF Row

LEMMA ClearedFields ==
  ASSUME NEW r \in Row, NEW seen \in Row, NEW i \in Input \union {None}
  PROVE  LET q == Cleared(r, seen, i)
         IN  /\ q \in Row
             /\ q.load = IF seen.loading_hash # Delineation(i) THEN None ELSE r.load
             /\ q.result = IF seen.input_hash # i THEN None ELSE r.result
             /\ \A f \in {"name", "input", "input_hash", "loading_hash",
                          "structural", "ratio"} : q[f] = r[f]
<1> DEFINE load == IF seen.loading_hash # Delineation(i) THEN None ELSE r.load
           result == IF seen.input_hash # i THEN None ELSE r.result
<1>1. load \in Delin \union {None} /\ result \in Result \union {None}
  BY DEF Row
<1>2. Cleared(r, seen, i) = [r EXCEPT !.load = load, !.result = result]
  BY DEF Cleared
<1> HIDE DEF load, result
<1>3. LET q == [r EXCEPT !.load = load, !.result = result]
      IN  /\ q \in Row /\ q.load = load /\ q.result = result
          /\ \A f \in {"name", "input", "input_hash", "loading_hash",
                       "structural", "ratio"} : q[f] = r[f]
  BY <1>1 DEF Row
<1> QED
  BY <1>2, <1>3 DEF load, result

(* A patch, whatever row it has seen. *)
LEMMA PatchedKept ==
  ASSUME NEW r, Kept(r), NEW seen \in Row, NEW p \in Patch
  PROVE  Kept(Patched(r, seen, p))
<1>1. CASE p.field = "name"
  <2>1. p.value \in Name
    BY <1>1 DEF Patch
  <2> QED
    BY <1>1, <2>1, RenamedFields DEF Patched, Kept, Hashed, Filed
<1>2. CASE p.field # "name"
  <2> DEFINE i == p.value
             v == Validated(r, i)
             q == Cleared(v, seen, i)
  <2>1. i \in Input \union {None}
    BY <1>2 DEF Patch
  <2>2. /\ v \in Row /\ v.input = i
        /\ i # None => v.input_hash = i
        /\ Delineation(i) # None => v.loading_hash = Delineation(i)
        /\ Facilities(i) # None => v.structural = Facilities(i) /\ v.ratio = None
    BY <2>1, ValidatedFields DEF Kept
  <2> HIDE DEF v, i
  <2>3. /\ q \in Row /\ q.input = i /\ q.input_hash = v.input_hash
        /\ q.loading_hash = v.loading_hash /\ q.structural = v.structural
        /\ q.ratio = v.ratio
    BY <2>1, <2>2, ClearedFields
  <2> HIDE DEF q
  <2>4. Kept(q)
    BY <2>2, <2>3 DEF Kept, Hashed, Filed
  <2> QED
    BY <1>2, <2>4 DEF Patched, q, v, i
<1> QED
  BY <1>1, <1>2

(* A patch that has seen the hashes of the row it is written over. *)
LEMMA PatchedFresh ==
  ASSUME NEW r, Kept(r), Fresh(r), NEW seen \in Row, NEW p \in Patch,
         p.field = "input" => /\ seen.input_hash = r.input_hash
                              /\ seen.loading_hash = r.loading_hash
  PROVE  Fresh(Patched(r, seen, p))
<1>1. CASE p.field = "name"
  <2>1. p.value \in Name
    BY <1>1 DEF Patch
  <2> QED
    BY <1>1, <2>1, RenamedFields DEF Patched, Kept, Fresh
<1>2. CASE p.field # "name"
  <2> DEFINE i == p.value
             v == Validated(r, i)
             q == Cleared(v, seen, i)
  <2>1. i \in Input \union {None} /\ p.field = "input"
    BY <1>2 DEF Patch
  <2>2. v \in Row /\ v.input = i /\ v.load = r.load /\ v.result = r.result
    BY <2>1, ValidatedFields DEF Kept
  <2> HIDE DEF v, i
  <2>3. /\ q.load = IF seen.loading_hash # Delineation(i) THEN None ELSE v.load
        /\ q.result = IF seen.input_hash # i THEN None ELSE v.result
        /\ q.input = i
    BY <2>1, <2>2, ClearedFields
  <2> HIDE DEF q
  <2>4. ASSUME q.load # None PROVE q.load = Delineation(i)
    <3>1. r.loading_hash = Delineation(i) /\ q.load = r.load
      BY <2>1, <2>2, <2>3, <2>4
    <3>2. r.load \in Delin /\ r.load = Delineation(r.input)
      BY <2>4, <3>1 DEF Kept, Row, Fresh
    <3>3. Delineation(r.input) # None
      BY <3>2, ScenarioAssumption
    <3> QED
      BY <3>1, <3>2, <3>3 DEF Kept, Hashed
  <2>5. ASSUME q.result # None
        PROVE  q.result = [load |-> Delineation(i), tmnt |-> Facilities(i)]
    <3>1. r.input_hash = i /\ q.result = r.result
      BY <2>1, <2>2, <2>3, <2>5
    <3>2. r.result \in Result /\ r.result.load = Delineation(r.input)
      BY <2>5, <3>1 DEF Kept, Row, Fresh
    <3>3. r.input # None
      BY <3>2, ScenarioAssumption DEF Result, Delineation
    <3> QED
      BY <2>5, <3>1, <3>3 DEF Kept, Fresh, Hashed
  <2>6. Fresh(q)
    BY <2>3, <2>4, <2>5 DEF Fresh
  <2> QED
    BY <1>2, <2>6 DEF Patched, q, v, i
<1> QED
  BY <1>1, <1>2

(* A task leaves the input and its hashes as they are in its snapshot, and
   fills in what belongs to them.                                          *)
LEMMA SolvedKept ==
  ASSUME NEW r, Kept(r), NEW force \in BOOLEAN
  PROVE  Kept(Solved(r, force)) /\ (Fresh(r) => Fresh(Solved(r, force)))
<1> DEFINE delin == Delineation(r.input)
           tmnt == Facilities(r.input)
           loading == delin # None /\ (force \/ r.load = None)
           wq == delin # None /\ tmnt # None /\ (force \/ loading \/ r.result = None)
           load == IF loading THEN delin ELSE r.load
           result == IF wq THEN [load |-> load, tmnt |-> r.structural] ELSE r.result
           q == Solved(r, force)
<1>1. /\ delin \in Delin \union {None} /\ tmnt \in Tmnt \union {None}
      /\ r.load \in Delin \union {None} /\ r.result \in Result \union {None}
  BY DelineationType DEF Kept, Row
<1>2. load \in Delin \union {None} /\ (delin # None => load \in Delin)
  BY <1>1
<1>3. Fresh(r) => /\ load # None => load = delin
                  /\ delin # None => load = delin
  BY <1>1 DEF Fresh
<1>4. /\ result \in Result \union {None}
      /\ result = None => r.result = None
      /\ Fresh(r) /\ result # None => result = [load |-> delin, tmnt |-> tmnt]
  <2>1. CASE wq
    <3>1. r.structural = tmnt /\ tmnt \in Tmnt
      BY <2>1, <1>1 DEF Kept, Filed
    <3>2. result \in Result /\ result = [load |-> load, tmnt |-> tmnt]
      BY <2>1, <1>2, <3>1 DEF Result
    <3>3. Fresh(r) => load = delin
      BY <1>3, <2>1
    <3> HIDE DEF result, load, wq
    <3> QED
      BY <3>2, <3>3, NoneAssumption
  <2>2. CASE ~wq
    BY <2>2, <1>1 DEF Fresh
  <2> QED
    BY <2>1, <2>2
<1>5. /\ q.load = load /\ q.result = result
      /\ q.ratio = IF r.structural = None \/ result = None THEN r.ratio ELSE result
      /\ \A f \in {"name", "input", "input_hash", "loading_hash", "structural"} : q[f] = r[f]
      /\ q = [r EXCEPT !.load = load, !.result = result, !.ratio = q.ratio]
  BY DEF Solved, Kept, Row
<1> HIDE DEF q, result, load
<1>6. q \in Row
  BY <1>2, <1>4, <1>5 DEF Kept, Row
<1>7. Hashed(q)
  BY <1>5 DEF Kept, Hashed
<1>8. Filed(q)
  BY <1>1, <1>4, <1>5 DEF Kept, Filed
<1>9. Fresh(r) => Fresh(q)
  BY <1>3, <1>4, <1>5 DEF Fresh
<1> QED
  BY <1>6, <1>7, <1>8, <1>9 DEF Kept, q

-----------------------------------------------------------------------------
(* What the code keeps whatever overlaps. *)

LEMMA InitInv ==
  Init => IInv
<1> SUFFICES ASSUME Init PROVE IInv
  OBVIOUS
<1>1. Kept(row) /\ Fresh(row)
  BY BlankFresh DEF Init
<1>2. row \in Row /\ row # None
  BY <1>1, NoneAssumption DEF Kept
<1>3. TypeOK
  BY <1>2, ScenarioAssumption DEF Init, TypeOK
<1> QED
  BY <1>1, <1>3 DEF Init, IInv, KeptInv

LEMMA PatchReadType ==
  ASSUME KeptInv, NEW e \in Editor, NEW p \in Patch, PatchRead(e, p)
  PROVE  TypeOK' /\ UNCHANGED <<row, solving>>
<1> USE DEF PatchRead
<1> DEFINE new == [patch |-> p, seen |-> row]
<1>1. row \in Row /\ new \in Pending
  BY DEF KeptInv, TypeOK, Pending
<1>2. patch' \in [Editor -> Pending \union {None}]
  BY <1>1 DEF KeptInv, TypeOK
<1>3. count' \in [patches : 0..MaxPatches, solves : 0..MaxSolves]
  BY ScenarioAssumption DEF KeptInv, TypeOK
<1> QED
  BY <1>2, <1>3 DEF KeptInv, TypeOK

LEMMA PatchWriteKept ==
  ASSUME KeptInv, NEW e \in Editor, PatchWrite(e)
  PROVE  KeptInv'
<1> USE DEF PatchWrite
<1>1. patch[e] \in Pending /\ patch[e].patch \in Patch /\ patch[e].seen \in Row
  BY DEF KeptInv, TypeOK, Pending
<1>2. row' # None => Kept(row')
  BY <1>1, PatchedKept DEF KeptInv
<1>3. TypeOK'
  BY <1>2 DEF KeptInv, TypeOK, Kept
<1> QED
  BY <1>2, <1>3 DEF KeptInv

LEMMA SubmitSolveKept ==
  ASSUME KeptInv, NEW force \in BOOLEAN, SubmitSolve(force)
  PROVE  KeptInv'
<1> USE DEF SubmitSolve
<1> DEFINE s == [row |-> row, force |-> force]
<1>1. s \in Solve /\ Kept(s.row)
  BY DEF KeptInv, Kept, Solve
<1>2. count' \in [patches : 0..MaxPatches, solves : 0..MaxSolves]
  BY ScenarioAssumption DEF KeptInv, TypeOK
<1> HIDE DEF s
<1>3. solving' \subseteq Solve /\ \A t \in solving' : Kept(t.row)
  BY <1>1 DEF KeptInv, TypeOK, s
<1> QED
  BY <1>2, <1>3 DEF KeptInv, TypeOK

LEMMA WriteBackKept ==
  ASSUME KeptInv, NEW s \in solving, WriteBack(s)
  PROVE  KeptInv' /\ (row' # None /\ Fresh(s.row) => Fresh(row'))
<1> USE DEF WriteBack
<1>1. Kept(s.row) /\ s.force \in BOOLEAN
  BY DEF KeptInv, TypeOK, Solve
<1>2. /\ Kept(Solved(s.row, s.force))
      /\ Fresh(s.row) => Fresh(Solved(s.row, s.force))
  BY <1>1, SolvedKept
<1>3. row' \in Row \union {None} /\ (row' # None => Kept(row'))
  BY <1>2 DEF Kept
<1>4. solving' \subseteq solving
  OBVIOUS
<1> QED
  BY <1>2, <1>3, <1>4 DEF KeptInv, TypeOK

LEMMA NextKept ==
  ASSUME KeptInv, [Next]_vars
  PROVE  KeptInv'
<1>1. CASE \E e \in Editor, p \in Patch : PatchRead(e, p)
  BY <1>1, PatchReadType DEF KeptInv
<1>2. CASE \E e \in Editor : PatchWrite(e)
  BY <1>2, PatchWriteKept
<1>3. CASE \E force \in BOOLEAN : SubmitSolve(force)
  BY <1>3, SubmitSolveKept
<1>4. CASE \E s \in solving : WriteBack(s)
  BY <1>4, WriteBackKept
<1>5. CASE \E s \in solving : SolveFails(s)
  BY <1>5 DEF SolveFails, KeptInv, TypeOK
<1>6. CASE Delete
  BY <1>6 DEF Delete, KeptInv, TypeOK
<1>7. CASE UNCHANGED vars
  BY <1>7 DEF vars, KeptInv, TypeOK
<1> QED
  BY <1>1, <1>2, <1>3, <1>4, <1>5, <1>6, <1>7 DEF Next

(* Every row, the one in the database and those that tasks carry, has the
   hashes and the facilities of its own input, with patches and tasks that
   overlap in any way.                                                     *)
LEMMA KeptAlways ==
  Spec => []KeptInv
<1>1. Init => KeptInv
  BY InitInv DEF IInv
<1>2. KeptInv /\ [Next]_vars => KeptInv'
  BY NextKept
<1> QED
  BY <1>1, <1>2, PTL DEF Spec

(* The row, the pending patches and the snapshots of the tasks keep their
   shape; in particular a result never lacks the facilities it names.      *)
THEOREM TypeCorrect == Spec => []TypeOK
<1>1. KeptInv => TypeOK
  BY DEF KeptInv
<1> QED
  BY <1>1, KeptAlways, PTL

(* The hashes in the row are those of the input next to them, whatever
   update_scenario and solve_scenario_db write over each other.            *)
THEOREM HashesOfInput == Spec => []HashOfInput
<1>1. KeptInv => HashOfInput
  BY DEF KeptInv, HashOfInput, Kept, Hashed, Exists
<1> QED
  BY <1>1, KeptAlways, PTL

-----------------------------------------------------------------------------
(* What they keep as long as no patch is decided by hashes out of date. *)

LEMMA NextFresh ==
  ASSUME IInv, SeenHashes, [Next]_vars
  PROVE  IInv'
<1>1. KeptInv'
  BY NextKept DEF IInv
<1>2. CASE \E e \in Editor, p \in Patch : PatchRead(e, p)
  BY <1>1, <1>2, PatchReadType DEF IInv
<1>3. ASSUME NEW e \in Editor, PatchWrite(e) PROVE IInv'
  <2>1. /\ patch[e] # None /\ patch[e].patch \in Patch /\ patch[e].seen \in Row
        /\ row' = (IF row = None THEN None ELSE Patched(row, patch[e].seen, patch[e].patch))
        /\ UNCHANGED solving
    BY <1>3 DEF PatchWrite, IInv, KeptInv, TypeOK, Pending
  <2>2. row' # None => Fresh(row')
    BY <2>1, PatchedFresh DEF IInv, KeptInv, SeenHashes
  <2> QED
    BY <1>1, <2>1, <2>2 DEF IInv
<1>4. CASE \E force \in BOOLEAN : SubmitSolve(force)
  BY <1>1, <1>4 DEF SubmitSolve, IInv
<1>5. ASSUME NEW s \in solving, WriteBack(s) PROVE IInv'
  <2>1. row' # None => Fresh(row')
    BY <1>5, WriteBackKept DEF IInv
  <2> QED
    BY <1>1, <1>5, <2>1 DEF WriteBack, IInv
<1>6. CASE \E s \in solving : SolveFails(s)
  BY <1>1, <1>6 DEF SolveFails, IInv
<1>7. CASE Delete
  BY <1>1, <1>7 DEF Delete, IInv
<1>8. CASE UNCHANGED vars
  BY <1>1, <1>8 DEF vars, IInv
<1> QED
  BY <1>2, <1>3, <1>4, <1>5, <1>6, <1>7, <1>8 DEF Next

(* Loads, results, facilities and cost ratios in the row are those of the
   input next to them, though a task writes back the row as it was when it
   was submitted (solve_scenario_db), and a patch keeps what its hashes say
   is up to date (update_scenario): in every behaviour in which no task or
   patch gives the row other hashes between the two steps of a patch of the
   input.                                                                  *)
THEOREM InSyncWhileHashesSeen ==
  Spec /\ []SeenHashes => []InSync
<1>1. IInv /\ SeenHashes /\ [Next]_vars => IInv'
  BY NextFresh
<1>2. IInv => InSync
  BY DEF IInv, KeptInv, InSync, Kept, Filed, Fresh, Exists
<1> QED
  BY <1>1, <1>2, InitInv, PTL DEF Spec

(* Patches that wait for other writes of the row see the present one. *)
LEMMA NextPatchOK ==
  ASSUME Race = FALSE, TypeOK, PatchOK, [Next]_vars
  PROVE  PatchOK'
<1>1. ASSUME NEW e \in Editor, NEW p \in Patch, PatchRead(e, p) PROVE PatchOK'
  <2>1. patch' = [patch EXCEPT ![e] = [patch |-> p, seen |-> row]] /\ UNCHANGED row
    BY <1>1 DEF PatchRead
  <2>2. \A f \in Editor : patch[f] = None
    BY <1>1 DEF PatchRead, Undisturbed
  <2>3. patch'[e].seen = row /\ \A f \in Editor \ {e} : patch'[f] = None
    BY <2>1, <2>2 DEF TypeOK
  <2> QED
    BY <2>1, <2>3 DEF PatchOK
<1>2. ASSUME NEW e \in Editor, PatchWrite(e) PROVE PatchOK'
  <2>1. \A f \in Editor : patch'[f] = None
    BY <1>2 DEF PatchWrite, PatchOK, TypeOK
  <2> QED
    BY <2>1 DEF PatchOK
<1>3. CASE (\E s \in solving : WriteBack(s)) \/ Delete
  <2>1. \A e \in Editor : patch'[e] = None
    BY <1>3 DEF WriteBack, Delete, Undisturbed
  <2> QED
    BY <2>1 DEF PatchOK
<1>4. CASE \/ \E force \in BOOLEAN : SubmitSolve(force)
           \/ \E s \in solving : SolveFails(s)
           \/ UNCHANGED vars
  BY <1>4 DEF SubmitSolve, SolveFails, vars, PatchOK
<1> QED
  BY <1>1, <1>2, <1>3, <1>4 DEF Next

(* The same without a condition, if patches overlap no other write. *)
THEOREM ResultsInSync ==
  ASSUME Race = FALSE
  PROVE  Spec => []InSync
<1>1. Init => PatchOK
  BY DEF Init, PatchOK
<1>2. TypeOK /\ PatchOK /\ [Next]_vars => PatchOK'
  BY NextPatchOK
<1>3. PatchOK => SeenHashes
  BY DEF PatchOK, SeenHashes
<1>4. Spec => []SeenHashes
  BY <1>1, <1>2, <1>3, TypeCorrect, PTL DEF Spec
<1> QED
  BY <1>4, InSyncWhileHashesSeen, PTL
=============================================================================
