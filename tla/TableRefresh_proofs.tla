-------------------------- MODULE TableRefresh_proofs --------------------------
(***************************************************************************)
(* Refreshes and edits for any tables, dependency graph, users and bounds: *)
(* what the variables may hold, and, while no change comes between what    *)
(* jobs read and what they write, that a table that is reported clean      *)
(* shows results of the present inputs.                                    *)
(***************************************************************************)
EXTENDS TableRefresh, Dependencies_proofs

TInv == TypeOK /\ IsInjective(log)

(* The rest of a plan, after tables that are all recorded. *)
OnPlan(j) ==
  at[j] # "idle" =>
    \E k \in Nat :
      /\ Len(Plan[j]) = k + Len(todo[j])
      /\ \A i \in 1..Len(todo[j]) : todo[j][i] = Plan[j][k + i]
      /\ \A i \in 1..k : Plan[j][i] \in Recorded

(* A job has read what it computes its table from. *)
HasRead(j) ==
  at[j] \in {"wait", "write", "log", "commit"} => read[j] = Reads[Current(j)]

(* A table that is logged and not committed was logged after what is
   computed from it.                                                       *)
LoggedLast(j) ==
  at[j] = "commit" =>
    /\ Current(j) \in Recorded
    /\ \A t \in Derived \intersect Recorded :
         Current(j) \in Reads[t] => Before(log, t, Current(j))

(* A table that is replaced by what is loaded from outside is never stale;
   the others are computed.                                                *)
Computed == {t \in Derived : Reads[t] # {}}

(* An input that changed since t was computed: the edit is not logged yet,
   or is logged after t, or t is about to be committed.                    *)
Accounted(t, p) ==
  \/ \E e \in Editor : edit[e] = p
  \/ p \in Recorded /\ Before(log, t, p)
  \/ \E j \in Job : at[j] = "commit" /\ Current(j) = t

IInv ==
  /\ TInv
  /\ Recorded \subseteq Edited \union Derived
  /\ \A j \in Job : OnPlan(j) /\ HasRead(j) /\ LoggedLast(j)
  /\ \A t \in Derived \intersect Recorded : Reads[t] \intersect Computed \subseteq Recorded
  /\ \A t \in Derived : stale[t] \subseteq Reads[t]
  /\ \A t \in Derived \intersect Recorded : \A p \in stale[t] : Accounted(t, p)

-----------------------------------------------------------------------------
(* Facts that every proof below needs. *)

LEMMA Constants ==
  /\ Derived \subseteq Table /\ Edited \subseteq Table /\ Edited \intersect Derived = {}
  /\ \A t \in Derived : Reads[t] \subseteq Table
  /\ \A j \in Job : Plan[j] \in Seq(Derived) /\ Plan[j] # << >>
  /\ \A e \in Edited : e # Nil
  /\ MaxEdits \in Nat /\ MaxStarts \in Nat /\ MaxFailures \in Nat
  BY TableAssumption, BoundAssumption

LEMMA CurrentType ==
  ASSUME TypeOK, NEW j \in Job, at[j] # "idle"
  PROVE  Current(j) \in Derived /\ Tail(todo[j]) \in Seq(Derived) /\ todo[j] \in Seq(Derived)
         /\ todo[j] # << >>
<1>1. todo[j] \in Seq(Derived) /\ todo[j] # << >>
  BY DEF TypeOK
<1> QED
  BY <1>1, HeadTailProperties DEF Current

LEMMA SpreadType ==
  ASSUME TypeOK, NEW t \in Table
  PROVE  /\ Outdates(t) \in [Derived -> SUBSET Table]
         /\ Misses(t) \in [Job -> SUBSET Table]
  BY Constants DEF TypeOK, Outdates, Misses

LEMMA FailureType ==
  ASSUME TypeOK, Failure
  PROVE  count' \in [edits : 0..MaxEdits, starts : 0..MaxStarts, failures : 0..MaxFailures]
<1> DEFINE n == count.failures + 1
<1>1. n \in 0..MaxFailures
  BY Constants DEF TypeOK, Failure
<1>2. count' = [count EXCEPT !.failures = n]
  BY DEF Failure
<1> HIDE DEF n
<1> QED
  BY <1>1, <1>2 DEF TypeOK

(* The step of a job to its next stage. *)
LEMMA MoveType ==
  ASSUME TypeOK, NEW j \in Job, NEW from \in Stage \ {"idle"}, NEW to \in Stage \ {"idle"},
         Move(j, from, to), UNCHANGED todo
  PROVE  at' \in [Job -> Stage] /\ \A k \in Job : at'[k] # "idle" <=> todo'[k] # << >>
  BY DEF TypeOK, Move

LEMMA GoOnType ==
  ASSUME TypeOK, NEW j \in Job, NEW rest \in Seq(Derived), GoOn(j, rest)
  PROVE  /\ at' \in [Job -> Stage] /\ todo' \in [Job -> Seq(Derived)]
         /\ \A k \in Job : at'[k] # "idle" <=> todo'[k] # << >>
         /\ read' \in [Job -> SUBSET Table]
  BY DEF TypeOK, GoOn, Stage

LEMMA GiveUpType ==
  ASSUME TypeOK, NEW j \in Job, GiveUp(j),
         count' \in [edits : 0..MaxEdits, starts : 0..MaxStarts, failures : 0..MaxFailures]
  PROVE  TypeOK'
<1>1. << >> \in Seq(Derived)
  OBVIOUS
<1>2. GoOn(j, << >>) /\ missed' = [missed EXCEPT ![j] = {}] /\ clash' = [clash EXCEPT ![j] = FALSE]
      /\ UNCHANGED <<log, stale, edit>>
  BY DEF GiveUp
<1>3. /\ at' \in [Job -> Stage] /\ todo' \in [Job -> Seq(Derived)]
      /\ \A k \in Job : at'[k] # "idle" <=> todo'[k] # << >>
      /\ read' \in [Job -> SUBSET Table]
  BY <1>1, <1>2, GoOnType
<1>4. missed' \in [Job -> SUBSET Table]
  BY <1>2 DEF TypeOK
<1>5. clash' \in [Job -> BOOLEAN]
  BY <1>2 DEF TypeOK
<1> QED
  BY <1>2, <1>3, <1>4, <1>5 DEF TypeOK

LEMMA TouchInv ==
  ASSUME TInv, NEW t \in Table, log' = Touch(log, t)
  PROVE  log' \in Seq(Table) /\ IsInjective(log')
  BY Touched DEF TInv, TypeOK

LEMMA StartPlanType ==
  ASSUME TypeOK, NEW j \in Job, StartPlan(j)
  PROVE  TypeOK'
<1>1. Plan[j] \in Seq(Derived) /\ Plan[j] # << >>
  BY Constants
<1>2. at' = [at EXCEPT ![j] = "read"] /\ todo' = [todo EXCEPT ![j] = Plan[j]]
      /\ UNCHANGED <<log, stale, read, missed, clash, edit>>
  BY DEF StartPlan, Move
<1>3. /\ at' \in [Job -> Stage] /\ todo' \in [Job -> Seq(Derived)]
      /\ \A k \in Job : at'[k] # "idle" <=> todo'[k] # << >>
  BY <1>1, <1>2 DEF TypeOK, Stage
<1>4. count' \in [edits : 0..MaxEdits, starts : 0..MaxStarts, failures : 0..MaxFailures]
  <2>1. CASE UNCHANGED count
    BY <2>1 DEF TypeOK
  <2>2. CASE count.starts < MaxStarts /\ count' = [count EXCEPT !.starts = @ + 1]
    <3> DEFINE n == count.starts + 1
    <3>1. n \in 0..MaxStarts
      BY <2>2, Constants DEF TypeOK
    <3>2. count' = [count EXCEPT !.starts = n]
      BY <2>2
    <3> HIDE DEF n
    <3> QED
      BY <3>1, <3>2 DEF TypeOK
  <2> QED
    BY <2>1, <2>2 DEF StartPlan
<1> QED
  BY <1>2, <1>3, <1>4 DEF TypeOK

LEMMA CommitType ==
  ASSUME TypeOK, NEW j \in Job, Commit(j)
  PROVE  TypeOK'
<1> DEFINE t == Current(j)
           waiting == {k \in Job : at[k] = "wait" /\ Current(k) = t}
<1>1. t \in Derived /\ t \in Table /\ Tail(todo[j]) \in Seq(Derived)
  BY CurrentType, Constants DEF Commit
<1>2. /\ stale' = [Outdates(t) EXCEPT ![t] = missed[j]]
      /\ missed' = [Misses(t) EXCEPT ![j] = {}]
      /\ clash' = [k \in Job |-> clash[k] \/ k \in waiting]
      /\ GoOn(j, Tail(todo[j])) /\ UNCHANGED <<log, edit, count>>
  BY DEF Commit
<1> HIDE DEF t, waiting
<1>3. Outdates(t) \in [Derived -> SUBSET Table] /\ Misses(t) \in [Job -> SUBSET Table]
  BY <1>1, SpreadType
<1>4. stale' \in [Derived -> SUBSET Table] /\ missed' \in [Job -> SUBSET Table]
  BY <1>2, <1>3 DEF TypeOK
<1>5. clash' \in [Job -> BOOLEAN]
  BY <1>2
<1>6. /\ at' \in [Job -> Stage] /\ todo' \in [Job -> Seq(Derived)]
      /\ \A k \in Job : at'[k] # "idle" <=> todo'[k] # << >>
      /\ read' \in [Job -> SUBSET Table]
  BY <1>1, <1>2, GoOnType
<1> QED
  BY <1>2, <1>4, <1>5, <1>6 DEF TypeOK

LEMMA EditCommitType ==
  ASSUME TypeOK, NEW e \in Editor, NEW t \in Edited, EditCommit(e, t)
  PROVE  TypeOK'
<1> DEFINE n == count.edits + 1
<1>1. n \in 0..MaxEdits
  BY Constants DEF TypeOK, EditCommit
<1>2. /\ edit' = [edit EXCEPT ![e] = t] /\ stale' = Outdates(t) /\ missed' = Misses(t)
      /\ count' = [count EXCEPT !.edits = n]
      /\ UNCHANGED <<log, at, todo, read, clash>>
  BY DEF EditCommit
<1> HIDE DEF n
<1>3. stale' \in [Derived -> SUBSET Table] /\ missed' \in [Job -> SUBSET Table]
  BY <1>2, SpreadType, Constants
<1>4. count' \in [edits : 0..MaxEdits, starts : 0..MaxStarts, failures : 0..MaxFailures]
  BY <1>1, <1>2 DEF TypeOK
<1>5. edit' \in [Editor -> Edited \union {Nil}]
  BY <1>2 DEF TypeOK
<1> QED
  BY <1>2, <1>3, <1>4, <1>5 DEF TypeOK

LEMMA TypeStep ==
  ASSUME TInv, [Next]_vars
  PROVE  TInv'
<1>1. TypeOK
  BY DEF TInv
<1>2. CASE UNCHANGED vars
  BY <1>2 DEF vars, TInv, TypeOK
<1>3. ASSUME NEW j \in Job, StartPlan(j) PROVE TInv'
  BY <1>1, <1>3, StartPlanType DEF StartPlan, TInv
<1>4. ASSUME NEW j \in Job, ReadInput(j) PROVE TInv'
  <2>1. PICK p \in Reads[Current(j)] : read' = [read EXCEPT ![j] = @ \union {p}]
    BY <1>4 DEF ReadInput
  <2>2. p \in Table
    BY <1>1, <1>4, CurrentType, Constants DEF ReadInput
  <2>3. read' \in [Job -> SUBSET Table]
    BY <1>1, <2>1, <2>2 DEF TypeOK
  <2> QED
    BY <1>4, <2>3 DEF ReadInput, TInv, TypeOK
<1>5. ASSUME NEW j \in Job, IssueDelete(j) \/ Delete(j) \/ Insert(j) PROVE TInv'
  <2>1. \E from, to \in Stage \ {"idle"} : Move(j, from, to)
    BY <1>5 DEF IssueDelete, Delete, Insert, Stage
  <2>2. UNCHANGED <<log, stale, todo, read, missed, clash, edit, count>>
    BY <1>5 DEF IssueDelete, Delete, Insert
  <2>3. at' \in [Job -> Stage] /\ \A k \in Job : at'[k] # "idle" <=> todo'[k] # << >>
    BY <1>1, <2>1, <2>2, MoveType
  <2> QED
    BY <2>2, <2>3 DEF TInv, TypeOK
<1>6. ASSUME NEW j \in Job, Log(j) PROVE TInv'
  <2>1. Move(j, "log", "commit") /\ log' = Touch(log, Current(j))
        /\ UNCHANGED <<stale, todo, read, missed, clash, edit, count>>
    BY <1>6 DEF Log
  <2>2. Current(j) \in Table
    BY <1>1, <2>1, CurrentType, Constants DEF Move
  <2>3. at' \in [Job -> Stage] /\ \A k \in Job : at'[k] # "idle" <=> todo'[k] # << >>
    BY <1>1, <2>1, MoveType DEF Stage
  <2>4. log' \in Seq(Table) /\ IsInjective(log')
    BY <2>1, <2>2, TouchInv
  <2> QED
    BY <2>1, <2>3, <2>4 DEF TInv, TypeOK
<1>7. ASSUME NEW j \in Job, Commit(j) PROVE TInv'
  BY <1>1, <1>7, CommitType DEF Commit, TInv
<1>8. ASSUME NEW j \in Job, InsertFails(j) PROVE TInv'
  <2>1. GiveUp(j) /\ UNCHANGED <<log, count>>
    BY <1>8 DEF InsertFails, GiveUp
  <2> QED
    BY <1>1, <2>1, GiveUpType DEF TInv, TypeOK
<1>9. ASSUME NEW j \in Job, Fail(j) \/ Killed(j) PROVE TInv'
  <2>1. GiveUp(j) /\ Failure /\ UNCHANGED log
    BY <1>9 DEF Fail, Killed, GiveUp
  <2> QED
    BY <1>1, <2>1, GiveUpType, FailureType DEF TInv
<1>10. ASSUME NEW e \in Editor, NEW t \in Edited, EditCommit(e, t) PROVE TInv'
  BY <1>1, <1>10, EditCommitType DEF EditCommit, TInv
<1>11. ASSUME NEW e \in Editor, EditLog(e) PROVE TInv'
  <2>1. edit[e] \in Edited /\ edit[e] \in Table
    BY <1>1, <1>11, Constants DEF EditLog, TypeOK
  <2>2. log' \in Seq(Table) /\ IsInjective(log')
    BY <1>11, <2>1, TouchInv DEF EditLog
  <2>3. edit' \in [Editor -> Edited \union {Nil}]
    BY <1>1, <1>11 DEF EditLog, TypeOK
  <2> QED
    BY <1>11, <2>2, <2>3 DEF EditLog, job, TInv, TypeOK
<1>12. ASSUME NEW e \in Editor, EditLost(e) PROVE TInv'
  <2>1. edit' \in [Editor -> Edited \union {Nil}]
    BY <1>1, <1>12 DEF EditLost, TypeOK
  <2>2. count' \in [edits : 0..MaxEdits, starts : 0..MaxStarts, failures : 0..MaxFailures]
    BY <1>1, <1>12, FailureType DEF EditLost
  <2> QED
    BY <1>12, <2>1, <2>2 DEF EditLost, job, TInv, TypeOK
<1> QED
  BY <1>2, <1>3, <1>4, <1>5, <1>6, <1>7, <1>8, <1>9, <1>10, <1>11, <1>12 DEF Next, JobStep

LEMMA TypeInit ==
  Init => TInv
  BY Constants, TableAssumption DEF Init, TInv, TypeOK, Stage, IsInjective

(* The changelog has a row per table, and a job is busy exactly as long as
   its plan has tables left, whatever overlaps, fails or is lost.           *)
THEOREM TypeCorrect == Spec => []TypeOK
<1>1. TInv => TypeOK
  BY DEF TInv
<1> QED
  BY <1>1, TypeInit, TypeStep, PTL DEF Spec

-----------------------------------------------------------------------------
(* Tasks may raise and users edit what they like; a dependency list without
   cycles that has the inputs of a table that ever change upstream of it;
   plans that replace what a table is computed from before that table.     *)
Orderly(depth) ==
  /\ Env \subseteq {"fails", "overlap"}
  /\ Levels(Graph, depth)
  /\ \A t \in Derived : Reads[t] \intersect (Edited \union Derived) \subseteq Up(Graph, t)
  /\ \A j \in Job : \A i \in DOMAIN Plan[j] : \A p \in Reads[Plan[j][i]] \intersect Computed :
       \E k \in 1..(i - 1) : Plan[j][k] = p

(* No input changes between a job's reading it and the commit of what the
   job computes from it, and no job reads a table that another one has
   logged and not yet committed.                                           *)
Undisturbed ==
  \A j \in Job :
    /\ missed[j] = {}
    /\ \A k \in Job : at[k] = "commit" => Current(k) \notin read[j]

LEMMA NotItsOwnInput ==
  ASSUME NEW depth, Orderly(depth), NEW t \in Derived
  PROVE  t \notin Reads[t]
<1> SUFFICES ASSUME t \in Reads[t] PROVE FALSE
  OBVIOUS
<1>1. t \in Up(Graph, t)
  BY DEF Orderly
<1>2. depth[t] \in Nat /\ depth[t] < depth[t]
  BY <1>1, ViaDeeper DEF Orderly, Up, Levels
<1> QED
  BY <1>2

(* A step that neither changes nor records anything. *)
LEMMA QuietStep ==
  ASSUME IInv, TInv', UNCHANGED <<log, stale, edit>>,
         \A k \in Job : /\ OnPlan(k)' /\ HasRead(k)'
                        /\ at'[k] = "commit" <=> at[k] = "commit"
                        /\ at'[k] = "commit" => todo'[k] = todo[k]
  PROVE  IInv'
<1>1. Recorded' = Recorded
  BY DEF Recorded
<1>2. \A k \in Job : LoggedLast(k)'
  BY <1>1 DEF IInv, LoggedLast, Current, Before
<1>3. \A t \in Derived \intersect Recorded : \A p \in stale[t] : Accounted(t, p)'
  BY <1>1 DEF IInv, Accounted, Current, Before
<1> QED
  BY <1>1, <1>2, <1>3 DEF IInv

LEMMA StaysOnPlan ==
  ASSUME NEW k, OnPlan(k), Recorded \subseteq Recorded', todo'[k] = todo[k],
         at'[k] # "idle" => at[k] # "idle"
  PROVE  OnPlan(k)'
  BY DEF OnPlan

LEMMA StillRead ==
  ASSUME NEW k, HasRead(k), read'[k] = read[k], todo'[k] = todo[k], at'[k] = at[k]
  PROVE  HasRead(k)'
  BY DEF HasRead, Current

LEMMA StartPlanInv ==
  ASSUME IInv, TInv', NEW j \in Job, StartPlan(j)
  PROVE  IInv'
<1>1. /\ at[j] = "idle" /\ at' = [at EXCEPT ![j] = "read"] /\ todo' = [todo EXCEPT ![j] = Plan[j]]
      /\ UNCHANGED <<log, stale, read, edit>>
  BY DEF StartPlan, Move
<1>2. /\ at \in [Job -> Stage] /\ todo \in [Job -> Seq(Derived)]
      /\ Plan[j] \in Seq(Derived)
  BY Constants DEF IInv, TInv, TypeOK
<1>3. \A k \in Job \ {j} : OnPlan(k)' /\ HasRead(k)'
  BY <1>1, <1>2, StaysOnPlan, StillRead DEF IInv, Recorded
<1>4. OnPlan(j)'
  <2>1. todo'[j] = Plan[j] /\ Len(Plan[j]) \in Nat
    BY <1>1, <1>2
  <2>2. /\ Len(Plan[j]) = 0 + Len(Plan[j])
        /\ \A i \in 1..Len(Plan[j]) : Plan[j][i] = Plan[j][0 + i]
        /\ 1..0 = {}
    BY <2>1
  <2> QED
    BY <2>1, <2>2 DEF OnPlan
<1>5. HasRead(j)'
  BY <1>1, <1>2 DEF HasRead
<1> QED
  BY <1>1, <1>2, <1>3, <1>4, <1>5, QuietStep

LEMMA JobQuietInv ==
  ASSUME IInv, TInv', NEW j \in Job, ReadInput(j) \/ IssueDelete(j) \/ Delete(j) \/ Insert(j)
  PROVE  IInv'
<1>1. /\ UNCHANGED <<log, stale, todo, edit>>
      /\ \/ UNCHANGED at
         \/ \E to \in {"wait", "write", "log"} :
              at[j] \in {"read", "wait", "write"} /\ at' = [at EXCEPT ![j] = to]
  BY DEF ReadInput, IssueDelete, Delete, Insert, Move
<1>2. at \in [Job -> Stage] /\ \A k \in Job : OnPlan(k) /\ HasRead(k)
  BY DEF IInv, TInv, TypeOK
<1>3. \A k \in Job : /\ at'[k] # "idle" => at[k] # "idle"
                     /\ at'[k] = "commit" <=> at[k] = "commit"
  BY <1>1, <1>2
<1>4. \A k \in Job : OnPlan(k)'
  BY <1>1, <1>2, <1>3, StaysOnPlan DEF Recorded
<1>5. \A k \in Job : HasRead(k)'
  <2>1. CASE ReadInput(j)
    <3>1. /\ UNCHANGED <<at, todo>> /\ at[j] = "read"
          /\ \A k \in Job \ {j} : read'[k] = read[k]
      BY <2>1 DEF ReadInput, IInv, TInv, TypeOK
    <3> QED
      BY <1>2, <3>1, StillRead DEF HasRead
  <2>2. CASE IssueDelete(j)
    <3>1. read[j] = Reads[Current(j)] /\ UNCHANGED read /\ \A k \in Job \ {j} : at'[k] = at[k]
      BY <1>2, <2>2 DEF IssueDelete, Move
    <3> QED
      BY <1>1, <1>2, <3>1, StillRead DEF HasRead, Current
  <2>3. CASE Delete(j) \/ Insert(j)
    <3>1. /\ UNCHANGED read /\ at[j] \in {"wait", "write"}
          /\ \A k \in Job \ {j} : at'[k] = at[k]
      BY <1>2, <2>3 DEF Delete, Insert, Move
    <3> QED
      BY <1>1, <1>2, <3>1, StillRead DEF HasRead, Current
  <2> QED
    BY <2>1, <2>2, <2>3
<1> QED
  BY <1>1, <1>2, <1>3, <1>4, <1>5, QuietStep

LEMMA GiveUpInv ==
  ASSUME IInv, TInv', NEW j \in Job, GiveUp(j), at[j] # "commit"
  PROVE  IInv'
<1>1. /\ UNCHANGED <<log, stale, edit>>
      /\ at' = [at EXCEPT ![j] = "idle"] /\ todo' = [todo EXCEPT ![j] = << >>]
      /\ read' = [read EXCEPT ![j] = {}]
  BY DEF GiveUp, GoOn
<1>2. /\ at \in [Job -> Stage] /\ todo \in [Job -> Seq(Derived)] /\ read \in [Job -> SUBSET Table]
      /\ \A k \in Job : OnPlan(k) /\ HasRead(k)
  BY DEF IInv, TInv, TypeOK
<1>3. \A k \in Job \ {j} : OnPlan(k)' /\ HasRead(k)'
  BY <1>1, <1>2, StaysOnPlan, StillRead DEF Recorded
<1>4. OnPlan(j)' /\ HasRead(j)'
  BY <1>1, <1>2 DEF OnPlan, HasRead
<1> QED
  BY <1>1, <1>2, <1>3, <1>4, QuietStep

(* A table in turn, and what it is computed from. *)
LEMMA InTurn ==
  ASSUME NEW depth, Orderly(depth), IInv, NEW j \in Job, at[j] # "idle"
  PROVE  Reads[Current(j)] \intersect Computed \subseteq Recorded
<1>1. PICK n \in Nat :
        /\ Len(Plan[j]) = n + Len(todo[j])
        /\ \A i \in 1..Len(todo[j]) : todo[j][i] = Plan[j][n + i]
        /\ \A i \in 1..n : Plan[j][i] \in Recorded
  BY DEF IInv, OnPlan
<1>2. todo[j] \in Seq(Derived) /\ todo[j] # << >> /\ Plan[j] \in Seq(Derived)
  BY CurrentType, Constants DEF IInv, TInv
<1>3. Len(todo[j]) \in Nat /\ Len(todo[j]) >= 1 /\ Current(j) = todo[j][1]
  BY <1>2 DEF Current
<1>4. Current(j) = Plan[j][n + 1] /\ n + 1 \in DOMAIN Plan[j]
  BY <1>1, <1>2, <1>3
<1>5. ASSUME NEW p \in Reads[Current(j)] \intersect Computed PROVE p \in Recorded
  <2>1. PICK k \in 1..((n + 1) - 1) : Plan[j][k] = p
    BY <1>4 DEF Orderly
  <2>2. k \in 1..n
    OBVIOUS
  <2> QED
    BY <1>1, <2>1, <2>2
<1> QED
  BY <1>5

LEMMA LogInv ==
  ASSUME NEW depth, Orderly(depth), IInv, Undisturbed, TInv', NEW j \in Job, Log(j)
  PROVE  IInv'
<1> DEFINE c == Current(j)
<1>1. /\ at[j] = "log" /\ at' = [at EXCEPT ![j] = "commit"] /\ log' = Touch(log, c)
      /\ UNCHANGED <<stale, todo, read, edit>>
  BY DEF Log, Move
<1>2. /\ at \in [Job -> Stage] /\ c \in Derived /\ c \in Table /\ log \in Seq(Table)
      /\ IsInjective(log) /\ at'[j] = "commit" /\ \A k \in Job : Current(k)' = Current(k)
  BY <1>1, CurrentType, Constants DEF IInv, TInv, TypeOK, Current
<1>3. /\ Recorded' = Recorded \union {c}
      /\ \A p \in Recorded \ {c} : Before(log', p, c)
      /\ \A p, q \in Recorded \ {c} : Before(log', p, q) <=> Before(log, p, q)
  BY <1>1, <1>2, Touched DEF Recorded
<1>4. \A k \in Job \ {j} : at'[k] = at[k]
  BY <1>1, <1>2
<1>5. Reads[c] \intersect Computed \subseteq Recorded
  BY <1>1, InTurn
<1>6. \A k \in Job : at[k] = "commit" => Current(k) \notin Reads[c]
  <2>1. read[j] = Reads[c]
    BY <1>1 DEF IInv, HasRead
  <2> QED
    BY <2>1 DEF Undisturbed
<1> HIDE DEF c
<1>7. Recorded' \subseteq Edited \union Derived
  BY <1>2, <1>3 DEF IInv
<1>8. ASSUME NEW k \in Job PROVE OnPlan(k)' /\ HasRead(k)'
  <2>1. OnPlan(k)'
    BY <1>1, <1>3, <1>4, StaysOnPlan DEF IInv
  <2>2. HasRead(k)'
    BY <1>1, <1>2, <1>4 DEF IInv, HasRead
  <2> QED
    BY <2>1, <2>2
<1>9. ASSUME NEW k \in Job PROVE LoggedLast(k)'
  <2> DEFINE d == Current(k)
  <2> SUFFICES ASSUME at'[k] = "commit"
               PROVE  d \in Recorded' /\ \A t \in Derived \intersect Recorded' :
                        d \in Reads[t] => Before(log', t, d)
    BY <1>2 DEF LoggedLast, Before
  <2>1. d \in Recorded' /\ (d = c \/ (k # j /\ at[k] = "commit" /\ d \in Recorded))
    BY <1>3, <1>4 DEF IInv, LoggedLast, c
  <2>2. ASSUME NEW t \in Derived \intersect Recorded', d \in Reads[t]
        PROVE  Before(log', t, d)
    <3>1. t # c
      <4>1. CASE d = c
        BY <2>2, <4>1, NotItsOwnInput
      <4>2. CASE d # c
        BY <1>6, <2>1, <2>2, <4>2
      <4> QED
        BY <4>1, <4>2
    <3>2. t \in Recorded \ {c}
      BY <1>3, <3>1
    <3>3. CASE d = c
      BY <1>3, <3>2, <3>3
    <3>4. CASE d # c
      <4>1. Before(log, t, d)
        BY <2>1, <2>2, <3>2, <3>4 DEF IInv, LoggedLast
      <4> QED
        BY <1>3, <2>1, <3>2, <3>4, <4>1
    <3> QED
      BY <3>3, <3>4
  <2> QED
    BY <2>1, <2>2
<1>10. \A t \in Derived \intersect Recorded' : Reads[t] \intersect Computed \subseteq Recorded'
  BY <1>3, <1>5 DEF IInv
<1>11. ASSUME NEW t \in Derived \intersect Recorded', NEW p \in stale'[t]
       PROVE  Accounted(t, p)'
  <2>1. CASE t = c
    BY <1>2, <2>1 DEF Accounted, c
  <2>2. CASE t # c
    <3>1. t \in Recorded /\ Accounted(t, p)
      BY <1>1, <1>3, <2>2 DEF IInv
    <3>2. p \in Recorded /\ Before(log, t, p) => p \in Recorded' /\ Before(log', t, p)
      BY <1>3, <2>2, <3>1
    <3>3. \A k \in Job : at[k] = "commit" /\ Current(k) = t => at'[k] = "commit" /\ Current(k)' = t
      BY <1>1, <1>2, <1>4
    <3> QED
      BY <1>1, <3>1, <3>2, <3>3 DEF Accounted, Before
  <2> QED
    BY <2>1, <2>2
<1> QED
  BY <1>1, <1>7, <1>8, <1>9, <1>10, <1>11 DEF IInv

LEMMA CommitInv ==
  ASSUME IInv, Undisturbed, TInv', NEW j \in Job, Commit(j)
  PROVE  IInv'
<1> DEFINE c == Current(j)
           rest == Tail(todo[j])
<1>1. /\ at[j] = "commit"
      /\ stale' = [Outdates(c) EXCEPT ![c] = missed[j]]
      /\ read' = [read EXCEPT ![j] = {}]
      /\ todo' = [todo EXCEPT ![j] = rest]
      /\ at' = [at EXCEPT ![j] = IF rest = << >> THEN "idle" ELSE "read"]
      /\ UNCHANGED <<log, edit>>
  BY DEF Commit, GoOn
<1>2. /\ at \in [Job -> Stage] /\ todo \in [Job -> Seq(Derived)]
      /\ c \in Derived /\ rest \in Seq(Derived) /\ todo[j] \in Seq(Derived) /\ todo[j] # << >>
  BY <1>1, CurrentType DEF IInv, TInv, TypeOK
<1>3. /\ at'[j] \in {"idle", "read"}
      /\ \A k \in Job \ {j} : at'[k] = at[k] /\ read'[k] = read[k] /\ todo'[k] = todo[k]
  BY <1>1, <1>2 DEF IInv, TInv, TypeOK
<1>4. /\ Recorded' = Recorded /\ c \in Recorded
      /\ \A t \in Derived \intersect Recorded : c \in Reads[t] => Before(log, t, c)
  BY <1>1 DEF IInv, LoggedLast, Recorded
<1>5. OnPlan(j)'
  <2> SUFFICES ASSUME rest # << >> PROVE OnPlan(j)'
    BY <1>1, <1>2 DEF OnPlan
  <2>1. PICK n \in Nat :
          /\ Len(Plan[j]) = n + Len(todo[j])
          /\ \A i \in 1..Len(todo[j]) : todo[j][i] = Plan[j][n + i]
          /\ \A i \in 1..n : Plan[j][i] \in Recorded
    BY <1>1 DEF IInv, OnPlan
  <2>2. /\ Len(todo[j]) \in Nat /\ Len(todo[j]) >= 1 /\ c = todo[j][1]
        /\ Len(rest) = Len(todo[j]) - 1
        /\ \A i \in 1..Len(rest) : rest[i] = todo[j][i + 1]
    BY <1>2 DEF Current
  <2> HIDE DEF c, rest
  <2>3. todo'[j] = rest
    BY <1>1, <1>2
  <2>4. Len(Plan[j]) = (n + 1) + Len(rest)
    BY <2>1, <2>2
  <2>5. ASSUME NEW i \in 1..Len(rest) PROVE rest[i] = Plan[j][(n + 1) + i]
    <3>1. i + 1 \in 1..Len(todo[j]) /\ n + (i + 1) = (n + 1) + i
      BY <2>2
    <3> QED
      BY <2>1, <2>2, <3>1
  <2>6. ASSUME NEW i \in 1..(n + 1) PROVE Plan[j][i] \in Recorded
    <3>1. i \in 1..n \/ i = n + 1
      OBVIOUS
    <3>2. Plan[j][n + 1] = c
      BY <2>1, <2>2
    <3> QED
      BY <1>4, <2>1, <3>1, <3>2
  <2>7. \A i \in 1..(n + 1) : Plan[j][i] \in Recorded'
    BY <1>4, <2>6
  <2>8. \A i \in 1..Len(todo'[j]) : todo'[j][i] = Plan[j][(n + 1) + i]
    BY <2>3, <2>5, Zenon
  <2>9. Len(Plan[j]) = (n + 1) + Len(todo'[j])
    BY <2>3, <2>4
  <2>10. n + 1 \in Nat
    OBVIOUS
  <2> QED
    BY <2>7, <2>8, <2>9, <2>10, Zenon DEF OnPlan
<1>6. missed[j] = {} /\ c \in DOMAIN Outdates(c)
  BY <1>2 DEF Undisturbed, Outdates
<1> HIDE DEF c, rest
<1>7. ASSUME NEW k \in Job PROVE OnPlan(k)' /\ HasRead(k)' /\ LoggedLast(k)'
  <2>1. CASE k = j
    BY <1>3, <1>5, <2>1 DEF HasRead, LoggedLast
  <2>2. CASE k # j
    <3>1. OnPlan(k)' /\ HasRead(k)'
      BY <1>3, <1>4, <2>2, StaysOnPlan, StillRead DEF IInv
    <3>2. LoggedLast(k)'
      BY <1>1, <1>3, <1>4, <2>2 DEF IInv, LoggedLast, Current, Before
    <3> QED
      BY <3>1, <3>2
  <2> QED
    BY <2>1, <2>2
<1>8. /\ stale'[c] = {}
      /\ \A t \in Derived \ {c} :
           stale'[t] = IF c \in Reads[t] THEN stale[t] \union {c} ELSE stale[t]
  BY <1>1, <1>6 DEF Outdates
<1>9. \A t \in Derived : stale'[t] \subseteq Reads[t]
  BY <1>8 DEF IInv
<1>10. ASSUME NEW t \in Derived \intersect Recorded', NEW p \in stale'[t]
       PROVE  Accounted(t, p)'
  <2>1. t # c /\ t \in Recorded /\ p \in Reads[t]
    BY <1>4, <1>8, <1>9
  <2>2. CASE p = c
    BY <1>1, <1>4, <2>1, <2>2 DEF Accounted, Before
  <2>3. CASE p # c
    <3>1. Accounted(t, p)
      BY <1>8, <2>1, <2>3 DEF IInv
    <3>2. \A k \in Job : at[k] = "commit" /\ Current(k) = t => at'[k] = "commit" /\ Current(k)' = t
      BY <1>3, <2>1 DEF Current, c
    <3> QED
      BY <1>1, <1>4, <3>1, <3>2 DEF Accounted, Before
  <2> QED
    BY <2>2, <2>3
<1> QED
  BY <1>4, <1>7, <1>9, <1>10 DEF IInv

LEMMA EditCommitInv ==
  ASSUME IInv, TInv', NEW e \in Editor, NEW x \in Edited, EditCommit(e, x)
  PROVE  IInv'
<1>1. /\ edit[e] = Nil /\ edit' = [edit EXCEPT ![e] = x]
      /\ stale' = Outdates(x)
      /\ UNCHANGED <<log, at, todo, read>>
  BY DEF EditCommit
<1>3. Recorded' = Recorded
  BY <1>1 DEF Recorded
<1>5. \A k \in Job : OnPlan(k)' /\ HasRead(k)'
  BY <1>1, <1>3, StillRead DEF IInv, OnPlan
<1>6. \A k \in Job : LoggedLast(k)'
  BY <1>1, <1>3 DEF IInv, LoggedLast, Current, Before
<1>7. \A t \in Derived : stale'[t] = IF x \in Reads[t] THEN stale[t] \union {x} ELSE stale[t]
  BY <1>1 DEF Outdates
<1>8. \A t \in Derived : stale'[t] \subseteq Reads[t]
  BY <1>7 DEF IInv
<1>9. edit \in [Editor -> Edited \union {Nil}]
  BY DEF IInv, TInv, TypeOK
<1>10. ASSUME NEW t \in Derived \intersect Recorded, NEW p \in stale'[t]
       PROVE  Accounted(t, p)'
  <2>1. CASE p = x
    <3>1. edit'[e] = p
      BY <1>1, <1>9, <2>1
    <3> QED
      BY <3>1 DEF Accounted
  <2>2. CASE p # x
    <3>1. Accounted(t, p)
      BY <1>7, <2>2 DEF IInv
    <3>2. p # Nil
      BY <1>8, Constants, TableAssumption
    <3>3. ASSUME NEW d \in Editor, edit[d] = p PROVE edit'[d] = p
      BY <1>1, <1>9, <3>2, <3>3
    <3>4. p \in Recorded /\ Before(log, t, p) => p \in Recorded' /\ Before(log', t, p)
      BY <1>1, <1>3 DEF Before
    <3>5. \A k \in Job : at[k] = "commit" /\ Current(k) = t => at'[k] = "commit" /\ Current(k)' = t
      BY <1>1 DEF Current
    <3> QED
      BY <3>1, <3>3, <3>4, <3>5 DEF Accounted, Before
  <2> QED
    BY <2>1, <2>2
<1> QED
  BY <1>3, <1>5, <1>6, <1>8, <1>10 DEF IInv

LEMMA EditLogInv ==
  ASSUME IInv, TInv', NEW e \in Editor, EditLog(e)
  PROVE  IInv'
<1> DEFINE x == edit[e]
<1>1. /\ x # Nil /\ log' = Touch(log, x) /\ edit' = [edit EXCEPT ![e] = Nil]
      /\ UNCHANGED <<stale, at, todo, read>>
  BY DEF EditLog, job
<1>2. /\ edit \in [Editor -> Edited \union {Nil}] /\ log \in Seq(Table) /\ IsInjective(log)
  BY DEF IInv, TInv, TypeOK
<1>3. x \in Edited /\ x \in Table /\ x \notin Derived
  BY <1>1, <1>2, Constants
<1>4. /\ Recorded' = Recorded \union {x}
      /\ \A p \in Recorded \ {x} : Before(log', p, x)
      /\ \A p, q \in Recorded \ {x} : Before(log', p, q) <=> Before(log, p, q)
  BY <1>1, <1>2, <1>3, Touched DEF Recorded
<1>5. \A d \in Editor \ {e} : edit'[d] = edit[d]
  BY <1>1, <1>2
<1> HIDE DEF x
<1>6. \A k \in Job : OnPlan(k)' /\ HasRead(k)'
  BY <1>1, <1>4, StaysOnPlan, StillRead DEF IInv
<1>7. ASSUME NEW k \in Job PROVE LoggedLast(k)'
  <2> SUFFICES ASSUME at[k] = "commit" PROVE LoggedLast(k)'
    BY <1>1 DEF LoggedLast
  <2>1. Current(k)' = Current(k) /\ Current(k) \in Derived /\ Current(k) \in Recorded
    BY <1>1, CurrentType DEF IInv, TInv, LoggedLast, Current
  <2>2. \A t \in Derived \intersect Recorded :
          Current(k) \in Reads[t] => Before(log, t, Current(k))
    BY DEF IInv, LoggedLast
  <2>3. \A t \in Derived \intersect Recorded' :
          Current(k) \in Reads[t] => Before(log', t, Current(k))
    BY <1>3, <1>4, <2>1, <2>2
  <2> QED
    BY <1>4, <2>1, <2>3 DEF LoggedLast, Before
<1>8. \A t \in Derived \intersect Recorded' : t \in Recorded
  BY <1>3, <1>4
<1>9. ASSUME NEW t \in Derived \intersect Recorded', NEW p \in stale'[t]
      PROVE  Accounted(t, p)'
  <2>1. t \in Recorded /\ t # x /\ Accounted(t, p)
    BY <1>1, <1>3, <1>8 DEF IInv
  <2>2. CASE p = x
    <3>1. p \in Recorded' /\ Before(log', t, p)
      BY <1>4, <2>1, <2>2
    <3> QED
      BY <3>1 DEF Accounted, Before
  <2>3. CASE p # x
    <3>1. ASSUME NEW d \in Editor, edit[d] = p PROVE edit'[d] = p
      BY <1>5, <2>3, <3>1 DEF x
    <3>2. p \in Recorded /\ Before(log, t, p) => p \in Recorded' /\ Before(log', t, p)
      BY <1>4, <2>1, <2>3
    <3>3. \A k \in Job : at[k] = "commit" /\ Current(k) = t => at'[k] = "commit" /\ Current(k)' = t
      BY <1>1 DEF Current
    <3> QED
      BY <2>1, <3>1, <3>2, <3>3 DEF Accounted, Before
  <2> QED
    BY <2>2, <2>3
<1>10. Recorded' \subseteq Edited \union Derived
  BY <1>3, <1>4 DEF IInv
<1>11. \A t \in Derived \intersect Recorded' : Reads[t] \intersect Computed \subseteq Recorded'
  BY <1>4, <1>8 DEF IInv
<1> QED
  BY <1>1, <1>6, <1>7, <1>9, <1>10, <1>11 DEF IInv

LEMMA InitInv ==
  Init => IInv
<1> SUFFICES ASSUME Init PROVE IInv
  OBVIOUS
<1>1. TInv
  BY TypeInit
<1>2. Recorded = {}
  BY DEF Init, Recorded, Range
<1>3. \A j \in Job : at[j] = "idle"
  BY DEF Init
<1> QED
  BY <1>1, <1>2, <1>3 DEF Init, IInv, OnPlan, HasRead, LoggedLast

LEMMA StepInv ==
  ASSUME NEW depth, Orderly(depth), IInv, Undisturbed, [Next]_vars
  PROVE  IInv'
<1>1. TInv'
  BY TypeStep DEF IInv
<1>2. CASE UNCHANGED vars
  <2>1. UNCHANGED <<log, stale, edit, at, todo, read>>
    BY <1>2 DEF vars
  <2>2. \A k \in Job : OnPlan(k)' /\ HasRead(k)'
    BY <2>1, StaysOnPlan, StillRead DEF IInv, Recorded
  <2> QED
    BY <1>1, <2>1, <2>2, QuietStep DEF IInv
<1>3. ASSUME NEW j \in Job, StartPlan(j) PROVE IInv'
  BY <1>1, <1>3, StartPlanInv
<1>4. ASSUME NEW j \in Job, JobStep(j) PROVE IInv'
  <2>1. CASE InsertFails(j)
    BY <1>1, <2>1, GiveUpInv DEF InsertFails
  <2> QED
    BY <1>1, <1>4, <2>1, JobQuietInv, LogInv, CommitInv DEF JobStep
<1>5. ASSUME NEW j \in Job, Fail(j) PROVE IInv'
  <2>1. GiveUp(j) /\ at[j] # "commit"
    BY <1>5 DEF Fail
  <2> QED
    BY <1>1, <2>1, GiveUpInv
<1>6. ASSUME NEW j \in Job, Killed(j) PROVE IInv'
  BY <1>6 DEF Killed, Orderly
<1>7. ASSUME NEW e \in Editor, EditLog(e) PROVE IInv'
  BY <1>1, <1>7, EditLogInv
<1>8. ASSUME NEW e \in Editor, EditLost(e) PROVE IInv'
  BY <1>8 DEF EditLost, Orderly
<1>9. ASSUME NEW e \in Editor, NEW t \in Edited, EditCommit(e, t) PROVE IInv'
  BY <1>1, <1>9, EditCommitInv
<1> QED
  BY <1>2, <1>3, <1>4, <1>5, <1>6, <1>7, <1>8, <1>9 DEF Next

-----------------------------------------------------------------------------
(* The derived tables that a derived table is computed from. *)
Flow == {e \in Derived \X Derived : e[1] \in Reads[e[2]]}

LEMMA FlowEdges ==
  ASSUME NEW t \in Derived
  PROVE  Predecessors(Flow, t) = Reads[t] \intersect Derived
<1>1. \A p : <<p, t>>[1] = p /\ <<p, t>>[2] = t
  OBVIOUS
<1> QED
  BY <1>1 DEF Predecessors, Flow

LEMMA FlowLevels ==
  ASSUME NEW depth, Orderly(depth)
  PROVE  Levels(Flow, [n \in Nodes(Flow) |-> depth[n]])
<1> DEFINE d == [n \in Nodes(Flow) |-> depth[n]]
<1>1. ASSUME NEW e \in Flow
      PROVE  /\ e = <<e[1], e[2]>> /\ e[1] \in Nodes(Graph) /\ e[2] \in Nodes(Graph)
             /\ depth[e[1]] < depth[e[2]]
  <2>1. e = <<e[1], e[2]>> /\ e[2] \in Derived /\ e[1] \in Reads[e[2]] \intersect Derived
    BY DEF Flow
  <2>2. e[1] \in Up(Graph, e[2])
    BY <2>1 DEF Orderly
  <2> QED
    BY <2>1, <2>2, ViaDeeper DEF Orderly, Up
<1>2. Nodes(Flow) \subseteq Nodes(Graph)
  BY <1>1 DEF Nodes
<1>3. d \in [Nodes(Flow) -> Nat]
  BY <1>2 DEF Orderly, Levels
<1>4. ASSUME NEW e \in Flow PROVE e = <<e[1], e[2]>> /\ d[e[1]] < d[e[2]]
  BY <1>1, EdgeEnds
<1> QED
  BY <1>3, <1>4 DEF Levels

(* Up to date is a table of which all derived tables it is computed from,
   directly or not, and itself have no input that has changed.             *)
LEMMA UpToDateForm ==
  ASSUME NEW depth, Orderly(depth), NEW t \in Derived
  PROVE  UpToDate(t) <=> \A q \in Up(Flow, t) \union {t} : stale[q] = {}
<1> DEFINE A == {q \in Derived : stale[q] = {}}
           F(f) == [q \in Derived |-> /\ stale[q] = {}
                                      /\ \A p \in Reads[q] \intersect Derived : f[p]]
           fresh == CHOOSE f : f = F(f)
<1>1. UpToDate(t) = fresh[t]
  BY DEF UpToDate
<1>2. \A q \in Derived : Predecessors(Flow, q) = Reads[q] \intersect Derived
  BY FlowEdges
<1>3. ASSUME NEW f PROVE f = F(f) <=> Asks(Flow, Derived, A, f)
  <2>1. \A q \in Derived : stale[q] = {} <=> q \in A
    OBVIOUS
  <2>2. F(f) = [q \in Derived |-> q \in A /\ \A p \in Predecessors(Flow, q) : f[p]]
    <3> HIDE DEF A
    <3> QED
      BY <1>2, <2>1
  <2> QED
    BY <2>2 DEF Asks
<1>4. \A q \in Derived : Predecessors(Flow, q) \subseteq Derived
  BY <1>2
<1>5. fresh = F(fresh)
  <2>1. \E f : f = F(f)
    <3>1. \E f : Asks(Flow, Derived, A, f)
      BY <1>4, AsksExists
    <3> HIDE DEF A, F
    <3> QED
      BY <1>3, <3>1
  <2> HIDE DEF F
  <2> QED
    BY <2>1
<1>6. Asks(Flow, Derived, A, fresh)
  <2> HIDE DEF F, fresh, A
  <2> QED
    BY <1>3, <1>5
<1> HIDE DEF fresh, F
<1>7. fresh[t] <=> t \in A /\ Up(Flow, t) \subseteq A
  <2> HIDE DEF A
  <2> QED
    BY <1>4, <1>6, FlowLevels, AsksAll
<1>8. Up(Flow, t) \subseteq Derived
  BY <1>4, UpInside
<1> QED
  BY <1>1, <1>7, <1>8

(* What is computed from its present inputs, and only from recorded ones. *)
LEMMA CleanIsCurrent ==
  ASSUME NEW depth, Orderly(depth), IsFiniteSet(Nodes(Graph)), IInv, Settled,
         NEW t \in Derived, Clean(t)
  PROVE  UpToDate(t)
<1> DEFINE X == {q \in Derived : /\ q \in Recorded \union (Derived \ Computed)
                                 /\ q = t \/ q \in Up(Graph, t)}
<1>1. log \in Seq(Table) /\ t \in Recorded /\ Recorded \subseteq Edited \union Derived
  BY DEF IInv, TInv, TypeOK, Clean
<1>2. \A q \in (Up(Graph, t) \intersect Recorded) \union {t} :
        \A p \in Up(Graph, q) \intersect Recorded : Before(log, p, q)
  BY <1>1, CleanForm DEF Orderly, Clean, Recorded
<1>3. ASSUME NEW q \in X PROVE stale[q] = {}
  <2> SUFFICES ASSUME NEW p \in stale[q] PROVE FALSE
    OBVIOUS
  <2>1. p \in Reads[q] /\ p # Nil /\ q \in Derived \intersect Recorded
    BY Constants, TableAssumption DEF IInv, Computed
  <2>2. p \in Recorded /\ Before(log, q, p)
    <3>1. Accounted(q, p)
      BY <2>1 DEF IInv
    <3> QED
      BY <2>1, <3>1 DEF Accounted, Settled
  <2>3. p \in Up(Graph, q)
    BY <1>1, <2>1, <2>2 DEF Orderly
  <2>4. Before(log, p, q)
    BY <1>2, <2>1, <2>2, <2>3
  <2>5. Index(log, p) \in Nat /\ Index(log, q) \in Nat
    BY <1>1, <2>1, <2>2, IndexType DEF Recorded
  <2> QED
    BY <2>2, <2>4, <2>5 DEF Before
<1>4. ASSUME NEW q \in X, NEW p \in Predecessors(Flow, q) PROVE p \in X
  <2>1. p \in Reads[q] \intersect Derived
    BY FlowEdges
  <2>2. p \in Recorded \union (Derived \ Computed)
    BY <2>1 DEF IInv, Computed
  <2>3. p \in Up(Graph, q)
    BY <2>1 DEF Orderly
  <2>4. q = t \/ Up(Graph, q) \subseteq Up(Graph, t)
    BY UpTransitive
  <2> QED
    BY <2>1, <2>2, <2>3, <2>4
<1>5. t \in X
  BY <1>1
<1> HIDE DEF X
<1>6. Up(Flow, t) \subseteq X
  BY <1>4, <1>5, UpInside
<1> QED
  BY <1>3, <1>5, <1>6, UpToDateForm

(* A table that the page reports clean shows results of the present inputs,
   whatever tasks have raised, for every dependency list, any number of
   edits and of jobs, and however these overlap: as long as no input changes
   between what a job reads and what it writes, none is read between its
   entry in the changelog and its commit, and no process is lost between
   two commits; the list has the inputs upstream and plans keep its order. *)
THEOREM CleanIsUpToDate ==
  ASSUME NEW CONSTANT depth, Orderly(depth), IsFiniteSet(Nodes(Graph))
  PROVE  Spec /\ []Undisturbed => []CleanMeansUpToDate
<1>1. IInv /\ Undisturbed /\ [Next]_vars => IInv'
  BY StepInv
<1>2. IInv => CleanMeansUpToDate
  BY CleanIsCurrent DEF CleanMeansUpToDate
<1> QED
  BY <1>1, <1>2, InitInv, PTL DEF Spec

-----------------------------------------------------------------------------
(* One refresh at a time. *)
OneAtATime == \A j, k \in Job : at[j] # "idle" /\ at[k] # "idle" => j = k

(* What a job has read belongs to the table in turn, and nothing of it has
   changed.                                                                *)
ReadsOwn ==
  /\ TInv
  /\ \A j \in Job : /\ missed[j] = {}
                    /\ at[j] = "idle" => read[j] = {}
                    /\ at[j] # "idle" => read[j] \subseteq Reads[Current(j)]

LEMMA ReadsOwnStep ==
  ASSUME NEW depth, Orderly(depth), "overlap" \notin Env, ReadsOwn, OneAtATime, [Next]_vars
  PROVE  ReadsOwn'
<1>1. TInv'
  BY TypeStep DEF ReadsOwn
<1>2. /\ at \in [Job -> Stage] /\ todo \in [Job -> Seq(Derived)]
      /\ read \in [Job -> SUBSET Table] /\ missed \in [Job -> SUBSET Table]
  BY DEF ReadsOwn, TInv, TypeOK
<1>3. CASE UNCHANGED <<read, missed, todo>> /\ \A k \in Job : at'[k] = "idle" <=> at[k] = "idle"
  BY <1>1, <1>3 DEF ReadsOwn, Current
<1>4. ASSUME NEW j \in Job, StartPlan(j) PROVE ReadsOwn'
  <2>1. /\ at[j] = "idle" /\ at' = [at EXCEPT ![j] = "read"]
        /\ todo' = [todo EXCEPT ![j] = Plan[j]] /\ UNCHANGED <<read, missed>>
    BY <1>4 DEF StartPlan, Move
  <2> QED
    BY <1>1, <1>2, <2>1 DEF ReadsOwn, Current
<1>5. ASSUME NEW j \in Job, ReadInput(j) PROVE ReadsOwn'
  <2>1. PICK p \in Reads[Current(j)] : read' = [read EXCEPT ![j] = @ \union {p}]
    BY <1>5 DEF ReadInput
  <2>2. at[j] = "read" /\ UNCHANGED <<at, todo, missed>>
    BY <1>5 DEF ReadInput
  <2> QED
    BY <1>1, <1>2, <2>1, <2>2 DEF ReadsOwn, Current
<1>6. ASSUME NEW j \in Job, IssueDelete(j) \/ Delete(j) \/ Insert(j) \/ Log(j) PROVE ReadsOwn'
  <2>1. /\ UNCHANGED <<read, missed, todo>>
        /\ at[j] # "idle" /\ \E to \in Stage \ {"idle"} : at' = [at EXCEPT ![j] = to]
    BY <1>6 DEF IssueDelete, Delete, Insert, Log, Move, Stage
  <2> QED
    BY <1>2, <1>3, <2>1
<1>7. ASSUME NEW j \in Job, Commit(j) PROVE ReadsOwn'
  <2> DEFINE c == Current(j)
             rest == Tail(todo[j])
  <2>1. /\ at[j] = "commit"
        /\ missed' = [Misses(c) EXCEPT ![j] = {}]
        /\ todo' = [todo EXCEPT ![j] = rest]
        /\ at' = [at EXCEPT ![j] = IF rest = << >> THEN "idle" ELSE "read"]
        /\ read' = [read EXCEPT ![j] = {}]
    BY <1>7 DEF Commit, GoOn
  <2> HIDE DEF c, rest
  <2>2. ASSUME NEW k \in Job, k # j
        PROVE  at[k] = "idle" /\ read[k] = {} /\ Misses(c)[k] = {}
    BY <2>1, <2>2 DEF OneAtATime, ReadsOwn, Misses
  <2>3. \A k \in Job : missed'[k] = {}
    BY <2>1, <2>2 DEF Misses
  <2>4. \A k \in Job : read'[k] = {}
    BY <1>2, <2>1, <2>2
  <2> QED
    BY <1>1, <2>3, <2>4 DEF ReadsOwn
<1>8. ASSUME NEW j \in Job, GiveUp(j) PROVE ReadsOwn'
  <2>1. /\ at' = [at EXCEPT ![j] = "idle"] /\ todo' = [todo EXCEPT ![j] = << >>]
        /\ read' = [read EXCEPT ![j] = {}] /\ missed' = [missed EXCEPT ![j] = {}]
    BY <1>8 DEF GiveUp, GoOn
  <2> QED
    BY <1>1, <1>2, <2>1 DEF ReadsOwn, Current
<1>9. ASSUME NEW e \in Editor, NEW x \in Edited, EditCommit(e, x) PROVE ReadsOwn'
  <2>1. UNCHANGED <<at, todo, read>> /\ missed' = Misses(x) /\ \A k \in Job : x \notin read[k]
    BY <1>9 DEF EditCommit
  <2>2. \A k \in Job : missed'[k] = {}
    BY <2>1 DEF Misses, ReadsOwn
  <2> QED
    BY <1>1, <2>1, <2>2 DEF ReadsOwn, Current
<1>10. ASSUME NEW e \in Editor, EditLog(e) \/ EditLost(e) PROVE ReadsOwn'
  <2>1. UNCHANGED <<at, todo, read, missed>>
    BY <1>10 DEF EditLog, EditLost, job
  <2> QED
    BY <1>3, <2>1
<1>11. CASE UNCHANGED vars
  <2>1. UNCHANGED <<at, todo, read, missed>>
    BY <1>11 DEF vars
  <2> QED
    BY <1>3, <2>1
<1>12. ASSUME NEW j \in Job, InsertFails(j) \/ Fail(j) \/ Killed(j) PROVE ReadsOwn'
  BY <1>8, <1>12 DEF InsertFails, Fail, Killed
<1> QED
  BY <1>4, <1>5, <1>6, <1>7, <1>9, <1>10, <1>11, <1>12 DEF Next, JobStep

LEMMA AloneIsUndisturbed ==
  ASSUME NEW depth, Orderly(depth), ReadsOwn, OneAtATime
  PROVE  Undisturbed
<1> SUFFICES ASSUME NEW j \in Job, NEW k \in Job, at[k] = "commit", Current(k) \in read[j]
             PROVE  FALSE
  BY DEF Undisturbed, ReadsOwn
<1>1. j = k /\ Current(k) \in Reads[Current(k)]
  BY DEF ReadsOwn, OneAtATime
<1>2. Current(k) \in Derived
  BY CurrentType DEF ReadsOwn, TInv
<1> QED
  BY <1>1, <1>2, NotItsOwnInput

(* The same for refreshes that come one after the other, by beat and by any
   users, while nobody edits what the running one has read.                *)
THEOREM OneRefreshAtATime ==
  ASSUME NEW CONSTANT depth, Orderly(depth), IsFiniteSet(Nodes(Graph)), "overlap" \notin Env
  PROVE  Spec /\ []OneAtATime => []CleanMeansUpToDate
<1>1. Init => ReadsOwn
  BY TypeInit DEF Init, ReadsOwn
<1>2. ReadsOwn /\ OneAtATime /\ [Next]_vars => ReadsOwn'
  BY ReadsOwnStep
<1>3. ReadsOwn /\ OneAtATime => Undisturbed
  BY AloneIsUndisturbed
<1>4. Spec /\ []OneAtATime => []Undisturbed
  BY <1>1, <1>2, <1>3, PTL DEF Spec
<1> QED
  BY <1>4, CleanIsUpToDate, PTL

-----------------------------------------------------------------------------
LEMMA RealOrder ==
  ASSUME \A j \in Job : Plan[j] = AllResults,
         Graph = OG, Reads = [t \in Replaced |-> Inputs[t]], Env \subseteq {"fails", "overlap"}
  PROVE  Orderly(Level) /\ IsFiniteSet(Nodes(Graph))
<1>1. Derived = Replaced /\ \A t \in Derived : Reads[t] = Inputs[t]
  BY DEF Derived
<1>2. \A t \in Derived : Reads[t] \intersect (Edited \union Derived) \subseteq Up(Graph, t)
  BY <1>1, RealPlan
<1>3. ASSUME NEW i \in DOMAIN AllResults,
             NEW p \in Reads[AllResults[i]] \intersect Computed
      PROVE  \E k \in 1..(i - 1) : AllResults[k] = p
  <2>1. AllResults[i] \in Derived
    BY <1>1 DEF Replaced, Range
  <2>2. p \in Inputs[AllResults[i]] \intersect Replaced
    BY <1>1, <2>1 DEF Computed
  <2> QED
    BY <2>2, RealPlan
<1> QED
  BY <1>2, <1>3, OGLevels DEF Orderly

(* The same of the tables of StormPiper: delete_and_refresh_all_results_tables
   with its real plan, inputs and dependency list, for any number of solve
   requests, whichever other tables any number of users edit, any number of
   times, and however often a task raises.                                 *)
THEOREM RealResultsUndisturbed ==
  ASSUME \A j \in Job : Plan[j] = AllResults,
         Graph = OG, Reads = [t \in Replaced |-> Inputs[t]], Env \subseteq {"fails", "overlap"}
  PROVE  Spec /\ []Undisturbed => []CleanMeansUpToDate
  BY RealOrder, CleanIsUpToDate

(* One request to solve, while nobody edits what it has read: then nothing
   else is needed.                                                         *)
THEOREM RealResultsUpToDate ==
  ASSUME NEW CONSTANT solve, Job = {solve}, Plan[solve] = AllResults,
         Graph = OG, Reads = [t \in Replaced |-> Inputs[t]], Env \subseteq {"fails"}
  PROVE  Spec => []CleanMeansUpToDate
<1>1. OneAtATime
  BY DEF OneAtATime
<1>2. Spec /\ []OneAtATime => []CleanMeansUpToDate
  BY RealOrder, OneRefreshAtATime
<1> QED
  BY <1>1, <1>2, PTL
================================================================================
