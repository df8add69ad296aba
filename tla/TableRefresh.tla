----------------------------- MODULE TableRefresh -----------------------------
(***************************************************************************)
(* How derived tables are recomputed (src/tasks.py), replaced and logged   *)
(* (database/utils.py, database/changelog.py) while users edit the tables  *)
(* they are computed from (database/crud/base.py).  A job runs a plan: it  *)
(* replaces one table after the other, each from the inputs it reads.      *)
(*                                                                         *)
(* Of the contents of a table the model keeps only which inputs have       *)
(* changed since it was computed.  What may go wrong is the constant Env.  *)
(***************************************************************************)
EXTENDS Dependencies

CONSTANTS
  Table,
  Graph,       \* the edges of the dependency list
  Reads,       \* the inputs of each table that a plan replaces
  Edited,      \* tables that users edit
  Editor,      \* requests that edit a table
  Job,         \* worker processes that run a plan
  Plan,        \* the tables that each job replaces, in order
  Daily,       \* jobs that beat starts every day; users start the others
  Nil,
  Env,
  MaxEdits, MaxStarts, MaxFailures    \* bounds on what Env and users do

(***************************************************************************)
(* overlap   users edit a table that a running job has read               *)
(* fails     a body raises before the change is logged: run_in_chain turns *)
(*           that into FALSE, and nothing further of the plan runs         *)
(* killed    the worker process, or the connection, is lost after the      *)
(*           change is logged and before the data is committed             *)
(* unlogged  the API process is lost after the edit and before its log     *)
(***************************************************************************)
Events == {"overlap", "fails", "killed", "unlogged"}

Derived == DOMAIN Reads

ASSUME TableAssumption ==
  /\ Graph \subseteq Table \X Table
  /\ Reads \in [Derived -> SUBSET Table] /\ Derived \subseteq Table
  /\ Edited \subseteq Table \ Derived
  /\ Nil \notin Table
  /\ Plan \in [Job -> Seq(Derived) \ {<< >>}]
  /\ Daily \subseteq Job
ASSUME BoundAssumption ==
  /\ Env \subseteq Events
  /\ MaxEdits \in Nat /\ MaxStarts \in Nat /\ MaxFailures \in Nat

VARIABLES
  log,      \* tablechangelog, sorted by last_updated
  stale,    \* the inputs of each derived table that changed since it was computed
  at,       \* where each job is in the replacement of its current table
  todo,     \* the rest of each job's plan; its current table comes first
  read,     \* the inputs each job has read for its current table
  missed,   \* the ones among them that changed after it had read them
  clash,    \* a job whose DELETE waited for another job's commit
  edit,     \* the table of each edit that is committed and not yet logged
  count     \* edits, starts and failures so far

vars == <<log, stale, at, todo, read, missed, clash, edit, count>>
job == <<at, todo, read, missed, clash>>

Stage == {"idle", "read", "wait", "write", "log", "commit"}

TypeOK ==
  /\ log \in Seq(Table)
  /\ stale \in [Derived -> SUBSET Table]
  /\ at \in [Job -> Stage]
  /\ todo \in [Job -> Seq(Derived)]
  /\ \A j \in Job : at[j] # "idle" <=> todo[j] # << >>
  /\ read \in [Job -> SUBSET Table]
  /\ missed \in [Job -> SUBSET Table]
  /\ clash \in [Job -> BOOLEAN]
  /\ edit \in [Editor -> Edited \union {Nil}]
  /\ count \in [edits : 0..MaxEdits, starts : 0..MaxStarts, failures : 0..MaxFailures]

(* A new deployment: nothing computed, nothing logged. *)
Init ==
  /\ log = << >>
  /\ stale = Reads
  /\ at = [j \in Job |-> "idle"]
  /\ todo = [j \in Job |-> << >>]
  /\ read = [j \in Job |-> {}]
  /\ missed = [j \in Job |-> {}]
  /\ clash = [j \in Job |-> FALSE]
  /\ edit = [e \in Editor |-> Nil]
  /\ count = [edits |-> 0, starts |-> 0, failures |-> 0]

Current(j) == Head(todo[j])

Move(j, from, to) ==
  /\ at[j] = from
  /\ at' = [at EXCEPT ![j] = to]

(* After a change of t: what was computed from it is stale, and a job that
   has read it already has missed the change.                              *)
Outdates(t) ==
  [q \in Derived |-> IF t \in Reads[q] THEN stale[q] \union {t} ELSE stale[q]]

Misses(t) ==
  [k \in Job |-> IF t \in read[k] THEN missed[k] \union {t} ELSE missed[k]]

-----------------------------------------------------------------------------
(* A job. *)

StartPlan(j) ==
  /\ Move(j, "idle", "read")
  /\ todo' = [todo EXCEPT ![j] = Plan[j]]
  /\ \/ j \in Daily /\ UNCHANGED count
     \/ j \notin Daily /\ count.starts < MaxStarts
        /\ count' = [count EXCEPT !.starts = @ + 1]
  /\ UNCHANGED <<log, stale, read, missed, clash, edit>>

(* One of the queries of the function that computes the table. *)
ReadInput(j) ==
  /\ at[j] = "read"
  /\ \E p \in Reads[Current(j)] \ read[j] : read' = [read EXCEPT ![j] = @ \union {p}]
  /\ UNCHANGED <<log, stale, at, todo, missed, clash, edit, count>>

(* The frame is computed, the transaction begins and sends its DELETE. *)
IssueDelete(j) ==
  /\ Move(j, "read", "wait")
  /\ read[j] = Reads[Current(j)]
  /\ UNCHANGED <<log, stale, todo, read, missed, clash, edit, count>>

Replacing(k, t) == at[k] \in {"write", "log", "commit"} /\ Current(k) = t

(* The DELETE locks the rows of the table until the transaction ends. *)
Delete(j) ==
  /\ Move(j, "wait", "write")
  /\ \A k \in Job \ {j} : ~Replacing(k, Current(j))
  /\ UNCHANGED <<log, stale, todo, read, missed, clash, edit, count>>

(* Rows that another job committed while the DELETE was waiting are not
   deleted by it, and have the same primary keys as the new ones.          *)
Insert(j) ==
  /\ ~clash[j]
  /\ Move(j, "write", "log")
  /\ UNCHANGED <<log, stale, todo, read, missed, clash, edit, count>>

(* sync_log in a session of its own, which commits at once. *)
Log(j) ==
  /\ Move(j, "log", "commit")
  /\ log' = Touch(log, Current(j))
  /\ UNCHANGED <<stale, todo, read, missed, clash, edit, count>>

(* The job is about to replace the next table of its plan, or done. *)
GoOn(j, rest) ==
  /\ todo' = [todo EXCEPT ![j] = rest]
  /\ at' = [at EXCEPT ![j] = IF rest = << >> THEN "idle" ELSE "read"]
  /\ read' = [read EXCEPT ![j] = {}]

Commit(j) ==
  LET t == Current(j)
      waiting == {k \in Job : at[k] = "wait" /\ Current(k) = t}
  IN  /\ at[j] = "commit"
      /\ stale' = [Outdates(t) EXCEPT ![t] = missed[j]]
      /\ missed' = [Misses(t) EXCEPT ![j] = {}]
      /\ clash' = [k \in Job |-> clash[k] \/ k \in waiting]
      /\ GoOn(j, Tail(todo[j]))
      /\ UNCHANGED <<log, edit, count>>

(* Mutant: the failed table stays at the head of the plan. *)
GiveUpInPlace(j) ==
  /\ at' = [at EXCEPT ![j] = "idle"]
  /\ read' = [read EXCEPT ![j] = {}]
  /\ missed' = [missed EXCEPT ![j] = {}]
  /\ clash' = [clash EXCEPT ![j] = FALSE]
  /\ UNCHANGED <<log, stale, todo, edit>>

(* The transaction rolls back and the rest of the plan does not run. *)
GiveUp(j) ==
  /\ GoOn(j, << >>)
  /\ missed' = [missed EXCEPT ![j] = {}]
  /\ clash' = [clash EXCEPT ![j] = FALSE]
  /\ UNCHANGED <<log, stale, edit>>

InsertFails(j) ==
  /\ at[j] = "write" /\ clash[j]
  /\ GiveUp(j)
  /\ UNCHANGED count

Failure ==
  /\ count.failures < MaxFailures
  /\ count' = [count EXCEPT !.failures = @ + 1]

Fail(j) ==
  /\ "fails" \in Env /\ at[j] \in {"read", "wait", "write", "log"}
  /\ GiveUp(j)
  /\ Failure

Killed(j) ==
  /\ "killed" \in Env /\ at[j] = "commit"
  /\ GiveUp(j)
  /\ Failure

-----------------------------------------------------------------------------
(* CRUDBase.create, update and remove: the edit is committed, and then the
   change is logged by a second commit.                                    *)

EditCommit(e, t) ==
  /\ count.edits < MaxEdits
  /\ edit[e] = Nil
  /\ "overlap" \in Env \/ \A j \in Job : t \notin read[j]
  /\ edit' = [edit EXCEPT ![e] = t]
  /\ stale' = Outdates(t)
  /\ missed' = Misses(t)
  /\ count' = [count EXCEPT !.edits = @ + 1]
  /\ UNCHANGED <<log, at, todo, read, clash>>

EditLog(e) ==
  /\ edit[e] # Nil
  /\ log' = Touch(log, edit[e])
  /\ edit' = [edit EXCEPT ![e] = Nil]
  /\ UNCHANGED <<stale, job, count>>

EditLost(e) ==
  /\ "unlogged" \in Env
  /\ edit[e] # Nil
  /\ edit' = [edit EXCEPT ![e] = Nil]
  /\ Failure
  /\ UNCHANGED <<log, stale, job>>

-----------------------------------------------------------------------------
JobStep(j) ==
  \/ ReadInput(j)
  \/ IssueDelete(j)
  \/ Delete(j)
  \/ Insert(j)
  \/ Log(j)
  \/ Commit(j)
  \/ InsertFails(j)

Next ==
  \/ \E j \in Job : StartPlan(j) \/ JobStep(j) \/ Fail(j) \/ Killed(j)
  \/ \E e \in Editor : EditLog(e) \/ EditLost(e)
                       \/ \E t \in Edited : EditCommit(e, t)

Spec == Init /\ [][Next]_vars

(* Statements end, beat starts its jobs, and the API writes its log. *)
Fairness ==
  /\ \A j \in Job : WF_vars(JobStep(j))
  /\ \A j \in Daily : WF_vars(StartPlan(j))
  /\ \A e \in Editor : WF_vars(EditLog(e))

FairSpec == Spec /\ Fairness

-----------------------------------------------------------------------------
Recorded == Range(log)

Clean(t) == t \in Recorded /\ ~IsDirty(Graph, t, log)

(* Neither the table nor a derived table upstream of it was computed from
   an input that has changed since.                                        *)
UpToDate(t) ==
  LET fresh[q \in Derived] ==
        /\ stale[q] = {}
        /\ \A p \in Reads[q] \intersect Derived : fresh[p]
  IN  fresh[t]

(* No change is in between its commit and its entry in the changelog. *)
Settled ==
  /\ \A j \in Job : at[j] # "commit"
  /\ \A e \in Editor : edit[e] = Nil

(* What the page tells its user by disabling the refresh button: a table
   that is reported clean shows results of the present inputs, whatever
   tasks failed on the way.                                                *)
CleanMeansUpToDate == Settled => \A t \in Derived : Clean(t) => UpToDate(t)

(* The daily refresh repairs whatever overlapping or failed refreshes have
   left behind: again and again every table is up to date and known to be. *)
RefreshRepairs == []<>(\A t \in Derived : Clean(t) /\ UpToDate(t))
=============================================================================
