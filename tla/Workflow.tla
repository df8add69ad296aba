------------------------------- MODULE Workflow -------------------------------
(***************************************************************************)
(* The tasks of bg_worker.py on the slots of a worker: the refresh of all  *)
(* tables, a chain of chords; solving all scenarios, which waits in its    *)
(* slot for the tasks it starts; and the refresh that a page asks for and  *)
(* follows (resultRefreshBox.jsx).                                         *)
(*                                                                         *)
(* Submissions of a Singleton task are coalesced by their key, as          *)
(* SingletonPromise says; SingletonTask shows how, and what becomes of it  *)
(* when keys are deleted.                                                  *)
(***************************************************************************)
EXTENDS Tables, Naturals, FiniteSets
LOCAL INSTANCE Functions

CONSTANTS
  StaticTables, \* the tasks of delete_and_refresh_tacoma_gis_tables
  Slots,        \* of the worker
  Run,          \* refreshes: run_refresh_task by beat, run_workflow by an admin
  WorkflowOf,   \* WorkflowOf[w]: the name of what is run
  Page,         \* pages that show the refresh button, one click each
  Submission,   \* requests to solve all scenarios
  Data,         \* Data[p]: the rows of all scenarios at submission p
  Single,       \* rows of which a user asks for the solution alone
  MaxRequests,  \* bounds
  MaxTroubles

ASSUME WorkflowAssumption ==
  /\ StaticTables \subseteq {"delete_and_refresh_static_reference_tables",
                             "delete_and_refresh_tmnt_facility_table",
                             "delete_and_refresh_tmnt_facility_delineation_table",
                             "delete_and_refresh_subbasin_table"}
  /\ \A w \in Run : WorkflowOf[w] \in {"_group1", "_group2", "_group3", "refresh_all"}
  /\ Run \intersect Page = {}
  /\ Slots \in Nat \ {0} /\ MaxRequests \in Nat /\ MaxTroubles \in Nat

VARIABLES
  status,  \* of each task
  page,    \* state of each page, and the task that its poll asks about
  requests, \* so far
  troubles \* failures and losses so far

vars == <<status, page, requests, troubles>>

-----------------------------------------------------------------------------
(* Tasks: a name, and whom it works for. *)

Attributes == "update_tmnt_attributes"
Boundary == "delete_and_refresh_lgu_boundary_table"
Loads == "delete_and_refresh_lgu_load_table"
Results == "delete_and_refresh_all_results_tables"
One == "update_scenario_results"
All == "update_all_scenario_results"

(* _group1, _group2, _group3: the tasks whose results check_results gets. *)
Header == << StaticTables, {Attributes, Loads}, {Results} >>

Check == << "pulled static gis resources", "update tmnt and refresh LGU tables",
            "update results", "finalize task" >>

(* Mutant: the loads do not wait for the boundary. *)
FirstParallel == << StaticTables, {Attributes, Boundary, Loads}, {Results}, {Check[4]} >>

(* What is submitted when a group starts; after the last one, finalize. *)
First == << StaticTables, {Attributes, Boundary}, {Results}, {Check[4]} >>

(* The groups of a workflow, in the order of their numbers. *)
Groups(w) ==
  CASE WorkflowOf[w] = "_group1" -> {1}
    [] WorkflowOf[w] = "_group2" -> {2}
    [] WorkflowOf[w] = "_group3" -> {3}
    [] WorkflowOf[w] = "refresh_all" -> 1..4

Start(w) == CHOOSE i \in Groups(w) : i - 1 \notin Groups(w)
Last(w) == CHOOSE i \in Groups(w) : i + 1 \notin Groups(w)

TableTask == {Attributes, Boundary, Loads, Results} \union StaticTables

Steps == TableTask \union {Check[i] : i \in DOMAIN Check}

Children(p) == {<<One, <<p, r>>>> : r \in Data[p]}

Task ==
  (Steps \X Run) \union ({Results} \X Page) \union ({All} \X Submission)
    \union {<<One, <<One, r>>>> : r \in Single} \union UNION {Children(p) : p \in Submission}

(* Name and arguments of a task that is a Singleton.  The results get the
   outcome of the group before as an argument, if there is one.              *)
Key(t) ==
  CASE t[1] = Results -> <<Results, IF t[2] \in Run /\ Start(t[2]) # 3 THEN "True" ELSE "">>
    [] t[1] = All -> <<All, Data[t[2]]>>
    [] t[1] = One -> <<One, t[2][2]>>

IsSingleton(t) == t[1] \in {Results, All, One}

Status == {"none", "queued", "running", "waiting",    \* in its slot, for others
           "true", "false", "raised", "killed",       \* with the lock still held
           "expired",                                 \* ... and after that
           "duplicate"}                               \* never a task of its own

Queued == {t \in Task : status[t] = "queued"}
Busy == {t \in Task : status[t] \in {"running", "waiting"}}
HasReturned(st, t) == st[t] \in {"true", "false"}
IsReady(t) == status[t] \in {"true", "false", "raised", "killed", "expired"}

(* The task that holds the key, if any, is the one a submission gets. *)
Holding(st, t) ==
  {u \in Task : /\ IsSingleton(t) /\ IsSingleton(u) /\ Key(u) = Key(t)
                /\ st[u] \in {"queued", "running", "waiting", "killed"}}

Answer(st, t) == IF Holding(st, t) = {} THEN t ELSE CHOOSE u \in Holding(st, t) : TRUE

(* Tasks of different keys are submitted. *)
Submitted(st, ts) ==
  [t \in Task |-> IF t \notin ts THEN st[t]
                  ELSE IF Answer(st, t) = t THEN "queued" ELSE "duplicate"]

Init ==
  /\ status = [t \in Task |-> "none"]
  /\ page = [u \in Page |-> [state |-> "enabled", task |-> <<Results, u>>]]
  /\ requests = 0
  /\ troubles = 0

-----------------------------------------------------------------------------
(* Requests. *)

Requested == requests < MaxRequests /\ requests' = requests + 1

(* The body of run_refresh_task, or run_workflow; this raises for
   refresh_lgu_tables, which is a tuple because of a comma.        *)
StartRun(w) ==
  /\ Requested
  /\ \A n \in First[Start(w)] : status[<<n, w>>] = "none"
  /\ status' = Submitted(status, First[Start(w)] \X {w})
  /\ UNCHANGED <<page, troubles>>

SolveAll(p) ==
  /\ Requested
  /\ status[<<All, p>>] = "none"
  /\ status' = Submitted(status, {<<All, p>>})
  /\ UNCHANGED <<page, troubles>>

SolveSingle(r) ==
  /\ Requested
  /\ status[<<One, <<One, r>>>>] = "none"
  /\ status' = Submitted(status, {<<One, <<One, r>>>>})
  /\ UNCHANGED <<page, troubles>>

-----------------------------------------------------------------------------
(* The worker. *)

(* Mutant: the limit of the pool is forgotten. *)
MayTakeAlways(t) == status[t] = "queued"

MayTake(t) == status[t] = "queued" /\ Cardinality(Busy) < Slots

(* celery -c Slots -O fair: any task of the queue, in any free slot. *)
Take(t) ==
  /\ MayTake(t)
  /\ status' = [status EXCEPT ![t] = "running"]
  /\ UNCHANGED <<page, requests, troubles>>

(* What celery submits when a step of a run has ended: the next task of a
   chain, whatever the one before it returned; the body of a chord, when all
   of its header have returned; the next chord, when the body has.           *)
Followers(st, t) ==
  LET w == t[2] IN
  {n \in Steps :
     \/ t[1] = Boundary /\ n = Loads
     \/ \E i \in DOMAIN Header :
          \/ t[1] \in Header[i] /\ n = Check[i]
             /\ \A m \in Header[i] : HasReturned(st, <<m, w>>)
          \/ t[1] = Check[i] /\ i + 1 \in Groups(w) /\ n \in First[i + 1]} \X {w}

Ended(t, outcome) ==
  LET st == [status EXCEPT ![t] = outcome]
  IN  status' = IF t[1] \in Steps /\ t[2] \in Run /\ outcome \in {"true", "false"}
                THEN Submitted(st, Followers(st, t)) ELSE st

(* Mutant: the loads get the outcome of the task that is in parallel. *)
ContinueChainBeside(t) == t[1] = Loads => status[<<Attributes, t[2]>>] = "true"

(* continue_chain is the outcome of the task before in the chain. *)
ContinueChain(t) == t[1] = Loads => status[<<Boundary, t[2]>>] = "true"

(* run_in_chain: a failure of the function is a result like any other. *)
RunInChain(t) ==
  /\ status[t] = "running" /\ t[1] \in TableTask
  /\ \/ ContinueChain(t) /\ Ended(t, "true") /\ UNCHANGED troubles
     \/ ~ContinueChain(t) /\ Ended(t, "raised") /\ UNCHANGED troubles
     \/ /\ ContinueChain(t) /\ troubles < MaxTroubles
        /\ Ended(t, "false")
        /\ troubles' = troubles + 1
  /\ UNCHANGED <<page, requests>>

(* Mutant: one task that succeeded is enough. *)
CheckAnyResult(t) ==
  /\ status[t] = "running"
  /\ \/ t[1] = Check[4] /\ Ended(t, "true")
     \/ \E i \in DOMAIN Header :
          /\ t[1] = Check[i]
          /\ Ended(t, IF \E n \in Header[i] : status[<<n, t[2]>>] = "true"
                      THEN "true" ELSE "raised")
  /\ UNCHANGED <<page, requests, troubles>>

(* check_results; only the last one cannot raise. *)
CheckResults(t) ==
  /\ status[t] = "running"
  /\ \/ t[1] = Check[4] /\ Ended(t, "true")
     \/ \E i \in DOMAIN Header :
          /\ t[1] = Check[i]
          /\ Ended(t, IF \A n \in Header[i] : status[<<n, t[2]>>] = "true"
                      THEN "true" ELSE "raised")
  /\ UNCHANGED <<page, requests, troubles>>

(* update_scenario_results *)
UpdateScenario(t) ==
  /\ status[t] = "running" /\ t[1] = One
  /\ \/ Ended(t, "true") /\ UNCHANGED troubles
     \/ /\ troubles < MaxTroubles
        /\ Ended(t, "raised")
        /\ troubles' = troubles + 1
  /\ UNCHANGED <<page, requests>>

(* update_all_scenario_results, up to get(): the group has chosen the ids of
   its tasks before it submits them, and drops what Singleton answers...     *)
CallGroup(p) ==
  /\ status[<<All, p>>] = "running"
  /\ status' = [Submitted(status, Children(p)) EXCEPT ![<<All, p>>] = "waiting"]
  /\ UNCHANGED <<page, requests, troubles>>

Gathered(p) == \A t \in Children(p) : status[t] = "true"
Failed(p) == \E t \in Children(p) : IsReady(t) /\ status[t] # "true"

(* Mutant: a task that has failed is waited for like one that has not ended. *)
GetSuccesses(p) ==
  /\ status[<<All, p>>] = "waiting"
  /\ Gathered(p) /\ Ended(<<All, p>>, "true")
  /\ UNCHANGED <<page, requests, troubles>>

(* ...which returns when all have succeeded and raises when one has not; a
   task that was coalesced with another one never does either.             *)
GetResults(p) ==
  /\ status[<<All, p>>] = "waiting"
  /\ \/ Gathered(p) /\ Ended(<<All, p>>, "true")
     \/ Failed(p) /\ Ended(<<All, p>>, "raised")
  /\ UNCHANGED <<page, requests, troubles>>

(* The process of a slot is lost: the task has failed, and keeps its key... *)
Killed(t) ==
  /\ t \in Busy /\ troubles < MaxTroubles
  /\ status' = [status EXCEPT ![t] = "killed"]
  /\ troubles' = troubles + 1
  /\ UNCHANGED <<page, requests>>

(* ...until that expires or clear_singleton_locks deletes it. *)
LockGone(t) ==
  /\ status[t] = "killed" /\ IsSingleton(t)
  /\ status' = [status EXCEPT ![t] = "expired"]
  /\ UNCHANGED <<page, requests, troubles>>

-----------------------------------------------------------------------------
(* The page. *)

(* Mutant: the page gets the id that it submitted, of a task or not. *)
ClickGetsOwnId(u) ==
  /\ Requested
  /\ page[u].state = "enabled" /\ status[<<Results, u>>] = "none"
  /\ page' = [page EXCEPT ![u] = [state |-> "asked", task |-> <<Results, u>>]]
  /\ status' = Submitted(status, {<<Results, u>>})
  /\ UNCHANGED troubles

(* initiateResultsSolve; solve_watershed submits the task. *)
Click(u) ==
  /\ Requested
  /\ page[u].state = "enabled" /\ status[<<Results, u>>] = "none"
  /\ page' = [page EXCEPT ![u] = [state |-> "asked", task |-> Answer(status, <<Results, u>>)]]
  /\ status' = Submitted(status, {<<Results, u>>})
  /\ UNCHANGED troubles

(* Mutant: a task that returns False has failed. *)
IsSuccessIfTrue(t) == status[t] = "true"

(* The status that a client sees: a task that returns False has succeeded. *)
IsStarted(t) == status[t] \in {"running", "waiting"}
IsSuccess(t) == HasReturned(status, t)

(* generate_task_response, within half a second; the page goes on with
   STARTED and SUCCESS and throws at anything else.                     *)
Respond(u) ==
  /\ page[u].state = "asked"
  /\ page' = [page EXCEPT ![u].state =
                IF IsStarted(page[u].task) \/ IsSuccess(page[u].task) THEN "polling" ELSE "threw"]
  /\ UNCHANGED <<status, requests, troubles>>

(* The button is enabled again, and "Results Calculated" is shown. *)
Poll(u) ==
  /\ page[u].state = "polling" /\ IsSuccess(page[u].task)
  /\ page' = [page EXCEPT ![u].state = "enabled"]
  /\ UNCHANGED <<status, requests, troubles>>

-----------------------------------------------------------------------------
(* What the worker and the pages do by themselves... *)
Work ==
  \/ \E t \in Queued : Take(t)
  \/ \E t \in Busy : RunInChain(t) \/ CheckResults(t) \/ UpdateScenario(t)
  \/ \E p \in Submission : CallGroup(p) \/ GetResults(p)
  \/ \E u \in Page : Respond(u) \/ Poll(u)

(* ...and what need not happen: requests, losses and the expiry of a lock. *)
Event ==
  \/ \E w \in Run : StartRun(w)
  \/ \E p \in Submission : SolveAll(p)
  \/ \E r \in Single : SolveSingle(r)
  \/ \E u \in Page : Click(u)
  \/ \E t \in Busy : Killed(t)
  \/ \E t \in Task : LockGone(t)

Next == Work \/ Event

(* Work has nothing to do. *)
Quiet ==
  /\ \A t \in Queued : ~MayTake(t)
  /\ \A t \in Busy : status[t] = "waiting" /\ ~ENABLED GetResults(t[2])
  /\ \A u \in Page : page[u].state # "asked"
                     /\ ~(page[u].state = "polling" /\ IsSuccess(page[u].task))

(* The worker and the pages do not stop before there is nothing to do.  No
   behaviour has infinitely many steps, as each one brings a task or a page
   nearer to its end: this is WF_vars(Work), in a form TLC is faster with.  *)
Fairness == []<>Quiet

Spec == Init /\ [][Next]_vars /\ Fairness

-----------------------------------------------------------------------------
(* The tables that a step of a run replaces, and what it reads for that. *)
Written ==
  [n \in TableTask |->
     CASE n = "delete_and_refresh_static_reference_tables" -> {"met"}
       [] n = "delete_and_refresh_tmnt_facility_table" -> {"tmnt_facility"}
       [] n = "delete_and_refresh_tmnt_facility_delineation_table" ->
            {"tmnt_facility_delineation"}
       [] n = "delete_and_refresh_subbasin_table" -> {"subbasin"}
       [] n = Attributes -> {"tmnt_facility_attribute"}
       [] n = Boundary -> {"lgu_boundary"}
       [] n = Loads -> {"lgu_load"}
       [] n = Results -> Range(AllResults)]

Used(n) == Written[n] \union UNION {Inputs[x] : x \in Written[n] \intersect DOMAIN Inputs}

-----------------------------------------------------------------------------
TypeOK ==
  /\ status \in [Task -> Status]
  /\ page \in [Page -> [state : {"enabled", "asked", "polling", "threw"}, task : Task]]
  /\ requests \in 0..MaxRequests
  /\ Cardinality(Busy) <= Slots

(* "group 2 is dependent on group 1 successfully finishing", "group 3 are  *)
(* dependent on both": though run_in_chain turns failures into results and *)
(* chains of chords do not propagate errors, no task of a group is         *)
(* submitted before every task of the groups before has succeeded, and the *)
(* loads are not computed over a boundary that was not.                    *)
OnlyAfterSuccess ==
  \A w \in Run :
    /\ \A i, j \in Groups(w) :
         i < j /\ (\E n \in First[j] : status[<<n, w>>] # "none") =>
           \A n \in Header[i] : status[<<n, w>>] = "true"
    /\ status[<<Loads, w>>] = "true" => status[<<Boundary, w>>] = "true"

(* "each of these have no dependencies, so they all run in parallel": of   *)
(* two tasks of one run that are in slots at the same time neither uses a  *)
(* table that the other one replaces.                                      *)
ParallelTasksIndependent ==
  \A w \in Run, m, n \in TableTask :
    m # n /\ {<<m, w>>, <<n, w>>} \subseteq Busy => Written[m] \intersect Used(n) = {}

(* The next three say that something which does not last for ever is      *)
(* over again and again: for a task or a run, which ends but once, that it *)
(* ends when it was started.                                               *)

(* Tasks that wait for others, which need a slot, have all the slots. *)
PoolStuck == Cardinality({t \in Task : status[t] = "waiting"}) = Slots

(* A run that is started comes to its end, if the pool is not stuck, no    *)
(* task of it fails and no other run is at its results when this one gets  *)
(* there: then the task of that other one is taken for its own, and the    *)
(* chord never completes.                                                  *)
RunEnds ==
  \A w \in Run :
    []<>(\/ \A n \in Steps : status[<<n, w>>] = "none"
         \/ status[<<Check[Last(w)], w>>] = "true"
         \/ \E n \in Steps : status[<<n, w>>] \in {"false", "killed", "expired", "duplicate"}
         \/ PoolStuck)

(* A task for all scenarios keeps its slot while it waits for the tasks    *)
(* that it started.  It ends, with their failure if one of them fails, but *)
(* for two ways of waiting for ever: one of them was coalesced with the    *)
(* task of another request, so that its id is that of no task, or the pool *)
(* is stuck.                                                               *)
SolveAllEnds ==
  \A p \in Submission :
    []<>(\/ status[<<All, p>>] \in {"none", "duplicate"} \/ IsReady(<<All, p>>)
         \/ \E t \in Children(p) : status[t] = "duplicate"
         \/ PoolStuck)

(* The server answers a click with a task that exists, whoever submitted   *)
(* it: the page gives up only when that task is in the queue or lost.      *)
ThrowsOnlyForQueueOrLoss ==
  [][\A u \in Page : page[u].state # "threw" /\ page'[u].state = "threw" =>
       status[page[u].task] \in {"queued", "killed", "expired"}]_vars

(* The button of a page that polls comes back, though the computation may  *)
(* fail, unless the process that computes is lost.                         *)
ButtonComesBack ==
  \A u \in Page :
    []<>(page[u].state # "polling" \/ status[page[u].task] \in {"killed", "expired"})
=============================================================================
