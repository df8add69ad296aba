# A TLA+ model of StormPiper

StormPiper keeps stormwater treatment facilities of the city of Tacoma, computes
pollutant loads and their reduction from them, and shows the results on a map.
This directory models the parts of it whose correctness depends on the order of
events (background tasks, the replacement of derived tables, requests that
overlap, migrations of the database, and what the page is told about them), and
the computations whose cases are easy to get wrong. Paths below are relative to
`src/stormpiper/stormpiper/` of the repository.

## Inventory

| Part | State | Operations | Hard because |
| --- | --- | --- | --- |
| Task de-duplication, `bg_utils` | one redis key per task name and arguments, holding a task id | `apply_async`, release in `on_success` and `on_failure`, `clear_locks`, expiry | every redis command is a step of its own; callers and workers die; expiry and clearing know nothing of the tasks |
| Celery worker, `bg_worker.py` | broker queue, slots, result backend | delivery, execution, late acknowledgement, restart | messages come again after a restart; a killed process calls no handler |
| Dependency graph, `database/dependencies.py` | constant graph, table `tablechangelog` | `is_dirty` | tables without a record are bridged; only times are compared |
| Table replacement, `database/utils.py`, `database/changelog.py`, `src/tasks.py` | tables, `tablechangelog` | read inputs, delete, insert, log, commit | two transactions; minutes between reading and writing; tasks and edits overlap |
| Edits, `database/crud` | source tables, `tablechangelog` | create, update, remove, each followed by a log | data and log are two commits |
| Refresh workflow, `bg_worker.Workflows` | chords in flight | groups, `check_results`, `run_in_chain`, `continue_chain` | failures must stop the groups that depend on them; a chord waits for the task it submitted, not for a duplicate |
| Scenarios, `src/scenario.py`, `api/endpoints/scenario.py` | one row with input, hashes and results | create, edit, solve, delete | the task works on a snapshot and writes all of it back |
| Solve-all, `update_all_scenario_results` | slots | waits in a slot for tasks that need a slot | pool deadlock |
| Result box, `spa/src/components/resultRefreshBox.jsx` | button, polling timers | solve, poll the task, poll `is_dirty` | answers other than SUCCESS |
| Costs, `src/npv.py`, `api/endpoints/tmnt_attr.py`, `globals.py`, `npv.py` | cost inputs, present values and the settings they were computed with | patch, recalculate one or all, change a setting | values of older inputs or settings; several transactions a request |
| Cost table, `src/npv.py` | none | years, maintenance, replacement, installation | ranges of years off by one |
| Source controls, `src/results.py`, `src/tmnt/default_tmnt_source_controls.py` | ordered activities of each subbasin | defaults, edits, percent reductions in order | gaps in the order |
| Facilities, `connections/arcgis.py`, `src/tmnt/default_attrs.py` | facilities and their attributes | paged download, replace, add defaults, edit | the service changes between pages; defaults must not overwrite edits |
| Watershed, `src/tmnt/spatial.py`, `src/graph.py`, `src/solve_structural_wq.py`, `src/loading.py` | overlay, loads, graph, results | refresh of each table | five tables meet by names; each may be older than the others |
| Prioritization, `src/decision_support` | none | PROMETHEE II flows and scores | signs, directions, nulls |
| Schema, `stormpiper/alembic`, `database/schemas`, `startup.py` | tables, columns, views, enumeration of roles | 42 upgrades and downgrades; views at start | downgrades that do not undo; views that hold on to columns |
| Roles, `apps/supersafe/users.py` | role and superuser flag of each user | protected patch | two fields that must agree |

The parts meet in four places. The API, beat and other tasks submit tasks through
`Singleton.apply_async`; the worker's handlers release what they locked. Task
bodies replace tables and log it in `tablechangelog`. The API's edits log there,
too. The page asks `is_dirty`, which reads nothing but `tablechangelog` and the
constant graph, enables its button if the answer is yes, and submits
`solve_watershed`. `PROJECT.json` lists every part with its status, and the
hazards with the line at which each one bites.

What makes the parts correct: one execution at a time of a task with the same
arguments, and an answer that refers to a task that exists (de-duplication); a
table that is reported clean shows the results of the present inputs (graph,
replacement and edits together); failures are repaired by the next daily refresh
(workflow); a scenario's results belong to its input (scenarios); a page that
waits gets an answer (result box); a present value is that of the costs next to
it (costs); the load of each piece of land ends where it drains to (watershed); a user's edit of a
facility survives each refresh (facilities); the schema is what the code
declares (migrations).

## Modules

| Module | Models |
| --- | --- |
| `SingletonPromise` | abstract: what callers rely on |
| `SingletonTask` | `bg_utils` with its callers, worker and clearing |
| `SingletonTask_proofs`, `Dependencies_proofs`, `DependencyOrder_proofs`, `TableRefresh_proofs`, `Scenario_proofs`, `Workflow_proofs` | theorems about the module of that name |
| `Records_proofs` | theorems about `Facilities`, `Costs` and `SourceControls`, and about their composition `MCRecords` |
| `Computations_proofs` | sums over finite sets; theorems about `CostTable`, `Prioritization`, `Watershed` and `DefaultAttributes` |
| `Dependencies` | `simplify_graph`, `check_if_sorted`, `check_if_deps_are_sorted`, `is_dirty`, and `sync_log` as an operator on the changelog |
| `Tables` | the real adjacency list, what each computation really reads, the order of `delete_and_refresh_all_results_tables` |
| `DependencyOrder` | `is_dirty` over the real graph after any sequence of changes |
| `TableRefresh` | plans of replacements, edits and the changelog together |
| `Scenario` | the row of a scenario, its editors, and the tasks that solve it |
| `Workflow` | the tasks of `bg_worker.py` on the slots of the worker, solving all scenarios, and the page that waits |
| `Schema` | statements of a migration, and when PostgreSQL refuses them |
| `Revisions` | the 42 revisions, up and down |
| `Declared` | columns and views that the code of the application declares |
| `Migrations` | alembic commands and starts of the application, over the three above |
| `Costs`, `CostTable` | cost rows with their present values and settings; which cost falls in which year |
| `SourceControls` | the activities of subbasins and the load that they leave |
| `Facilities`, `DefaultAttributes` | download, replacement, attributes; the defaults of each kind of facility |
| `Watershed` | the way of each load to the subbasin that discharges it |
| `Prioritization` | flows and scores of a ranking |
| `MCSingleton`, `MCDependencies`, `MCRefresh`, `MCRefreshReal`, `MCScenario`, `MCWorkflow`, `MCMigrations`, `MCRecords` | instances for TLC |

### SingletonTask

`redis[k]` is the value of a key. `pc[c]` is where submission `c` is in
`apply_async`: `lock` before the SET, `get` between a failed SET and the GET,
`publish` between a successful SET and the broker, `unlock` in the exception
handler. `queue`, `slot` and `stage` are the broker and the pool; `ended` is the
result backend. `scan[x]` holds the names a running `clear_locks` has found and
not yet deleted, for beat and for the two boot signals.

| Action | Code |
| --- | --- |
| `Submit`, `AcquireLock`, `GetExistingTaskId` | `apply_async`, with the loop that alternates SET and GET |
| `Publish`, `PublishRaises`, `UnlockAndRaise` | `lock_and_run` and its handler |
| `SendTask` | `run_task`, which goes around the lock |
| `Take`, `Finish`, `ReleaseLock` | the worker; the outcome is stored before the handler deletes the key, the acknowledgement comes last |
| `ChildLost`, `Restart` | a killed pool process; a restarted worker |
| `Expire`, `ClearScan`, `ClearDelete` | `singleton_lock_expiry`, `backend.clear` |

The constant `Env` names the events of the surroundings that an instance has.
A deleted key is the root of everything that can go wrong, so two instances
matter: one in which only the protocol deletes keys, where de-duplication is
exact, and one with every event, where tasks must still not be lost and come to an end.

Two of the code's deletions are by name, whoever the key belongs to by then: that of
the handler of `lock_and_run` and that of a task that is over. Once a key has gone
early, its task deletes that of the next one, whose release deletes that of a third.
`DeletionsAccounted` counts, for each key, the deletions that are still due above
the one that is right (`Excess`). The protocol passes such a deletion on and adds none;
expiry, clearing, a task sent around the lock and a publish that raises
although the broker has the message add one each. That the count can rise is what the code
does, and nothing in it brings the count down again except a moment in which a deletion
meets no key.

`SingletonPromise` has three sets and an answer per call: admitted, executing and
finished tasks. A key admits at most one task; only an admitted task starts; a
call is answered with a task admitted under its key at that moment. The refinement maps
`admitted` to the tasks that their keys name.

### Dependencies, Tables, DependencyOrder

A changelog is the sequence of table names that the code gets from sorting its
rows by time. `SimplifyGraph` removes the tables without a record one by one and
joins their neighbours, as the loop does. `DependencyOrder` checks the answer
against a definition that does not mention neighbours or bridging: a table is
clean exactly if the recorded changes of all of its ancestors, however far, came
in the order of the graph. The graph is written down apart from the code that
queries the tables; `Inputs` collects these queries, table by table, and
`ReadIsListed` compares the two. The code's list lacks three inputs. Its row of
`lgu_boundary` does not name `tmnt_facility` (`src/tmnt/spatial.py:42-48`), and
`tmnt_facility_attribute` has no row, though new attributes are made from
`tmnt_facility` and `subbasin` (`src/tmnt/default_attrs.py`): these tables count as
clean although facilities or subbasins have come or gone. All of these tables have
rows in the changelog. `Unlisted` names the three pairs, and `ReadIsListed` has
them as its exceptions; the instance records both tables of each pair, and
`ReadsAreListed` proves that there is no fourth one.

### TableRefresh

A job walks through its plan, a sequence of tables. For each one it reads the
inputs one query at a time, sends the DELETE, inserts, logs, commits. `stale[t]`
is the model's view of the contents: the inputs of `t` that changed after `t`
was computed. `missed[j]` are inputs that changed after job `j` read them, which
are stale from the beginning in the table it commits. `clash[j]` says that the
DELETE of `j` waited for another commit; then its INSERT meets rows with its own
primary keys and fails. An edit commits (`EditCommit`) and is logged later
(`EditLog`).

| Action | Code |
| --- | --- |
| `StartPlan` | `run_refresh_task` by beat; `solve_watershed` by a user |
| `ReadInput` | the `read_sql` calls of the function that computes the table |
| `IssueDelete`, `Delete`, `Insert`, `InsertFails` | `_delete_and_replace_db`, first transaction |
| `Log` | `sync_log` in `Session.begin()`, another connection, which commits first |
| `Commit` | the end of `engine.begin()` |
| `Fail`, `Killed` | an exception that `run_in_chain` turns into False; a lost process |
| `EditCommit`, `EditLog`, `EditLost` | `CRUDBase.update` and `log` |

### Scenario

`row` is the row, or none before and after its life. `patch[e]` is what request
`e` is about to write, with the row it decided by; `solving` is the set of tasks
in progress, each with its snapshot of the row. Columns that are always set and
cleared together are one field: `load` stands for `lgu_boundary`, `lgu_load` and
`delin_load`, `result` for `graph_edge` and `structural_tmnt_result`. A computed
value is what it was computed from, a hash what was hashed.

| Action | Code |
| --- | --- |
| `Init` | `create_scenario` with `scenario_validator` |
| `PatchRead`, `PatchWrite` | `update_scenario` up to and after the wait for the database, with the validated input (`Validated`) and what the hashes clear (`Cleared`) |
| `SubmitSolve` | `solve_single_scenario`, and each element of `solve_all_scenarios` |
| `WriteBack`, `SolveFails` | `solve_scenario_data` (`Solved`) and `solve_scenario_db` in a worker, again after a lost acknowledgement; an exception |
| `Delete` | `delete_scenario` |

What keeps a row consistent although tasks overwrite it with old snapshots is
that a snapshot carries its input and hashes along: the row is old, but its parts
belong together (`InSync`, `HashOfInput`). The price is a lost edit
(`OnlyMissingFilled`). Two things are outside `InSync`. An input whose
facilities are taken away keeps `structural_tmnt` of the input before, because
`scenario_validator` writes it only for an input that has some; no result is
computed from it. And a patch that overlaps a write of the row, another patch or
the end of a task, may clear by hashes that are no longer those of the row: with
`Race = TRUE` the row can keep results of another input. The window is between two
statements of `update_scenario`; the run leaves it out, and the theorems say
that nothing else is lost in it.

### Workflow

`status[t]` is what has become of each task, `page[u]` the button. A submission of a
Singleton task is answered as `SingletonPromise` says: with the task that holds
the key, if there is one, and then the submitted one is a `duplicate` for ever.
The page goes on with the answer. A group or a chord does not: celery has chosen
the ids of its tasks before it submits them, and waits for these.

| Action | Code |
| --- | --- |
| `StartRun`, `SolveAll`, `SolveSingle` | `run_refresh_task`, `run_workflow`; the two solve requests of `api/endpoints/scenario.py` |
| `Take` | the pool, `-c 4 -O fair` in `scripts/run-worker.sh`: any task of the queue, any free slot |
| `RunInChain`, `CheckResults` | the functions of that name, with what celery submits after them (`Followers`) |
| `UpdateScenario`, `CallGroup`, `GetResults` | `update_scenario_results`; `update_all_scenario_results` before and after `get` |
| `Killed`, `LockGone` | a lost process, the expiry of its key |
| `Click`, `Respond`, `Poll` | `initiateResultsSolve` with `solve_watershed` and `generate_task_response` |

What the code does and the properties have to allow for:

* `run_in_chain` turns a failure into the result False, for which celery says
  SUCCESS: the page shows "Results Calculated" after a failed computation.
* The page throws at the first answer PENDING, which it gets whenever the task is
  still in the queue after half a second, and at FAILURE; its button then stays
  disabled. It stays disabled, too, when the process that computes is lost.
* The results task of a workflow is a Singleton. If another run's has the same
  key when the group starts, the chord waits for a task that never was one, and
  the run never ends. `RunEnds` has this as an exception.
* A task that solves all scenarios waits for ever if one of the scenarios is being
  solved already, because another user has asked for it alone or with all: the task of the
  group is coalesced with that one, and the group waits for the id that it had given it.
* The same task keeps its slot while it waits. As many of them with different data as there
  are slots, and nobody runs what they wait for (`PoolStuck`): no other task
  runs, either, until the worker is restarted. The run reaches both, and `SolveAllEnds`
  and `RunEnds` name them as exceptions.
* `refresh_lgu_tables` is a tuple because of a trailing comma
  (`bg_worker.py:229-234`); `run_workflow` raises for it, and the model has no such run.

### Schema, Revisions, Declared, Migrations

A schema is the set of its columns, what each view uses, and of types,
defaults and names those that some revision changes. `Accepts` is when the server
takes a statement: a column that a view uses is not dropped or retyped, an
enumeration that a column has is not dropped, a view is replaced only by one
with the same columns. `Revisions` has a script up and one down for each file of
`alembic/versions`. In `Migrations` a command runs revisions in one transaction
and commits; a start of the application looks for the views, then drops and
creates them in another transaction, while commands may have changed the tables.

The downgrades that drop or retype columns under `tmnt_v` or another view are
refused once the application has created it; nothing in the scripts drops it
first. `RefusedOnlyForViews` says that this is the only reason for which a
statement of any script fails.

### Costs and CostTable

`row[n]` is the cost row of a facility, with a present value represented by
what it was computed from. `request[c]` is where a client's request is between
its transactions: a patch commits the attributes, then looks for the cost row,
then writes it; a recalculation reads its rows, and computes and writes one after
the other, each with the settings it finds then. The session keeps the rows as
it has read them first.

A value can be that of other inputs in two cases, both in `PresentValueFits`:
a recalculation that a patch overtakes (`raced`), until the next one; and a
patch of the required costs alone, which `maybe_update_pv_params` values without
the optional fields of the row. Recalculating everything stops at the first row
that does not validate, after setting its value to null, and the answer is then not
"success". A change of a setting recomputes nothing, and a setting that is not a
number makes every edit of costs fail with 422.

`CostTable` enumerates requests: installations before, in and after the year of
the costs, lifespans that do and do not divide the horizon. The horizon is
`planning_horizon_yrs + 1` years long, which `MaintainedAfterInstallation` states
as the code has it. It gives the amount of every year: maintenance in the
years of the horizon after the installation, and in those of them that are some
number of lifespans after the installation the replacement, not in the year of the
installation itself. Years are whole in the model; for fractional ones the code
compares them with the whole years of its table and finds no equal.

### SourceControls

`Reductions` is the loop of `calculate_src_ctrl_percent_reduction` over the
orders, smallest first (`Orders`). It looks the previous load up by the value of the order in a list that
is indexed from zero (`src/results.py:140`). The orders that clients may send are the
constant `Order`, in the runs a small set. `AppliedInOrder` holds for orders
that are numbered as the defaults are, from zero and without a gap in any
subbasin; `AlwaysInOrder` is what the comment on the column promises, and fails.

### Facilities and DefaultAttributes

A download asks for as many pages as there are full ones and one more, and
collects them in any order while the service may change. What it cannot notice is
in `download.sound`: an answer without features, which is how the service
reports errors, counts as an empty page. One altid twice makes the replacement
fail as a whole; so does a facility in two subbasins for the attributes of all new
ones. `DefaultAttributes` has the model type of each kind of facility, the
validators of `data/project_data/wa/tac/config.yml` for detailed and simple
types, and the retained share that must fit both.

### Watershed

Land is a set of plots. A portion is the load of one land surface node with the
measures that have reduced it on its way; the model follows it through the overlay
(`Overlay`), the graph (`GraphEdge`), the solution (`SolveWatershed`) and the two
sets of source controls to `subbasin_result`. A land surface node is named as in the code, by
delineation, facility and subbasin, and so are the other nodes, by tuples of different lengths
or heads. Each of the three tables is
refreshed on its own, over whatever contents the others have; `behind` names the
ones that are not of the present inputs. `LoadsAccounted` says for each plot, from the
delineations that have it, which portions are delivered, where, and what they have met. It
also says where the code's answer may surprise:

* Land where delineations overlap counts once for each of them, perhaps in two
  subbasins: `geopandas.overlay` (`src/tmnt/spatial.py:22-32`) makes a row of
  each delineation's piece, which becomes a node of its own. Land in one delineation, or
  in none, counts once; land outside of the subbasins and of all delineations does not.
* Loads count for the subbasin of the facility that treats them, which may be
  another one than that of the land.
* That is the subbasin that the facility was in when its attribute row was added;
  a facility that moves keeps it.
* A facility without an attribute row delivers past all subbasins.
* Downstream controls do not apply to a subbasin that delineations cover
  completely: `src/results.py:194` finds the subbasin of a node in
  `lgu_boundary`, which then has no node of that name.

### Prioritization

Flows, weights and directions with integers. A null is NaN in the matrix,
which is neither preferred to nor less than anything; `DominanceRespected` speaks
of pairs without nulls in the criteria that count, next to others that have some.

## Runs

| Run | Shows | Bounds |
| --- | --- | --- |
| `singleton_safe` | mutual exclusion, ownership of keys, refinement of `SingletonPromise`, and that calls return, while publishing fails and callers and pool processes die | three submissions of one key, one of another, two slots |
| `singleton_faults` | types; tasks whose id was given out are kept and end; deletions of keys are accounted for; with all eight events | two submissions of one key, two slots, one restart |
| `dependencies` | the answer of `is_dirty` equals its definition; what a table is computed from makes it dirty, but for three inputs; only its own replacement cleans a table | six recorded tables of the real graph, with both ends of the three inputs that its list lacks; every order of changes |
| `refresh_real` | a clean table is up to date, with failing tasks, for the seven result tables and their real inputs | one job, one edit, one failure |
| `refresh_repair` | types; the daily refresh repairs everything | daily and user's job, one edit, one failure of any kind, one extra start |
| `refresh_overlap` | violation: an edit during a computation | one edit |
| `scenario` | types; loads, results and hashes belong to the input of the row | two values of each collection, two names, three patches, two solves |
| `scenario_lost` | violation: a rename while the scenario is solved is undone | one patch, one solve |
| `workflow` | groups run in their order and after success only; tasks in parallel do not use each other's tables; runs, solve-all tasks and buttons come to their end | a daily refresh, an admin's, a page, two requests to solve all (before and after a scenario changed) and one for a single scenario, any four of these six; two slots, one failure or loss |
| `migrations` | the revision determines the schema; only views of the application make a script fail; the head is what the code declares; the database ends up served | all 42 revisions; one downgrade of one revision or of all, one lost connection, users of two roles |
| `records` | the properties of costs, cost table, source controls, facilities, default attributes, watershed and prioritization | below |
| `control_order` | violation: orders that are not numbered from zero | four activities, two subbasins |

Why the bounds are enough. Three submissions of one key are an owner, a
duplicate, and one that comes when the owner has gone; the fourth checks that
keys do not interfere. With three, the loop of SET and GET of one call goes around
twice, each of the other two taking the key from under it and giving it back.
With every event two submissions suffice for one task to
delete the key of another, and one restart for a message to come again. In `MCRefresh` a source is replaced, a source is
edited, a table is computed from both, and another from that table and through
a view from the edited source: every kind of edge of the real graph.
In `scenario`, two tasks can hold snapshots from before and after a patch and end in
either order, with a third patch that returns to the first input, for which a hash
alone would find nothing to clear. In `workflow` there are runs with and without
earlier groups, so that the results task has both of its keys, and a page that
can meet either's; the static downloads are alike and one stands for four. Two
slots are the least with which a task that waits in one does not stop everything, and two
requests to solve all the least that take both. What can happen between tasks involves two or
three requests; a limit of four (`MaxRequests`) keeps the run short.
One downgrade takes the database to any revision, since a step up by hand may come
before it.

`records` checks seven parts in one run. They share no variable: each initial
state chooses the part that is active, and the others rest. Costs have
two facilities and two clients that overlap, with three requests in all: a patch, a
recalculation, and a change of settings or another patch between their steps. A download has
chunks of two and up to three features, so that the last page may be empty or not
full, with three changes of the service; two processes add attributes at once.
The watershed has three plots in two subbasins and one outside, three
delineations that overlap and cross both borders, two facilities, and two edits
after any initial map. Source controls have four activities in two subbasins.
The ranking has every matrix of three subbasins, two criteria and nulls, and
every choice of weights and directions.

The assumption of `refresh_real` is that no one edits a table while a task that
has read it is not finished with the table it computes, that one refresh runs at a
time, and that no process dies between logging and committing. `refresh_overlap`
shows that the first is needed. The last one is, too: `database/utils.py:130`
logs in a transaction that commits before that of the data, so that a worker lost in
between leaves a table that is newer on record than in fact until the next
refresh. The code enforces none of them.

Deadlock is checked in `dependencies`, `migrations` and the refresh runs, where there is always
something to do. In the others requests, edits and submissions are bounded and everything
comes to an end, so it is not; that nothing stops too early there is what the
liveness properties say.

## Fairness

`SingletonTask`: a process inside `apply_async` takes its next step, a slot takes
its next message and its task body ends, a key with a time to live expires, a
booting worker boots. The bodies end because they are finite computations; the
expiry is `singleton_lock_expiry`. No user, failure or beat event is assumed. Submissions
are finite in an instance, and `CallReturns` needs that: against an endless stream of
others that take the key between its SETs and give it back before its GETs, the loop of the
code has no bound.
`TableRefresh`: statements of a running job end, beat starts the daily job, and
a request that committed an edit goes on to log it.
`Workflow`: the worker and the pages do not stop while there is something to do
(`[]<>Quiet`). As no behaviour takes infinitely many steps this is weak fairness of
`Work`; requests, losses and expiry are not assumed.
`Migrations`: a command runs to its end, a start goes on to create its views, and the
container is started again until it succeeds, each time with an upgrade to the
head (`prestart.sh`). Downgrades and single upgrades are not assumed.
`Scenario` and the parts of `MCRecords` have safety properties only.

## Proofs

Each theorem is of the specification that TLC checks, or of the specification of a part of
`MCRecords` (`CostsSpec`, `FacilitiesSpec`, `CostTableSpec`, `PrioritizationSpec`,
`WatershedSpec`, `SourceControlsSpec`, `DefaultsSpec`), for
every value of the constants that the named assumptions of its module allow; `RecordsSound` and
`RecordsDownloads` take the parts back to the composition. Almost none of the properties is
inductive: each specification has an invariant (`IInv` or a name with it) that is; the proofs show
that it holds initially and that every action keeps it, one lemma an action, and
that it implies the properties.

### De-duplication

`SingletonTask_proofs` proves, for any number of calls, keys and slots:

* `TypeCorrect`: `Spec => []TypeOK`, with any events.
* `NoAnsweredTaskLost` (`AnsweredTaskKept`), with any events and any number of restarts: a task
  whose id was given out is with its caller, in the queue, in a slot or over, or its caller has said
  that it failed or is lost. A duplicate's answer is the id under a key, so the invariant (`AnyIInv`)
  says the same of these (`IdsKept`), and that a task in a slot has left its caller and is in
  one slot only (`OnePlace`), so that a release or a restart that empties a slot loses nothing else.
* `DeletionsAreAccounted` (`DeletionsAccounted`), from the same invariant, with any events. Each
  action is followed through the two sets of deletions that are due: `AcquireLock` adds a
  deletion and its key, `Publish` hands it from the caller to the task, `ReleaseLock` and the handler
  spend it. The counts are cardinalities, so the calls that have been made have to be
  finitely many (`Started`), which each step keeps.
* `ExactWhileDeletedLate`: mutual exclusion, `PendingHoldsLock` and the refinement of
  `SingletonPromise`, with keys that expire and that beat clears. Assumed are
  `NoBypass` (no `restart`, `send_task` or `publish_unsure`, after which a task is in the queue without
  its key) and, of the behaviour, `LateDeletion`: expiry and clearing take no key of a task
  that is waiting, in a slot, about to be published, or about to be unlocked by its caller.
  This is what `singleton_lock_expiry` is chosen for; the keys that it is there for,
  those of lost processes, may go at any time. Nothing is assumed of what the protocol deletes.
* `MutualExclusionHolds`, `PendingHoldsLockHolds` and `RefinesPromise`, without a condition on
  behaviours, assuming `SafeEnv`: of the events only `publish_fails`, `caller_lost` and
  `child_lost` happen, as in `singleton_safe`.

The invariant (`IInv`) has five parts: `TypeOK`;
`KeyNamesItsTask`, a key holds a task whose
arguments it stands for; and `QueueOK`, `SlotOK` and `CallerOK`, which say of a task
in the queue, in a slot, or with its caller that it is the one its key names. That
last fact survives a step only if a task is in one place, so they say as well
that a queued task is in no slot and no task in two slots, that tasks in
queue and slots come from a caller that has returned, that a caller in the exception
handler still owns its key, and that a task with an outcome is neither queued
nor in the running stage. `PendingHoldsLock` is the sum of the three. Mutual
exclusion follows: two running tasks with one key would both be named by it. The
refinement adds that the answer of a call is the task its key names at that step, and that
a key deleted late retires a task that does not execute.
`TypeCorrect` needs `BusySlot` next to `TypeOK`: a slot at work has a task.

### What is_dirty computes

`Dependencies_proofs` is about the operators, for every graph without cycles
(`Levels`: each node has a depth that edges increase).

* `SimplifiedGraph`: what the loop over the missing nodes leaves, in closed form. The
  fold of `BridgeNode` over them has, in whatever order it takes them, the edge
  `<<p, t>>` exactly if a path leads from `p` to `t` with nothing but missing nodes
  between (`Without`, `Via`). The argument is one step of bridging in that form,
  and a minimal set of nodes for which the fold would not have it.
* `CleanForm`: `is_dirty` answers no exactly if, of everything recorded upstream of
  the table and the table itself, each has a later change than all that is recorded
  upstream of it. The recursion of the code compares neighbours; it is a function that asks
  the same of a node and of its predecessors (`Asks`), and a node of least depth
  at which the two differ cannot exist. Bridging keeps what is upstream of what
  (`UpWithout`), and the order of the neighbours on each path gives that of its ends.
* `Touched`: what logging a change does to the order of the changelog.
* `RealPlan`: `delete_and_refresh_all_results_tables` replaces each table after those that
  it is computed from, and all that they are computed from is upstream of them.

`DependencyOrder_proofs` applies this to the real list, which has no cycle
(`OGLevels`), for any choice of the tables that are recorded and any number of
changes: `TypeCorrect`, `CleanInOrder` (`DirtyIffOutOfOrder`), `OwnChange`
(`OnlyOwnChangeCleans`), and `ReadsAreListed` (`ReadIsListed`), for which each input
of each table is shown to be upstream of it in the list or one of the three in `Unlisted`.

### Clean tables are up to date

`TableRefresh_proofs` proves `TypeCorrect` without any hypothesis, and
`CleanIsUpToDate`, that is `[]CleanMeansUpToDate`, for any number of tables, jobs, editors,
edits and failures that overlap in any way, in the behaviours that are `Undisturbed`:

* no input of a table changes between a job's reading it and the commit of the table;
* no job reads a table that another one has logged and not yet committed.

Both are needed. The first is what `refresh_overlap` violates. The second comes from
`database/utils.py:130`: such a job reads the old rows, and logs its own table after the one it
has read, with no change that it could have missed; without the second condition TLC finds
this in fourteen steps of two jobs. Of the constants `Orderly` is assumed: no `killed` and no `unlogged`;
no cycle in the graph, which has those inputs of each table
upstream that are edited or computed; and plans that replace what a table is
computed from before it, except for tables that are loaded and not computed.

`OneRefreshAtATime` has the condition in the form an operator can see to: no two refreshes at a
time, and no edits of what the running one has read. `RealResultsUndisturbed` instantiates the
rest with the real plan, inputs and list, where
`RealPlan` shows that they are as `Orderly` wants them, and `RealResultsUpToDate` is the case
of one solve request, the one of `refresh_real`, where nothing of behaviours is assumed.

The invariant: a stale input of a recorded table is either edited and not yet logged, or
logged after the table, or the table is about to be committed (`Accounted`). It is
kept because a table that is logged and not committed was logged after all that is computed from it
(`LoggedLast`): a job that logs one of these then has read it (`HasRead`), which `Undisturbed`
excludes. The plan's order, which `OnPlan` follows to
the table in turn, gives that what a recorded table is computed from is recorded, too.
Then a clean table with a stale input upstream would contradict `CleanForm`.

### Scenarios

`Scenario_proofs` is about any collections, patches and tasks. `TypeOK` and `HashOfInput` hold
whatever overlaps (`Race` may be `TRUE`); so does that the facilities and their ratios are those of the input
(`KeptInv`). `InSyncWhileHashesSeen` proves `InSync` for the behaviours in which the hashes in the
row do not change between the two steps of a patch of the input (`SeenHashes`): renames, deletions and
tasks that give the row back with the same hashes may come between. With `Race = FALSE`, as in
the run, all behaviours are such (`ResultsInSync`). The
invariant asks of every snapshot that a task carries what the properties say of the row
(`Kept`, `Fresh`), since one day it is written over the row. `PatchOK` is for the last of
these: a pending patch has seen the present row.

### Refreshes and pages

`Workflow_proofs` proves `TypeOK`, `OnlyAfterSuccess`, `ParallelTasksIndependent` and
`ThrowsOnlyForQueueOrLoss`, for any runs, pages, scenarios and slots. `Ordered` says that a
step of a run was submitted only after, and because, the step before had returned;
`Passed` that a check lets nothing but successes through; `Followed` that a page
asks about a task that exists and that no exception ends. That two tasks of one
run in slots together do not disturb each other follows from `Ordered`: they are of one
group, and not the boundary and the loads. Runs and pages have different names, so that
tasks of theirs differ.

### Facilities, costs and source controls

`Records_proofs` proves `DownloadComplete` and `EditsSurvive`. A facility that has not
been got is on a page still to come (`Complete`), at first because full pages
and one more cover the count (`PagesCover`, for any count and size).

It proves `PresentValueFits` and `RefreshedAll` as well. `ReqOK` says of what a
request carries over an await that its value belongs to the inputs it
carries; `Fits` is the property; `Fresh` follows a recalculation of everything that nobody
disturbs: rows that it has done are current, the others as it has read them. The attempt
to prove it showed that one `CASE` of the model had guards that overlap, which leaves the
choice open in TLA+; they are tried in order now, as in the code.

`ControlsAlwaysAppliedInOrder` is `AppliedInOrder` for any subbasins, activities, percentages and
orders that a client may send. The orders of the rows are
finite sets; if they are numbered as the defaults are, those of all subbasins together are `0..n-1` and
those of one subbasin an interval of these without a gap; then the frame with the
index of an order has the load that the orders before it leave, the closed form of
the loop, and the previous load is looked up in the right row.

`RecordsTypeCorrect`, `RecordsSound` and `RecordsDownloads` are about `MCRecords`, whose
parts share no variable: its invariant (`RecordsIInv`) is the conjunction of those of the parts, and
each step of the composition is one of one part, which leaves the others as they are, or sets a part up.

### Computations

`Computations_proofs` is about computations that answer one request, and the way of the loads. The totals are folds of the
community modules over finite sets. That such a fold exists and is what its recursion
says has no proof there, and none by induction here; a least set for which it would fail does the
same work (`Smallest`). The sum of a list is the least relation that the empty sum is in and that
adding an element keeps (`SumOf`); from it come the recursion (`SumsExist`, `TotalSum`) and
what is needed of sums: order, addition, a single amount, bounds (`SumOrder`, `SumAdd`, `SumOne`,
`SumBound`).

* `AddsUp` (`TableAddsUp`) and `Maintained` (`MaintainedAfterInstallation`), for any request. The
  year of installation is always in the table, and the years that are charged are an
  interval that starts with the later of installation and present. The code finds the years of
  replacement by a remainder, the property by a number of lifespans; `Multiples` is the step between.
* `HighAsGood`: a subbasin that is as good as another one by each criterion that counts has as
  high a score, for any number of subbasins and criteria and any values. Its flow is not less
  by any criterion (`FlowOrder`), nor is the sum, and scaling and rounding keep the order
  (`ScoreOrder`).
* `Dominance` (`DominanceRespected`), where the one that is better by any has a
  higher score. This takes a hypothesis, `FineEnough`: scores are rounded to thousandths of
  a percent, so that two flows can become a tie where all flows span more than 100000 units.
  Twice the largest weight times the numbers of subbasins and criteria has to stay within
  that; for weights up to 10 and five criteria that is a thousand subbasins.

* `LoadsAlwaysAccounted` (`LoadsAccounted`), for any map, facilities, delineations,
  source controls and edits between the refreshes of single tables. Each row of the overlay is of a
  plot and a delineation that has it, or of a plot that none has, and there is one for each of these
  (`OverlayOfPlots`). A solution of the graph is
  a function that satisfies the equation of each node. Its names have levels, land surface
  below treatment below subbasin below the rest, and each edge goes up, so that there is one solution and
  a portion can be followed along its only way. The invariant says what a table
  holds while it is not behind its inputs: the boundary is the overlay of what there is, the
  loads are those of the nodes of that boundary, and what is delivered has one row of each node and is
  accounted for. Two
  things of the model had to be put right for it: names of nodes that could have been
  equal for odd names of facilities, and an expression that TLA+ groups in another way than it reads.
* `DefaultsAlwaysFit` (`DefaultsFitModel`), for whatever the GIS service may say of a facility.

### What TLC alone checks

* Liveness (`CallReturns`, `AnsweredTaskEnds`, `RefreshRepairs`, `RunEnds`,
  `SolveAllEnds`, `ButtonComesBack`, `EndsUpServed`): it rests on fairness and ENABLED, which
  are out of the prover's reach.
* `Migrations` (`RevisionDeterminesSchema`, `RefusedOnlyForViews`, `HeadIsDeclared`): they are about the
  concrete text of 42 scripts, applied one after the other by recursive operators. There is no constant to
  generalize over. TLC computes the schema of every revision, up and down; the prover would have to do the
  same computation by hand, and has neither recursive operators next to its arithmetic and set
  backend nor induction over the scripts.
* The violations: `refresh_overlap`, `scenario_lost` and `control_order`.
* What happens when keys expire or are cleared under the tasks that hold them, and after a loss between two
  commits, as far as mutual exclusion and clean tables go: these do not hold then, and only the
  liveness properties say what is repaired.

## Not modelled

Time itself, clocks that differ between hosts, the amounts that computations
produce in floating point (discounting, runoff, treatment by nereid, land cover
from Earth Engine), and the contents of messages are left out throughout. The
changelog of the models has one row per table; two first edits at the same moment can
give it two. Redis eviction under memory pressure is not told apart from expiry.

Whole parts without a model: roles and users (one comparison of roles before a
request, no state of its own), endpoints that only read (tiles, spatial and reference
data, charts), the pages other than the result box, mail, site and
configuration. Two processes that seed the cost settings at the same first start are
not in `Migrations`, nor are the notebooks under `ipynb`, which the
application does not call. `PROJECT.json` gives the reason for each.
