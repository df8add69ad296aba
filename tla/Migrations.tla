------------------------------ MODULE Migrations ------------------------------
(***************************************************************************)
(* A deployment: alembic commands (alembic/env.py) take the database from  *)
(* one revision to another, in one transaction a command, and the start of *)
(* the application (startup.py, views.py) creates the views it reads.      *)
(***************************************************************************)
EXTENDS Revisions, Declared, Integers

CONSTANTS
  Roles,           \* roles of users that are registered
  MaxDowngrades,   \* bounds
  MaxLosses

ASSUME MigrationsAssumption ==
  /\ Roles \subseteq NewRoles
  /\ MaxDowngrades \in Nat /\ MaxLosses \in Nat

VARIABLES
  rev,      \* the revision in table alembic_version
  schema,
  command,  \* target of the command that runs, and the revision and schema
            \* that its transaction has come to; or NoCommand
  found,    \* the views that a starting application has found, or NotStarting
  count     \* downgrades and lost connections so far

vars == <<rev, schema, command, found, count>>

NoCommand == [to |-> -1]
NotStarting == {"nothing"}

AtRest == command = NoCommand

Init ==
  /\ rev = 0 /\ schema = Empty
  /\ command = NoCommand
  /\ found = NotStarting
  /\ count = [downgrades |-> 0, losses |-> 0]

-----------------------------------------------------------------------------
(* alembic. *)

Begin(target) ==
  /\ AtRest /\ target # rev
  /\ command' = [to |-> target, rev |-> rev, schema |-> schema]
  /\ UNCHANGED <<rev, schema, found>>

(* prestart.sh *)
UpgradeHead == Begin(Latest) /\ UNCHANGED count

(* By hand. *)
UpgradeOne == rev < Latest /\ Begin(rev + 1) /\ UNCHANGED count

Downgrade ==
  /\ rev > 0 /\ count.downgrades < MaxDowngrades
  /\ \E target \in {0, rev - 1} : Begin(target)
  /\ count' = [count EXCEPT !.downgrades = @ + 1]

GoesUp == command.to > command.rev

(* The statements of the next revision of the command. *)
Script == IF GoesUp THEN Revision[command.rev + 1].up ELSE Revision[command.rev].down

(* A revision, up or down. *)
RunMigration ==
  /\ ~AtRest /\ command.rev # command.to
  /\ LET ran == Ran(command.schema, Script)
     IN  /\ ran.ok
         /\ command' = [command EXCEPT !.rev = IF GoesUp THEN @ + 1 ELSE @ - 1,
                                       !.schema = ran.schema]
  /\ UNCHANGED <<rev, schema, found, count>>

Commit ==
  /\ ~AtRest /\ command.rev = command.to
  /\ rev' = command.rev
  /\ schema' = command.schema
  /\ command' = NoCommand
  /\ UNCHANGED <<found, count>>

(* The server refuses a statement: nothing of the command remains. *)
Refuse ==
  /\ ~AtRest /\ command.rev # command.to
  /\ ~Ran(command.schema, Script).ok
  /\ command' = NoCommand
  /\ UNCHANGED <<rev, schema, found, count>>

ConnectionLost ==
  /\ ~AtRest /\ count.losses < MaxLosses
  /\ count' = [count EXCEPT !.losses = @ + 1]
  /\ command' = NoCommand
  /\ UNCHANGED <<rev, schema, found>>

-----------------------------------------------------------------------------
(* The application. *)

(* DROP VIEW ... CASCADE takes the views that use the view along. *)
RECURSIVE Cascade(_, _)
Cascade(uses, views) ==
  LET more == {u[1] : u \in {w \in uses : w[2] \in views}} \ views
  IN  IF more = {} THEN {u \in uses : u[1] \notin views} ELSE Cascade(uses, views \union more)

(* initialize_views looks for the views that are there... *)
FindViews ==
  /\ found = NotStarting
  /\ found' = Views(schema)
  /\ UNCHANGED <<rev, schema, command, count>>

CreateViews == [i \in DOMAIN VIEW_REGISTRY |->
                  CreateView(VIEW_REGISTRY[i].view, VIEW_REGISTRY[i].uses)]

(* ...drops them and creates its own, in one transaction, which waits for
   the locks of a running migration.  If a statement is refused, the start
   fails, and the container is started again.                              *)
InitializeViews ==
  /\ AtRest /\ found # NotStarting
  /\ LET ran == Ran([schema EXCEPT !.uses = Cascade(@, found)], CreateViews)
     IN  schema' = IF ran.ok THEN ran.schema ELSE schema
  /\ found' = NotStarting
  /\ UNCHANGED <<rev, command, count>>

(* The first user, with a role that the enumeration has. *)
Register(role) ==
  /\ AtRest /\ schema.role = {}
  /\ role \in Values(schema, "role")
  /\ schema' = [schema EXCEPT !.role = {role}]
  /\ UNCHANGED <<rev, command, found, count>>

Next ==
  \/ UpgradeHead \/ UpgradeOne \/ Downgrade
  \/ RunMigration \/ Commit \/ Refuse \/ ConnectionLost
  \/ FindViews \/ InitializeViews
  \/ \E role \in Roles : Register(role)

(* WF_vars(RunMigration \/ Refuse \/ Commit) and WF_vars(InitializeViews),
   with what enables them written out: TLC is slow in finding it.          *)
CommandGoesOn == []<>AtRest \/ []<><<~UNCHANGED command>>_vars
StartGoesOn == []<>(found = NotStarting \/ ~AtRest) \/ []<><<InitializeViews>>_vars

(* A command runs to its end; the container is started until its start
   succeeds, and its start upgrades to the head and creates the views.     *)
Fairness == CommandGoesOn /\ StartGoesOn /\ WF_vars(UpgradeHead) /\ WF_vars(FindViews)

Spec == Init /\ [][Next]_vars /\ Fairness

-----------------------------------------------------------------------------
(* The schema that the upgrades to a revision make of an empty database. *)
UpgradedUpTo[n \in 0..Latest] ==
  IF n = 0 THEN <<Empty>>
  ELSE LET before == UpgradedUpTo[n - 1]
       IN  Append(before, Ran(before[n], Revision[n].up).schema)

UpgradedTo == UpgradedUpTo[Latest]

(* What the application declares and the users' data are not part of it. *)
Structure(s) == [s EXCEPT !.uses = {}, !.role = {}]

RegistryViews == {VIEW_REGISTRY[i].view : i \in DOMAIN VIEW_REGISTRY}

-----------------------------------------------------------------------------
(* The revision determines the schema, whatever way up and down the        *)
(* database has come, and with whatever lost connections on it: the        *)
(* downgrades undo the upgrades.                                           *)
RevisionDeterminesSchema == Structure(schema) = Structure(UpgradedTo[rev + 1])

(* A statement of a script is refused only when the application has put    *)
(* its views on a table that the script of a downgrade changes: no upgrade *)
(* fails, for no history and no role of a user, and without the views of   *)
(* the application no downgrade does.                                      *)
RefusedOnlyForViews ==
  ~AtRest /\ command.rev # command.to =>
    \/ Ran(command.schema, Script).ok
    \/ ~GoesUp /\ RegistryViews \subseteq Views(command.schema)

(* At the head the tables have the columns that the code declares. *)
HeadIsDeclared == rev = Latest => schema.column = Metadata

(* The database ends up at the head with the views of the application on   *)
(* it, whatever was done by hand before.                                   *)
EndsUpServed == <>[](rev = Latest /\ AtRest /\ RegistryViews \subseteq Views(schema))
=============================================================================
