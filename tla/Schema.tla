-------------------------------- MODULE Schema --------------------------------
(***************************************************************************)
(* A PostgreSQL schema as the migrations see it, and the statements they   *)
(* send: what each one does, and the dependencies for which the server     *)
(* refuses it.                                                             *)
(***************************************************************************)
LOCAL INSTANCE Sequences
LOCAL INSTANCE Integers

(***************************************************************************)
(* column   <<table, column>>; a table is there if it has columns          *)
(* uses     <<view, relation, column>>; "*" for all columns of a view      *)
(* typed    <<table, column, type>>, where the type of a column matters    *)
(* default  <<table, column, value>>                                       *)
(* type     <<enumeration, its values>>                                    *)
(* name     <<table, index or constraint>>                                 *)
(* role     the values in the column role of the table of users            *)
(***************************************************************************)
Empty == [ column |-> {}, uses |-> {}, typed |-> {}, default |-> {},
           type |-> {}, name |-> {}, role |-> {} ]

Tables(s) == {p[1] : p \in s.column}
Views(s) == {u[1] : u \in s.uses}
ColumnsOf(s, t) == {p[2] : p \in {q \in s.column : q[1] = t}}

-----------------------------------------------------------------------------
(* Statements. *)

CreateTable(t, cols) == [do |-> "create table", on |-> t, columns |-> cols]
DropTable(t) == [do |-> "drop table", on |-> t]
RenameTable(t, to) == [do |-> "rename table", on |-> t, to |-> to]
AddColumns(t, cols) == [do |-> "add columns", on |-> t, columns |-> cols]
DropColumns(t, cols) == [do |-> "drop columns", on |-> t, columns |-> cols]
RenameColumn(t, c, to) == [do |-> "rename column", on |-> t, column |-> c, to |-> to]
SetType(t, c, type) == [do |-> "set type", on |-> t, column |-> c, type |-> type]
SetDefault(t, c, v) == [do |-> "set default", on |-> t, column |-> c, value |-> v]
CreateType(n, values) == [do |-> "create type", on |-> n, values |-> values]
DropType(n) == [do |-> "drop type", on |-> n]
RenameType(n, to) == [do |-> "rename type", on |-> n, to |-> to]
AddName(t, n) == [do |-> "add name", on |-> t, name |-> n]
DropName(t, n) == [do |-> "drop name", on |-> t, name |-> n]
CreateView(v, uses) == [do |-> "create view", on |-> v, uses |-> uses]
DropView(v) == [do |-> "drop view", on |-> v]
UpdateRole(from, to) == [do |-> "update role", from |-> from, to |-> to]

-----------------------------------------------------------------------------
NotUsed(s, t, cols) == ~\E u \in s.uses : u[2] = t /\ u[3] \in cols

Values(s, n) == UNION {p[2] : p \in {q \in s.type : q[1] = n}}

HasType(s, n) == \E p \in s.type : p[1] = n

(* What a view is defined with must be there. *)
Resolves(s, u) == u \in s.column \/ u[1] \in Views(s)

Definition(s, v) == {<<u[2], u[3]>> : u \in {w \in s.uses : w[1] = v}}

(* The server takes the statement.  CREATE OR REPLACE takes the place of a
   view only if that has the same columns.                                 *)
Accepts(s, op) ==
  CASE op.do = "create table" -> op.on \notin Tables(s) \union Views(s)
    [] op.do = "drop table" -> op.on \in Tables(s) /\ NotUsed(s, op.on, ColumnsOf(s, op.on))
    [] op.do = "rename table" -> op.on \in Tables(s) /\ op.to \notin Tables(s)
    [] op.do = "add columns" ->
         op.on \in Tables(s) /\ op.columns \intersect ColumnsOf(s, op.on) = {}
    [] op.do = "drop columns" ->
         op.columns \subseteq ColumnsOf(s, op.on) /\ NotUsed(s, op.on, op.columns)
    [] op.do = "rename column" ->
         op.column \in ColumnsOf(s, op.on) /\ op.to \notin ColumnsOf(s, op.on)
    [] op.do = "set type" ->
         /\ op.column \in ColumnsOf(s, op.on) /\ NotUsed(s, op.on, {op.column})
         /\ op.column = "role" => s.role \subseteq Values(s, op.type)
    [] op.do = "set default" -> op.column \in ColumnsOf(s, op.on)
    [] op.do = "create type" -> ~HasType(s, op.on)
    [] op.do = "drop type" -> HasType(s, op.on) /\ ~\E p \in s.typed : p[3] = op.on
    [] op.do = "rename type" -> HasType(s, op.on) /\ ~HasType(s, op.to)
    [] op.do = "add name" -> op.on \in Tables(s) /\ ~\E p \in s.name : p[2] = op.name
    [] op.do = "drop name" -> <<op.on, op.name>> \in s.name
    [] op.do = "create view" ->
         /\ op.on \notin Tables(s)
         /\ op.on \in Views(s) => Definition(s, op.on) = op.uses
         /\ \A u \in op.uses : Resolves(s, u)
    [] op.do = "drop view" -> ~\E u \in s.uses : u[2] = op.on
    [] op.do = "update role" -> TRUE

Renamed(S, at, from, to) == {IF p[at] = from THEN [p EXCEPT ![at] = to] ELSE p : p \in S}

Without(S, t) == {p \in S : p[1] # t}

Replaced(S, t, c, v) ==
  {p \in S : p[1] # t \/ p[2] # c} \union IF v = "null" THEN {} ELSE {<<t, c, v>>}

(* What it does.  A view follows what it uses when that is renamed. *)
After(s, op) ==
  CASE op.do \in {"create table", "add columns"} ->
         [s EXCEPT !.column = @ \union ({op.on} \X op.columns)]
    [] op.do = "drop table" ->
         [s EXCEPT !.column = Without(@, op.on), !.typed = Without(@, op.on),
                   !.default = Without(@, op.on), !.name = Without(@, op.on),
                   !.role = IF "role" \in ColumnsOf(s, op.on) THEN {} ELSE @]
    [] op.do = "rename table" ->
         [s EXCEPT !.column = Renamed(@, 1, op.on, op.to),
                   !.typed = Renamed(@, 1, op.on, op.to),
                   !.default = Renamed(@, 1, op.on, op.to),
                   !.name = Renamed(@, 1, op.on, op.to),
                   !.uses = Renamed(@, 2, op.on, op.to)]
    [] op.do = "drop columns" -> [s EXCEPT !.column = @ \ ({op.on} \X op.columns)]
    [] op.do = "rename column" ->
         [s EXCEPT !.column = (@ \ {<<op.on, op.column>>}) \union {<<op.on, op.to>>},
                   !.uses = {IF u[2] = op.on /\ u[3] = op.column THEN [u EXCEPT ![3] = op.to]
                                                                ELSE u : u \in @}]
    [] op.do = "set type" -> [s EXCEPT !.typed = Replaced(@, op.on, op.column, op.type)]
    [] op.do = "set default" -> [s EXCEPT !.default = Replaced(@, op.on, op.column, op.value)]
    [] op.do = "create type" -> [s EXCEPT !.type = @ \union {<<op.on, op.values>>}]
    [] op.do = "drop type" -> [s EXCEPT !.type = Without(@, op.on)]
    [] op.do = "rename type" ->
         [s EXCEPT !.type = Renamed(@, 1, op.on, op.to), !.typed = Renamed(@, 3, op.on, op.to)]
    [] op.do = "add name" -> [s EXCEPT !.name = @ \union {<<op.on, op.name>>}]
    [] op.do = "drop name" -> [s EXCEPT !.name = @ \ {<<op.on, op.name>>}]
    [] op.do = "create view" ->
         [s EXCEPT !.uses = @ \union {<<op.on, u[1], u[2]>> : u \in op.uses}]
    [] op.do = "drop view" -> [s EXCEPT !.uses = Without(@, op.on)]
    [] op.do = "update role" ->
         [s EXCEPT !.role = {IF r = op.from THEN op.to ELSE r : r \in @}]

(* What a script makes of a schema, and whether the server takes all of it. *)
Ran(s, script) ==
  LET run[i \in 0..Len(script)] ==
        IF i = 0 THEN [ok |-> TRUE, schema |-> s]
        ELSE LET r == run[i - 1]
             IN  IF r.ok /\ Accepts(r.schema, script[i])
                 THEN [ok |-> TRUE, schema |-> After(r.schema, script[i])]
                 ELSE [ok |-> FALSE, schema |-> s]
  IN  run[Len(script)]
=============================================================================
