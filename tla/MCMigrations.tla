----------------------------- MODULE MCMigrations -----------------------------
(* The 42 revisions, with users of a role that only later revisions know and *)
(* of one that all do.                                                       *)
EXTENDS Migrations

MCRoles == {"user_admin", "none"}
=============================================================================
