---------------------------- MODULE MCMigrations ----------------------------
(* Images of a branch that gained a migration with a number below one that  *)
(* had been deployed.                                                        *)
EXTENDS Migrations, TLC

MCVersions == 1 .. 3
MCImages == {{1}, {1, 3}, {1, 2, 3}}
=============================================================================
