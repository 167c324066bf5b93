---------------------------- MODULE MCMigrations ----------------------------
(***************************************************************************)
(* Instances of Migrations for TLC.                                        *)
(***************************************************************************)
EXTENDS Migrations, TLC

\* The one migration there is: three tables and six indexes.
Initial == <<9>>

\* Two migrations, as there will be when the schema changes.
Two == <<3, 2>>

Symmetry == Permutations(Openers)
=============================================================================
