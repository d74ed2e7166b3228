----------------------------- MODULE MCMigrate -----------------------------
(***************************************************************************)
(* An instance of Migrate for TLC: three boots.  One runs a branch without *)
(* the second migration, which a later deploy brings in out of order.      *)
(***************************************************************************)
EXTENDS Migrate, TLC

CONSTANTS branch, deployed, rerun

Binaries == (branch :> {1, 3}) @@ (deployed :> {1, 2, 3}) @@ (rerun :> {1, 2, 3})
EarlyAndLate == 1..3

=============================================================================
