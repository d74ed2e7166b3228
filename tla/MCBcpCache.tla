----------------------------- MODULE MCBcpCache -----------------------------
(***************************************************************************)
(* Instances of BcpCache for TLC.                                          *)
(***************************************************************************)
EXTENDS BcpCache, TLC

KeySymmetry == Permutations(Keys)

=============================================================================
