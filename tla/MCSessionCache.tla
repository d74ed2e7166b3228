--------------------------- MODULE MCSessionCache ---------------------------
(***************************************************************************)
(* An instance of SessionCache for TLC: two sessions of one user.          *)
(***************************************************************************)
EXTENDS SessionCache

CONSTANT u1
OneOwner == [t \in Tokens |-> u1]

=============================================================================
