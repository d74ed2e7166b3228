----------------------- MODULE MCConditionalRequests -----------------------
(* A small instance of ConditionalRequests. *)
EXTENDS ConditionalRequests, TLC

Symmetry == Permutations(Requests)

=============================================================================
