------------------------------ MODULE MCFriends ------------------------------
(* A small instance of Friends, and of Accounts within it. *)
EXTENDS Friends, TLC

Symmetry == Permutations(Users) \cup Permutations(Requests) \cup Permutations(Calls)

\* Any two requests, to whichever routes, at a time.
TwoAtOnce ==
  Cardinality({r \in Requests : req[r] # Idle} \cup {c \in Calls : call[c] # Idle}) <= 2

=============================================================================
