--------------------------- MODULE MCHistoryFeed ---------------------------
(* A small instance of HistoryFeed. *)
EXTENDS HistoryFeed, TLC

Symmetry == Permutations(Requests)

=============================================================================
