--------------------------- MODULE MCEventArchive ---------------------------
(* A small instance of EventArchive. *)
EXTENDS EventArchive, TLC

\* Binaries differ in what rows they accept, and in nothing else.
Symmetry == Permutations(Versions)

=============================================================================
