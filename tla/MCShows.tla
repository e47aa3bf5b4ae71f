------------------------------ MODULE MCShows ------------------------------
(* Small instances of Shows for TLC. *)
EXTENDS Shows, TLC

\* Requests differ in nothing but their names.
Symmetry == Permutations(Request)
=============================================================================
