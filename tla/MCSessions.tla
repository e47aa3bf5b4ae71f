----------------------------- MODULE MCSessions -----------------------------
(* Small instances of Sessions with its access tokens for TLC. *)
EXTENDS Access, TLC

\* Requests and passwords differ in nothing but their names.
Symmetry == Permutations(Request) \cup Permutations(Password)
=============================================================================
