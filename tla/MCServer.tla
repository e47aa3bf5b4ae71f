------------------------------ MODULE MCServer ------------------------------
(* Three requests for two connections. *)
EXTENDS Server
=============================================================================
