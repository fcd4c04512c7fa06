------------------------------ MODULE MCServer ------------------------------
(* Model-checking instances of Server: see the cfg files. *)
EXTENDS Server
=============================================================================
