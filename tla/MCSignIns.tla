------------------------------ MODULE MCSignIns ------------------------------
(* Instances of SignIns for TLC, with the values of MCServer. *)
EXTENDS MCServer, SignIns
=============================================================================
