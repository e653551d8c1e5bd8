---------------------------- MODULE MCCleanupJob ----------------------------
(* Instances of CleanupJob for TLC, with the values of MCServer. *)
EXTENDS MCServer, CleanupJob
=============================================================================
