------------------------------ MODULE MCAccess ------------------------------
(* Access and Marking for TLC, over the trees of MCRegistries.             *)
EXTENDS Access, Marking, MCRegistries
=============================================================================
