------------------------------ MODULE MCScript ------------------------------
(* The instance of Script for TLC is given by its constants alone. *)
EXTENDS Script
=============================================================================
