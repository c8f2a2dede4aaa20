------------------------------ MODULE MCStream ------------------------------
(* The instance of Stream for TLC is given by its constants alone. *)
EXTENDS Stream
=============================================================================
