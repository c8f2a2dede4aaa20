-------------------------- MODULE MCAdminSessions --------------------------
(* An instance of AdminSessions for TLC.  No property distinguishes among  *)
(* names or handlers.                                                      *)
EXTENDS AdminSessions, TLC

Symmetry == Permutations(Name) \cup Permutations(Request)
=============================================================================
