------------------------------ MODULE MCGateway ------------------------------
(* Instances of Gateway for TLC. *)
EXTENDS Gateway, TLC

CONSTANTS p1, p2, p3, m1

\* Account 1 has two APIs and takes every model; account 2 declares m1.
TwoAccounts == [a \in Account |-> IF a = 2 THEN {m1} ELSE {}]
ThreeAPIs == [p \in Provider |-> IF p = p3 THEN 2 ELSE 1]

Symmetric == Permutations(Request)
=============================================================================
