---------------------------- MODULE MCAllocation ----------------------------
(* The instance of Allocation for TLC. *)
EXTENDS Allocation

CONSTANTS m1, g1, g2

\* Both accounts are in one of two groups.  Account 1 declares the model and has
\* two upstreams, account 2 accepts every model and has one.
PooledGroup == [a \in Account |-> g1]
PooledDeclares == [a \in Account |-> IF a = 1 THEN {m1} ELSE {}]
PooledProviders == [a \in Account |-> IF a = 1 THEN 2 ELSE 1]
=============================================================================
