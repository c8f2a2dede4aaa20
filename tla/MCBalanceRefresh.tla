-------------------------- MODULE MCBalanceRefresh --------------------------
(* Instances of BalanceRefresh for TLC. *)
EXTENDS BalanceRefresh

\* Queried upstream; kept by hand and billed one unit per call; neither.
Queried == [query |-> TRUE, manual |-> FALSE, billed |-> FALSE, auto |-> TRUE,
            callCost |-> 0, minBalance |-> 0]
ByHand == [Queried EXCEPT !.query = FALSE, !.manual = TRUE, !.billed = TRUE,
                          !.callCost = 1]
Both == [ByHand EXCEPT !.query = TRUE]
Unwatched == [Queried EXCEPT !.query = FALSE]

AllConfigs == {Queried, ByHand, Both, Unwatched}
QueriedOnly == {Queried}
=============================================================================
