---------------------------- MODULE MCTurnBudget -----------------------------
(* An instance of TurnBudget for TLC: a batch of each kind the clock tells     *)
(* apart, one of them with two calls.                                          *)
EXTENDS TurnBudget

AllCalls == [read |-> <<"read">>, check |-> <<"verify">>, write |-> <<"other">>,
             finish |-> <<"plan", "bash">>]
MCCalls == [b \in Batches |-> AllCalls[b]]
=============================================================================
