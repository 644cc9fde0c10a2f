---------------------------- MODULE MCRepeatGuard ----------------------------
(* Instances of RepeatGuard for TLC: a batch of each kind the guard tells    *)
(* apart, "mixed" being a native batch of several calls.                     *)
EXTENDS RepeatGuard

AllCalls == [edit  |-> <<"edit">>, check |-> <<"verify">>, compile |-> <<"verify">>,
             read  |-> <<"read">>, mixed |-> <<"edit", "verify">>, finish |-> <<"plan">>]
MCCalls == [b \in Batches |-> AllCalls[b]]
MCPlanOf == [b \in Batches |-> IF b = "finish" THEN "complete" ELSE "none"]
=============================================================================
