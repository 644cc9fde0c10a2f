-------------------------- MODULE MCServerLifecycle --------------------------
(* Instances of ServerLifecycle for TLC: a session with the commands of the   *)
(* REPL, beside a headless one.                                               *)
EXTENDS ServerLifecycle

MCCommands == [s \in Sessions |-> IF s = "repl" THEN Ops \X Models ELSE {<<"ensure_up", "m">>}]
=============================================================================
