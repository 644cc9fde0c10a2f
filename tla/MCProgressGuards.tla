--------------------------- MODULE MCProgressGuards ---------------------------
(* An instance of ProgressGuards for TLC: batches of up to two calls, enough   *)
(* for one to fail beside one that does not, and a call for every effect a     *)
(* guard can tell apart.                                                       *)
EXTENDS ProgressGuards

A(kind, out, test) ==
  [kind |-> kind, file |-> "f", out |-> out, test |-> test,
   err |-> IF out = "failed" THEN "e" ELSE NoError]
MCIssued == {A("edit", "ok", NoTest), A("edit", "failed", NoTest), A("edit", "resend", NoTest),
             A("verify", "failed", "t"), A("verify", "ok", NoTest), A("verify", "ok", Green),
             A("read", "empty", NoTest), A("read", "ok", "t"), A("other", "denied", NoTest)}
=============================================================================
