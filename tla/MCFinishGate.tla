---------------------------- MODULE MCFinishGate -----------------------------
(* An instance of FinishGate for TLC: one retry of each gate the others       *)
(* interact with, and of the two that they cannot tell from it, none.  A      *)
(* reply that is cut, or long, announces and claims nothing besides.          *)
EXTENDS FinishGate
MCSpoken == {r \in Replies : \/ r.ending = "whole" /\ r.text = "short"
                             \/ ~r.intent /\ r.claims = {}}
MCMaxNudges == [repetition |-> 0, echo |-> 0, truncated |-> 1, deliverable |-> 1, open_task |-> 1]
MCRequests == {[change |-> TRUE, file |-> b] : b \in BOOLEAN}
=============================================================================
