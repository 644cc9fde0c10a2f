------------------------------ MODULE Patience -------------------------------
(***************************************************************************)
(* What the loop promises about a model that talks instead of working: its  *)
(* patience is finite, every reply without a tool call costs some of it or  *)
(* ends the turn, and only work restores any.                               *)
(***************************************************************************)
EXTENDS Naturals

CONSTANT Most  \* the patience a turn can have at any time

VARIABLES
  did,       \* what the latest reply did: "work", or "talk" and "talked" in turn, so
             \* that no reply without a call passes for a stuttering step
  patience,
  ended

Init == did = "work" /\ patience \in 0..Most /\ ended = FALSE

Talk == /\ ~ended /\ did' \in {"talk", "talked"} \ {did}
        /\ patience' \in 0..Most /\ (patience' < patience \/ ended')
        /\ ended' \in BOOLEAN
Work == /\ ~ended /\ did' = "work"
        /\ patience' \in 0..Most /\ UNCHANGED ended
End == ~ended /\ ended' = TRUE /\ UNCHANGED <<did, patience>>

Next == Talk \/ Work \/ End
Spec == Init /\ [][Next]_<<did, patience, ended>>
=============================================================================
