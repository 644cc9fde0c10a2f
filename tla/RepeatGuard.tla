----------------------------- MODULE RepeatGuard -----------------------------
(***************************************************************************)
(* The call path of one agent turn (AgentLoop._run_turn and _run_calls):    *)
(* what happens to a reply that carries tool calls.  The model issues a     *)
(* batch; the loop suppresses it, ends the turn on it, or runs its calls    *)
(* one by one and records what they returned against the batch's signature. *)
(*                                                                          *)
(* A batch is identified by its signature, so Batches is the set of         *)
(* signatures the model may issue and Calls[b] the kinds of its calls, in   *)
(* order.  Every other guard that can end a turn (budgets, error streaks, a *)
(* final answer) is one action here, EndElsewhere; those have modules of    *)
(* their own.                                                               *)
(***************************************************************************)
EXTENDS Integers, Sequences

CONSTANTS
  Batches, NoBatch,   \* batch signatures, and no batch at all
  Calls,              \* [Batches -> sequence of Kinds]
  PlanOf,             \* [Batches -> PlanStates]: the list an update_plan batch writes
  Refusable,          \* kinds of the tools the policy or the user may refuse
  Texts, ErrTexts,    \* what a call may return; the texts of an is_error result
  MaxIterations,      \* agent.max_iterations
  MaxRepeat,          \* agent.max_repeat_calls
  MaxForgivenRereads, MaxForgivenNudged,
  MaxOpenTaskNudges   \* agent.max_open_task_retries

\* "edit" is a tool of _MUTATING_EDIT_TOOLS, "read" one of _REREADABLE_TOOLS,
\* "verify" a bash command that _is_verify_bash accepts, "bash" any other tool.
Kinds == {"edit", "read", "verify", "bash", "plan"}
PlanStates == {"none", "open", "complete"}
Outcomes == {"running", "done", "plan_done", "repeat_stop", "elsewhere", "interrupted"}

ASSUME ConstantsAssumption ==
  /\ NoBatch \notin Batches
  /\ Calls \in [Batches -> Seq(Kinds)]
  /\ \A b \in Batches : Calls[b] # <<>>
  /\ Refusable \subseteq Kinds
  /\ PlanOf \in [Batches -> PlanStates]
  /\ ErrTexts \subseteq Texts
  /\ MaxIterations \in Nat
  /\ MaxRepeat \in Nat /\ MaxRepeat > 1
  /\ MaxForgivenRereads \in Nat /\ MaxForgivenNudged \in Nat /\ MaxOpenTaskNudges \in Nat

VARIABLES
  pc,            \* where the iteration is: "top", "model", "run"
  iter,          \* iterations started
  outcome,       \* how the turn ended, "running" until it has
  batch,         \* calls: the batch being run, or the one the turn ended on
  results,       \* what its calls returned so far
  streak,        \* repeat_streaks: per signature its last results and a count, 0 if absent
  moved,         \* landed_edits > sig_mut_mark[b]
  nudged,        \* nudged_repeat
  forgivenReads, \* forgiven_rereads
  forgivenNudged,\* forgiven_nudged
  openNudges,    \* open_task_nudges
  plan,          \* self.plan, as far as its open and complete queries see it
  landedEdit, lastVerifyOk,
  runs,          \* history: how often each batch ran to its end
  still,         \* history: runs of b since an edit landed or its result was seen to change
  dirty          \* history: an edit landed after the latest verify command

guardVars == <<streak, moved, nudged, forgivenReads, forgivenNudged>>
turnVars == <<pc, iter, batch, results, openNudges>>
workVars == <<plan, landedEdit, lastVerifyOk>>
ghostVars == <<runs, still, dirty>>
vars == <<guardVars, turnVars, workVars, outcome, ghostVars>>

KindsOf(b) == {Calls[b][k] : k \in DOMAIN Calls[b]}
Mutating(b) == KindsOf(b) \subseteq {"edit"}
ReadOnly(b) == KindsOf(b) \subseteq {"read"}
AllVerify(b) == KindsOf(b) \subseteq {"verify"}
Forgivable(b) == KindsOf(b) \subseteq {"read", "verify"}

Absent == [res |-> <<>>, n |-> 0]

VerifiesAChangeMut(b) == FALSE  \* mutant: an edit in between goes unnoticed
\* seen_streak, after the reset a landed edit earns a batch that does not edit.
VerifiesAChange(b) == streak[b].n > 0 /\ "edit" \notin KindsOf(b) /\ moved[b]
SeenStreak(b) == IF VerifiesAChange(b) THEN 1 ELSE streak[b].n
StreakOnIssue(b) == [streak EXCEPT ![b].n = SeenStreak(b)]

RestatesFinishedPlan(b) ==
  SeenStreak(b) >= 1 /\ KindsOf(b) \subseteq {"plan"} /\ plan = "complete"
Futile(b) == SeenStreak(b) >= MaxRepeat - 1 /\ ~RestatesFinishedPlan(b)

Init ==
  /\ pc = "top" /\ iter = 0 /\ outcome = "running"
  /\ batch = NoBatch /\ results = <<>>
  /\ streak = [b \in Batches |-> Absent]
  /\ moved = [b \in Batches |-> FALSE]
  /\ nudged = {}
  /\ forgivenReads = [b \in Batches |-> 0]
  /\ forgivenNudged = [b \in Batches |-> 0]
  /\ openNudges = 0 /\ plan \in PlanStates
  /\ landedEdit = FALSE /\ lastVerifyOk = FALSE
  /\ runs = [b \in Batches |-> 0]
  /\ still = [b \in Batches |-> 0]
  /\ dirty = FALSE

AtModel == outcome = "running" /\ pc = "model"
Running == outcome = "running" /\ pc = "run" /\ Len(results) < Len(Calls[batch])
BatchOver == outcome = "running" /\ pc = "run" /\ Len(results) = Len(Calls[batch])

\* Another guard, a budget, the iteration cap or a final answer ends the turn.
\* After a batch only the denial stop does so before the streak is recorded.
EndElsewhere ==
  /\ (outcome = "running" /\ pc \in {"top", "model"}) \/ BatchOver
  /\ outcome' = "elsewhere"
  /\ UNCHANGED <<turnVars, workVars, guardVars, ghostVars>>

\* Esc is heard while the model streams and while a tool runs.
Interrupt ==
  /\ AtModel \/ Running
  /\ outcome' = "interrupted"
  /\ UNCHANGED <<turnVars, workVars, guardVars, ghostVars>>

Forgiven(S) ==
  /\ streak' = [b \in Batches |-> IF b \in S THEN Absent ELSE streak[b]]
  /\ nudged' = nudged \ S
CountedMut(counts, S) ==  \* mutant: an allowance is spent from nothing
  [b \in Batches |-> IF b \in S THEN counts[b] - 1 ELSE counts[b]]
Counted(counts, S) == [b \in Batches |-> IF b \in S THEN counts[b] + 1 ELSE counts[b]]

RereadsMut == {b \in Batches : streak[b].n > 0 /\ ReadOnly(b)}  \* mutant: no bound
Rereads == {b \in Batches : streak[b].n > 0 /\ ReadOnly(b)
                            /\ forgivenReads[b] < MaxForgivenRereads}
NudgedVerifies == {b \in Batches : streak[b].n > 0 /\ Forgivable(b)
                                   /\ forgivenNudged[b] < MaxForgivenNudged}

\* The top of an iteration: the history may be over its soft limit and be
\* compacted, which forgives the reads whose output was dropped.
TopOfLoop ==
  /\ outcome = "running" /\ pc = "top" /\ iter < MaxIterations
  /\ pc' = "model" /\ iter' = iter + 1
  /\ \/ UNCHANGED guardVars
     \/ /\ Forgiven(Rereads)
        /\ forgivenReads' = Counted(forgivenReads, Rereads)
        /\ UNCHANGED <<moved, forgivenNudged>>
  /\ UNCHANGED <<outcome, batch, results, openNudges, workVars, ghostVars>>

\* A reply without a call while plan tasks are open sends the model back to
\* them, and forgives it the checks that takes.
OpenTasksReply ==
  /\ AtModel /\ plan = "open" /\ openNudges < MaxOpenTaskNudges
  /\ pc' = "top" /\ openNudges' = openNudges + 1
  /\ Forgiven(NudgedVerifies)
  /\ forgivenNudged' = Counted(forgivenNudged, NudgedVerifies)
  /\ UNCHANGED <<outcome, iter, batch, results, workVars, moved, forgivenReads, ghostVars>>

\* A reply without a call that another gate answers with a nudge.  On the way a
\* green test run may have credited the plan's last open task.
OtherNudgedReply ==
  /\ AtModel /\ pc' = "top"
  /\ \/ UNCHANGED plan
     \/ plan = "open" /\ plan' = "complete"
  /\ UNCHANGED <<outcome, iter, batch, results, openNudges, landedEdit, lastVerifyOk,
                 guardVars, ghostVars>>

\* The three ways a batch is turned away, and the one it is accepted.
FinishPlan(b) ==
  /\ AtModel /\ RestatesFinishedPlan(b)
  /\ outcome' = "plan_done"
  /\ streak' = StreakOnIssue(b)
  /\ UNCHANGED <<turnVars, workVars, moved, nudged, forgivenReads, forgivenNudged, ghostVars>>

Suppress(b) ==
  /\ AtModel /\ Futile(b) /\ b \notin nudged
  /\ pc' = "top" /\ nudged' = nudged \cup {b}
  /\ streak' = StreakOnIssue(b)
  /\ UNCHANGED <<outcome, iter, batch, results, openNudges, workVars, moved,
                 forgivenReads, forgivenNudged, ghostVars>>

\* Issued again after the nudge: the turn ends, as done when an edit landed and
\* the latest verify command passed, as stuck otherwise.
VerifiedMut(b) == landedEdit /\ AllVerify(b)  \* mutant: any verify, not the latest green
Verified(b) == landedEdit /\ lastVerifyOk /\ AllVerify(b)
EndOnRepeat(b) ==
  /\ AtModel /\ Futile(b) /\ b \in nudged
  /\ outcome' = IF Verified(b) THEN "done" ELSE "repeat_stop"
  /\ batch' = b /\ streak' = StreakOnIssue(b)
  /\ UNCHANGED <<pc, iter, results, openNudges, workVars, moved, nudged,
                 forgivenReads, forgivenNudged, ghostVars>>

Issue(b) ==
  /\ AtModel /\ ~Futile(b) /\ ~RestatesFinishedPlan(b)
  /\ pc' = "run" /\ batch' = b /\ results' = <<>>
  /\ streak' = StreakOnIssue(b)
  /\ UNCHANGED <<outcome, iter, openNudges, workVars, moved, nudged,
                 forgivenReads, forgivenNudged, ghostVars>>

\* One turn of _run_calls' loop: the call runs and returns t.
Kind == Calls[batch][Len(results) + 1]
Lands(t) == Kind = "edit" /\ t \notin ErrTexts

RunCall(t) ==
  /\ Running /\ results' = Append(results, t)
  /\ landedEdit' = (landedEdit \/ Lands(t))
  /\ moved' = IF Lands(t) THEN [b \in Batches |-> TRUE] ELSE moved
  /\ lastVerifyOk' = IF Kind = "verify" THEN t \notin ErrTexts ELSE lastVerifyOk
  /\ CASE Kind # "plan"     -> UNCHANGED plan
       [] t \notin ErrTexts -> plan' = PlanOf[batch]
       [] OTHER             -> plan' \in {plan, "none"}  \* a list of blank tasks is adopted, then refused
  /\ still' = IF Lands(t) THEN [b \in Batches |-> 0] ELSE still
  /\ dirty' = (Lands(t) \/ (dirty /\ Kind # "verify"))
  /\ UNCHANGED <<pc, iter, outcome, batch, openNudges, streak, nudged, forgivenReads,
                 forgivenNudged, runs>>

\* A call of no known tool, or one the policy or the user refuses: it answers
\* with a result and never reaches a tool.
Refuse(t) ==
  /\ Running /\ Kind \in Refusable /\ results' = Append(results, t)
  /\ UNCHANGED <<pc, iter, outcome, batch, openNudges, workVars, guardVars, ghostVars>>

\* The batch is over: the same results, or an edit re-issued byte for byte, grow
\* the streak; anything else starts it again.
GrowsMut == streak[batch].n > 0 /\ results = streak[batch].res  \* mutant: a shifting echo resets
Grows == /\ streak[batch].n > 0
         /\ results = streak[batch].res \/ Mutating(batch)
FinishBatch ==
  /\ BatchOver /\ pc' = "top" /\ batch' = NoBatch /\ results' = <<>>
  /\ streak' = [streak EXCEPT ![batch] =
                  [res |-> results, n |-> IF Grows THEN streak[batch].n + 1 ELSE 1]]
  /\ moved' = [moved EXCEPT ![batch] = FALSE]
  /\ still' = [still EXCEPT ![batch] = IF streak[batch].n = 0 \/ Grows THEN @ + 1 ELSE 1]
  /\ runs' = [runs EXCEPT ![batch] = @ + 1]
  /\ UNCHANGED <<iter, outcome, openNudges, workVars, nudged,
                 forgivenReads, forgivenNudged, dirty>>

Next ==
  \/ EndElsewhere \/ Interrupt \/ TopOfLoop
  \/ OpenTasksReply \/ OtherNudgedReply
  \/ \E b \in Batches : FinishPlan(b) \/ Suppress(b) \/ EndOnRepeat(b) \/ Issue(b)
  \/ \E t \in Texts : RunCall(t) \/ Refuse(t)
  \/ FinishBatch

Spec == Init /\ [][Next]_vars

-----------------------------------------------------------------------------
\* Every variable keeps to the values the loop's own ones can have.
TypeOK ==
  /\ pc \in {"top", "model", "run"} /\ iter \in Nat /\ outcome \in Outcomes
  /\ batch \in Batches \cup {NoBatch} /\ results \in Seq(Texts)
  /\ streak \in [Batches -> [res : Seq(Texts), n : Nat]]
  /\ moved \in [Batches -> BOOLEAN] /\ nudged \subseteq Batches
  /\ forgivenReads \in [Batches -> Nat] /\ forgivenNudged \in [Batches -> Nat]
  /\ openNudges \in Nat /\ plan \in PlanStates
  /\ landedEdit \in BOOLEAN /\ lastVerifyOk \in BOOLEAN
  /\ runs \in [Batches -> Nat] /\ still \in [Batches -> Nat] /\ dirty \in BOOLEAN

\* An edit re-issued byte for byte runs at most max_repeat_calls - 1 times in a
\* turn, whatever its results, the checks run in between and the forgiveness of
\* compaction and of nudges: the loop that duplicates a file's content is cut
\* short (the [verify-after-change] and repeated_edit comments).
RepeatedEditBounded ==
  \A b \in Batches : Mutating(b) => runs[b] <= MaxRepeat - 1

\* Forgiveness is bounded: a batch that brings nothing new while the workspace
\* stands still runs at most max_repeat_calls - 1 times per allowance, an allowance
\* being the first or one forgiven; a batch with a call that may write gets none.
FutileRunsBounded ==
  \A b \in Batches :
    /\ still[b] <= (MaxRepeat - 1) * (1 + forgivenReads[b] + forgivenNudged[b])
    /\ forgivenReads[b] <= IF ReadOnly(b) THEN MaxForgivenRereads ELSE 0
    /\ forgivenNudged[b] <= IF Forgivable(b) THEN MaxForgivenNudged ELSE 0

\* A turn the loop itself declares done rests on a check that ran after the last
\* edit that landed ("the code is passing NOW").  At max_repeat_calls = 2 the
\* streak a landed edit resets to is already over the threshold, and a check that
\* was refused still counts as one re-run unchanged: in both cases this is lost.
DoneReadingIsCurrent ==
  outcome = "done" /\ MaxRepeat > 2 /\ "verify" \notin Refusable => ~dirty /\ lastVerifyOk

\* A batch that edits nothing is turned away as a repeat, or the turn ended on it,
\* only after it went through at least max_repeat_calls - 2 times on the workspace
\* as it is now: re-running a check after a change is never called repetition.
NoFalseAlarm ==
  [][\A b \in Batches :
       /\ "edit" \notin KindsOf(b)
       /\ \/ b \in nudged' \ nudged
          \/ outcome = "running" /\ outcome' \in {"done", "repeat_stop"} /\ batch' = b
       => still[b] >= MaxRepeat - 2]_vars

\* The claim of a turn ended as done, "the check that was run against it passed":
\* the check it names, the repeated batch, passed when it last ran.
DoneClaimTrue ==
  outcome = "done" => \A k \in DOMAIN streak[batch].res : streak[batch].res[k] \notin ErrTexts
=============================================================================
