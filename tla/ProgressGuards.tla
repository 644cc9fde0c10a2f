---------------------------- MODULE ProgressGuards ----------------------------
(***************************************************************************)
(* The guards of one agent turn that look at what came of a batch           *)
(* (AgentLoop._run_calls and the end of an iteration of _run_turn): streaks *)
(* of the same error, of nothing but errors, of nothing but empty answers   *)
(* and of edits that change nothing; the gate on edits nobody checked; and  *)
(* the stall clock, which gives a turn that keeps hitting the same failing  *)
(* test a number of iterations to get past it.  A guard speaks once, with a *)
(* nudge, and ends the turn the next time.                                  *)
(***************************************************************************)
EXTENDS Integers, Sequences, FiniteSets

CONSTANTS
  Files,         \* basenames of the files the model edits and reads
  Errors,        \* texts of failed results
  Tests,         \* identities of failing test runs (_test_failure_id)
  Headless,      \* nobody is there to confirm a call
  MaxIterations, MaxErrorStall, MaxConsecutiveErrors, MaxNoinfo, MaxNochange,
  Gate,          \* agent.max_unverified_edits
  SteerBudget,   \* agent.escalated_stall_budget
  ResendBudget,  \* agent.noop_resend_stall_budget
  MaxCalls,      \* calls of a batch (bound of the model)
  Issued         \* the calls the model may make and what they may come to

NoTest == "none"
NoError == "no error"
Green == "green"

ASSUME ConstantsAssumption ==
  /\ IsFiniteSet(Errors) /\ Headless \in BOOLEAN
  /\ {NoTest, Green} \cap Tests = {} /\ NoError \notin Errors
  /\ MaxIterations \in Nat /\ MaxCalls \in Nat \ {0} /\ Gate \in Nat
  /\ MaxErrorStall \in Nat \ {0} /\ MaxConsecutiveErrors \in Nat \ {0}
  /\ MaxNoinfo \in Nat \ {0} /\ MaxNochange \in Nat \ {0}
  /\ SteerBudget \in Nat /\ ResendBudget \in Nat

VARIABLES
  phase,         \* where the iteration is: "top", "model", "calls", "reports", "judge"
  outcome,       \* how the turn ended, "running" until it has
  iter,          \* iterations started
  armed,         \* the iteration _esc_stall_at names, 0 when the clock is not running
  budget,        \* _esc_stall_k
  lastTest,      \* _last_test_id
  sameRun,       \* _same_failure_run
  unread,        \* _landed_edits > _edits_at_last_verify
  reprieved,     \* _stall_reprieved
  batch,         \* what the calls of the batch that are through came to
  reports,       \* its results the test reader has not been through
  errorStreaks,  \* error_streaks
  nudgedStall,   \* nudged_stall
  streak,        \* allerr_streak, noinfo_streak, nochange_streak
  nudged,        \* the guards of those that have spoken
  denials,       \* self._denials
  unverified,    \* unverified_edits
  nudgedVerify,  \* nudged_verify
  armedSince,    \* history: the iteration the clock was started in
  greenSince,    \* history: a test run has passed since then
  row            \* history: batches in a row that each streak is about

Guards == {"allerr", "noinfo", "nochange"}
Phases == {"top", "model", "calls", "reports", "judge"}
Outcomes == {"running", "stalled", "same_error", "denied", "elsewhere"} \cup Guards

clockVars == <<armed, budget, reprieved, armedSince>>
testVars == <<lastTest, sameRun, greenSince>>
streakVars == <<errorStreaks, nudgedStall, streak, nudged, row>>
gateVars == <<unverified, nudgedVerify>>
vars == <<phase, outcome, iter, clockVars, testVars, unread, batch, reports,
          streakVars, denials, gateVars>>

\* A call and what came of it: "other" is a tool that neither edits, reads a file nor
\* checks the code.  Whatever ran may hold a test run in its result, the read of a log as
\* well.  An edit that changes nothing may be reported as an error or not, and "resend" is
\* one whose old and new text are the same.
Ran == {"ok", "empty", "failed", "noop", "noop_failed", "resend", "resend_failed"}
NoChange == {"noop", "noop_failed", "resend", "resend_failed"}
Failed == {"failed", "noop_failed", "resend_failed"}
Readings == Tests \cup {NoTest, Green}
Results == {"ok", "empty", "failed", "denied"}
Calls ==
  {c \in [kind : {"edit", "read", "verify", "other", "unknown"}, file : Files,
          out : Results \cup NoChange \cup {"unknown"}, err : Errors \cup {NoError}, test : Readings] :
     /\ c.err # NoError <=> c.out = "failed"
     /\ c.test # NoTest => c.out \in Ran \ {"empty"}
     /\ c.kind = "unknown" <=> c.out = "unknown"
     /\ c.out \in NoChange => c.kind = "edit"
     /\ c.out = "empty" => c.kind # "edit"}

ASSUME IssuedAssumption == Issued \subseteq Calls

\* An error signature: the error texts of a batch's calls, in order.
Sigs == UNION {[1..n -> Errors] : n \in 1..MaxCalls}

NoBatch == [n |-> 0, ran |-> FALSE, allErr |-> TRUE, allEmpty |-> TRUE,
            noChange |-> FALSE, errs |-> <<>>]

Init ==
  /\ phase = "top" /\ outcome = "running" /\ iter = 0
  /\ armed = 0 /\ budget = 0 /\ reprieved = FALSE /\ armedSince = 0
  /\ lastTest = NoTest /\ sameRun = 0 /\ greenSince = FALSE
  /\ unread = FALSE
  /\ batch = NoBatch /\ reports = <<>>
  /\ errorStreaks = [s \in Sigs |-> 0] /\ nudgedStall = {}
  /\ streak = [g \in Guards |-> 0] /\ nudged = {} /\ row = [g \in Guards |-> 0]
  /\ denials = 0
  /\ unverified = [f \in Files |-> 0] /\ nudgedVerify = {}

Running(p) == outcome = "running" /\ phase = p

\* The top of an iteration: a stall clock that has run out ends the turn, unless an
\* edit landed that no check has covered yet, which buys one reading.
Expired == armed # 0 /\ iter + 1 - armed > budget
ReprieveMut == unread  \* mutant: not one-shot
Reprieve == unread /\ ~reprieved
Top ==
  /\ Running("top") /\ iter < MaxIterations
  /\ iter' = iter + 1
  /\ IF Expired /\ ~Reprieve
     THEN outcome' = "stalled" /\ UNCHANGED <<phase, armed, reprieved>>
     ELSE /\ phase' = "model" /\ UNCHANGED outcome
          /\ armed' = IF Expired THEN iter + 1 ELSE armed
          /\ reprieved' = (reprieved \/ Expired)
  /\ UNCHANGED <<budget, armedSince, testVars, unread, batch, reports, streakVars,
                 denials, gateVars>>

\* A reply that runs nothing: prose that is sent back, or a batch turned away as a repeat.
NoBatchReply ==
  /\ Running("model") /\ phase' = "top"
  /\ UNCHANGED <<outcome, iter, clockVars, testVars, unread, batch, reports,
                 streakVars, denials, gateVars>>

\* _arm_stall_budget: the first to arm the clock wins.
ArmMut(k) ==  \* mutant: whoever comes later starts the clock again
  IF k > 0
  THEN armed' = iter /\ budget' = k
       /\ armedSince' = (IF armed = 0 THEN iter ELSE armedSince) /\ greenSince' = FALSE
  ELSE UNCHANGED <<armed, budget, armedSince, greenSince>>
Arm(k) ==
  IF k > 0 /\ armed = 0
  THEN armed' = iter /\ budget' = k /\ armedSince' = iter /\ greenSince' = FALSE
  ELSE UNCHANGED <<armed, budget, armedSince, greenSince>>

\* What a batch adds up to, one more call taken in.
Tally(b, c) ==
  [n |-> b.n + 1, ran |-> b.ran \/ c.out \in Ran,
   allErr |-> b.allErr /\ (c.out \in Ran => c.out \in Failed),
   allEmpty |-> b.allEmpty /\ (c.out \in Ran => c.out = "empty"),
   noChange |-> b.noChange \/ c.out \in NoChange,
   errs |-> IF c.out = "failed" THEN Append(b.errs, c.err) ELSE b.errs]

\* The count of edits to a file nobody has looked at since: a check that is issued
\* clears all of them, a read that of its file, whether or not they go through.
RecountMut(c) ==  \* mutant: a look at the file does not owe it a new nudge
  CASE c.kind = "verify" -> unverified' = [f \in Files |-> 0] /\ nudgedVerify' = {}
    [] c.kind = "read"   -> /\ unverified' = [unverified EXCEPT ![c.file] = 0]
                            /\ UNCHANGED nudgedVerify
    [] c.kind = "edit"   -> /\ unverified' = [unverified EXCEPT ![c.file] = @ + 1]
                            /\ UNCHANGED nudgedVerify
    [] OTHER             -> UNCHANGED gateVars
Recount(c) ==
  CASE c.kind = "verify" -> unverified' = [f \in Files |-> 0] /\ nudgedVerify' = {}
    [] c.kind = "read"   -> /\ unverified' = [unverified EXCEPT ![c.file] = 0]
                            /\ nudgedVerify' = nudgedVerify \ {c.file}
    [] c.kind = "edit"   -> /\ unverified' = [unverified EXCEPT ![c.file] = @ + 1]
                            /\ UNCHANGED nudgedVerify
    [] OTHER             -> UNCHANGED gateVars

\* One call of a batch goes through: refused, unknown, or run.
Call(c) ==
  /\ Running("model") \/ Running("calls")
  /\ batch.n < MaxCalls /\ phase' = "calls"
  /\ batch' = Tally(batch, c) /\ Recount(c)
  /\ reports' = IF c.test = NoTest THEN reports ELSE Append(reports, c.test)
  /\ denials' = IF c.out = "denied" THEN denials + 1 ELSE denials
  /\ unread' = IF c.kind = "edit" /\ c.out \in Ran \ Failed THEN TRUE
               ELSE unread /\ ~(c.kind = "verify" /\ c.out \in Ran)
  /\ IF c.out \in {"resend", "resend_failed"} THEN Arm(ResendBudget)
     ELSE UNCHANGED <<armed, budget, armedSince, greenSince>>
  /\ UNCHANGED <<outcome, iter, reprieved, lastTest, sameRun, streakVars>>

CallsDone ==
  /\ Running("calls") /\ phase' = "reports"
  /\ UNCHANGED <<outcome, iter, clockVars, testVars, unread, batch, reports,
                 streakVars, denials, gateVars>>

\* The results are read for test runs, in order: a green one stops the clock, the third
\* of the same failure starts it.
ReadGreenMut ==  \* mutant: a passing run leaves the clock running
  /\ greenSince' = TRUE
  /\ UNCHANGED <<armed, budget, armedSince, lastTest, sameRun>>
ReadGreen ==
  /\ armed' = 0 /\ greenSince' = TRUE
  /\ UNCHANGED <<budget, armedSince, lastTest, sameRun>>
ReadFailure(t) ==
  /\ lastTest' = t
  /\ sameRun' = IF t = lastTest THEN sameRun + 1 ELSE 0
  /\ IF t = lastTest /\ sameRun + 1 > 1 THEN Arm(SteerBudget)
     ELSE UNCHANGED <<armed, budget, armedSince, greenSince>>
ReportMut ==  \* mutant: every test run has a failure identity
  /\ Running("reports") /\ reports # <<>> /\ reports' = Tail(reports)
  /\ ReadFailure(Head(reports))
  /\ UNCHANGED <<phase, outcome, iter, reprieved, unread, batch, streakVars,
                 denials, gateVars>>
Report ==
  /\ Running("reports") /\ reports # <<>> /\ reports' = Tail(reports)
  /\ IF Head(reports) = Green THEN ReadGreen ELSE ReadFailure(Head(reports))
  /\ UNCHANGED <<phase, outcome, iter, reprieved, unread, batch, streakVars,
                 denials, gateVars>>

ReportsDone ==
  /\ Running("reports") /\ reports = <<>> /\ phase' = "judge"
  /\ UNCHANGED <<outcome, iter, clockVars, testVars, unread, batch, reports,
                 streakVars, denials, gateVars>>

\* What the batch was, for each streak; and the streaks, the guard at which the
\* judgement ended having kept the ones behind it from hearing of the batch.
Was(g) ==
  CASE g = "allerr"   -> batch.ran /\ batch.allErr
    [] g = "noinfo"   -> batch.ran /\ batch.allEmpty
    [] g = "nochange" -> batch.noChange
Max(g) ==
  CASE g = "allerr"   -> MaxConsecutiveErrors
    [] g = "noinfo"   -> MaxNoinfo
    [] g = "nochange" -> MaxNochange
TripsMut(g) == Was(g) /\ streak[g] + 1 > Max(g)  \* mutant: one batch late
Trips(g) == Was(g) /\ streak[g] + 1 >= Max(g)
Recurs == batch.errs # <<>> /\ errorStreaks[batch.errs] + 1 >= MaxErrorStall
Refused == Headless /\ denials >= MaxErrorStall
OverGate == {f \in Files : unverified[f] >= Gate /\ f \notin nudgedVerify}
Verdict ==
  IF Refused THEN "denied"
  ELSE IF Recurs THEN "same_error"
  ELSE IF Trips("allerr") THEN "allerr"
  ELSE IF Trips("noinfo") THEN "noinfo"
  ELSE IF Trips("nochange") THEN "nochange"
  ELSE IF Gate > 0 /\ OverGate # {} THEN "gate"
  ELSE "none"

Hears(g) ==
  Verdict \notin CASE g = "allerr"   -> {"denied", "same_error"}
                   [] g = "noinfo"   -> {"denied", "same_error", "allerr"}
                   [] g = "nochange" -> {"denied", "same_error", "allerr", "noinfo"}
Grown(count, g) == IF Was(g) THEN count[g] + 1 ELSE 0

\* The end of the iteration: the first guard that trips sends a nudge, or stops the
\* turn when it has sent it before.
Warned ==
  \/ Verdict \in nudged
  \/ Verdict = "same_error" /\ batch.errs \in nudgedStall
Judge ==
  /\ Running("judge") /\ phase' = "top" /\ batch' = NoBatch
  /\ errorStreaks' = IF batch.errs = <<>> \/ Refused THEN errorStreaks
                     ELSE [errorStreaks EXCEPT ![batch.errs] = @ + 1]
  /\ streak' = [g \in Guards |-> IF Hears(g) THEN Grown(streak, g) ELSE streak[g]]
  /\ row' = [g \in Guards |-> Grown(row, g)]
  /\ outcome' = IF Verdict = "denied" \/ Warned THEN Verdict ELSE outcome
  /\ nudged' = nudged \cup ({Verdict} \cap Guards)
  /\ nudgedStall' = IF Verdict = "same_error" THEN nudgedStall \cup {batch.errs} ELSE nudgedStall
  /\ IF Verdict = "gate" THEN \E f \in OverGate : nudgedVerify' = nudgedVerify \cup {f}
     ELSE UNCHANGED nudgedVerify
  /\ UNCHANGED <<iter, clockVars, testVars, unread, reports, denials, unverified>>

\* An answer, another guard, a budget, the iteration cap or Esc ends the turn.
EndElsewhere ==
  /\ outcome = "running" /\ phase \in {"top", "model", "calls"}
  /\ outcome' = "elsewhere"
  /\ UNCHANGED <<phase, iter, clockVars, testVars, unread, batch, reports,
                 streakVars, denials, gateVars>>

Next ==
  \/ Top \/ NoBatchReply \/ \E c \in Issued : Call(c)
  \/ CallsDone \/ Report \/ ReportsDone \/ Judge
  \/ EndElsewhere

Spec == Init /\ [][Next]_vars

-----------------------------------------------------------------------------
\* Every variable keeps to the values the loop's own ones can have.
TypeOK ==
  /\ phase \in Phases /\ outcome \in Outcomes /\ iter \in 0..MaxIterations
  /\ armed \in 0..MaxIterations /\ budget \in {0, SteerBudget, ResendBudget}
  /\ armedSince \in 0..MaxIterations /\ reprieved \in BOOLEAN
  /\ lastTest \in Tests \cup {NoTest} /\ sameRun \in Nat /\ greenSince \in BOOLEAN
  /\ unread \in BOOLEAN
  /\ batch \in [n : 0..MaxCalls, ran : BOOLEAN, allErr : BOOLEAN, allEmpty : BOOLEAN,
                noChange : BOOLEAN, errs : Sigs \cup {<<>>}]
  /\ reports \in Seq(Tests \cup {Green}) /\ denials \in Nat
  /\ errorStreaks \in [Sigs -> Nat] /\ nudgedStall \subseteq Sigs
  /\ streak \in [Guards -> Nat] /\ row \in [Guards -> Nat] /\ nudged \subseteq Guards
  /\ unverified \in [Files -> Nat] /\ nudgedVerify \subseteq Files

\* A turn whose tests keep failing the same way gets the budget of the trigger that
\* armed the clock first, once more for one reading of edits nobody checked, and no
\* more: neither later triggers nor more edits extend it (_arm_stall_budget, "one-shot").
StallBounded ==
  outcome = "running" /\ armed # 0 => iter - armedSince <= 2 * budget + 1

\* The clock stops a turn only if no test run has passed since it was armed, the whole
\* budget went by, and every edit that landed was checked or the model was asked to.
StallStopIsFair ==
  outcome = "stalled" =>
    ~greenSince /\ iter - armedSince > budget /\ (unread => reprieved)

\* A turn in which batch after batch only fails, only comes back empty or only edits
\* without a change is nudged and stopped: in a row, no more than the limit, and one
\* more for each nudge of an earlier guard that kept this one from counting.
Excuses(g) ==
  CASE g = "noinfo" -> 0
    [] g = "allerr" -> Cardinality(nudgedStall)
    [] g = "nochange" -> Cardinality(nudgedStall) + 1
FutilityBounded ==
  /\ outcome = "running" => \A g \in Guards : row[g] <= Max(g) + Excuses(g)
  /\ Headless /\ outcome = "running" /\ phase \in {"top", "model"} => denials < MaxErrorStall

\* "The gate re-arms as soon as it complies": the nudge to look at a file again is only
\* withheld while the edits it was about are still unchecked (_run_turn, verify-gate).
GateRearms == \A f \in nudgedVerify : unverified[f] >= Gate
=============================================================================
