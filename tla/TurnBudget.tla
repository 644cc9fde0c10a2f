----------------------------- MODULE TurnBudget ------------------------------
(***************************************************************************)
(* The clock of one agent turn (AgentLoop._run_turn and its [turn budget]   *)
(* helpers, and the deadline the model client keeps for it).  A turn starts *)
(* with a budget of working time; progress pushes its end out, waiting for  *)
(* the user to confirm a call does not count, and between two checks of the *)
(* clock the turn waits for the model server, for tools and for the user.   *)
(*                                                                          *)
(* Time is counted in ticks from the start of the turn.  Every other guard  *)
(* that can end the turn or turn a batch away appears as what it does.      *)
(***************************************************************************)
EXTENDS Integers, Sequences

CONSTANTS
  Batches,        \* batch signatures the model may issue
  Calls,          \* [Batches -> sequence of Kinds]
  Rescued,        \* the batch a write cut off by the deadline is landed as
  MaxIterations,  \* agent.max_iterations
  MaxWallclock,   \* agent.max_wallclock_seconds
  Grant,          \* agent.progress_grant_seconds
  MaxForgivenRereads, MaxForgivenNudged,
  MaxHeaders,     \* the longest wait for headers, and for the body of an error behind them
  MaxTool,        \* the longest a tool takes (bound of the model, but for bash)
  MaxConfirm,     \* the longest the user takes over a confirmation (bound of the model)
  MaxTasks        \* tasks of a plan (bound of the model)

\* "bash" with and without _is_verify_bash's consent, "read" of _REREADABLE_TOOLS,
\* "plan" is update_plan, "other" any other tool.
Kinds == {"read", "verify", "bash", "plan", "other"}
NoBatch == "no batch"

ASSUME ConstantsAssumption ==
  /\ NoBatch \notin Batches /\ Rescued \in Batches
  /\ Calls \in [Batches -> Seq(Kinds)]
  /\ \A b \in Batches : Calls[b] # <<>>
  /\ Calls[Rescued] = <<"other">>  \* a salvaged write is a batch of one
  /\ MaxIterations \in Nat /\ MaxWallclock \in Nat /\ Grant \in Nat
  /\ MaxForgivenRereads \in Nat /\ MaxForgivenNudged \in Nat
  /\ MaxHeaders \in Nat /\ MaxTool \in Nat /\ MaxConfirm \in Nat /\ MaxTasks \in Nat

VARIABLES
  phase,      \* where the turn is: see Phases
  outcome,    \* how it ended, "running" until it has
  iter,       \* iterations started
  now,        \* ticks since the turn started
  since,      \* when the wait that is going on began
  pause,      \* _wallclock_pause
  budget,     \* _budget_seconds
  grants,     \* _budget_grants
  progress,   \* _last_progress
  seen,       \* the keys of repeat_streaks
  forgivenReads, forgivenNudged,
  batch,      \* the batch being run
  left,       \* its calls that have not been dealt with
  rescuing,   \* the batch is a write cut off by the deadline
  done,       \* tasks of the plan that are done
  doneBefore, \* plan_done_before
  paid,       \* history: how often each batch was granted time as a new one
  worked,     \* history: ticks in which nobody waited for a confirmation
  earned      \* history: progress was made this turn

Phases == {"top", "opening", "streaming", "calls", "confirming", "tool"}
Waiting == {"opening", "streaming", "confirming", "tool"}
Outcomes == {"running", "iterations", "wallclock", "quiet", "cut", "elsewhere", "interrupted"}

clockVars == <<now, pause, worked>>
budgetVars == <<budget, grants, progress, earned>>
guardVars == <<seen, forgivenReads, forgivenNudged, paid>>
callVars == <<batch, left, rescuing, done, doneBefore>>
vars == <<phase, outcome, iter, since, clockVars, budgetVars, guardVars, callVars>>

KindsOf(b) == {Calls[b][k] : k \in DOMAIN Calls[b]}

Init ==
  /\ phase = "top" /\ outcome = "running" /\ iter = 0
  /\ now = 0 /\ since = 0 /\ pause = 0 /\ worked = 0
  /\ budget = MaxWallclock /\ grants = 0 /\ progress = 0 /\ earned = FALSE
  /\ seen = {} /\ paid = [b \in Batches |-> 0]
  /\ forgivenReads = [b \in Batches |-> 0] /\ forgivenNudged = [b \in Batches |-> 0]
  /\ batch = NoBatch /\ left = <<>> /\ rescuing = FALSE
  /\ done \in 0..MaxTasks /\ doneBefore = done

\* _charged_elapsed, and the same while the user is asked: the pause is added after.
Charged == now - pause
Running == outcome = "running"
At(p) == Running /\ phase = p
Stop(how) == outcome' = how /\ UNCHANGED phase
Go(p) == phase' = p /\ since' = now /\ UNCHANGED outcome

\* _grant_budget
LaterMut(target) == target  \* mutant: a grant may shorten the budget
Later(target) == IF target > budget THEN target ELSE budget
GrantBudget ==
  /\ progress' = Charged /\ earned' = TRUE
  /\ IF Grant > 0
     THEN /\ budget' = Later(Charged + Grant)
          /\ grants' = IF Charged + Grant > budget THEN grants + 1 ELSE grants
     ELSE UNCHANGED <<budget, grants>>

CountedMut(counts, S) ==  \* mutant: an allowance is spent from nothing
  [b \in Batches |-> IF b \in S THEN counts[b] - 1 ELSE counts[b]]
Counted(counts, S) == [b \in Batches |-> IF b \in S THEN counts[b] + 1 ELSE counts[b]]
RereadsMut == {b \in seen : KindsOf(b) \subseteq {"read"}}  \* mutant: no bound
Rereads == {b \in seen : KindsOf(b) \subseteq {"read"} /\ forgivenReads[b] < MaxForgivenRereads}
NudgedVerifies ==
  {b \in seen : KindsOf(b) \subseteq {"read", "verify"} /\ forgivenNudged[b] < MaxForgivenNudged}

\* Time passes while the turn waits.  No wait but the one for the user and the
\* server's own reading of the prompt has a deadline of the turn's.
MayWait ==
  CASE phase = "opening"    -> now - since < MaxHeaders
    [] phase = "streaming"  -> Charged < budget
    [] phase = "tool"       -> now - since < MaxTool
    [] phase = "confirming" -> now - since < MaxConfirm
Tick ==
  /\ Running /\ phase \in Waiting /\ MayWait
  /\ now' = now + 1
  /\ worked' = IF phase = "confirming" THEN worked ELSE worked + 1
  /\ UNCHANGED <<phase, outcome, iter, since, pause, budgetVars, guardVars, callVars>>

\* The top of an iteration: the cap, then the clock, then the history, which may be
\* compacted; the reads whose output that drops are forgiven.
OverMut == Charged > MaxWallclock /\ grants = 0  \* mutant: an extended turn is never stopped here
Over == Charged > budget
CapReached ==
  /\ At("top") /\ iter = MaxIterations /\ Stop("iterations")
  /\ UNCHANGED <<iter, since, clockVars, budgetVars, guardVars, callVars>>
ClockStop ==
  /\ At("top") /\ iter < MaxIterations /\ Over
  /\ Stop(IF grants = 0 THEN "wallclock" ELSE "quiet")
  /\ iter' = iter + 1
  /\ UNCHANGED <<since, clockVars, budgetVars, guardVars, callVars>>
AskModel ==
  /\ At("top") /\ iter < MaxIterations /\ ~Over
  /\ Go("opening") /\ iter' = iter + 1
  /\ \/ UNCHANGED guardVars
     \/ /\ seen' = seen \ Rereads /\ forgivenReads' = Counted(forgivenReads, Rereads)
        /\ UNCHANGED <<forgivenNudged, paid>>
  /\ UNCHANGED <<clockVars, budgetVars, callVars>>

\* _open_stream returns: the wait for it has no deadline.
Headers ==
  /\ At("opening") /\ Go("streaming")
  /\ UNCHANGED <<iter, clockVars, budgetVars, guardVars, callVars>>

\* _next_line gives up at the deadline.  The reply so far may hold a write worth landing.
TimeIsUp == At("streaming") /\ Charged >= budget
CutOff ==
  /\ TimeIsUp /\ Stop("cut")
  /\ UNCHANGED <<iter, since, clockVars, budgetVars, guardVars, callVars>>
Rescue ==
  /\ TimeIsUp /\ now > since /\ Go("calls")
  /\ batch' = Rescued /\ left' = Calls[Rescued] /\ rescuing' = TRUE
  /\ UNCHANGED <<iter, clockVars, budgetVars, guardVars, done, doneBefore>>

\* A last line that arrives as the time runs out still counts.
Replied == At("streaming") /\ (Charged < budget \/ (Charged = budget /\ now > since))

\* A reply without a call that is sent back, for open tasks with a word for the checks.
Nudge ==
  /\ Replied /\ Go("top")
  /\ \/ UNCHANGED guardVars
     \/ /\ seen' = seen \ NudgedVerifies
        /\ forgivenNudged' = Counted(forgivenNudged, NudgedVerifies)
        /\ UNCHANGED <<forgivenReads, paid>>
  /\ UNCHANGED <<iter, clockVars, budgetVars, callVars>>

\* A batch is accepted: one of a new signature is progress.
Issue(b) ==
  /\ Replied /\ Go("calls")
  /\ batch' = b /\ left' = Calls[b] /\ rescuing' = FALSE /\ doneBefore' = done
  /\ IF b \in seen THEN UNCHANGED <<paid, budgetVars>>
     ELSE GrantBudget /\ paid' = [paid EXCEPT ![b] = @ + 1]
  /\ UNCHANGED <<iter, clockVars, seen, forgivenReads, forgivenNudged, done>>

\* The repeat guard turns a batch away.
TurnAway(b) ==
  /\ Replied /\ b \in seen /\ Go("top")
  /\ UNCHANGED <<iter, clockVars, budgetVars, guardVars, callVars>>

\* The calls of the batch, one by one: a call is refused outright, put to the user,
\* or run.
Pending == At("calls") /\ left # <<>>
Refuse ==
  /\ Pending /\ left' = Tail(left)
  /\ UNCHANGED <<phase, outcome, iter, since, clockVars, budgetVars, guardVars,
                 batch, rescuing, done, doneBefore>>
Ask ==
  /\ Pending /\ Go("confirming")
  /\ UNCHANGED <<iter, clockVars, budgetVars, guardVars, callVars>>
PauseMut(yes) == IF yes THEN pause + (now - since) ELSE pause  \* mutant: a "no" is charged
Pause(yes) == pause + (now - since)
Confirmed(yes) ==
  /\ At("confirming") /\ Go(IF yes THEN "tool" ELSE "calls")
  /\ pause' = Pause(yes)
  /\ left' = IF yes THEN left ELSE Tail(left)
  /\ UNCHANGED <<iter, now, worked, budgetVars, guardVars, batch, rescuing, done, doneBefore>>
Start ==
  /\ Pending /\ Go("tool")
  /\ UNCHANGED <<iter, clockVars, budgetVars, guardVars, callVars>>

\* The tool returns: a bash that exited 0 is progress, an update_plan sets the plan.
Returned(ok) ==
  /\ At("tool") /\ Go("calls") /\ left' = Tail(left)
  /\ IF ok /\ Head(left) \in {"bash", "verify"} THEN GrantBudget ELSE UNCHANGED budgetVars
  /\ done' \in (IF Head(left) = "plan" THEN IF ok THEN 0..MaxTasks ELSE {done, 0} ELSE {done})
  /\ UNCHANGED <<iter, clockVars, guardVars, batch, rescuing, doneBefore>>

\* The batch is over: a task completed is progress, and its signature is a known one
\* from now on.  After the write landed at the deadline the turn ends.
FinishBatch ==
  /\ At("calls") /\ left = <<>> /\ ~rescuing /\ Go("top")
  /\ IF done > doneBefore THEN GrantBudget ELSE UNCHANGED budgetVars
  /\ seen' = seen \cup {batch} /\ batch' = NoBatch
  /\ UNCHANGED <<iter, clockVars, forgivenReads, forgivenNudged, paid,
                 left, rescuing, done, doneBefore>>
RescueOver ==
  /\ At("calls") /\ left = <<>> /\ rescuing /\ Stop("cut")
  /\ UNCHANGED <<iter, since, clockVars, budgetVars, guardVars, callVars>>

\* An answer, another guard or an error of the server ends the turn.
EndElsewhere ==
  /\ At("top") \/ At("opening") \/ At("streaming")
  /\ Stop("elsewhere")
  /\ UNCHANGED <<iter, since, clockVars, budgetVars, guardVars, callVars>>

\* Esc is heard while the model streams and while a tool runs.
Interrupt ==
  /\ At("opening") \/ At("streaming") \/ At("tool")
  /\ Stop("interrupted")
  /\ UNCHANGED <<iter, since, clockVars, budgetVars, guardVars, callVars>>

Next ==
  \/ Tick
  \/ CapReached \/ ClockStop \/ AskModel \/ Headers \/ CutOff \/ Rescue
  \/ Nudge \/ \E b \in Batches : Issue(b) \/ TurnAway(b)
  \/ Refuse \/ Ask \/ Start \/ \E yes \in BOOLEAN : Confirmed(yes)
  \/ \E ok \in BOOLEAN : Returned(ok)
  \/ FinishBatch \/ RescueOver
  \/ EndElsewhere \/ Interrupt

Spec == Init /\ [][Next]_vars

-----------------------------------------------------------------------------
\* Every variable keeps to the values the loop's own ones can have.
TypeOK ==
  /\ phase \in Phases /\ outcome \in Outcomes /\ iter \in 0..MaxIterations
  /\ now \in Nat /\ since \in 0..now /\ pause \in 0..now /\ worked \in Nat
  /\ budget \in Nat /\ grants \in Nat /\ progress \in Nat /\ earned \in BOOLEAN
  /\ seen \subseteq Batches /\ paid \in [Batches -> Nat]
  /\ forgivenReads \in [Batches -> Nat] /\ forgivenNudged \in [Batches -> Nat]
  /\ batch \in Batches \cup {NoBatch} /\ left \in Seq(Kinds) /\ rescuing \in BOOLEAN
  /\ done \in 0..MaxTasks /\ doneBefore \in 0..MaxTasks

\* The budget is a floor: it covers the configured time and, when extension is on,
\* progress_grant_seconds from the latest progress, and nothing else ever moves it
\* (the _grant_budget comment and test_a_grant_extends_but_never_shortens_the_budget).
BudgetFollowsProgress ==
  LET earnedTime == progress + Grant
  IN budget = IF Grant > 0 /\ earned /\ earnedTime > MaxWallclock THEN earnedTime ELSE MaxWallclock

\* Only a turn that goes quiet dies of the clock (the progress_grant_seconds comment):
\* it had its configured time and the whole of its latest grant, none of it spent on
\* waiting for a confirmation, and the stop names the budget that bound it.
OnlyQuietTurnsDie ==
  /\ outcome \in {"wallclock", "quiet", "cut"} =>
       worked >= MaxWallclock /\ (Grant > 0 /\ earned => worked - progress >= Grant)
  /\ outcome = "wallclock" => budget = MaxWallclock
  /\ outcome = "quiet" => budget > MaxWallclock /\ worked - progress > Grant

\* The turn outlives its budget by one wait at most: that for the server's first headers,
\* or for an error's body (client.py:188-189), which no deadline of the turn's covers, or
\* the tools of one batch.
LongestWait(b) == Len(Calls[b]) * MaxTool
OverrunBounded ==
  \/ worked <= budget + MaxHeaders
  \/ \E b \in Batches : worked <= budget + LongestWait(b)

\* What a stuck model can do for ever must not reset the clock: a batch is granted
\* time as a new one once, and once more for each time it was forgiven, which is
\* bounded; one with a call that may write never is.
PaidBounded ==
  \A b \in Batches :
    paid[b] <= 1 + (IF KindsOf(b) \subseteq {"read"} THEN MaxForgivenRereads ELSE 0)
                 + (IF KindsOf(b) \subseteq {"read", "verify"} THEN MaxForgivenNudged ELSE 0)
=============================================================================
