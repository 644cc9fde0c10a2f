----------------------------- MODULE FinishGate ------------------------------
(***************************************************************************)
(* What the loop makes of a reply that carries no tool call                 *)
(* (AgentLoop._run_turn): a cascade of gates, each of which may send the    *)
(* model back to work with a nudge, stop the turn, or let the reply through *)
(* to the next gate and in the end to the user as the answer.  Replies with *)
(* calls appear with what they change for the gates.                        *)
(***************************************************************************)
EXTENDS Integers

CONSTANTS
  Prose,         \* long replies, told apart by their text
  Spoken,        \* the replies without a call that the model may give
  MaxNudges,     \* per kind of nudge, the retries the configuration allows
  MaxMalformed,  \* agent.max_malformed_retries
  MaxSalvaged,   \* agent.max_salvaged_writes
  Requests,      \* what a request may ask: [change : BOOLEAN, file : BOOLEAN]
  MaxTasks       \* tasks of a plan (bound of the model)

NudgeKinds == {"repetition", "empty", "echo", "truncated", "deliverable", "open_task",
               "intent", "tests", "verify", "zero_change"}
OneShot == {"empty", "intent", "tests", "verify", "zero_change"}
Limit(k) == IF k \in OneShot THEN 1 ELSE MaxNudges[k]

ASSUME ConstantsAssumption ==
  /\ "short" \notin Prose
  /\ MaxNudges \in [NudgeKinds \ OneShot -> Nat]
  /\ Requests \subseteq [change : BOOLEAN, file : BOOLEAN]
  /\ MaxMalformed \in Nat \ {0} /\ MaxSalvaged \in Nat /\ MaxTasks \in Nat

VARIABLES
  outcome,       \* "running", or how the turn ended
  did,           \* what the latest reply did: "work", or "talk" and "talked" in turn
  claims,        \* what the answer the turn ended on claims: "tests" pass, "verify" is clean
  nudges,        \* the nudge counters and flags of the turn, by kind
  malformed,     \* consecutive_malformed
  salvages,      \* salvage_writes
  calledSince,   \* since_last_deliverable_nudge_call
  seen,          \* seen_prose, the long ones
  request,       \* what it asks: change, _asks_for_a_change; file, expected_artifacts # {}
  missing,       \* expected_artifacts - attempted_paths # {}
  open, onVerify,\* open tasks of the plan; its current one is to run the tests
  acted, sawGreen, sawVerifyOk,
  grinds         \* history: how often each long text was answered by a gate that grinds

gateVars == <<nudges, malformed, salvages, calledSince, seen>>
workVars == <<missing, open, onVerify, acted, sawGreen, sawVerifyOk>>
vars == <<outcome, did, claims, gateVars, request, workVars, grinds>>

Outcomes == {"running", "answer", "empty_answer", "stopped"}
\* A prose reply: its text, ending whole, cut by the token limit or inside an open
\* tool fence, announcing an action, claiming that tests pass or that a check was clean.
Claims == {"tests", "verify"}
Replies == [text : Prose \cup {"short"}, ending : {"whole", "cut", "fence"},
            intent : BOOLEAN, claims : SUBSET Claims]

ASSUME SpokenAssumption == Spoken \subseteq Replies

Init ==
  /\ outcome = "running" /\ did = "work" /\ claims = {}
  /\ nudges = [k \in NudgeKinds |-> 0]
  /\ malformed = 0 /\ salvages = 0 /\ calledSince = FALSE /\ seen = {}
  /\ request \in Requests /\ missing = request.file
  /\ open \in 0..MaxTasks /\ onVerify \in (IF open > 0 THEN BOOLEAN ELSE {FALSE})
  /\ acted = FALSE /\ sawGreen = FALSE /\ sawVerifyOk = FALSE
  /\ grinds = [p \in Prose |-> 0]

LeftMut(k) == nudges[k] <= Limit(k)  \* mutant: one nudge too many
Left(k) == nudges[k] < Limit(k)

\* The plan when the gate of open tasks looks at it: a green test run has credited
\* a current task that asked for one.
Credited == open > 0 /\ sawGreen /\ onVerify
OpenThen == IF Credited THEN open - 1 ELSE open

\* The gate of the cascade that decides about a prose reply.
Cut(r) == r.ending # "whole"
RepeatedMut(r) == r.text \in seen /\ (Cut(r) \/ missing)  \* mutant: the open plan is forgotten
Repeated(r) == r.text \in seen /\ (Cut(r) \/ missing \/ open > 0)
DeliverableDueMut == missing /\ nudges["deliverable"] = 0  \* mutant: a detour is trusted
DeliverableDue == missing /\ (nudges["deliverable"] = 0 \/ calledSince)
Verdict(r) ==
  IF Repeated(r) THEN "stop"
  ELSE IF Cut(r) /\ Left("truncated") THEN "truncated"
  ELSE IF r.ending = "fence" THEN "stop"
  ELSE IF DeliverableDue THEN IF Left("deliverable") THEN "deliverable" ELSE "stop"
  ELSE IF OpenThen > 0 /\ Left("open_task") THEN "open_task"
  ELSE IF r.intent /\ Left("intent") THEN "intent"
  ELSE IF "tests" \in r.claims /\ ~sawGreen /\ Left("tests") THEN "tests"
  ELSE IF "verify" \in r.claims /\ ~sawVerifyOk /\ Left("verify") THEN "verify"
  ELSE IF request.change /\ ~request.file /\ ~acted /\ Left("zero_change") THEN "zero_change"
  ELSE "answer"

\* The gates before the plan is credited, and those that may ask for the same again.
EarlyGates == {"truncated", "deliverable"}
GrindingGates == {"truncated", "deliverable", "open_task"}

Talks == outcome = "running" /\ did' = IF did = "talk" THEN "talked" ELSE "talk"
Works == outcome = "running" /\ did' = "work"
NudgeMut(k) ==  \* mutant: the flag of the announced-intent nudge is never set
  nudges' = IF k = "intent" THEN nudges ELSE [nudges EXCEPT ![k] = @ + 1]
Nudge(k) == nudges' = [nudges EXCEPT ![k] = @ + 1]

\* The credit a prose reply that gets past the early gates gives the plan.
CreditPlan(v) ==
  IF Credited /\ v \notin EarlyGates /\ v # "stop"
  THEN open' = open - 1 /\ onVerify' \in (IF open > 1 THEN BOOLEAN ELSE {FALSE})
  ELSE UNCHANGED <<open, onVerify>>

HearMut(r) ==  \* mutant: any prose forgives the malformed calls before it
  /\ seen' = seen \cup ({r.text} \cap Prose) /\ malformed' = 0
  /\ UNCHANGED <<salvages, request, missing, acted, sawGreen, sawVerifyOk>>
Hear(r) ==
  /\ seen' = seen \cup ({r.text} \cap Prose)
  /\ UNCHANGED <<malformed, salvages, request, missing, acted, sawGreen, sawVerifyOk>>

\* A gate sends the model back to work.
NudgeProse(r) ==
  /\ Talks /\ Hear(r)
  /\ Verdict(r) \in NudgeKinds
  /\ Nudge(Verdict(r)) /\ CreditPlan(Verdict(r))
  /\ calledSince' = (calledSince /\ Verdict(r) # "deliverable")
  /\ grinds' = [p \in Prose |->
                  IF p = r.text /\ Verdict(r) \in GrindingGates THEN grinds[p] + 1 ELSE grinds[p]]
  /\ UNCHANGED <<outcome, claims>>

\* The reply is handed to the user, or is a dead end.
EndOnProse(r) ==
  /\ Talks /\ Hear(r)
  /\ \/ Verdict(r) = "answer" /\ outcome' = "answer" /\ claims' = r.claims
     \/ Verdict(r) = "stop" /\ outcome' = "stopped" /\ UNCHANGED claims
  /\ CreditPlan(Verdict(r))
  /\ UNCHANGED <<nudges, calledSince, grinds>>

\* Replies that come before the cascade's look at their prose: a degenerate loop
\* the client cut off, no text at all, an echo of the harness's own words.
Discard(k) ==
  /\ Talks
  /\ IF Left(k)
     THEN Nudge(k) /\ UNCHANGED outcome
     ELSE outcome' = (IF k = "empty" THEN "empty_answer" ELSE "stopped") /\ UNCHANGED nudges
  /\ UNCHANGED <<claims, malformed, salvages, calledSince, seen, request, workVars, grinds>>

\* A tool call that does not parse.
Malformed ==
  /\ Talks /\ malformed' = malformed + 1
  /\ outcome' = IF malformed' >= MaxMalformed THEN "stopped" ELSE outcome
  /\ UNCHANGED <<claims, nudges, salvages, calledSince, seen, request, workVars, grinds>>

\* A reply with calls that the repeat guard turns away: only the deliverable gate
\* takes note of it.
TurnedAway ==
  /\ Works /\ calledSince' = TRUE
  /\ UNCHANGED <<outcome, claims, nudges, malformed, salvages, seen, request, workVars, grinds>>

\* What a call that runs may change: "edit" writes, perhaps a file asked for, "bash"
\* may show a green test run or pass as a check, "plan" sets the plan, "other" does
\* nothing of this.  A native batch of several calls is as many of these steps: no
\* gate looks in between.
Effects(kind) ==
  /\ acted' = (acted \/ kind \in {"edit", "bash"})
  /\ missing' \in (IF kind = "edit" THEN {missing, FALSE} ELSE {missing})
  /\ sawGreen' \in (IF kind = "bash" THEN {sawGreen, TRUE} ELSE {sawGreen})
  /\ sawVerifyOk' \in (IF kind = "bash" THEN {sawVerifyOk, TRUE} ELSE {sawVerifyOk})
  /\ IF kind = "plan"
     THEN open' \in 0..MaxTasks /\ onVerify' \in (IF open' > 0 THEN BOOLEAN ELSE {FALSE})
     ELSE UNCHANGED <<open, onVerify>>

RunCall(kind) ==
  /\ Works /\ calledSince' = TRUE /\ malformed' = 0
  /\ Effects(kind)
  /\ UNCHANGED <<outcome, claims, nudges, salvages, seen, request, grinds>>

\* A reply cut by the token limit inside a write: the part that arrived is landed
\* as a call of its own, which the repeat guard may still turn away.
Salvage ==
  /\ Works /\ salvages < MaxSalvaged /\ salvages' = salvages + 1
  /\ calledSince' = TRUE
  /\ \/ malformed' = 0 /\ Effects("edit")
     \/ UNCHANGED <<malformed, workVars>>
  /\ UNCHANGED <<outcome, claims, nudges, seen, request, grinds>>

\* Another guard, a budget or Esc ends the turn.
EndElsewhere ==
  /\ outcome = "running" /\ outcome' = "stopped"
  /\ UNCHANGED <<did, claims, gateVars, request, workVars, grinds>>

Talk ==
  \/ \E r \in Spoken : NudgeProse(r) \/ EndOnProse(r)
  \/ \E k \in {"repetition", "empty", "echo"} : Discard(k)
  \/ Malformed
Work ==
  \/ TurnedAway \/ Salvage
  \/ \E kind \in {"edit", "bash", "plan", "other"} : RunCall(kind)

Next == Talk \/ Work \/ EndElsewhere

Spec == Init /\ [][Next]_vars

\* A completion comes to an end: the client cuts it off at the deadline.  A server that is
\* silent, or trickles the body of an error, is the business of Completion.
FairSpec == Spec /\ WF_vars(Talk \/ Work)

-----------------------------------------------------------------------------
\* Every variable keeps to the values the loop's own ones can have.
TypeOK ==
  /\ outcome \in Outcomes /\ did \in {"talk", "talked", "work"} /\ claims \subseteq Claims
  /\ nudges \in [NudgeKinds -> Nat] /\ \A k \in NudgeKinds : nudges[k] <= Limit(k)
  /\ malformed \in 0..MaxMalformed /\ salvages \in 0..MaxSalvaged /\ calledSince \in BOOLEAN
  /\ seen \subseteq Prose
  /\ request \in Requests /\ missing \in BOOLEAN
  /\ open \in 0..MaxTasks /\ onVerify \in BOOLEAN
  /\ acted \in BOOLEAN /\ sawGreen \in BOOLEAN /\ sawVerifyOk \in BOOLEAN
  /\ grinds \in [Prose -> Nat]

\* What the turn has left for a model that does not work.
MostBudget == Limit("repetition") + Limit("empty") + Limit("echo") + Limit("truncated")
              + Limit("deliverable") + Limit("open_task") + Limit("intent") + Limit("tests")
              + Limit("verify") + Limit("zero_change") + MaxMalformed
Spent == nudges["repetition"] + nudges["empty"] + nudges["echo"] + nudges["truncated"]
         + nudges["deliverable"] + nudges["open_task"] + nudges["intent"] + nudges["tests"]
         + nudges["verify"] + nudges["zero_change"] + malformed
Budget == MostBudget - Spent

\* Every reply without a call costs the turn patience or ends it, and only a batch
\* that ran gives any back: no mix of dead ends goes round for ever.
P == INSTANCE Patience WITH Most <- MostBudget, patience <- Budget, ended <- outcome # "running"
PatienceRunsOut == P!Spec

\* A long reply the model repeats word for word is not answered twice by a gate that
\* would have it generated again (the seen_prose comment): whatever came in between.
GrindsOncePerText == \A p \in Prose : grinds[p] <= 1

\* An answer reaches the user only when every gate it could still fail has had its
\* say: the files asked for are there, or the model was told
\* and answered at once; its own plan is closed, or all reminders are used up; what it
\* claims was seen, or it was challenged; a change asked for was tried, or challenged.
AnswerIsEarned ==
  outcome = "answer" =>
    /\ missing => nudges["deliverable"] >= 1 /\ ~calledSince
    /\ open > 0 => nudges["open_task"] = Limit("open_task")
    /\ "tests" \in claims => sawGreen \/ nudges["tests"] = 1
    /\ "verify" \in claims => sawVerifyOk \/ nudges["verify"] = 1
    /\ request.change /\ ~request.file => acted \/ nudges["zero_change"] = 1

\* A model that from some point on only talks ends its turn, without help from the
\* iteration cap or the clock.
QuietTurnsEnd == <>[][~Work]_vars => <>(outcome # "running")
=============================================================================
