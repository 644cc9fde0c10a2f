# locode: models, checks and proofs

locode is a coding agent for local models: a loop that sends a conversation to an
OpenAI-compatible model server on the same machine, runs the tool calls that come back, and
stops when the model answers without one. Small local models repeat themselves, describe work
instead of doing it, lose track of failing tests and announce results they never saw. Most of
locode's own logic is therefore a set of guards around one agent turn, and that is the core of
this project. Around it: the conversation and what shrinks it, the completion and the ways to
cancel it, the tools that change files and the rights they need, and the life cycle of the
model server, which locode starts, stops and shares between sessions. Paths below are relative
to the repository.

## Inventory

| component | state | operations | where it is hard |
|---|---|---|---|
| **Agent turn** `locode/agent/loop.py`, `_run_turn`, `_run_calls` | history; some forty counters, flags and sets that live for one turn; a few on the loop object that are read after a turn | one iteration: check the caps and the clock, compact, ask the model, then either judge a reply without calls, or run a batch and judge what came of it | some thirty ways to end an iteration, each of which keeps the later ones from seeing it; records that one guard keeps and another one edits; flags set in one call and trusted many calls later |
| **Conversation** `agent/compact.py`, `loop.py` | history, `_seen_files` | append a message, drop or stub old ones, forgive the reads whose output went, stop when saturated | the record of files read must not outlive their text, nor be forgotten before it; forgiving must not be unbounded |
| **Plan** `agent/plan.py`, `tools/plan.py` | the task list, the current one | replace, mark done, credit a verify task by a green test run | a list is replaced before it is validated; open tasks hold an answer back |
| **Model client** `model/client.py`, `toolparse.py`, `repetition.py`, `profiles.py` | none between calls | open a stream, read lines until a deadline, cancel, detect degenerate repetition, parse calls | races of headers, log watchdog, deadline and Esc |
| **Server manager** `server/manager.py`, `base.py` | none of its own: the processes on the machine, the port, wired memory | is_up, ensure_up, start, wait, stop, switch, restart | several sessions share one port and one GPU; every question is asked over HTTP or `ps` and answered later by a changed machine; timeouts leave processes behind |
| **Cancellation** `agent/cancel.py`, `ui/interrupt.py` | a flag, hooks | cancel from a keyboard thread, register a hook, kill what runs | a hook registered while the flag is set; partial results of a killed tool |
| **Tools** `tools/*.py` | files, processes, the network | read, edit, write, move, bash, plan, web, ask | an edit is matched in four ways against text that may have changed, and mended; what it writes was approved on a diff worked out earlier |
| **Permissions** `permissions.py` | answers for good | decide: run, ask, refuse | precedence of the rules, both ends of a move |
| **Sessions and front ends** `session.py`, `ui/repl.py`, `ui/headless.py`, `cli.py` | the saved file, the model in use | save, resume, /clear, /model, run a turn | what a resume or a /clear leaves behind |
| Configuration, prompt context, rendering | settings | load, print | no state a property would be about |
| Install, upgrade, scaffold, bench, evals | none | one-shot scripts | outside the core |

How they interact. The front end gives the loop a request and a cancel token. The loop asks the
client for a completion; the client talks to the server that the manager started and hands back
text or parsed calls. The loop asks the permission policy about each call, perhaps the user,
then runs a tool, whose result text it reads for what happened (an edit landed, a check passed,
a test failed). The plan is shared by the loop and the `update_plan` tool. Everything in a turn
runs on one event loop: what interleaves with it are the user (Esc, confirmations), the model,
whose replies are arbitrary, and time. The manager is the one place where several processes act
on the same state.

What makes each correct:

* the turn ends, for the right reason: no futile loop survives its limit, no working model is
  called stuck, and what the final text claims is what was last seen;
* the clock stops quiet turns and no others, and nothing a stuck model can repeat for ever
  moves it;
* the record of files read covers only text still in the history, and all of it that is recent;
* an edit changes the one place that was meant, keeps the file parsing, and writes what was
  approved, and no file changes without a right to;
* a server reported ready serves the model that was asked for, two models are never resident
  together, and a stop leaves none behind;
* a cancellation is always heard, soon, and by the thing that is running, which is not left
  behind.

The last two are promised under conditions that the code does not always meet: a process
listing that works, a command whose shell still runs, a server that sends what it began. The
models have the cases in which they fail, and the properties name them.

The hazards are listed one by one, at their lines, in `PROJECT.json`. Known besides, and of
less weight: a mixed batch of an edit and a check restarts its streak at each repetition
(`loop.py:1334`); `_saw_green_test` is never cleared (`loop.py:1583`); a progress line of fewer
than three tests is not recognised (`loop.py:2658`); the time a user takes to answer `ask_user`
is charged to the budget (`tools/ask.py:44`); a switch stops the old server before the new
model may be refused (`manager.py:603`), and an alias may be suggested that is refused in turn
(`manager.py:498`).

## What is modelled

The first five modules of the table take the turn apart along its guards. The counters of one
group are never written by another, so each module keeps one group in full and lets the rest of
the turn appear as what it can do to it: `EndElsewhere` where another guard may end the turn, a
reply or a call with the effects it may have. Such an input is nondeterministic, so every
combination of the groups' behaviours that the code has is among the behaviours of each module.
What a regular expression decides about a text (it announces an action, it is a verify command,
it names a failing test) is an input too.

| module | models | lines |
|---|---|---|
| `RepeatGuard` | a reply with calls: suppressed as a repeat, ended on, or run; forgiveness by compaction and nudges; the exits "done" and "plan complete" | the repeat guard and the execution of batches |
| `FinishGate` | a reply without calls: the cascade of finish gates | from the parse of a reply to the final answer |
| `Patience` | abstract: what `FinishGate` promises | none: a specification of the promise |
| `TurnBudget` | the clock: budget, grants, pauses, deadline of a completion, rescue | budget helpers, the client's deadline, the callers of both |
| `ProgressGuards` | the end of an iteration: error, empty-answer and no-change streaks, denials, the gate on unchecked edits; the stall clock | streaks, stall clock, test reader |
| `Conversation` | the messages of a session, compaction, the record of files read, commands between turns, the session file | `agent/compact.py`, `session.py`, the history in `loop.py` and `ui/repl.py` |
| `Completion` | a turn on the event loop: streamed completions, batches of calls, a shell command, Esc and Ctrl-C | `agent/cancel.py`, `ui/interrupt.py`, the streaming in `model/client.py`, `tools/shell.py` |
| `FileTools` | the tools that change files, the permission policy, the question to the user and the diff it shows | the editing half of `tools/fs.py`, `permissions.py`, `_proposed_change` of `ui/render.py` |
| `ServerLifecycle` | the server manager: ensure_up, start, switch, restart, stop of several sessions, against the processes of the machine | `server/manager.py` |

### RepeatGuard

`streak[b]` is `repeat_streaks[sig]`, a record of the last results and a count, with count 0
for a signature that is absent. `moved[b]` stands for the comparison of `landed_edits` with
`sig_mut_mark[sig]`: only whether an edit landed since the batch ran is ever asked. `nudged`,
`forgivenReads`, `forgivenNudged` and `openNudges` are the sets and counts of the same names.
`Issue`, `Suppress`, `EndOnRepeat` and `FinishPlan` are the four branches a batch can take;
`SeenStreak` is the read of the streak after the reset a landed edit earns. `RunCall` and
`Refuse` are one turn of the loop in `_run_calls`; `FinishBatch` the update of the streak. A
batch is its signature, its calls are kinds, a result is one of a few texts. Three history
variables count runs (`runs`), runs on an unchanged workspace (`still`) and edits no check has
covered (`dirty`).

Checked and proved: an edit re-issued byte for byte is bounded (`RepeatedEditBounded`);
forgiveness is bounded and never given to calls that may write (`FutileRunsBounded`); nothing
is turned away as a repeat that did not go through `max_repeat_calls - 2` times on the
workspace as it is (`NoFalseAlarm`); a turn ended as done rests on a green check after the last
edit (`DoneReadingIsCurrent`), under two conditions that the property names: `max_repeat_calls`
above 2, and checks that are never refused.

### FinishGate and Patience

A reply is a text (long ones are told apart), an ending (whole, cut by the token limit, cut
inside a tool fence), and what the patterns find in it. `Verdict(r)` is the cascade, in the
order of the code; `NudgeProse` and `EndOnProse` are what follows. `Discard` stands for the
three kinds of reply that never reach the cascade, `Malformed` for a call that does not parse,
`TurnedAway`, `RunCall` and `Salvage` for replies with calls, as far as gates notice them.
`nudges[k]` collects the one counter or flag each gate has. The credit that a green test run
gives the plan is part of the action of the reply on which the code applies it.

`Patience` is the abstract promise: a finite amount that every reply without a call lowers
unless it ends the turn, and only work may raise. `FinishGate` implements it with the
refinement mapping `P` (patience is the sum of all nudges left and malformed calls left); `did`
alternates between `"talk"` and `"talked"` in both, so that a reply that changes nothing is a
step and not a stutter, and would be caught.

Also: no long text is asked for twice by gates that make the model generate it again
(`GrindsOncePerText`); an answer gets out only when every gate it could fail has had its say
(`AnswerIsEarned`); a model that only talks ends its turn (`QuietTurnsEnd`).

### TurnBudget

`now` counts ticks from the start, `pause` is `_wallclock_pause`, `budget`, `grants`,
`progress` are the attributes of those names with an underscore. The phases are the places
where time can pass: waiting for headers, streaming, a tool, a confirmation. `Tick` is the only
action that moves time, with the deadline the code gives each wait: none of the turn's own for
headers and for the body of an error (`MaxHeaders` bounds both together; the transport's read
timeout is per read), the budget for streaming, the tool's own for a tool. `GrantBudget` is
`_grant_budget`; its three callers are `Issue` (a batch of a new signature), `Returned` (a
command that exited 0) and `FinishBatch` (a task completed). `CutOff` and `Rescue` are what
becomes of a completion at the deadline.

Checked and proved: the budget is a floor moved only by progress (`BudgetFollowsProgress`); the
clock stops only turns that were quiet for a whole grant, confirmations not counted
(`OnlyQuietTurnsDie`); a turn outlives its budget by one wait for headers or one batch of tools
(`OverrunBounded`); a batch is paid for at most once per allowance (`PaidBounded`).

### ProgressGuards

A call is what came of it; any that ran and gave an output may read as a test run, not only
commands, since the code looks at texts. `Call` runs one, `Report` reads one result for a test
run, in order, and `Judge` is the end of the iteration: `Verdict` names the first guard that
trips, `Hears(g)` which streaks got to hear of the batch at all, since a guard that sends its
nudge ends the iteration. `armed` and `budget` are `_esc_stall_at` and `_esc_stall_k`; `Arm` is
`_arm_stall_budget`, `Top` the check with its reprieve. `row` counts batches in a row that a
streak is about, whether or not it heard of them.

Checked and proved: the stall clock gives one budget and one reprieve, whoever arms it and
however often (`StallBounded`); it stops only turns with no passing test since, and edits that
were checked or asked about (`StallStopIsFair`); rows of futile batches are bounded by the
limit and one per nudge of an earlier guard (`FutilityBounded`); the nudge to look at a file is
owed again once it was complied with (`GateRearms`).

### Conversation

`history` is a set of messages ordered by `at`; a message has a kind (`_kind`), the tool and
the file of its call, and what has become of its text. The text of a file is in two places: in
the result of a read, the whole of it or a part (a window, or the first bytes of a long file;
either marks the file as seen), and in the call of a write. Prose is a short reply, a claim
(long enough to be collapsed when it is repeated) or an essay, over the 800 characters to which
old messages are cut. `Compact` is `compact_history`: `Shrunk` says which texts of files go
(behind the window of `Keep` messages; inside it when they are huge, `Big`), `Cut` which essays
are cut, `Gone` which messages go (nudges behind the window, every copy of a claim or an essay
but the first, as they compare once they are cut), `Squeezed` what stays of one. An essay that
was cut ends in a mark that states the length it had; with its mark it is over the limit still,
so it is cut again in the next pass and states another length. `said` is that length, and
`Length` works out what the cut leaves. `Worthwhile` is the test before a pass is adopted,
`AutoCompact` the pass with the record it keeps (`Intact` is `_forget_seen` with its window),
the notice, and the stop over the hard limit. Between turns, `Clear`, `CompactCommand`,
`ChangeDir`, `Resume` and the two steps of a save are the commands of the REPL; `Restart` is a
crash, which may fall between the two steps. One call per reply, as the models whose calls are
parsed from text have it. Every reply is one of the ways a turn goes on: a call, prose that
ends it, prose that a gate nudges, a reply that is thrown away or a call that is suppressed, a
stop; a result may be followed by a nudge (`GuardNudge`). Which of them is the business of the
modules above.

Checked and proved: the record holds no file of which all text has gone (`RecordIsHonest`), for
files that are not huge, and unless `slipped`. What is there may be the part that was read: the
code calls the record "a floor against editing text the model never saw, not a guarantee that
it saw the right part" (`tools/fs.py:953`), and the property is that floor. As for `slipped`:
three things happen to a text the record cannot tell. A repeated reply that is collapsed inside
the window pushes an older message into it, so that a read whose text went before counts as
recent; `/cwd` gives the names in the calls another meaning; and a read of a file already seen
that fails counts as a read. In the other direction nothing is lost but one read: an automatic
pass forgets the files that were only written. A read in the window is not forgotten
(`RecentReadSurvives`); passes settle (`CompactSettles`): a second changes nothing but essays,
and a fourth nothing at all, whatever the sizes; inside a turn only nudges and repeated replies
leave, and of these the first copy stays and is marked (`OnlyNoiseGoes`).

### Completion

`pc` is the wait the turn's task is in: for headers (`open`), for the body of an error (`body`,
raced against nothing), before and in a read (`check`, `wait`), between calls (`batch`), for
the user (`confirm`), and around a command (`spawn`, `run`, `reap`). The environment moves on
its own: `Esc` where `Listening` (the interrupt scope is on), `HeadersArrive`, `BodyArrives`,
`LogsFatal`, `LineArrives`, `DeadlinePasses`, `ShellEnds` and `ChildEnds`, and `CutOff`, a
Ctrl-C where the listener is off, which cancels the task. `proc` tells the shell of a command
from the group it leads: `ShellEnds("left")` leaves a child in the background that holds the
output open, and then `Signalled` reaches nothing, since `_kill_group` looks the group up by
the shell. `CutOff` in the wait for a line leaves the task that reads it (`Abandoned`) until
`ReadingEnds`. `CancelWakes` is the helper task that waits for the token: it wakes some time
after `Esc`, so that the flag and the wake-up are two events, as in asyncio. `OpenFails`,
`CheckFails` and `WaitFails` keep the order in which the code looks at what is there.
`Register` is `add_cancel_hook`, a step after the command was started. The batch after Esc goes
on, as in the code, which looks at the token again only at the next request.

Checked and proved: no path leaves a connection or a helper task, save the reading task that
Ctrl-C leaves (`ClosedWhenOver`); after Esc at most one more line and one more request
(`AftermathBounded`); Esc reaches a command whose shell runs, no shell outlives its call except
behind `CutOff`, and no hook outlives it at all (`CommandsAreReached`). Checked: after Esc the
turn ends, whatever server and clock do, unless it is held for good by a wait that Esc does not
reach (`EscEnds`, `Held`): for the body of an error that never ends, or for a command of which
a child is left or something ignores SIGTERM. Each of the three is needed: without any one of
them TLC finds a turn that never ends. The module gives the phases `opening` and `streaming` of
`TurnBudget` their inside; a refinement between the two is not stated, since one counts time
and the other does not.

### FileTools

A text is a sequence of lines, a line an indentation and a token. `Exact`, `Tolerant` and
`Fuzzy` are the tiers of `try_edit`, `Matches` their order and what makes each ambiguous. A
match says whether its span starts at the line's column or behind its indentation, which is all
that `Plain` and `Anchored`, the two splices, need. `PickSplice` is the rescue of edits at the
wrong column, `Reindented` that of `replace_lines`; `Guarded` is `_syntax_reject`, and `Parses`
is external: Python's `compile`, as far as indentation goes. `Preview` works a call out as
`ui/render.py` does, from the same operators. `Resolve` is the permission policy; `Ask`,
`Approve` and `Refuse` are the question, with answers for good. `UserSaves` may come at any
time, between question and answer too. `Forget` is whatever takes files from the record
(`Conversation` says what).

Checked and proved: an edit never breaks a file that parses (`EditsKeepParsing`); what was
approved is written, to a file that was not saved meanwhile, unless it would not parse
(`ShownIsWritten`); a file changes only with an approval, an answer for good, a place or a
setting that allows it, never by a tool refused for good, and in a denied place only by one
allowed for good (`ChangesAreAuthorised`); an edit of one match replaces one block, the one
most like what was given, and the one asked for among equals, and keeps every line before and
behind it (`OnePlaceChanges`).

### ServerLifecycle

A session is a `SingleGpuManager`; `pc` is the question it has come to in the operation it
runs. Each question and each signal is an action of its own, because between any two of them
the machine moves on: `Probe` is `list_served`, `Resident` reads the process list, `SendTerm`,
`TermOver`, `TermTimesOut` and `KillOver` are `_terminate_servers` (a wait is over when a
listing is empty, and a `pgrep` that fails gives an empty one, with servers alive or not),
`WiredFloor` the wait for memory, `RefuseStart` and `Launch` are `start`, and `Poll` and `Ask`
are the two halves of one round of `_wait_up`. `own` is `_proc`. `Quit` is Ctrl-C: the session
ends, and the process it launched, in a session of its own, stays. An operation is begun for
any model by the REPL, all four; a headless session runs `ensure_up` for its own model.

The server processes are external and modelled from what the code says of them: they bind the
port or exit, load their weights after they are up (`Load`, the lazy loading that
`server/logs.py` describes), hang in uninterruptible sleep where they ignore SIGTERM (`Wedge`),
and give their memory back some time after they have exited (`Release`). Every model is in the
cache, so that whoever answers lists all of them. `pkill` itself is taken to work. Three
history variables: `before`, what ran when a stop set out, `blind`, the sessions whose stop
took a listing that failed for an empty one, and `disturbed`, which is set by a crash, a hang,
a wait that is given up or cut short so, Ctrl-C, or an operation begun while another one runs.

Checked and proved: everything that ran when a stop set out is gone or was sent SIGTERM, and a
stop past its waits has seen it exit or sent it SIGKILL, unless the stop was blind
(`StopIsThorough`), however many sessions and hangs interfere; as long as nothing disturbs, an
operation that returns a model leaves one server, up, with that model, a stop leaves none and
no memory held (`UndisturbedIsRight`), and two models are never in memory together
(`OneModelWired`). Checked: every operation ends, though a server may hang for ever
(`OperationsEnd`). The condition is not idle: `server_stale` shows what an interrupted start
leads to, and two sessions that start at once can return each other's server.

## Runs

| run | instance | shows |
|---|---|---|
| `repeat_guard` | 4 batches (edit, check, read, finished plan), 2 results, 6 iterations, repeat limit 3 | the five properties above; 0.9 million states |
| `done_claim` | edit, two different checks | **violated**: see the disagreements |
| `finish_gate` | 1 long text, at most 1 retry per gate, 1 task | four properties, the refinement and the liveness; 0.4 million states |
| `turn_budget` | 4 batches, budget 3 ticks, grant 2, waits of 1 or 2 ticks, 4 iterations | the five properties; 1.9 million states |
| `progress_guards` | 1 file, 1 error, 1 test, batches of up to 2 calls, limits of 2, 5 iterations | the five properties; 4.6 million states |
| `server` | REPL and headless session, 2 models, 2 server processes, 1 hang, 2 polls | the five properties; 0.4 million states |
| `server_stale` | 1 session, 2 polls | **violated** |
| `conversation` | 2 directories, a small and a huge name, window 2, 6 messages and a notice, a saved session of 1 message | the five properties; 1.3 million states |
| `seen_stale` | the same | **violated** |
| `completion` | batches of up to 2 calls, turns and requests without bound | the four invariants and the liveness; 10 thousand states |
| `file_tools` | 3 files (a place in the area, a denied one, neither), 14 calls, texts of up to 3 lines and 2 columns, 1 answer for good | the five properties; 0.19 million states |
| `preview_claim` | the same | **violated** |

Bounds. `MaxIterations` is the program's own cap, set low; it bounds every run. Limits are set
at the least value at which a guard first nudges and then stops, and at which both fit into the
iterations: with a repeat limit of 3 a batch runs twice, is suppressed, and ends the turn at
its fourth issue, so six iterations leave room for an edit and a compaction in between.
Allowances of 2 and 1 keep the two kinds of forgiveness apart. Ticks are coarse: a wait is
shorter than, equal to or longer than what is left of the budget, and nothing in the code looks
at more. `MaxTool`, `MaxConfirm`, `MaxTasks` and `MaxCalls` bound the model only. In
`finish_gate` the gates for degenerate loops and echoes get no retry: the cascade treats them
alike and apart from all others. Its replies that are long or cut announce and claim nothing,
since the verdict on them falls before that is asked; in the proofs all replies are allowed. A
turn really stops, so deadlock is not checked.

In `server`, two processes are what it takes for one to be in the other's way, and the second
session is what makes a stop meet servers it did not start. `Servers` bounds the launches: no
operation that may launch is begun when no process is left, and then sessions may rest for
good, which is why deadlock is not checked there either. `MaxWedges` bounds hangs. Two polls
stand for sixty: one that is followed by another, and the last.

In `conversation`, six messages are a read, what pushes it out of a window of two, and the edit
after. A small text and an essay have 2,100 characters, a huge text 4,200, any other message
700, the limits are 2,800 and 5,600: the soft one is passed by one text and a message or two,
the hard one by a huge text and a small one, so that a pass is worth it, not worth it, and not
enough. Two directories are one `/cwd`, two names one file that is cut inside the window and
one that is not. One message saved tells the resumed conversation from the one before it. In
`completion`, two calls make one that comes after the call Esc fell into; nothing else is
bounded. In `file_tools`, three lines are a block that opens, its body and a line after it, and
two columns let a line be too shallow or too deep; the calls have matches of each tier,
ambiguous, overlapping and mended ones; `b` and `c` are alike to difflib, at 85 percent.

Fairness. `finish_gate`, `server` and `completion` have a liveness property. In the first,
`FairSpec` adds weak fairness of `Talk \/ Work`: the next reply always comes, because the
client ends a completion at the deadline, at the token limit, or with an error, all of which
end the wait. (A server that sends neither headers nor a failure, or trickles the body of an
error, stops the turn instead; that wait is the business of `Completion`.) Nothing is assumed
of what the model replies: that it stops working is the property's premise. In the second, it
adds weak fairness of `Step(s)` for each session: its step is the answer to a question that has
a timeout (3 or 5 seconds in the code) or the end of a wait that has a deadline. Nothing is
assumed of the processes, which may hang for ever. In `completion`, it adds weak fairness of
what the event loop does when it is ready (`TaskStep`, `CancelWakes`), of the user who was
asked something (`UserAnswers`), and of the end of a command that was sent SIGTERM and obeys
it. The server may be silent for ever, before its headers, in its stream and in the body of an
error, the deadline may never come, a command may ignore the signal, a child that is left may
run for ever, and Esc, Ctrl-C and a command's own timeout need not happen.

## Proofs

Each `*Proofs` module extends its component and proves every safety property of its passing
run, for all values of the constants that satisfy the named assumptions in the component
module: limits are numbers, positive where the configuration needs it, sets of texts and
batches arbitrary, even infinite. `SizesAssumption` of `Conversation` says what an essay and a
short message are, and that an essay is not within the length of a mark below the threshold at
which recent messages are cut too. None of the counts above matters to them.

* **RepeatGuard**: `TypeInv` adds that a batch is being run. `EditInv` bounds streaks below the
  limit and runs of an edit by its streak: an edit's streak never restarts, and
  `EditsAreNeverForgiven`. `FutileInv` adds the account: runs without news are paid by the
  streak and by allowances already spent (`StillIsPaid`, with the lemmas `RereadsKeepBound`,
  `NudgedVerifiesKeepBound` for the two ways to forgive). `AlarmInv` compares the streak with
  history from the other side; `DoneInv` follows the green check through edits
  (`ReadingCovers`).
* **FinishGate**: `TypeInv` adds that a running turn tolerates one more malformed call.
  `GrindInv` ties history to `seen`. `AnswersAreEarned` needs that a nudge is sent only when
  one is left, hence a flag that stands was raised. `ImplementsPatience` maps every step:
  `NudgeCosts`, `MalformedCosts`, and `BudgetRange`.
* **TurnBudget**: `TypeInv` ties calls left to the phase and the times to one another.
  `BudgetInv` relates grants to the budget; `QuietInv` says a rescue happens only at the
  deadline; `OverrunInv` says, per phase, how far a turn can be past its budget; `PaidInv`
  bounds payments by forgiveness, plus one only while a batch is known.
* **ProgressGuards**: `TypeInv` relates the error signature to the calls. `StallInv` bounds the
  time since the clock was armed, with and without the reprieve (`ClockRuns`). `FutilityInv`
  bounds streaks by whether the guard has spoken and rows by streaks plus the nudges that hid
  batches from them.
* **ServerLifecycle**: `TypeCorrect` rests on what `RunOn` and `Return` do to a session.
  `StopInv` adds that whatever a stop set out to end had been launched and was reached, so that
  it is gone once nothing runs, and demands SIGKILL in every place but the wait for SIGTERM, of
  stops that were not blind (`StopsAreThorough`); `ProcessesOnlyAge` says that no step of
  anyone brings a process back or takes a SIGKILL back, and gives the frame for all other
  sessions. `CalmInv` says what undisturbed states look like: one session is busy at most, one
  server holds port and memory at most, and `Settled(place)` what runs when that session is at
  a place (nothing before a launch, no memory held either; only servers that are up and not
  signalled outside stops and starts). `SessionStaysCalm` goes through a session's steps,
  `MachineStaysSettled` through the machine's; `OneModelIsWired` and
  `UndisturbedOperationsAreRight` follow.
* **Conversation**: the shape of a conversation (`WellFormed`: a position is taken once, texts
  are in calls and results) and what backs the record (`Backed`: a file seen has text of it,
  the whole or a part, and no read of its name in the window is later than that text; the
  second half is what a compaction, which looks at reads only, needs). `RecordHonest` follows.
  Compaction has lemmas of its own: what it keeps, that what is recent after a pass was recent
  before it unless a reply went from the window (`WindowStands`), and what a pass leaves alone
  (`PassLeaves`, `CompactStands`). `CompactionSettles` rests on `EssaySettles`: whether an
  essay is recent may change once, what its mark states has the same number of digits from the
  second cut on, so that the third states what the fourth would. A message that joins, a
  result, a resumed session each have a lemma.
* **Completion**: beside its three invariants (`Closed`, `Aftermath`, `CommandsReached`),
  `EscInv` says how far a turn gets after Esc: a line read leaves the wait, to which the token
  bars the way back, and a request gets to its first line or the body of an error; `HookInv`
  that a command that runs has its hook until Esc is pressed, and that one that timed out has
  been signalled. Actions are taken in groups, one lemma each.
* **FileTools**: the invariant (`AskInv`) says of the call that waits for an answer that no
  answer for good and no denied place is against it, and that its diff is what `Preview` makes
  of the text it was shown on. `ParsingKept` needs that every write of an edit goes through
  `Guarded`; `WrittenAsShown` (`EditedAsShown`) that columns are mended only where the plain
  text breaks; nothing is assumed of the tiers or of the likeness of blocks. `Authorised` goes
  through `Resolve`, case by case. `OnePlace` is about what a splice leaves of a text, which is
  a flattened sequence of insertions. The library's induction cannot be applied, so `FlattenIs`
  shows that whatever satisfies the recursion of `FlattenSeq` is what it computes, since there
  is no least position where the two differ (`LeastPosition`, from the well-foundedness of the
  numbers); with one match, the lines before it, what is inserted and the lines behind it do
  (`SpliceOne`). `Parts` reads the three parts off line by line, `Inserted` says what each of
  the ways of mending columns puts in, `OneMatch` that each tier delivers one match at most, of
  the likeness the property asks for, and `NthIs` that the occurrence picked is the one asked
  for. It rests on `EditsAssumption`: calls carry what the tool's schema says, blocks that say
  the same are wholly alike (`SequenceMatcher.ratio` is 1 for equal sequences, and `fs.py`
  switches its junk heuristic off), and no two matches of a replacement of all overlap.

Five theorems go as far towards liveness as a proof can here. `ServerLifecycleProofs` counts
the steps an operation may still take (`StepsLeft`): every step of it lowers that number,
Ctrl-C too, and no other session and no server raises it (`Shortens`), and it is never more
than two for each poll and ten (`StepsBounded`). `CompletionProofs` does the same for a turn
after Esc, by the calls that are left to it, and adds where such a turn waits
(`NoWaitAfterEsc`): where its task cannot move on, its wake-up is on the way (`HelperInv`), the
user is asked, the command has been signalled (`HookInv`), or it is held: by the body of an
error, by a child that was left, by what ignores the signal. For the rounds of a turn without
progress, `ImplementsPatience` says it: every one costs patience.

Only model-checked: `OperationsEnd`, `QuietTurnsEnd` and `EscEnds` themselves. What is missing
between them and the theorems above is that the next step is taken, which is fairness and
ENABLED, and that a number that falls comes to an end, a temporal induction; both are outside
what the prover does. The four violated properties are counterexamples and have no theorem.

## Where code and documentation disagree

1. **The check that passed is not the check that is named** (`done_claim`). When a verify batch
   is repeated, the turn ends as "Done ... the check that was run against it passed" if an edit
   landed and the *latest* verify command was green, even when the repeated check is another
   one and is red.
2. **A stale server's answer is taken after all** (`server_stale`). `_wait_up` rules it out by
   asking whether the launched process has exited, but a process that has not got as far as the
   port yet has not, and a server left behind by an interrupted start answers for it: the start
   returns one model and the other one is served.
3. **An edit without sight of the file** (`seen_stale`). An automatic compaction cuts a huge
   read inside the recent window and keeps the file in the record, for the sake of the call
   alone. The comments name that very case as the one to prevent. What holds is
   `RecordIsHonest`.
4. **What is approved is not what is written** (`preview_claim`). The preview of an edit passes
   the path as a string, so that it never mends columns where the tool does; the user approves
   a diff that would not parse and another one is written. The same holds of the reindentation
   of `replace_lines` (`render.py:435`), which the preview does not have. What holds is
   `ShownIsWritten`.

Noted while modelling, without a run of their own:

* A check that is refused counts towards the repeat streak and leaves the earlier green reading
  in place, so "done" may be declared with an edit nobody checked; hence the condition of
  `DoneReadingIsCurrent`.
* Grants ask whether a batch is in the repeat record; compaction and the open-task nudge take
  entries out of it, so a repeated batch is paid again, once per allowance (`PaidBounded`).
* Any verify command, a compile check too, clears the mark that edits are unaccounted for, so
  the stall stop may say that a test fails without a run of it after the last edit
  (`StallStopIsFair`).
* `architecture.md` promises SIGKILL after SIGTERM for a command that Esc ends; there is none.
  The group is to be reached by its number (`tools/shell.py:3-5`), but that is looked up by the
  shell's process id (`:65`): with the shell reaped and a child in the background holding the
  output open, neither Esc nor the timeout reaches the child, and the call lasts as long as it
  (`Held`).
* A stop takes a `pgrep` that fails for a machine without servers (`manager.py:972`) and never
  sends SIGKILL, although the comment of `_terminate_servers` (`:548-551`) escalates for
  whatever ignores SIGTERM (`blind`).
* The body of a server's error is awaited with neither Esc nor the deadline beside it
  (`client.py:180-189`), so a server that trickles it holds the turn (`Held`).
* Ctrl-C in the wait for a line leaves the task that reads it: `_next_line` has no `finally`
  around it and `asyncio.wait` does not cancel what it waits for (`client.py:333-346`,
  `Abandoned`).
* A read of a window, or of the first bytes of a long file, marks the file as seen
  (`tools/fs.py:953-956`, which says so): an edit may be let through to a part that was never
  shown.
* Compaction is called a cheap no-op for what it shrank already (`compact.py:117-119`), but
  prose over 800 characters is cut to 800 and a mark (`:312`), which is cut again. So the text
  of an old message changes at a second pass, and copies of one essay, cut in different passes,
  are not recognised as copies (`CompactSettles`).
* An answer for good is looked up before the denied paths, though a comment says a denial
  "beats everything" (`permissions.py:90`).

## Not modelled, and why

* **Text**: patterns, parsing of tool-call formats, wording of nudges, answers and hints,
  rendering. It decides which branch is taken and is an input there. The early warning that a
  repeated edit with another spelling of its path is the same edit only adds text to a result;
  the warning one repeat before a repeated edit is suppressed (`early_repeat_warn`) only adds a
  message.
* **In `FileTools`**: blank lines, tabs, line endings and matches inside a line (a line is its
  column and what it says); an `occurrence` that is no number; an `append_file` to a file that
  does not end in a newline; failing disks; symbolic links and `..`; the replacement of all
  matches where these overlap. The likeness of two blocks is difflib's (`Ratio`), a constant of
  the module.
* **In `Conversation`**: several calls to a reply, prose around a call, the exact sizes of
  summaries (as short as any other message; only what an essay is cut to is worked out, since a
  second pass depends on it), the redaction of an edit that changed nothing
  (`redact_noop_calls`: its message stays where it is and has no file's text), that warning,
  which comes between a write or an edit and its result, the system prompt. Essays have one
  length, and one text.
* **In `Completion`**: children that closed the output and left the shell's group, whom the
  call does not wait for; on Python 3.10, a Ctrl-C in the middle of Python code, where the
  handler is the program's own. Between the start of a command and the registration of its hook
  the code only awaits asyncio itself, which kills the shell on a cancellation (`ShellEnds`
  after `CutOff`). After a timeout, `proc.wait()` returns when the shell ends or only with the
  end of the output, by the version of Python: `ShellReaped` may or may not come.
* **In `ServerLifecycle`**: a `pkill` that fails or times out.
* **The rest of the plan's state** (positions, the wording of tasks): the guards see open,
  complete, and credited, which the turn's modules have.
* **An abstract `Residency`** that `ServerLifecycle` would refine while undisturbed:
  `UndisturbedIsRight` and `OneModelWired` say the same without it. **A composition** of the
  modules of the turn: their counters are disjoint, each takes the others' effects as inputs,
  and the product is out of TLC's reach at bounds where the guards can speak.
* Tools that only read (ls, glob, grep, web, git), configuration, prompt context, telemetry: no
  state a property would be about.
* **Install, upgrade, scaffold, bench and evals** are one-shot scripts and a harness around the
  program. `evals/` alone has 57 thousand of the repository's 90 thousand lines of Python, the
  program itself 14 thousand, of which much is patterns, texts of prompts and nudges, and
  comment on code that is modelled: the mapped lines are a small share of the repository, and
  cover most of the program's state changes.
