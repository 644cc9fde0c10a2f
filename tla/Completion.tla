----------------------------- MODULE Completion ------------------------------
(***************************************************************************)
(* One turn as the event loop runs it: a streamed completion whose waits    *)
(* are raced against Esc, the server's log and the turn's deadline          *)
(* (model/client.py), the calls of its reply one after the other, a shell   *)
(* command among them (tools/shell.py), and the cancel token that reaches   *)
(* all of it (agent/cancel.py).  The user, the model server, the clock and  *)
(* the command's process move on their own.                                 *)
(***************************************************************************)
EXTENDS Integers

CONSTANTS MaxCalls   \* calls of a reply (bound of the model)

ASSUME ConstantsAssumption == MaxCalls \in Nat \ {0}

VARIABLES
  pc,         \* where the turn's task waits, "idle" between turns
  outcome,    \* how the latest turn ended, "none" while it runs
  cancelled,  \* CancelToken._event
  hooks,      \* how many hooks CancelToken._hooks holds
  tasks,      \* the helper tasks of a completion
  woken,      \* the helper that waits for the token has finished
  stream,     \* the connection: "none", "opening", "open"
  headers,    \* "none", or the status of the response; "told" with an error's body
  fatal,      \* the server has logged a fatal error since the request
  line,       \* what the read has delivered
  late,       \* the turn's deadline is over
  got,        \* calls in the reply so far
  calls,      \* calls of the batch still to run
  last,       \* the turn stops after this batch (a write salvaged at the deadline)
  proc,       \* the command: its shell's process, or a child "left" by it in its group
  stubborn,   \* one of the group does not end on SIGTERM
  torn,       \* history: the turn was cut off from outside, not through the token
  linesAfter, requestsAfter  \* history: lines read and requests made since Esc

tokenVars == <<cancelled, hooks>>
connVars == <<tasks, woken, stream>>
serverVars == <<headers, fatal, line, late>>
replyVars == <<got, calls, last>>
procVars == <<proc, stubborn>>
histVars == <<torn, linesAfter, requestsAfter>>
vars == <<pc, outcome, tokenVars, connVars, serverVars, replyVars, procVars, histVars>>

Completing == {"open", "body", "check", "wait"}
Commanding == {"spawn", "run", "reap"}
Places == Completing \cup Commanding \cup {"idle", "batch", "confirm"}
Outcomes == {"none", "interrupted", "server_error", "deadline", "answer", "stopped", "torn"}
Lines == {"none", "text", "call", "end", "runaway", "broken"}

Init ==
  /\ pc = "idle" /\ outcome = "none" /\ cancelled = FALSE /\ hooks = 0
  /\ tasks = {} /\ woken = FALSE /\ stream = "none"
  /\ headers = "none" /\ fatal = FALSE /\ line = "none" /\ late = FALSE
  /\ got = 0 /\ calls = 0 /\ last = FALSE /\ proc = "none" /\ stubborn = FALSE
  /\ torn = FALSE /\ linesAfter = 0 /\ requestsAfter = 0

EndTurn(how) == pc' = "idle" /\ outcome' = how
After(n) == IF cancelled THEN n + 1 ELSE n

---------------------------------------------------------------------------
\* complete(): the log is marked, the request goes out, and the wait for its headers is
\* raced against Esc and the log (_open_stream).
Request ==
  /\ pc' = "open" /\ stream' = "opening" /\ tasks' = {"enter", "watch", "cancel_wait"}
  /\ woken' = FALSE /\ headers' = "none" /\ fatal' = FALSE /\ line' = "none" /\ got' = 0

\* run_turn clears the token and drops its hooks before the first request.  A turn after
\* Ctrl-C is the first of another run of the program.
Begin ==
  /\ pc = "idle" /\ Request /\ outcome' = "none"
  /\ cancelled' = FALSE /\ hooks' = 0 /\ late' = FALSE /\ calls' = 0 /\ last' = FALSE
  /\ proc' = "none" /\ stubborn' = FALSE
  /\ torn' = FALSE /\ linesAfter' = 0 /\ requestsAfter' = 0

\* The completion is over, on whatever path: its helpers are cancelled, its stream closed.
Close == stream' = "none" /\ tasks' = {} /\ UNCHANGED woken
Fails(how) ==
  /\ Close /\ EndTurn(how)
  /\ UNCHANGED <<tokenVars, serverVars, replyVars, procVars, histVars>>
\* At the deadline a write cut off in the middle may be landed before the turn stops.
Expires ==
  \/ Fails("deadline")
  \/ /\ Close /\ pc' = "batch" /\ calls' = 1 /\ last' = TRUE
     /\ UNCHANGED <<outcome, tokenVars, serverVars, got, procVars, histVars>>

\* Headers win over Esc, and Esc over the log.
EscWinsMut == FALSE  \* mutant: Esc is not raced against the headers
EscWins == headers = "none" /\ woken
HeadersIn ==
  /\ pc = "open" /\ headers = "ok"
  /\ pc' = "check" /\ stream' = "open" /\ tasks' = {"cancel_wait"} /\ woken' = FALSE
  /\ UNCHANGED <<outcome, tokenVars, serverVars, replyVars, procVars, histVars>>
OpenFails ==
  /\ pc = "open"
  /\ \/ EscWins /\ Fails("interrupted")
     \/ headers = "none" /\ ~EscWins /\ fatal /\ Fails("server_error")

\* The body of an error is read before the failure is raised, and nothing is raced
\* against that read: neither Esc nor the deadline ends it.
ErrorIn ==
  /\ pc = "open" /\ headers = "error"
  /\ pc' = "body" /\ stream' = "open" /\ tasks' = {} /\ woken' = FALSE
  /\ UNCHANGED <<outcome, tokenVars, serverVars, replyVars, procVars, histVars>>
RefusedMut ==  \* mutant: the stream of a refused request is never closed
  /\ pc = "body" /\ headers = "told" /\ EndTurn("server_error")
  /\ UNCHANGED <<connVars, tokenVars, serverVars, replyVars, procVars, histVars>>
Refused == pc = "body" /\ headers = "told" /\ Fails("server_error")

\* _next_line looks at the token and the clock before it reads.
LooksAtTokenMut == FALSE  \* mutant: Esc is only raced against the read
LooksAtToken == cancelled
NextLine ==
  /\ pc = "check" /\ ~LooksAtToken /\ ~late
  /\ pc' = "wait" /\ tasks' = tasks \cup {"line"} /\ line' = "none"
  /\ UNCHANGED <<outcome, tokenVars, woken, stream, headers, fatal, late, replyVars,
                 procVars, histVars>>
CheckFails ==
  /\ pc = "check"
  /\ \/ LooksAtToken /\ Fails("interrupted")
     \/ ~LooksAtToken /\ late /\ Expires

\* The read is raced against Esc, which wins, and ends at the deadline.
WaitFails ==
  /\ pc = "wait"
  /\ \/ woken /\ Fails("interrupted")
     \/ ~woken /\ line = "none" /\ late /\ Expires
     \/ ~woken /\ line = "broken" /\ Fails("server_error")
ReadLine ==
  /\ pc = "wait" /\ ~woken /\ line \in {"text", "call"}
  /\ pc' = "check" /\ tasks' = tasks \ {"line"}
  /\ got' = IF line = "call" THEN got + 1 ELSE got
  /\ linesAfter' = After(linesAfter)
  /\ UNCHANGED <<outcome, tokenVars, woken, stream, serverVars, calls, last, procVars,
                 torn, requestsAfter>>

\* The stream ends.  Calls are run; a reply without one is the answer, or is sent back
\* with a nudge, as a runaway repetition is.
ReplyEnds ==
  /\ pc = "wait" /\ ~woken /\ line \in {"end", "runaway"}
  /\ Close /\ linesAfter' = After(linesAfter)
  /\ \/ line = "end" /\ got = 0 /\ EndTurn("answer") /\ calls' = 0
     \/ /\ pc' = "batch" /\ calls' = (IF line = "end" THEN got ELSE 0)
        /\ UNCHANGED outcome
  /\ UNCHANGED <<tokenVars, serverVars, got, last, procVars, torn, requestsAfter>>

---------------------------------------------------------------------------
\* _run_calls: one call after the other, whatever the token says.
InBatch == pc = "batch" /\ calls > 0
NextCall == pc' = "batch" /\ calls' = calls - 1

\* A tool that ends by itself, a command that does not start, a call that is denied.
QuickCall ==
  /\ InBatch /\ NextCall
  /\ UNCHANGED <<outcome, tokenVars, connVars, serverVars, got, last, procVars, histVars>>

\* The call needs the user's approval, or puts a question; nothing listens for Esc.
AskUser ==
  /\ InBatch /\ pc' = "confirm"
  /\ UNCHANGED <<outcome, tokenVars, connVars, serverVars, replyVars, procVars, histVars>>

\* Bash.run: the process runs before the hook that ends it is registered.
Spawn ==
  /\ pc' = "spawn" /\ proc' = "running" /\ stubborn' \in BOOLEAN
  /\ UNCHANGED <<outcome, tokenVars, connVars, serverVars, replyVars, histVars>>
RunCommand == InBatch /\ Spawn
UserAnswers ==
  /\ pc = "confirm"
  /\ \/ Spawn
     \/ /\ NextCall
        /\ UNCHANGED <<outcome, tokenVars, connVars, serverVars, got, last, procVars, histVars>>

\* _kill_group asks for the group of the shell: with the shell gone it finds none, and a
\* child that is left is not signalled.
Signalled == IF proc = "running" THEN "signalled" ELSE proc
FireMut == proc  \* mutant: a hook registered after Esc is not fired
Fire == Signalled
Register ==
  /\ pc = "spawn" /\ pc' = "run"
  /\ IF cancelled THEN proc' = Fire /\ UNCHANGED hooks
                  ELSE hooks' = hooks + 1 /\ UNCHANGED proc
  /\ UNCHANGED <<outcome, cancelled, connVars, serverVars, replyVars, stubborn, histVars>>

DeregisteredMut == hooks  \* mutant: the hook is never removed
Deregistered == IF hooks > 0 THEN hooks - 1 ELSE 0
CallOver ==
  /\ NextCall /\ hooks' = Deregistered
  /\ UNCHANGED <<outcome, cancelled, connVars, serverVars, got, last, procVars, histVars>>
\* communicate() ends with the output, which a child that is left holds open.
CommandEnds == pc \in {"run", "reap"} /\ proc = "dead" /\ CallOver
\* Its own timeout sends the same signal and waits for the shell, however long that takes:
\* for a shell that is gone not at all.
TimesOut ==
  /\ pc = "run"
  /\ \/ proc = "left" /\ CallOver
     \/ /\ proc \in {"running", "signalled"} /\ pc' = "reap" /\ proc' = Signalled
        /\ UNCHANGED <<outcome, tokenVars, connVars, serverVars, replyVars, stubborn, histVars>>
\* A shell that ends while it is waited for ends the wait before its output is closed, or
\* only with it, by the version of Python.
ShellReaped == pc = "reap" /\ proc = "left" /\ CallOver

\* The batch is over: a request that shows its results, or a stop (a budget, a guard).
NextIteration ==
  /\ pc = "batch" /\ calls = 0 /\ ~last
  /\ Request /\ requestsAfter' = After(requestsAfter)
  /\ UNCHANGED <<outcome, tokenVars, late, calls, last, procVars, torn, linesAfter>>
StopsAfterBatch ==
  /\ pc = "batch" /\ calls = 0
  /\ EndTurn(IF last THEN "deadline" ELSE "stopped")
  /\ UNCHANGED <<tokenVars, connVars, serverVars, replyVars, procVars, histVars>>

\* Ctrl-C where the listener is not on cancels the task that waits: the finally blocks
\* run, the command's process is left as it is, and so is the read of a line, which
\* _next_line does not cancel then.
Abandoned == IF pc = "wait" THEN {"line"} ELSE {}
CutOff ==
  /\ pc \in Places \ {"idle", "check", "batch"}
  /\ stream' = "none" /\ tasks' = Abandoned /\ UNCHANGED woken
  /\ EndTurn("torn") /\ torn' = TRUE
  /\ hooks' = IF pc \in {"run", "reap"} THEN Deregistered ELSE hooks
  /\ UNCHANGED <<cancelled, serverVars, replyVars, procVars, linesAfter, requestsAfter>>
\* Its connection is closed under it; or asyncio.run cancels it, with the event loop.
ReadingEnds ==
  /\ pc = "idle" /\ tasks # {} /\ tasks' = {}
  /\ UNCHANGED <<pc, outcome, tokenVars, woken, stream, serverVars, replyVars, procVars,
                 histVars>>

---------------------------------------------------------------------------
\* The user, the server, the clock and the process.

\* The listener is on around a completion and around a tool that does not prompt.
Listening == pc \in Completing \cup Commanding \/ InBatch
Esc ==
  /\ Listening /\ ~cancelled
  /\ cancelled' = TRUE /\ proc' = (IF hooks > 0 THEN Signalled ELSE proc)
  /\ UNCHANGED <<pc, outcome, hooks, connVars, serverVars, replyVars, stubborn, histVars>>
CancelWakes ==
  /\ cancelled /\ "cancel_wait" \in tasks /\ ~woken /\ woken' = TRUE
  /\ UNCHANGED <<pc, outcome, tokenVars, tasks, stream, serverVars, replyVars, procVars,
                 histVars>>
HeadersArrive ==
  /\ pc = "open" /\ headers = "none" /\ headers' \in {"ok", "error"}
  /\ UNCHANGED <<pc, outcome, tokenVars, connVars, fatal, line, late, replyVars, procVars,
                 histVars>>
BodyArrives ==
  /\ pc = "body" /\ headers = "error" /\ headers' = "told"
  /\ UNCHANGED <<pc, outcome, tokenVars, connVars, fatal, line, late, replyVars, procVars,
                 histVars>>
LogsFatal ==
  /\ pc = "open" /\ ~fatal /\ fatal' = TRUE
  /\ UNCHANGED <<pc, outcome, tokenVars, connVars, headers, line, late, replyVars,
                 procVars, histVars>>
LineArrives ==
  /\ pc = "wait" /\ line = "none" /\ line' \in Lines \ {"none"}
  /\ line' = "call" => got < MaxCalls
  /\ UNCHANGED <<pc, outcome, tokenVars, connVars, headers, fatal, late, replyVars,
                 procVars, histVars>>
DeadlinePasses ==
  /\ pc # "idle" /\ ~late /\ late' = TRUE
  /\ UNCHANGED <<pc, outcome, tokenVars, connVars, headers, fatal, line, replyVars,
                 procVars, histVars>>
\* The shell ends, with all of its group or, where that was not signalled or does not
\* obey, with a child left behind that holds the output open.
ShellEnds(rest) ==
  /\ proc \in {"running", "signalled"} /\ proc' = rest
  /\ proc = "signalled" /\ rest = "left" => stubborn
  /\ UNCHANGED <<pc, outcome, tokenVars, connVars, serverVars, replyVars, stubborn,
                 histVars>>
ChildEnds ==
  /\ proc = "left" /\ proc' = "dead"
  /\ UNCHANGED <<pc, outcome, tokenVars, connVars, serverVars, replyVars, stubborn,
                 histVars>>

TaskStep ==
  \/ HeadersIn \/ OpenFails \/ ErrorIn \/ Refused
  \/ NextLine \/ CheckFails \/ WaitFails \/ ReadLine \/ ReplyEnds
  \/ QuickCall \/ AskUser \/ RunCommand \/ Register \/ CommandEnds
  \/ NextIteration \/ StopsAfterBatch
Next ==
  \/ Begin \/ TaskStep \/ UserAnswers \/ TimesOut \/ ShellReaped \/ CutOff \/ ReadingEnds
  \/ Esc \/ CancelWakes \/ HeadersArrive \/ BodyArrives \/ LogsFatal \/ LineArrives
  \/ DeadlinePasses \/ ChildEnds \/ \E rest \in {"left", "dead"} : ShellEnds(rest)

\* The event loop runs what is ready, a command that obeys SIGTERM ends, and the user
\* answers; nothing is asked of the server, of the clock, of a stubborn command or of a
\* child that is left.
Fairness ==
  /\ WF_vars(TaskStep) /\ WF_vars(CancelWakes) /\ WF_vars(UserAnswers)
  /\ WF_vars(proc = "signalled" /\ ~stubborn /\ ShellEnds("dead"))
Spec == Init /\ [][Next]_vars /\ Fairness

---------------------------------------------------------------------------
\* Types of the variables: one hook at most is ever registered (shell.py:74).
TypeOK ==
  /\ pc \in Places /\ outcome \in Outcomes /\ cancelled \in BOOLEAN /\ hooks \in 0..1
  /\ tasks \subseteq {"enter", "watch", "cancel_wait", "line"} /\ woken \in BOOLEAN
  /\ stream \in {"none", "opening", "open"} /\ headers \in {"none", "ok", "error", "told"}
  /\ fatal \in BOOLEAN /\ line \in Lines /\ late \in BOOLEAN
  /\ got \in 0..MaxCalls /\ calls \in 0..MaxCalls /\ last \in BOOLEAN
  /\ proc \in {"none", "running", "signalled", "left", "dead"} /\ stubborn \in BOOLEAN
  /\ torn \in BOOLEAN /\ linesAfter \in Nat /\ requestsAfter \in Nat

\* Whenever a completion is over, on any path, its connection is closed, which is what
\* tells the server to stop work (client.py:253-258), and none of its helper tasks is
\* left, save a read of a line that Ctrl-C in the middle of it leaves to itself.
ClosedWhenOver ==
  pc \notin Completing =>
    /\ stream = "none" /\ tasks \subseteq {"line"}
    /\ tasks # {} => torn /\ pc = "idle"

\* After Esc at most one more line is read and one more request made, whatever races
\* with it; a turn ends as interrupted only if Esc was pressed in it (cancel.py:6).
AftermathBounded ==
  /\ linesAfter <= 1 /\ requestsAfter <= 1
  /\ outcome = "interrupted" => cancelled

\* Esc reaches a command whose shell runs, even between its start and the registration of
\* its hook: what may go on is what ignores the signal, and a child the shell had left.
\* No shell outlives its call, unless the turn was cut off from outside; and no hook
\* outlives its command, whose process id may be another's by then.
CommandsAreReached ==
  /\ cancelled /\ pc \in {"run", "reap"} => proc # "running"
  /\ proc \in {"running", "signalled"} => pc \in Commanding \/ torn
  /\ hooks > 0 => pc \in {"run", "reap"}

\* After Esc the turn ends, unless it is held for good by one of the waits Esc does not
\* reach: for the body of a server's error, or for a command of which a child is left or
\* something does not end on SIGTERM.
Held ==
  \/ pc = "body" /\ headers = "error"
  \/ pc \in {"run", "reap"} /\ (proc = "left" \/ (proc = "signalled" /\ stubborn))
EscEnds == cancelled ~> (pc = "idle" \/ []Held)
=============================================================================
