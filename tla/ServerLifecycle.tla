--------------------------- MODULE ServerLifecycle ---------------------------
(***************************************************************************)
(* The model server's life cycle (SingleGpuManager), for the sessions of    *)
(* locode that share one machine.  A session runs one operation at a time,   *)
(* each a sequence of questions to the machine (who answers on the port,     *)
(* what do ps and pgrep list) and of signals and launches, with the machine  *)
(* moving on in between: servers load, answer, hang, crash, exit and give    *)
(* their memory back in their own time, listings fail, and other sessions do *)
(* the same things.                                                          *)
(*                                                                           *)
(* The endpoint is a local one, which locode manages; every model is in the  *)
(* cache that a server lists in answer to /v1/models.                        *)
(***************************************************************************)
EXTENDS Integers, FiniteSets

CONSTANTS
  Sessions,
  Models,
  Commands,  \* what a session may be told: a headless one runs ensure_up for its model
  Servers,   \* server processes, each launched at most once (bound of the model)
  NoServer,
  Tries,     \* polls of _wait_up
  MaxWedges  \* times a server hangs (bound of the model)

Ops == {"ensure_up", "switch", "restart", "stop"}

ASSUME ConstantsAssumption ==
  /\ Commands \in [Sessions -> SUBSET (Ops \X Models)]
  /\ NoServer \notin Servers /\ IsFiniteSet(Servers)
  /\ Tries \in Nat \ {0} /\ MaxWedges \in Nat
  /\ "none" \notin Models

VARIABLES
  pc,        \* where each session is, "idle" between operations
  op, want,  \* the operation it runs, and the model it is for
  own,       \* _proc: the server it launched last and has not stopped
  tries,     \* polls _wait_up has left
  result,    \* the model the last operation returned, "none" if it returned none
  state,     \* of each server process: see States
  model,     \* its --model argument
  sig,       \* the strongest signal sent to it
  wired,     \* the processes whose weights are in wired memory
  wedges,    \* times a server hung
  before,    \* history: the servers that ran when the session's stop set out
  blind,     \* history: the sessions whose stop took a listing that failed for an empty one
  disturbed  \* history: a crash, a hang, a wait given up or cut short, Ctrl-C or two
             \* operations at once

Places == {"idle", "probe", "compare", "resident", "signal", "term", "kill", "floor",
           "start", "poll", "ask"}
States == {"unborn", "starting", "up", "wedged", "gone"}

sessionVars == <<pc, op, want, own, tries, result, before, blind>>
serverVars == <<state, model, sig, wired, wedges>>
vars == <<sessionVars, serverVars, disturbed>>

\* "wedged": hung in uninterruptible sleep, holding port and memory.
Live == {p \in Servers : state[p] \in {"starting", "up", "wedged"}}
PortHeld == \E p \in Servers : state[p] \in {"up", "wedged"}
Answers == \E p \in Servers : state[p] = "up"
Unborn == {p \in Servers : state[p] = "unborn"}
Busy == {s \in Sessions : pc[s] # "idle"}

Init ==
  /\ pc = [s \in Sessions |-> "idle"] /\ op = [s \in Sessions |-> "none"]
  /\ want = [s \in Sessions |-> "none"] /\ own = [s \in Sessions |-> NoServer]
  /\ tries = [s \in Sessions |-> 0] /\ result = [s \in Sessions |-> "none"]
  /\ before = [s \in Sessions |-> {}] /\ blind = {}
  /\ state = [p \in Servers |-> "unborn"] /\ model = [p \in Servers |-> "none"]
  /\ sig = [p \in Servers |-> "none"] /\ wired = {} /\ wedges = 0
  /\ disturbed = FALSE

Goto(s, place) == pc' = [pc EXCEPT ![s] = place]
\* An operation runs on, or returns r; its arguments go with it.
RunOn(s, place) == Goto(s, place) /\ UNCHANGED <<op, want, tries, result>>
Return(s, r) ==
  /\ Goto(s, "idle") /\ result' = [result EXCEPT ![s] = r]
  /\ op' = [op EXCEPT ![s] = "none"] /\ want' = [want EXCEPT ![s] = "none"]
  /\ tries' = [tries EXCEPT ![s] = 0]
Disturbing(b) == disturbed' = (disturbed \/ b)

\* A session begins an operation: for ensure_up it asks who answers, for switch what
\* is resident, and for the other two it sets out to stop what runs.
FirstStep(o) ==
  CASE o = "ensure_up" -> "probe"
    [] o = "switch"    -> "resident"
    [] OTHER           -> "signal"
Begin(s, o, m) ==
  /\ pc[s] = "idle" /\ Goto(s, FirstStep(o))
  /\ o # "stop" => Unborn # {}
  /\ op' = [op EXCEPT ![s] = o] /\ want' = [want EXCEPT ![s] = IF o = "stop" THEN "none" ELSE m]
  /\ result' = [result EXCEPT ![s] = "none"] /\ Disturbing(Busy # {})
  /\ UNCHANGED <<own, tries, before, blind, serverVars>>

\* ensure_up: list_served.  With no answer it starts a server.
Probe(s) ==
  /\ pc[s] = "probe" /\ RunOn(s, IF Answers THEN "compare" ELSE "start")
  /\ UNCHANGED <<own, before, blind, serverVars, disturbed>>

\* _resident_model, asked by ensure_up and again by switch: the first server ps lists,
\* or none, as when no server runs and when ps fails.
FoundMut(s) == TRUE  \* mutant: what the server lists is taken for what is resident
Found(s) == \E p \in Live : model[p] = want[s]
Resident(s) ==
  /\ pc[s] \in {"compare", "resident"}
  /\ \/ Found(s) /\ Return(s, want[s])
     \/ RunOn(s, IF pc[s] = "compare" THEN "resident" ELSE "signal")
  /\ UNCHANGED <<own, before, blind, serverVars, disturbed>>

\* stop, in _signal_servers: pkill reaches every server on the machine.
TargetsMut(s) == Live \cap {own[s]}  \* mutant: only the one launched here
Targets(s) == Live
SendTerm(s) ==
  /\ pc[s] = "signal" /\ RunOn(s, "term")
  /\ sig' = [p \in Servers |-> IF p \in Targets(s) /\ sig[p] = "none" THEN "term" ELSE sig[p]]
  /\ before' = [before EXCEPT ![s] = Live]
  /\ UNCHANGED <<own, blind, state, model, wired, wedges, disturbed>>

\* _wait_servers_gone, first with SIGTERM and then with SIGKILL.  Either wait ends when a
\* listing is empty, and _server_pids gives an empty one too when pgrep fails: the first
\* wait then ends with servers alive, and SIGKILL is never sent.  The second ends the
\* same way whether the servers are gone or not.
TermOver(s) ==
  /\ pc[s] = "term" /\ RunOn(s, "floor")
  /\ own' = [own EXCEPT ![s] = NoServer]
  /\ blind' = IF Live = {} THEN blind ELSE blind \cup {s}
  /\ Disturbing(Live # {})
  /\ UNCHANGED <<before, serverVars>>
TermTimesOut(s) ==
  /\ pc[s] = "term" /\ Live # {} /\ RunOn(s, "kill")
  /\ sig' = [p \in Servers |-> IF p \in Targets(s) THEN "kill" ELSE sig[p]]
  /\ UNCHANGED <<own, before, blind, state, model, wired, wedges, disturbed>>
KillOverMut(s) ==  \* mutant: the wait for SIGKILL to take effect has no deadline
  /\ pc[s] = "kill" /\ Live = {} /\ RunOn(s, "floor")
  /\ own' = [own EXCEPT ![s] = NoServer]
  /\ UNCHANGED <<before, blind, serverVars, disturbed>>
KillOver(s) ==
  /\ pc[s] = "kill" /\ RunOn(s, "floor")
  /\ own' = [own EXCEPT ![s] = NoServer]
  /\ Disturbing(Live # {})
  /\ UNCHANGED <<before, blind, serverVars>>

\* _wait_wired_floor: waits for the memory, and gives up after its last try.
AfterStop(s) ==
  /\ IF op[s] = "stop" THEN Return(s, "none") ELSE RunOn(s, "start")
  /\ before' = [before EXCEPT ![s] = {}] /\ blind' = blind \ {s}
WiredFloorMut(s) ==  \* mutant: the wait for the memory is left out
  /\ pc[s] = "floor" /\ AfterStop(s)
  /\ UNCHANGED <<own, serverVars, disturbed>>
WiredFloor(s) ==
  /\ pc[s] = "floor" /\ AfterStop(s) /\ Disturbing(wired # {})
  /\ UNCHANGED <<own, serverVars>>

\* start: refused for its memory, its architecture or a missing binary, or launched.
RefuseStart(s) ==
  /\ pc[s] = "start" /\ Return(s, "none")
  /\ UNCHANGED <<own, before, blind, serverVars, disturbed>>
Fresh == CHOOSE p \in Servers : state[p] = "unborn"
Launch(s) ==
  /\ pc[s] = "start" /\ Unborn # {} /\ Goto(s, "poll") /\ UNCHANGED <<op, want, result>>
  /\ state' = [state EXCEPT ![Fresh] = "starting"]
  /\ model' = [model EXCEPT ![Fresh] = want[s]]
  /\ own' = [own EXCEPT ![s] = Fresh] /\ tries' = [tries EXCEPT ![s] = Tries]
  /\ UNCHANGED <<before, blind, sig, wired, wedges, disturbed>>

\* _wait_up, a poll at a time: has the server launched here exited, and does any
\* server answer?  Whichever answers lists the whole cache.
Poll(s) ==
  /\ pc[s] = "poll"
  /\ IF own[s] # NoServer /\ state[own[s]] = "gone" THEN Return(s, "none")
     ELSE RunOn(s, "ask")
  /\ UNCHANGED <<own, before, blind, serverVars, disturbed>>
AskMut(s) ==  \* mutant: the polls are not counted down to an end
  /\ pc[s] = "ask" /\ UNCHANGED <<own, before, blind, serverVars, disturbed>>
  /\ IF Answers THEN Return(s, want[s])
     ELSE Goto(s, "poll") /\ tries' = [tries EXCEPT ![s] = @ - 1] /\ UNCHANGED <<op, want, result>>
Ask(s) ==
  /\ pc[s] = "ask"
  /\ IF Answers THEN Return(s, want[s]) /\ UNCHANGED disturbed
     ELSE IF tries[s] > 1
          THEN Goto(s, "poll") /\ tries' = [tries EXCEPT ![s] = @ - 1]
               /\ UNCHANGED <<op, want, result, disturbed>>
     ELSE Return(s, "none") /\ Disturbing(TRUE)
  /\ UNCHANGED <<own, before, blind, serverVars>>

\* Ctrl-C ends the session while it waits; another one is started in its place.
Quit(s) ==
  /\ pc[s] \in {"probe", "term", "kill", "floor", "poll", "ask"} /\ Return(s, "none")
  /\ own' = [own EXCEPT ![s] = NoServer]
  /\ before' = [before EXCEPT ![s] = {}] /\ blind' = blind \ {s}
  /\ Disturbing(TRUE)
  /\ UNCHANGED serverVars

-----------------------------------------------------------------------------
\* The server processes.  One that cannot bind the port exits; a signal ends one that
\* does not hang, SIGKILL in the end every one.  The weights are loaded when the server
\* is up, and their memory is given back some time after it has exited.
Become(p, st) ==
  /\ state' = [state EXCEPT ![p] = st]
  /\ UNCHANGED <<sessionVars, model, sig, wired>>
Exit(p) ==
  /\ state' = [state EXCEPT ![p] = "gone"]
  /\ model' = [model EXCEPT ![p] = "none"] /\ sig' = [sig EXCEPT ![p] = "none"]
  /\ UNCHANGED <<sessionVars, wired, wedges>>
Bind(p) ==
  /\ state[p] = "starting" /\ UNCHANGED disturbed
  /\ IF PortHeld THEN Exit(p) ELSE Become(p, "up") /\ UNCHANGED wedges
Obey(p) ==
  /\ \/ sig[p] = "term" /\ state[p] \in {"starting", "up"}
     \/ sig[p] = "kill" /\ p \in Live
  /\ Exit(p) /\ UNCHANGED disturbed
Crash(p) ==
  /\ p \in Live /\ sig[p] = "none" /\ Exit(p) /\ Disturbing(TRUE)
Wedge(p) ==
  /\ state[p] = "up" /\ wedges < MaxWedges /\ wedges' = wedges + 1
  /\ Become(p, "wedged") /\ Disturbing(TRUE)
Recover(p) == state[p] = "wedged" /\ Become(p, "up") /\ UNCHANGED <<wedges, disturbed>>
Load(p) ==
  /\ state[p] = "up" /\ p \notin wired /\ wired' = wired \cup {p}
  /\ UNCHANGED <<sessionVars, state, model, sig, wedges, disturbed>>
Release(p) ==
  /\ state[p] = "gone" /\ p \in wired /\ wired' = wired \ {p}
  /\ UNCHANGED <<sessionVars, state, model, sig, wedges, disturbed>>

Step(s) ==
  \/ Probe(s) \/ Resident(s) \/ SendTerm(s) \/ TermOver(s) \/ TermTimesOut(s) \/ KillOver(s)
  \/ WiredFloor(s) \/ RefuseStart(s) \/ Launch(s) \/ Poll(s) \/ Ask(s)
Machine ==
  \E p \in Servers : Bind(p) \/ Obey(p) \/ Crash(p) \/ Wedge(p) \/ Recover(p) \/ Load(p) \/ Release(p)

Next ==
  \/ \E s \in Sessions : Step(s) \/ Quit(s) \/ \E c \in Commands[s] : Begin(s, c[1], c[2])
  \/ Machine

Spec == Init /\ [][Next]_vars

\* Every wait of an operation has a deadline, so a session always takes its next step;
\* nothing is assumed of the servers.
FairSpec == Spec /\ \A s \in Sessions : WF_vars(Step(s))

-----------------------------------------------------------------------------
\* Every variable keeps to the values it can have.
TypeOK ==
  /\ pc \in [Sessions -> Places] /\ op \in [Sessions -> Ops \cup {"none"}]
  /\ want \in [Sessions -> Models \cup {"none"}]
  /\ own \in [Sessions -> Servers \cup {NoServer}] /\ tries \in [Sessions -> 0..Tries]
  /\ result \in [Sessions -> Models \cup {"none"}]
  /\ before \in [Sessions -> SUBSET Servers] /\ blind \subseteq Sessions
  /\ state \in [Servers -> States] /\ model \in [Servers -> Models \cup {"none"}]
  /\ sig \in [Servers -> {"none", "term", "kill"}]
  /\ wired \subseteq Servers /\ wedges \in 0..MaxWedges /\ disturbed \in BOOLEAN

\* Whatever a stop set out to end is sent SIGTERM or is gone, one that hung or another
\* session's included; and once the stop has waited, unless a listing that failed cut the
\* wait short, it is gone or was sent SIGKILL too: what a start after it competes with
\* was launched since (the _terminate_servers comment, which knows no such listing).
StopIsThorough ==
  \A s \in Sessions : \A p \in before[s] :
    /\ state[p] = "gone" \/ sig[p] # "none"
    /\ pc[s] \notin {"term", "kill"} /\ s \notin blind => state[p] = "gone" \/ sig[p] = "kill"

\* As long as nothing crashes, hangs, is given up on, cut short or overlaps, an operation that
\* returns a model leaves exactly one server, the one that serves it, and is not left
\* with a server when it says it stopped it.
Returns(s) == pc[s] # "idle" /\ pc'[s] = "idle"
UndisturbedIsRight ==
  [][\A s \in Sessions : Returns(s) /\ ~disturbed' =>
       /\ result'[s] \in Models => \E p \in Servers :
                                     /\ Live' = {p} /\ state'[p] = "up"
                                     /\ model'[p] = result'[s] /\ result'[s] = want[s]
       /\ op[s] = "stop" => Live' = {} /\ wired' = {}]_vars

\* As long as that is so, two models are never in wired memory at a time: a switch
\* waits for the memory of the one before ("preventing an OOM that can crash the
\* machine", architecture.md).
OneModelWired == disturbed \/ Cardinality(wired) <= 1

\* Every operation ends, with a server that hangs for ever and ignores every signal too.
OperationsEnd == \A s \in Sessions : pc[s] # "idle" ~> pc[s] = "idle"

\* "Fail loudly rather than false-positive on a stale server's cached /v1/models list":
\* the server that answers when a start returns its model is one that serves it.
StartIsAnsweredByIt ==
  [][\A s \in Sessions : pc[s] = "ask" /\ Returns(s) /\ result'[s] \in Models =>
       \E p \in Servers : state[p] = "up" /\ model[p] = result'[s]]_vars
=============================================================================
