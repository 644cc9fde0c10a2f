------------------------ MODULE ServerLifecycleProofs -------------------------
(***************************************************************************)
(* Proofs, for every set of sessions, models and server processes, of the   *)
(* safety properties that ServerLifecycle states.                           *)
(***************************************************************************)
EXTENDS ServerLifecycle, FiniteSetTheorems, TLAPS

\* What an operation does to its session's variables when it runs on and returns.
LEMMA RunOnType ==
  ASSUME TypeOK, NEW s \in Sessions, NEW place \in Places, RunOn(s, place)
  PROVE  /\ pc' \in [Sessions -> Places] /\ op' \in [Sessions -> Ops \cup {"none"}]
         /\ want' \in [Sessions -> Models \cup {"none"}] /\ tries' \in [Sessions -> 0..Tries]
         /\ result' \in [Sessions -> Models \cup {"none"}]
  BY DEF TypeOK, RunOn, Goto

LEMMA ReturnType ==
  ASSUME TypeOK, NEW s \in Sessions, NEW r \in Models \cup {"none"}, Return(s, r)
  PROVE  /\ pc' \in [Sessions -> Places] /\ op' \in [Sessions -> Ops \cup {"none"}]
         /\ want' \in [Sessions -> Models \cup {"none"}] /\ tries' \in [Sessions -> 0..Tries]
         /\ result' \in [Sessions -> Models \cup {"none"}]
<1>1. "idle" \in Places /\ 0 \in 0..Tries
  BY ConstantsAssumption DEF Places
<1> QED
  BY <1>1 DEF TypeOK, Return, Goto

LEMMA DisturbingType ==
  ASSUME TypeOK, NEW b \in BOOLEAN, Disturbing(b)
  PROVE  disturbed' \in BOOLEAN
  BY DEF TypeOK, Disturbing

\* A process that has not been launched is picked when there is one.
LEMMA FreshIsUnborn ==
  ASSUME Unborn # {}
  PROVE  Fresh \in Servers /\ state[Fresh] = "unborn"
  BY DEF Unborn, Fresh

\* The places the steps of an operation lead to.
LEMMA PlacesNamed ==
  /\ "probe" \in Places /\ "compare" \in Places /\ "resident" \in Places
  /\ "signal" \in Places /\ "term" \in Places /\ "kill" \in Places /\ "floor" \in Places
  /\ "start" \in Places /\ "poll" \in Places /\ "ask" \in Places /\ "idle" \in Places
  BY DEF Places

LEMMA SessionKeepsTypes ==
  ASSUME TypeOK, NEW s \in Sessions, Step(s)
  PROVE  TypeOK'
<1> USE PlacesNamed
<1>w. want[s] \in Models \cup {"none"}
  BY DEF TypeOK
<1>n. "none" \in Models \cup {"none"}
  OBVIOUS
<1>1. CASE Probe(s)
  <2>1. PICK place \in Places : RunOn(s, place)
    BY <1>1 DEF Probe
  <2> QED
    BY <1>1, <2>1, RunOnType DEF Probe, TypeOK, serverVars
<1>2. CASE Resident(s)
  <2>1. CASE Return(s, want[s])
    BY <1>2, <1>w, <2>1, ReturnType DEF Resident, TypeOK, serverVars
  <2>2. CASE RunOn(s, IF pc[s] = "compare" THEN "resident" ELSE "signal")
    <3>1. PICK place \in Places : RunOn(s, place)
      BY <2>2
    <3> QED
      BY <1>2, <3>1, RunOnType DEF Resident, TypeOK, serverVars
  <2> QED
    BY <1>2, <2>1, <2>2 DEF Resident
<1>3. CASE SendTerm(s)
  <2>1. sig' \in [Servers -> {"none", "term", "kill"}]
    BY <1>3 DEF SendTerm, TypeOK
  <2>2. before' \in [Sessions -> SUBSET Servers]
    BY <1>3 DEF SendTerm, TypeOK, Live
  <2> QED
    BY <1>3, <2>1, <2>2, RunOnType DEF SendTerm, TypeOK
<1>4. CASE TermOver(s)
  <2>1. blind' \subseteq Sessions
    BY <1>4 DEF TermOver, TypeOK
  <2> QED
    BY <1>4, <2>1, RunOnType, DisturbingType DEF TermOver, TypeOK, serverVars
<1>5. CASE TermTimesOut(s)
  <2>1. sig' \in [Servers -> {"none", "term", "kill"}]
    BY <1>5 DEF TermTimesOut, TypeOK
  <2> QED
    BY <1>5, <2>1, RunOnType DEF TermTimesOut, TypeOK
<1>6. CASE KillOver(s)
  BY <1>6, RunOnType, DisturbingType DEF KillOver, TypeOK, serverVars
<1>7. CASE WiredFloor(s)
  <2>1. before' \in [Sessions -> SUBSET Servers] /\ blind' \subseteq Sessions
    BY <1>7 DEF WiredFloor, AfterStop, TypeOK
  <2>2. CASE Return(s, "none")
    BY <1>7, <1>n, <2>1, <2>2, ReturnType, DisturbingType DEF WiredFloor, TypeOK, serverVars
  <2>3. CASE RunOn(s, "start")
    BY <1>7, <2>1, <2>3, RunOnType, DisturbingType DEF WiredFloor, TypeOK, serverVars
  <2> QED
    BY <1>7, <2>2, <2>3 DEF WiredFloor, AfterStop
<1>8. CASE RefuseStart(s)
  BY <1>8, <1>n, ReturnType DEF RefuseStart, TypeOK, serverVars
<1>9. CASE Launch(s)
  <2>1. Fresh \in Servers
    BY <1>9, FreshIsUnborn DEF Launch
  <2>2. state' \in [Servers -> States] /\ model' \in [Servers -> Models \cup {"none"}]
    BY <1>9, <1>w, <2>1 DEF Launch, TypeOK, States
  <2>3. own' \in [Sessions -> Servers \cup {NoServer}] /\ tries' \in [Sessions -> 0..Tries]
    BY <1>9, <2>1, ConstantsAssumption DEF Launch, TypeOK
  <2>4. pc' \in [Sessions -> Places]
    BY <1>9 DEF Launch, TypeOK, Goto
  <2> QED
    BY <1>9, <2>2, <2>3, <2>4 DEF Launch, TypeOK
<1>10. CASE Poll(s)
  <2>1. CASE Return(s, "none")
    BY <1>10, <1>n, <2>1, ReturnType DEF Poll, TypeOK, serverVars
  <2>2. CASE RunOn(s, "ask")
    BY <1>10, <2>2, RunOnType DEF Poll, TypeOK, serverVars
  <2> QED
    BY <1>10, <2>1, <2>2 DEF Poll
<1>11. CASE Ask(s)
  <2>1. CASE Return(s, want[s]) /\ UNCHANGED disturbed
    BY <1>11, <1>w, <2>1, ReturnType DEF Ask, TypeOK, serverVars
  <2>2. CASE /\ tries[s] > 1 /\ Goto(s, "poll") /\ tries' = [tries EXCEPT ![s] = @ - 1]
             /\ UNCHANGED <<op, want, result, disturbed>>
    <3>1. tries[s] - 1 \in 0..Tries
      BY <2>2, ConstantsAssumption DEF TypeOK
    <3>2. tries' \in [Sessions -> 0..Tries] /\ pc' \in [Sessions -> Places]
      BY <2>2, <3>1 DEF TypeOK, Goto
    <3> QED
      BY <1>11, <2>2, <3>2 DEF Ask, TypeOK, serverVars
  <2>3. CASE Return(s, "none") /\ Disturbing(TRUE)
    BY <1>11, <1>n, <2>3, ReturnType, DisturbingType DEF Ask, TypeOK, serverVars
  <2> QED
    BY <1>11, <2>1, <2>2, <2>3 DEF Ask
<1> QED
  BY <1>1, <1>2, <1>3, <1>4, <1>5, <1>6, <1>7, <1>8, <1>9, <1>10, <1>11 DEF Step

LEMMA MachineKeepsTypes ==
  ASSUME TypeOK, NEW p \in Servers,
         \/ Bind(p) \/ Obey(p) \/ Crash(p) \/ Wedge(p) \/ Recover(p) \/ Load(p) \/ Release(p)
  PROVE  TypeOK'
<1>1. ASSUME NEW st \in States, Become(p, st), wedges' \in 0..MaxWedges, disturbed' \in BOOLEAN
      PROVE  TypeOK'
  BY <1>1 DEF Become, TypeOK, sessionVars
<1>2. ASSUME Exit(p), disturbed' \in BOOLEAN
      PROVE  TypeOK'
  BY <1>2 DEF Exit, TypeOK, sessionVars, States
<1>3. {"up", "wedged"} \subseteq States /\ wedges \in 0..MaxWedges /\ disturbed \in BOOLEAN
  BY DEF States, TypeOK
<1>4. CASE Bind(p)
  BY <1>1, <1>2, <1>3, <1>4 DEF Bind
<1>5. CASE Obey(p)
  BY <1>2, <1>3, <1>5 DEF Obey
<1>6. CASE Crash(p)
  BY <1>2, <1>6, DisturbingType DEF Crash
<1>7. CASE Wedge(p)
  <2>1. wedges' \in 0..MaxWedges
    BY <1>3, <1>7, ConstantsAssumption DEF Wedge
  <2> QED
    BY <1>1, <1>3, <1>7, <2>1, DisturbingType DEF Wedge
<1>8. CASE Recover(p)
  BY <1>1, <1>3, <1>8 DEF Recover
<1>9. CASE Load(p)
  BY <1>9 DEF Load, TypeOK, sessionVars
<1>10. CASE Release(p)
  BY <1>10 DEF Release, TypeOK, sessionVars
<1> QED
  BY <1>4, <1>5, <1>6, <1>7, <1>8, <1>9, <1>10

\* What a session is told is an operation and a model.
LEMMA CommandParts ==
  ASSUME NEW s \in Sessions, NEW c \in Commands[s]
  PROVE  c[1] \in Ops /\ c[2] \in Models
  BY ConstantsAssumption

LEMMA StepKeepsTypes ==
  ASSUME TypeOK, [Next]_vars
  PROVE  TypeOK'
<1>1. CASE UNCHANGED vars
  BY <1>1 DEF vars, sessionVars, serverVars, TypeOK
<1>2. ASSUME NEW s \in Sessions, NEW o \in Ops, NEW m \in Models, Begin(s, o, m)
      PROVE  TypeOK'
  <2>1. o \in Ops
    OBVIOUS
  <2>2. FirstStep(o) \in Places
    BY PlacesNamed DEF FirstStep
  <2>3. disturbed' \in BOOLEAN
    BY <1>2, DisturbingType DEF Begin
  <2>4. pc' \in [Sessions -> Places] /\ op' \in [Sessions -> Ops \cup {"none"}]
    BY <1>2, <2>1, <2>2 DEF Begin, Goto, TypeOK
  <2>5. want' \in [Sessions -> Models \cup {"none"}] /\ result' \in [Sessions -> Models \cup {"none"}]
    BY <1>2 DEF Begin, TypeOK
  <2> QED
    BY <1>2, <2>3, <2>4, <2>5 DEF Begin, TypeOK, serverVars
<1>3. ASSUME NEW s \in Sessions, Quit(s)
      PROVE  TypeOK'
  <2>1. "none" \in Models \cup {"none"}
    OBVIOUS
  <2>2. own' \in [Sessions -> Servers \cup {NoServer}] /\ before' \in [Sessions -> SUBSET Servers]
    BY <1>3 DEF Quit, TypeOK
  <2>3. blind' \subseteq Sessions
    BY <1>3 DEF Quit, TypeOK
  <2> QED
    BY <1>3, <2>1, <2>2, <2>3, ReturnType, DisturbingType DEF Quit, TypeOK, serverVars
<1> QED
  BY <1>1, <1>2, <1>3, CommandParts, SessionKeepsTypes, MachineKeepsTypes DEF Next, Machine

LEMMA InitTypes ==
  ASSUME Init
  PROVE  TypeOK
<1>1. pc \in [Sessions -> Places] /\ op \in [Sessions -> Ops \cup {"none"}]
  BY PlacesNamed DEF Init
<1>2. want \in [Sessions -> Models \cup {"none"}] /\ result \in [Sessions -> Models \cup {"none"}]
  BY DEF Init
<1>3. own \in [Sessions -> Servers \cup {NoServer}] /\ before \in [Sessions -> SUBSET Servers]
  BY DEF Init
<1>4. 0 \in 0..Tries /\ 0 \in 0..MaxWedges
  BY ConstantsAssumption
<1>5. tries \in [Sessions -> 0..Tries] /\ wedges \in 0..MaxWedges
  BY <1>4 DEF Init
<1>6. state \in [Servers -> States] /\ model \in [Servers -> Models \cup {"none"}]
  BY DEF Init, States
<1>7. /\ sig \in [Servers -> {"none", "term", "kill"}] /\ wired \subseteq Servers
      /\ disturbed \in BOOLEAN /\ blind \subseteq Sessions
  BY DEF Init
<1> QED
  BY <1>1, <1>2, <1>3, <1>5, <1>6, <1>7 DEF TypeOK

\* Every variable keeps to the values it can have.
THEOREM TypeCorrect == Spec => []TypeOK
<1>1. Init => TypeOK
  BY InitTypes
<1>2. TypeOK /\ [Next]_vars => TypeOK'
  BY StepKeepsTypes
<1> QED
  BY <1>1, <1>2, PTL DEF Spec

-----------------------------------------------------------------------------
\* What a stop set out to end was running then and has been signalled, so it is gone once
\* nothing runs; and nothing but SIGKILL and the end of the process follows SIGKILL.
Launched == \A s \in Sessions : \A p \in before[s] : state[p] # "unborn"
Reached(s) == \A p \in before[s] : state[p] = "gone" \/ sig[p] # "none"
Ended(s) == \A p \in before[s] : state[p] = "gone" \/ sig[p] = "kill"
StopInv ==
  /\ TypeOK /\ Launched
  /\ \A s \in Sessions : Reached(s) /\ (pc[s] # "term" /\ s \notin blind => Ended(s))

\* No step brings a process back, or takes a SIGKILL back from one that runs.
LEMMA ProcessesOnlyAge ==
  ASSUME TypeOK, [Next]_vars, NEW p \in Servers
  PROVE  /\ state[p] # "unborn" => state'[p] # "unborn"
         /\ state[p] = "gone" => state'[p] = "gone"
         /\ sig[p] = "kill" => state'[p] = "gone" \/ sig'[p] = "kill"
         /\ sig[p] # "none" => state'[p] = "gone" \/ sig'[p] # "none"
<1>1. CASE UNCHANGED vars
  BY <1>1 DEF vars, serverVars
<1>2. ASSUME NEW s \in Sessions, Step(s)
      PROVE  /\ state[p] # "unborn" => state'[p] # "unborn"
             /\ state[p] = "gone" => state'[p] = "gone"
             /\ sig[p] = "kill" => state'[p] = "gone" \/ sig'[p] = "kill"
             /\ sig[p] # "none" => state'[p] = "gone" \/ sig'[p] # "none"
  <2>1. CASE SendTerm(s) \/ TermTimesOut(s)
    <3>1. /\ state' = state /\ (sig[p] = "kill" => sig'[p] = "kill")
          /\ sig[p] # "none" => sig'[p] # "none"
      BY <2>1 DEF SendTerm, TermTimesOut
    <3> QED
      BY <3>1
  <2>2. CASE Launch(s)
    <3>1. Fresh \in Servers /\ state[Fresh] = "unborn"
      BY <2>2, FreshIsUnborn DEF Launch
    <3> QED
      BY <2>2, <3>1 DEF Launch, TypeOK
  <2>3. CASE UNCHANGED serverVars
    BY <2>3 DEF serverVars
  <2> QED
    BY <1>2, <2>1, <2>2, <2>3 DEF Step, Probe, Resident, TermOver, KillOver, WiredFloor,
                                   RefuseStart, Poll, Ask
<1>3. ASSUME NEW s \in Sessions, Quit(s) \/ \E c \in Commands[s] : Begin(s, c[1], c[2])
      PROVE  state' = state /\ sig' = sig
  BY <1>3 DEF Quit, Begin, serverVars
<1>4. ASSUME NEW q \in Servers,
             \/ Bind(q) \/ Obey(q) \/ Crash(q) \/ Wedge(q) \/ Recover(q) \/ Load(q) \/ Release(q)
      PROVE  /\ state[p] # "unborn" => state'[p] # "unborn"
             /\ state[p] = "gone" => state'[p] = "gone"
             /\ sig[p] = "kill" => state'[p] = "gone" \/ sig'[p] = "kill"
             /\ sig[p] # "none" => state'[p] = "gone" \/ sig'[p] # "none"
  <2>1. CASE Exit(q)
    BY <2>1 DEF Exit, TypeOK
  <2>2. ASSUME NEW st \in {"up", "wedged"}, Become(q, st), state[q] # "gone"
        PROVE  /\ state[p] # "unborn" => state'[p] # "unborn"
               /\ state[p] = "gone" => state'[p] = "gone"
               /\ sig[p] = "kill" => state'[p] = "gone" \/ sig'[p] = "kill"
               /\ sig[p] # "none" => state'[p] = "gone" \/ sig'[p] # "none"
    BY <2>2 DEF Become, TypeOK
  <2>3. CASE Bind(q)
    BY <2>1, <2>2, <2>3 DEF Bind
  <2>4. CASE Obey(q) \/ Crash(q)
    BY <2>1, <2>4 DEF Obey, Crash
  <2>5. CASE Wedge(q)
    BY <2>2, <2>5 DEF Wedge
  <2>6. CASE Recover(q)
    BY <2>2, <2>6 DEF Recover
  <2>7. CASE Load(q) \/ Release(q)
    BY <2>7 DEF Load, Release
  <2> QED
    BY <1>4, <2>3, <2>4, <2>5, <2>6, <2>7
<1>5. CASE Machine
  BY <1>4, <1>5 DEF Machine
<1>6. CASE \E s \in Sessions : Step(s)
  BY <1>2, <1>6
<1>7. CASE \E s \in Sessions : Quit(s) \/ \E c \in Commands[s] : Begin(s, c[1], c[2])
  <2>1. state' = state /\ sig' = sig
    BY <1>3, <1>7
  <2> QED
    BY <2>1
<1> QED
  BY <1>1, <1>5, <1>6, <1>7 DEF Next

LEMMA StepKeepsStops ==
  ASSUME StopInv, [Next]_vars
  PROVE  StopInv'
<1> USE DEF StopInv
<1>1. TypeOK'
  BY StepKeepsTypes
<1> DEFINE Kept(t) ==
      /\ \A p \in before'[t] : state'[p] # "unborn"
      /\ Reached(t)' /\ (pc'[t] # "term" /\ t \notin blind' => Ended(t)')
<1>2. ASSUME NEW t \in Sessions, before'[t] = before[t], pc[t] # "term" \/ pc'[t] = "term",
             t \in blind => t \in blind'
      PROVE  Kept(t)
  <2>1. \A p \in before'[t] : p \in Servers
    BY <1>2 DEF TypeOK
  <2>2. (\A p \in before'[t] : state'[p] # "unborn") /\ Reached(t)'
    BY <1>2, <2>1, ProcessesOnlyAge DEF Launched, Reached
  <2>3. ASSUME pc'[t] # "term", t \notin blind'
        PROVE  Ended(t)'
    <3>1. Ended(t)
      BY <1>2, <2>3
    <3> QED
      BY <1>2, <2>1, <3>1, ProcessesOnlyAge DEF Ended
  <2> QED
    BY <2>2, <2>3
<1>3. ASSUME NEW t \in Sessions, before'[t] = {}
      PROVE  Kept(t)
  BY <1>3 DEF Ended, Reached
<1>4. ASSUME NEW t \in Sessions
      PROVE  Kept(t)
  <2>1. CASE UNCHANGED vars \/ Machine
    <3>1. UNCHANGED sessionVars
      BY <2>1 DEF vars, Machine, Bind, Obey, Crash, Wedge, Recover, Load, Release, Become, Exit
    <3> QED
      BY <1>2, <3>1 DEF sessionVars
  <2>2. ASSUME NEW s \in Sessions, Step(s), t # s
        PROVE  before'[t] = before[t] /\ pc'[t] = pc[t] /\ (t \in blind => t \in blind')
    <3>1. pc'[t] = pc[t]
      <4>1. ASSUME NEW place \in Places, Goto(s, place)
            PROVE  pc'[t] = pc[t]
        BY <2>2, <4>1 DEF Goto, TypeOK
      <4>2. ASSUME NEW place \in Places, RunOn(s, place)
            PROVE  pc'[t] = pc[t]
        BY <4>1, <4>2 DEF RunOn
      <4>3. ASSUME NEW r, Return(s, r)
            PROVE  pc'[t] = pc[t]
        BY <4>1, <4>3, PlacesNamed DEF Return
      <4>4. CASE Probe(s) \/ SendTerm(s) \/ TermOver(s) \/ TermTimesOut(s) \/ KillOver(s)
        BY <4>2, <4>4, PlacesNamed DEF Probe, SendTerm, TermOver, TermTimesOut, KillOver
      <4>5. CASE Resident(s)
        BY <4>2, <4>3, <4>5, PlacesNamed DEF Resident
      <4>6. CASE WiredFloor(s) \/ RefuseStart(s) \/ Poll(s)
        BY <4>2, <4>3, <4>6, PlacesNamed DEF WiredFloor, AfterStop, RefuseStart, Poll
      <4>7. CASE Launch(s) \/ Ask(s)
        BY <4>1, <4>3, <4>7, PlacesNamed DEF Launch, Ask
      <4> QED
        BY <2>2, <4>4, <4>5, <4>6, <4>7 DEF Step
    <3>2. before'[t] = before[t]
      <4>1. CASE SendTerm(s)
        BY <2>2, <4>1 DEF SendTerm, TypeOK
      <4>2. CASE WiredFloor(s)
        BY <2>2, <4>2 DEF WiredFloor, AfterStop, TypeOK
      <4> QED
        BY <2>2, <4>1, <4>2 DEF Step, Probe, Resident, TermOver, TermTimesOut, KillOver,
                                RefuseStart, Launch, Poll, Ask
    <3>3. t \in blind => t \in blind'
      <4>1. blind' = blind \/ blind' = blind \cup {s} \/ blind' = blind \ {s}
        BY <2>2
        DEF Step, Probe, Resident, SendTerm, TermOver, TermTimesOut, KillOver, WiredFloor,
            AfterStop, RefuseStart, Launch, Poll, Ask
      <4> QED
        BY <2>2, <4>1
    <3> QED
      BY <3>1, <3>2, <3>3
  <2>3. ASSUME Step(t)
        PROVE  Kept(t)
    <3>1. CASE SendTerm(t)
      <4>1. before'[t] = Live /\ pc'[t] = "term" /\ state' = state
        BY <3>1 DEF SendTerm, RunOn, Goto, TypeOK
      <4>2. \A p \in Live : sig'[p] # "none"
        BY <3>1 DEF SendTerm, Targets, Live
      <4>3. Reached(t)'
        BY <4>1, <4>2 DEF Reached
      <4> QED
        BY <4>1, <4>3 DEF Live
    <3>2. CASE TermOver(t)
      <4>1. \A p \in before[t] : p \in Servers /\ state[p] # "unborn"
        BY DEF Launched, TypeOK
      <4>2. UNCHANGED <<before, state, sig>>
        BY <3>2 DEF TermOver, serverVars
      <4>3. t \notin blind' => \A p \in before[t] : state[p] = "gone"
        BY <3>2, <4>1 DEF TermOver, Live, TypeOK, States
      <4> QED
        BY <4>1, <4>2, <4>3 DEF Ended, Reached
    <3>3. CASE TermTimesOut(t)
      <4>1. \A p \in before[t] : p \in Servers /\ (state[p] = "gone" \/ p \in Live)
        BY DEF Launched, Live, TypeOK, States
      <4>2. before' = before /\ state' = state
        BY <3>3 DEF TermTimesOut
      <4>3. \A p \in Live : sig'[p] = "kill"
        BY <3>3 DEF TermTimesOut, Targets, Live
      <4>4. \A p \in before[t] : state[p] = "gone" \/ sig'[p] = "kill"
        BY <4>1, <4>3
      <4> QED
        BY <4>2, <4>4 DEF Ended, Reached, Launched
    <3>4. CASE WiredFloor(t)
      BY <1>3, <3>4 DEF WiredFloor, AfterStop, TypeOK
    <3>5. CASE Probe(t) \/ Resident(t) \/ KillOver(t) \/ RefuseStart(t) \/ Launch(t) \/ Poll(t) \/ Ask(t)
      BY <1>2, <3>5 DEF Probe, Resident, KillOver, RefuseStart, Launch, Poll, Ask
    <3> QED
      BY <2>3, <3>1, <3>2, <3>3, <3>4, <3>5 DEF Step
  <2>4. ASSUME NEW s \in Sessions, Quit(s)
        PROVE  \/ before'[t] = {}
               \/ before'[t] = before[t] /\ pc'[t] = pc[t] /\ (t \in blind => t \in blind')
    <3>1. CASE s = t
      BY <2>4, <3>1 DEF Quit, TypeOK
    <3>2. CASE s # t
      BY <2>4, <3>2 DEF Quit, Return, Goto, TypeOK
    <3> QED
      BY <3>1, <3>2
  <2>5. ASSUME NEW s \in Sessions, NEW o \in Ops, NEW m \in Models, Begin(s, o, m)
        PROVE  before'[t] = before[t] /\ blind' = blind /\ (pc[t] # "term" \/ pc'[t] = "term")
    BY <2>5 DEF Begin, Goto, TypeOK
  <2> QED
    BY <1>2, <1>3, CommandParts, <2>1, <2>2, <2>3, <2>4, <2>5 DEF Next
<1> QED
  BY <1>1, <1>4 DEF Launched

\* Every server a stop set out to end is gone or was sent a signal, and, once the stop has
\* waited for it on listings none of which failed, is gone or was sent SIGKILL.
THEOREM StopsAreThorough == Spec => []StopIsThorough
<1>1. ASSUME Init
      PROVE  StopInv
  <2>1. TypeOK
    BY <1>1, InitTypes
  <2>2. \A s \in Sessions : before[s] = {}
    BY <1>1 DEF Init
  <2> QED
    BY <2>1, <2>2 DEF StopInv, Launched, Reached, Ended
<1>2. StopInv /\ [Next]_vars => StopInv'
  BY StepKeepsStops
<1>3. StopInv => StopIsThorough
  BY DEF StopInv, Reached, Ended, StopIsThorough
<1> QED
  BY <1>1, <1>2, <1>3, PTL DEF Spec

-----------------------------------------------------------------------------
\* Undisturbed, one session is busy at most, one server holds port and memory at most, and
\* what runs is settled by the place that session is at ("idle" when there is none).
Alone == \A s, t \in Sessions : pc[s] # "idle" /\ pc[t] # "idle" => s = t
OneServer == (\A p, q \in Live \cup wired : p = q) /\ \A p \in Servers : state[p] # "wedged"
Settled(place) ==
  /\ place \in {"floor", "start"} => Live = {}
  /\ place = "start" => wired = {}
  /\ place \notin {"term", "kill", "floor"} => wired \subseteq Live
  /\ place \notin {"term", "kill"} => \A p \in Live : sig[p] = "none"
  /\ place \notin {"term", "kill", "poll", "ask"} => \A p \in Live : state[p] = "up"
OwnRuns(s) == pc[s] \in {"poll", "ask"} => own[s] \in Live /\ model[own[s]] = want[s]
Calm ==
  /\ Alone /\ OneServer
  /\ \A s \in Sessions : pc[s] # "idle" => Settled(pc[s]) /\ OwnRuns(s)
  /\ (\A s \in Sessions : pc[s] = "idle") => Settled("idle")

\* Besides: no signal waits for a process that has not been launched, and a stop does
\* nothing but stop.
Unsignalled == \A p \in Servers : state[p] = "unborn" => sig[p] = "none"
StopsOnly == \A s \in Sessions : op[s] = "stop" => pc[s] \in {"signal", "term", "kill", "floor"}
CalmInv == TypeOK /\ Unsignalled /\ StopsOnly /\ (~disturbed => Calm)

\* A step of one session leaves the others where they are.
LEMMA OthersStay ==
  ASSUME TypeOK, NEW s \in Sessions, NEW t \in Sessions, t # s, Step(s)
  PROVE  pc'[t] = pc[t] /\ op'[t] = op[t]
<1>1. ASSUME NEW place \in Places, RunOn(s, place)
      PROVE  pc'[t] = pc[t] /\ op'[t] = op[t]
  BY <1>1 DEF RunOn, Goto, TypeOK
<1>2. ASSUME NEW r, Return(s, r)
      PROVE  pc'[t] = pc[t] /\ op'[t] = op[t]
  BY <1>2 DEF Return, Goto, TypeOK
<1>3. CASE Probe(s) \/ SendTerm(s) \/ TermOver(s) \/ TermTimesOut(s) \/ KillOver(s)
  BY <1>1, <1>3, PlacesNamed DEF Probe, SendTerm, TermOver, TermTimesOut, KillOver
<1>4. CASE Resident(s)
  BY <1>1, <1>2, <1>4, PlacesNamed DEF Resident
<1>5. CASE WiredFloor(s) \/ RefuseStart(s) \/ Poll(s)
  BY <1>1, <1>2, <1>5, PlacesNamed DEF WiredFloor, AfterStop, RefuseStart, Poll
<1>6. CASE Launch(s)
  BY <1>6 DEF Launch, Goto, TypeOK
<1>7. CASE Ask(s)
  <2>1. CASE Goto(s, "poll") /\ UNCHANGED op
    BY <2>1 DEF Goto, TypeOK
  <2> QED
    BY <1>2, <1>7, <2>1 DEF Ask
<1> QED
  BY <1>3, <1>4, <1>5, <1>6, <1>7 DEF Step

\* What the step of the only busy session has to show for calm to last.
LEMMA StaysCalm ==
  ASSUME TypeOK, Calm, NEW s \in Sessions, Step(s), pc[s] # "idle",
         NEW place, pc'[s] = place, Settled(place)', OneServer', OwnRuns(s)'
  PROVE  Calm'
<1>1. \A t \in Sessions : t # s => pc'[t] = "idle"
  BY OthersStay DEF Calm, Alone
<1>2. Alone'
  BY <1>1 DEF Alone
<1>3. \A t \in Sessions : pc'[t] # "idle" => Settled(pc[t])' /\ OwnRuns(t)'
  BY <1>1 DEF Settled
<1>4. (\A t \in Sessions : pc'[t] = "idle") => Settled("idle")'
  BY DEF Settled
<1> QED
  BY <1>2, <1>3, <1>4 DEF Calm

LEMMA SessionStaysCalm ==
  ASSUME TypeOK, Unsignalled, Calm, NEW s \in Sessions, Step(s), ~disturbed'
  PROVE  Calm'
<1>0. pc[s] # "idle"
  BY DEF Step, Probe, Resident, SendTerm, TermOver, TermTimesOut, KillOver, WiredFloor,
         RefuseStart, Launch, Poll, Ask
<1>1. Settled(pc[s]) /\ OwnRuns(s) /\ OneServer
  BY <1>0 DEF Calm
<1>2. ASSUME UNCHANGED serverVars
      PROVE  Live' = Live /\ OneServer'
  BY <1>1, <1>2 DEF OneServer, Live, serverVars
<1>3. ASSUME NEW place, Goto(s, place)
      PROVE  pc'[s] = place
  BY <1>3 DEF Goto, TypeOK
<1>4. ASSUME NEW place, Goto(s, place), UNCHANGED serverVars, Settled(place), place \notin {"poll", "ask"}
      PROVE  Calm'
  <2>1. pc'[s] = place
    BY <1>3, <1>4
  <2>2. Settled(place)'
    BY <1>2, <1>4 DEF Settled, serverVars
  <2>3. OwnRuns(s)'
    BY <1>4, <2>1 DEF OwnRuns
  <2> QED
    BY <1>0, <1>2, <1>4, <2>1, <2>2, <2>3, StaysCalm
<1>5. CASE Probe(s)
  <2>1. Settled(IF Answers THEN "compare" ELSE "start")
    BY <1>1, <1>5 DEF Probe, Settled, Answers, Live
  <2> QED
    BY <1>4, <1>5, <2>1 DEF Probe, RunOn
<1>6. CASE Resident(s)
  <2>1. Settled("idle") /\ Settled("resident") /\ Settled("signal")
    BY <1>1, <1>6 DEF Resident, Settled
  <2> QED
    BY <1>4, <1>6, <2>1 DEF Resident, RunOn, Return
<1>7. CASE SendTerm(s)
  <2>1. pc'[s] = "term"
    BY <1>3, <1>7 DEF SendTerm, RunOn
  <2>2. OneServer' /\ Settled("term")'
    BY <1>1, <1>7 DEF SendTerm, OneServer, Live, Settled
  <2>3. OwnRuns(s)'
    BY <2>1 DEF OwnRuns
  <2> QED
    BY <1>0, <2>1, <2>2, <2>3, StaysCalm
<1>8. CASE TermOver(s)
  <2>1. Settled("floor")
    BY <1>8 DEF TermOver, Disturbing, Settled
  <2> QED
    BY <1>4, <1>8, <2>1 DEF TermOver, RunOn
<1>9. CASE TermTimesOut(s)
  <2>1. pc'[s] = "kill"
    BY <1>3, <1>9 DEF TermTimesOut, RunOn
  <2>2. OneServer' /\ Settled("kill")'
    BY <1>1, <1>9 DEF TermTimesOut, OneServer, Live, Settled
  <2>3. OwnRuns(s)'
    BY <2>1 DEF OwnRuns
  <2> QED
    BY <1>0, <2>1, <2>2, <2>3, StaysCalm
<1>10. CASE KillOver(s)
  <2>1. Settled("floor")
    BY <1>10 DEF KillOver, Disturbing, Settled
  <2> QED
    BY <1>4, <1>10, <2>1 DEF KillOver, RunOn
<1>11. CASE WiredFloor(s)
  <2>1. Live = {} /\ wired = {}
    BY <1>1, <1>11 DEF WiredFloor, Disturbing, Settled
  <2>2. Settled("idle") /\ Settled("start")
    BY <2>1 DEF Settled
  <2> QED
    BY <1>4, <1>11, <2>2 DEF WiredFloor, AfterStop, RunOn, Return
<1>12. CASE RefuseStart(s)
  <2>1. Settled("idle")
    BY <1>1, <1>12 DEF RefuseStart, Settled
  <2> QED
    BY <1>4, <1>12, <2>1 DEF RefuseStart, Return
<1>13. CASE Launch(s)
  <2>1. Fresh \in Servers /\ state[Fresh] = "unborn" /\ sig[Fresh] = "none"
    BY <1>13, FreshIsUnborn DEF Launch, Unsignalled
  <2>2. Live = {} /\ wired = {}
    BY <1>1, <1>13 DEF Launch, Settled
  <2>3. state' = [state EXCEPT ![Fresh] = "starting"] /\ wired' = {} /\ sig' = sig
    BY <1>13, <2>2 DEF Launch
  <2>4. Live' = {Fresh}
    BY <2>1, <2>2, <2>3 DEF Live, TypeOK
  <2>5. pc'[s] = "poll"
    BY <1>3, <1>13 DEF Launch
  <2>6. own'[s] = Fresh /\ model'[Fresh] = want'[s]
    BY <1>13, <2>1 DEF Launch, TypeOK
  <2>7. \A p \in Servers : state'[p] # "wedged"
    BY <1>1, <2>1, <2>3 DEF OneServer, TypeOK
  <2>8. OneServer' /\ Settled("poll")' /\ OwnRuns(s)'
    BY <2>1, <2>3, <2>4, <2>6, <2>7 DEF OneServer, Settled, OwnRuns
  <2> QED
    BY <1>0, <2>5, <2>8, StaysCalm
<1>14. ASSUME pc[s] \in {"poll", "ask"}, pc'[s] \in {"poll", "ask"}, UNCHANGED <<own, want, serverVars>>
       PROVE  Calm'
  <2>1. PICK place : place = pc'[s]
    OBVIOUS
  <2>2. Settled(place)'
    BY <1>1, <1>2, <1>14, <2>1 DEF Settled, serverVars
  <2>3. OwnRuns(s)'
    BY <1>1, <1>2, <1>14 DEF OwnRuns, serverVars
  <2> QED
    BY <1>0, <1>2, <1>14, <2>1, <2>2, <2>3, StaysCalm
<1>15. CASE Poll(s)
  <2>1. state[own[s]] # "gone"
    BY <1>1, <1>15 DEF Poll, OwnRuns, Live
  <2>2. RunOn(s, "ask") /\ pc[s] = "poll" /\ UNCHANGED <<own, serverVars>>
    BY <1>15, <2>1 DEF Poll
  <2> QED
    BY <1>3, <1>14, <2>2 DEF RunOn
<1>16. CASE Ask(s)
  <2>1. CASE Answers
    <3>1. PICK p \in Live : state[p] = "up"
      BY <2>1 DEF Answers, Live
    <3>2. \A q \in Live : state[q] = "up"
      BY <1>1, <3>1 DEF OneServer
    <3>3. Settled("idle")
      BY <1>1, <1>16, <3>2 DEF Ask, Settled
    <3> QED
      BY <1>4, <1>16, <2>1, <3>3 DEF Ask, Return
  <2>2. CASE Goto(s, "poll") /\ UNCHANGED want
    BY <1>3, <1>14, <1>16, <2>2 DEF Ask
  <2> QED
    BY <1>16, <2>1, <2>2 DEF Ask, Disturbing
<1> QED
  BY <1>5, <1>6, <1>7, <1>8, <1>9, <1>10, <1>11, <1>12, <1>13, <1>15, <1>16 DEF Step

\* The machine moves on by itself, and what runs stays settled.
LEMMA MachineStaysSettled ==
  ASSUME TypeOK, OneServer, NEW place, Settled(place), ~disturbed', Machine
  PROVE  /\ OneServer' /\ Settled(place)'
         /\ place \in {"poll", "ask"} => \A p \in Live : p \in Live' /\ model'[p] = model[p]
<1>1. PICK p \in Servers :
        Bind(p) \/ Obey(p) \/ Crash(p) \/ Wedge(p) \/ Recover(p) \/ Load(p) \/ Release(p)
  BY DEF Machine
<1>2. CASE Bind(p)
  <2>1. p \in Live /\ state[p] = "starting"
    BY <1>2 DEF Bind, Live
  <2>2. ~PortHeld
    BY <2>1 DEF PortHeld, OneServer, Live
  <2>3. state' = [state EXCEPT ![p] = "up"] /\ UNCHANGED <<model, sig, wired>>
    BY <1>2, <2>2 DEF Bind, Become
  <2>4. Live' = Live
    BY <2>1, <2>3 DEF Live, TypeOK
  <2>5. \A q \in Servers : state'[q] = IF q = p THEN "up" ELSE state[q]
    BY <2>3 DEF TypeOK
  <2> QED
    BY <2>3, <2>4, <2>5 DEF OneServer, Settled
<1>3. CASE Obey(p)
  <2>1. p \in Live /\ sig[p] # "none"
    BY <1>3 DEF Obey, Live
  <2>2. place \in {"term", "kill"}
    BY <2>1 DEF Settled
  <2>3. state' = [state EXCEPT ![p] = "gone"] /\ wired' = wired
    BY <1>3 DEF Obey, Exit
  <2>4. Live' \subseteq Live /\ \A q \in Servers : state'[q] # "wedged"
    BY <2>3 DEF Live, OneServer, TypeOK
  <2>5. OneServer'
    BY <2>3, <2>4 DEF OneServer
  <2>6. Settled(place)'
    BY <2>2 DEF Settled
  <2> QED
    BY <2>2, <2>5, <2>6
<1>4. CASE Crash(p) \/ Wedge(p) \/ Recover(p)
  BY <1>4 DEF Crash, Wedge, Recover, Disturbing, OneServer
<1>5. CASE Load(p)
  <2>1. p \in Live /\ wired' = wired \cup {p} /\ UNCHANGED <<state, model, sig>>
    BY <1>5 DEF Load, Live
  <2>2. Live' = Live
    BY <2>1 DEF Live
  <2>3. OneServer'
    BY <2>1, <2>2 DEF OneServer
  <2> QED
    BY <2>1, <2>2, <2>3 DEF Settled
<1>6. CASE Release(p)
  <2>1. wired' = wired \ {p} /\ UNCHANGED <<state, model, sig>>
    BY <1>6 DEF Release
  <2>2. Live' = Live
    BY <2>1 DEF Live
  <2> QED
    BY <2>1, <2>2 DEF OneServer, Settled
<1> QED
  BY <1>1, <1>2, <1>3, <1>4, <1>5, <1>6

LEMMA StaysDisturbed ==
  ASSUME TypeOK, [Next]_vars, disturbed
  PROVE  disturbed'
<1>1. CASE UNCHANGED disturbed
  BY <1>1
<1>2. ASSUME NEW b, Disturbing(b)
      PROVE  disturbed'
  BY <1>2 DEF Disturbing
<1> QED
  BY <1>1, <1>2 DEF Next, Machine, vars, Step, Probe, Resident, SendTerm, TermOver, TermTimesOut,
      KillOver, WiredFloor, RefuseStart, Launch, Poll, Ask, Quit, Begin, Bind, Obey, Crash,
      Wedge, Recover, Load, Release

LEMMA StepStaysCalm ==
  ASSUME CalmInv, [Next]_vars, ~disturbed'
  PROVE  Calm'
<1>1. TypeOK /\ Unsignalled
  BY DEF CalmInv
<1>2. ~disturbed
  BY <1>1, StaysDisturbed
<1>3. Calm
  BY <1>2 DEF CalmInv
<1>4. CASE UNCHANGED vars
  BY <1>3, <1>4 DEF Calm, Alone, OneServer, Settled, OwnRuns, Live, vars, sessionVars, serverVars
<1>5. ASSUME NEW s \in Sessions, NEW o \in Ops, NEW m \in Models, Begin(s, o, m)
      PROVE  Calm'
  <2>1. \A t \in Sessions : pc[t] = "idle"
    BY <1>5 DEF Begin, Disturbing, Busy
  <2>2. Settled("idle") /\ OneServer
    BY <1>3, <2>1 DEF Calm
  <2>3. pc'[s] \in {"probe", "resident", "signal"} /\ \A t \in Sessions : t # s => pc'[t] = "idle"
    BY <1>1, <1>5, <2>1 DEF Begin, Goto, FirstStep, TypeOK
  <2>4. OneServer' /\ Live' = Live /\ UNCHANGED <<state, sig, wired>>
    BY <1>5, <2>2 DEF Begin, OneServer, Live, serverVars
  <2>5. Alone'
    BY <2>3 DEF Alone
  <2>6. \A t \in Sessions : pc'[t] # "idle" => Settled(pc[t])' /\ OwnRuns(t)'
    BY <2>2, <2>3, <2>4 DEF Settled, OwnRuns
  <2>7. ~ \A t \in Sessions : pc'[t] = "idle"
    BY <2>3
  <2> QED
    BY <2>4, <2>5, <2>6, <2>7 DEF Calm
<1>6. CASE Machine
  <2>1. UNCHANGED sessionVars
    BY <1>6 DEF Machine, Bind, Obey, Crash, Wedge, Recover, Load, Release, Become, Exit
  <2>2. UNCHANGED <<pc, own, want>>
    BY <2>1 DEF sessionVars
  <2>3. OneServer /\ Alone'
    BY <1>3, <2>2 DEF Calm, Alone
  <2>4. ASSUME NEW t \in Sessions, pc'[t] # "idle"
        PROVE  Settled(pc[t])' /\ OwnRuns(t)' /\ OneServer'
    <3>1. PICK place : place = pc[t]
      OBVIOUS
    <3>2. Settled(place) /\ OwnRuns(t)
      BY <1>3, <2>2, <2>4, <3>1 DEF Calm
    <3>3. /\ OneServer' /\ Settled(place)'
          /\ place \in {"poll", "ask"} => \A p \in Live : p \in Live' /\ model'[p] = model[p]
      BY <1>1, <1>6, <2>3, <3>2, MachineStaysSettled
    <3>4. Settled(pc[t])'
      BY <2>2, <3>1, <3>3 DEF Settled
    <3>5. OwnRuns(t)'
      BY <2>2, <3>1, <3>2, <3>3 DEF OwnRuns
    <3> QED
      BY <3>3, <3>4, <3>5
  <2>5. ASSUME \A t \in Sessions : pc'[t] = "idle"
        PROVE  Settled("idle")' /\ OneServer'
    <3>1. Settled("idle")
      BY <1>3, <2>2, <2>5 DEF Calm
    <3> QED
      BY <1>1, <1>6, <2>3, <3>1, MachineStaysSettled
  <2> QED
    BY <2>3, <2>4, <2>5 DEF Calm
<1>7. ASSUME NEW s \in Sessions, Quit(s)
      PROVE  FALSE
  BY <1>7 DEF Quit, Disturbing
<1> QED
  BY <1>1, <1>3, <1>4, <1>5, <1>6, <1>7, CommandParts, SessionStaysCalm DEF Next

LEMMA StepKeepsUnsignalled ==
  ASSUME TypeOK, Unsignalled, [Next]_vars
  PROVE  Unsignalled'
<1>1. ASSUME NEW p \in Servers, state'[p] = "unborn"
      PROVE  sig'[p] = "none"
  <2>1. state[p] = "unborn" /\ sig[p] = "none"
    BY <1>1, ProcessesOnlyAge DEF Unsignalled
  <2>2. CASE UNCHANGED sig
    BY <2>1, <2>2
  <2>3. ASSUME NEW s \in Sessions, SendTerm(s) \/ TermTimesOut(s)
        PROVE  sig'[p] = "none"
    BY <2>1, <2>3 DEF SendTerm, TermTimesOut, Targets, Live
  <2>4. ASSUME NEW q \in Servers, Exit(q)
        PROVE  sig'[p] = "none"
    BY <2>1, <2>4 DEF Exit, TypeOK
  <2>5. CASE \E s \in Sessions : Step(s) \/ Quit(s) \/ \E c \in Commands[s] : Begin(s, c[1], c[2])
    BY <2>2, <2>3, <2>5 DEF Step, Probe, Resident, TermOver, KillOver, WiredFloor, RefuseStart,
                            Launch, Poll, Ask, Quit, Begin, serverVars
  <2>6. CASE Machine
    BY <2>2, <2>4, <2>6 DEF Machine, Bind, Obey, Crash, Wedge, Recover, Load, Release, Become
  <2>7. CASE UNCHANGED vars
    BY <2>2, <2>7 DEF vars, serverVars
  <2> QED
    BY <2>5, <2>6, <2>7 DEF Next
<1> QED
  BY <1>1 DEF Unsignalled

LEMMA StepKeepsStopsOnly ==
  ASSUME TypeOK, StopsOnly, [Next]_vars
  PROVE  StopsOnly'
<1> DEFINE Fine(t) == op'[t] = "stop" => pc'[t] \in {"signal", "term", "kill", "floor"}
<1>1. ASSUME NEW t \in Sessions, UNCHANGED <<op, pc>>
      PROVE  Fine(t)
  BY <1>1 DEF StopsOnly
<1>2. ASSUME NEW s \in Sessions, NEW place \in {"signal", "term", "kill", "floor"}, RunOn(s, place)
      PROVE  Fine(s)
  BY <1>2 DEF RunOn, Goto, TypeOK
<1>3. ASSUME NEW s \in Sessions, NEW r, Return(s, r)
      PROVE  Fine(s)
  BY <1>3 DEF Return, Goto, TypeOK
<1>4. ASSUME NEW s \in Sessions, op[s] # "stop", UNCHANGED op
      PROVE  Fine(s)
  BY <1>4
<1>5. ASSUME NEW s \in Sessions, Step(s)
      PROVE  Fine(s)
  <2>1. CASE SendTerm(s) \/ TermOver(s) \/ TermTimesOut(s) \/ KillOver(s)
    BY <1>2, <2>1 DEF SendTerm, TermOver, TermTimesOut, KillOver
  <2>2. CASE WiredFloor(s)
    BY <1>3, <1>4, <2>2 DEF WiredFloor, AfterStop, RunOn
  <2>3. ASSUME pc[s] \notin {"signal", "term", "kill", "floor"}
        PROVE  op[s] # "stop"
    BY <2>3 DEF StopsOnly
  <2>4. CASE Probe(s) \/ RefuseStart(s) \/ Launch(s) \/ Poll(s)
    BY <1>3, <1>4, <2>3, <2>4 DEF Probe, RefuseStart, Launch, Poll, RunOn
  <2>5. CASE Resident(s)
    BY <1>3, <1>4, <2>3, <2>5 DEF Resident, RunOn
  <2>6. CASE Ask(s)
    BY <1>3, <1>4, <2>3, <2>6 DEF Ask
  <2> QED
    BY <1>5, <2>1, <2>2, <2>4, <2>5, <2>6 DEF Step
<1>6. ASSUME NEW s \in Sessions, NEW o \in Ops, NEW m \in Models, Begin(s, o, m), NEW t \in Sessions
      PROVE  Fine(t)
  BY <1>6 DEF Begin, Goto, FirstStep, StopsOnly, TypeOK
<1>7. ASSUME NEW s \in Sessions, Quit(s), NEW t \in Sessions
      PROVE  Fine(t)
  BY <1>7 DEF Quit, Return, Goto, StopsOnly, TypeOK
<1>8. ASSUME Machine \/ UNCHANGED vars
      PROVE  UNCHANGED <<op, pc>>
  BY <1>8 DEF Machine, Bind, Obey, Crash, Wedge, Recover, Load, Release, Become, Exit, vars, sessionVars
<1>9. ASSUME NEW s \in Sessions, Step(s), NEW t \in Sessions
      PROVE  Fine(t)
  BY <1>5, <1>9, OthersStay DEF StopsOnly
<1>10. \A t \in Sessions : Fine(t)
  BY <1>1, <1>6, <1>7, <1>8, <1>9, CommandParts DEF Next
<1> QED
  BY <1>10 DEF StopsOnly

LEMMA StepKeepsCalmInv ==
  ASSUME CalmInv, [Next]_vars
  PROVE  CalmInv'
  BY StepKeepsTypes, StepKeepsUnsignalled, StepKeepsStopsOnly, StepStaysCalm DEF CalmInv

LEMMA InitIsCalm ==
  ASSUME Init
  PROVE  CalmInv
<1>1. Live = {} /\ wired = {} /\ \A p \in Servers : state[p] = "unborn" /\ sig[p] = "none"
  BY DEF Init, Live
<1>2. \A s \in Sessions : pc[s] = "idle" /\ op[s] = "none"
  BY DEF Init
<1>3. OneServer /\ Settled("idle")
  BY <1>1 DEF OneServer, Settled
<1> QED
  BY <1>1, <1>2, <1>3, InitTypes DEF CalmInv, Calm, Alone, Unsignalled, StopsOnly

\* As long as nothing disturbs, two models are never in wired memory at a time.
THEOREM OneModelIsWired == Spec => []OneModelWired
<1>1. CalmInv => OneModelWired
  <2>1. ASSUME \A p, q \in wired : p = q
        PROVE  Cardinality(wired) <= 1
    <3>1. CASE wired = {}
      BY <3>1, FS_EmptySet
    <3>2. CASE \E p \in wired : wired = {p}
      <4>1. PICK p \in wired : wired = {p}
        BY <3>2
      <4>2. Cardinality({p}) = 1
        BY FS_Singleton
      <4> QED
        BY <4>1, <4>2
    <3> QED
      BY <2>1, <3>1, <3>2
  <2> QED
    BY <2>1 DEF CalmInv, Calm, OneServer, OneModelWired
<1> QED
  BY <1>1, InitIsCalm, StepKeepsCalmInv, PTL DEF Spec

\* As long as nothing disturbs, an operation that returns a model leaves the one server
\* that serves it, and a stop leaves none and no memory held.
THEOREM UndisturbedOperationsAreRight == Spec => UndisturbedIsRight
<1> DEFINE Right(s) ==
      /\ result'[s] \in Models => \E p \in Servers :
                                    /\ Live' = {p} /\ state'[p] = "up"
                                    /\ model'[p] = result'[s] /\ result'[s] = want[s]
      /\ op[s] = "stop" => Live' = {} /\ wired' = {}
<1>1. ASSUME CalmInv, CalmInv', [Next]_vars, NEW s \in Sessions, Returns(s), ~disturbed'
      PROVE  Right(s)
  <2> USE DEF CalmInv
  <2>1. Calm
    BY <1>1, StaysDisturbed
  <2>2. Settled(pc[s]) /\ OwnRuns(s) /\ OneServer
    BY <1>1, <2>1 DEF Calm, Returns
  <2>3. Step(s)
    <3>1. ASSUME NEW t \in Sessions, Step(t)
          PROVE  t = s
      BY <1>1, <3>1, OthersStay DEF Returns
    <3>2. ASSUME NEW t \in Sessions, NEW o \in Ops, NEW m \in Models, Begin(t, o, m)
          PROVE  FALSE
      BY <1>1, <3>2 DEF Begin, Disturbing, Busy, Returns
    <3>3. ASSUME NEW t \in Sessions, Quit(t)
          PROVE  FALSE
      BY <1>1, <3>3 DEF Quit, Disturbing
    <3>4. ASSUME Machine \/ UNCHANGED vars
          PROVE  FALSE
      <4>1. pc' = pc
        BY <3>4 DEF Machine, Bind, Obey, Crash, Wedge, Recover, Load, Release, Become, Exit,
                    vars, sessionVars
      <4> QED
        BY <1>1, <4>1 DEF Returns
    <3> QED
      BY <1>1, <3>1, <3>2, <3>3, <3>4, CommandParts DEF Next
  <2>4. ASSUME NEW place \in Places \ {"idle"}
        PROVE  ~RunOn(s, place) /\ ~Goto(s, place)
    BY <1>1, <2>4 DEF RunOn, Goto, Returns, TypeOK
  <2>5. ASSUME NEW r, Return(s, r)
        PROVE  result'[s] = r
    BY <1>1, <2>5 DEF Return, TypeOK
  <2>6. "none" \notin Models
    BY ConstantsAssumption
  <2>7. ASSUME UNCHANGED serverVars
        PROVE  Live' = Live /\ UNCHANGED <<state, model, wired>>
    BY <2>7 DEF serverVars, Live
  <2>8. CASE Resident(s)
    <3>1. Found(s) /\ Return(s, want[s]) /\ UNCHANGED serverVars
      BY <2>4, <2>8, PlacesNamed DEF Resident
    <3>2. PICK p \in Live : model[p] = want[s]
      BY <3>1 DEF Found
    <3>3. Live = {p} /\ state[p] = "up" /\ p \in Servers
      BY <2>2, <2>8, <3>2 DEF Resident, Settled, OneServer, Live
    <3>4. op[s] # "stop"
      BY <1>1, <2>8 DEF Resident, StopsOnly
    <3> QED
      BY <2>5, <2>7, <3>1, <3>2, <3>3, <3>4
  <2>9. CASE Ask(s)
    <3>1. Answers /\ Return(s, want[s]) /\ UNCHANGED serverVars
      BY <1>1, <2>4, <2>9, PlacesNamed DEF Ask, Disturbing
    <3>2. PICK p \in Live : state[p] = "up"
      BY <3>1 DEF Answers, Live
    <3>3. Live = {p} /\ p \in Servers /\ model[p] = want[s]
      BY <2>2, <2>9, <3>2 DEF Ask, OneServer, OwnRuns, Live
    <3>4. op[s] # "stop"
      BY <1>1, <2>9 DEF Ask, StopsOnly
    <3> QED
      BY <2>5, <2>7, <3>1, <3>2, <3>3, <3>4
  <2>10. CASE WiredFloor(s)
    <3>1. Return(s, "none") /\ UNCHANGED serverVars /\ wired = {} /\ Live = {}
      BY <1>1, <2>2, <2>4, <2>10, PlacesNamed DEF WiredFloor, AfterStop, Disturbing, Settled
    <3> QED
      BY <2>5, <2>6, <2>7, <3>1
  <2>11. CASE RefuseStart(s) \/ Poll(s)
    <3>1. Return(s, "none")
      BY <2>4, <2>11, PlacesNamed DEF RefuseStart, Poll
    <3>2. op[s] # "stop"
      BY <1>1, <2>11 DEF RefuseStart, Poll, StopsOnly
    <3> QED
      BY <2>5, <2>6, <3>1, <3>2
  <2>12. CASE Probe(s) \/ SendTerm(s) \/ TermOver(s) \/ TermTimesOut(s) \/ KillOver(s) \/ Launch(s)
    BY <2>4, <2>12, PlacesNamed DEF Probe, SendTerm, TermOver, TermTimesOut, KillOver, Launch
  <2> QED
    BY <2>3, <2>8, <2>9, <2>10, <2>11, <2>12 DEF Step
<1>2. CalmInv /\ CalmInv' /\ [Next]_vars =>
        [\A s \in Sessions : Returns(s) /\ ~disturbed' => Right(s)]_vars
  BY <1>1
<1> QED
  BY <1>2, InitIsCalm, StepKeepsCalmInv, PTL DEF Spec, UndisturbedIsRight

-----------------------------------------------------------------------------
\* The steps the operation of a session may still take: its waits are counted by what is
\* left of them, and every place leads only to later ones.
StepsLeft(s) ==
  CASE pc[s] = "idle" -> 0
    [] pc[s] = "ask" -> 2 * tries[s] + 1
    [] pc[s] = "poll" -> 2 * tries[s] + 2
    [] pc[s] = "start" -> 2 * Tries + 3
    [] pc[s] = "floor" -> 2 * Tries + 4
    [] pc[s] = "kill" -> 2 * Tries + 5
    [] pc[s] = "term" -> 2 * Tries + 6
    [] pc[s] = "signal" -> 2 * Tries + 7
    [] pc[s] = "resident" -> 2 * Tries + 8
    [] pc[s] = "compare" -> 2 * Tries + 9
    [] pc[s] = "probe" -> 2 * Tries + 10

\* While an operation runs, each of its steps brings its end nearer, whatever it finds
\* and whatever the servers and the other sessions do in between, which never puts it off.
StepsShorten ==
  [][\A s \in Sessions : pc[s] # "idle" =>
       /\ StepsLeft(s)' <= StepsLeft(s)
       /\ Step(s) \/ Quit(s) => StepsLeft(s)' < StepsLeft(s)]_vars

\* What StepsLeft is at each place, before a step and after it.
LEMMA Left ==
  ASSUME NEW s \in Sessions
  PROVE  /\ (pc[s] = "idle" => StepsLeft(s) = 0)
         /\ (pc[s] = "ask" => StepsLeft(s) = 2 * tries[s] + 1)
         /\ (pc[s] = "poll" => StepsLeft(s) = 2 * tries[s] + 2)
         /\ (pc[s] = "start" => StepsLeft(s) = 2 * Tries + 3)
         /\ (pc[s] = "floor" => StepsLeft(s) = 2 * Tries + 4)
         /\ (pc[s] = "kill" => StepsLeft(s) = 2 * Tries + 5)
         /\ (pc[s] = "term" => StepsLeft(s) = 2 * Tries + 6)
         /\ (pc[s] = "signal" => StepsLeft(s) = 2 * Tries + 7)
         /\ (pc[s] = "resident" => StepsLeft(s) = 2 * Tries + 8)
         /\ (pc[s] = "compare" => StepsLeft(s) = 2 * Tries + 9)
         /\ (pc[s] = "probe" => StepsLeft(s) = 2 * Tries + 10)
  BY DEF StepsLeft

LEMMA LeftNext ==
  ASSUME NEW s \in Sessions
  PROVE  /\ (pc'[s] = "idle" => StepsLeft(s)' = 0)
         /\ (pc'[s] = "ask" => StepsLeft(s)' = 2 * tries'[s] + 1)
         /\ (pc'[s] = "poll" => StepsLeft(s)' = 2 * tries'[s] + 2)
         /\ (pc'[s] = "start" => StepsLeft(s)' = 2 * Tries + 3)
         /\ (pc'[s] = "floor" => StepsLeft(s)' = 2 * Tries + 4)
         /\ (pc'[s] = "kill" => StepsLeft(s)' = 2 * Tries + 5)
         /\ (pc'[s] = "term" => StepsLeft(s)' = 2 * Tries + 6)
         /\ (pc'[s] = "signal" => StepsLeft(s)' = 2 * Tries + 7)
         /\ (pc'[s] = "resident" => StepsLeft(s)' = 2 * Tries + 8)
         /\ (pc'[s] = "compare" => StepsLeft(s)' = 2 * Tries + 9)
         /\ (pc'[s] = "probe" => StepsLeft(s)' = 2 * Tries + 10)
  BY DEF StepsLeft

\* What the arithmetic below needs of the types.
LEMMA Counted ==
  ASSUME TypeOK, NEW s \in Sessions
  PROVE  /\ Tries \in Int /\ Tries >= 1 /\ pc[s] \in Places
         /\ tries[s] \in Int /\ tries[s] >= 0 /\ tries[s] <= Tries
  BY ConstantsAssumption DEF TypeOK

\* The end of an operation is the least there is.
LEMMA EndIsLeast ==
  ASSUME TypeOK, NEW s \in Sessions, pc[s] # "idle", pc'[s] = "idle"
  PROVE  StepsLeft(s)' < StepsLeft(s)
<1>1. StepsLeft(s)' = 0
  BY LeftNext
<1> QED
  BY <1>1, Left, Counted DEF Places

\* Where a step takes the session it is a step of.
LEMMA StepLeads ==
  ASSUME TypeOK, NEW s \in Sessions, Step(s)
  PROVE  /\ pc[s] # "idle"
         /\ \/ pc'[s] = "idle"
            \/ pc[s] = "probe" /\ pc'[s] \in {"compare", "start"}
            \/ pc[s] = "compare" /\ pc'[s] = "resident"
            \/ pc[s] = "resident" /\ pc'[s] = "signal"
            \/ pc[s] = "signal" /\ pc'[s] = "term"
            \/ pc[s] = "term" /\ pc'[s] \in {"floor", "kill"}
            \/ pc[s] = "kill" /\ pc'[s] = "floor"
            \/ pc[s] = "floor" /\ pc'[s] = "start"
            \/ pc[s] = "start" /\ pc'[s] = "poll" /\ tries'[s] = Tries
            \/ pc[s] = "poll" /\ pc'[s] = "ask" /\ tries'[s] = tries[s]
            \/ pc[s] = "ask" /\ pc'[s] = "poll" /\ tries'[s] = tries[s] - 1
<1>1. ASSUME NEW place, RunOn(s, place)
      PROVE  pc'[s] = place /\ tries'[s] = tries[s]
  BY <1>1 DEF RunOn, Goto, TypeOK
<1>2. ASSUME NEW r, Return(s, r)
      PROVE  pc'[s] = "idle"
  BY <1>2 DEF Return, Goto, TypeOK
<1>3. CASE Probe(s)
  BY <1>1, <1>3 DEF Probe
<1>4. CASE Resident(s)
  <2>1. CASE Return(s, want[s])
    BY <1>2, <1>4, <2>1 DEF Resident
  <2>2. CASE RunOn(s, IF pc[s] = "compare" THEN "resident" ELSE "signal")
    BY <1>1, <1>4, <2>2 DEF Resident
  <2> QED
    BY <1>4, <2>1, <2>2 DEF Resident
<1>5. CASE SendTerm(s) \/ TermOver(s) \/ TermTimesOut(s) \/ KillOver(s)
  BY <1>1, <1>5 DEF SendTerm, TermOver, TermTimesOut, KillOver
<1>6. CASE WiredFloor(s) \/ RefuseStart(s) \/ Poll(s)
  BY <1>1, <1>2, <1>6 DEF WiredFloor, AfterStop, RefuseStart, Poll
<1>7. CASE Launch(s)
  BY <1>7 DEF Launch, Goto, TypeOK
<1>8. CASE Ask(s)
  <2>1. CASE Return(s, want[s]) \/ Return(s, "none")
    BY <1>2, <1>8, <2>1 DEF Ask
  <2>2. CASE Goto(s, "poll") /\ tries' = [tries EXCEPT ![s] = @ - 1]
    BY <1>8, <2>2 DEF Ask, Goto, TypeOK
  <2> QED
    BY <1>8, <2>1, <2>2 DEF Ask
<1> QED
  BY <1>3, <1>4, <1>5, <1>6, <1>7, <1>8 DEF Step

LEMMA StepShortens ==
  ASSUME TypeOK, NEW s \in Sessions, Step(s)
  PROVE  StepsLeft(s)' < StepsLeft(s)
<1>1. pc[s] # "idle"
  BY StepLeads
<1>2. CASE pc'[s] = "idle"
  BY <1>1, <1>2, EndIsLeast
<1>3. CASE pc[s] = "start" /\ pc'[s] = "poll" /\ tries'[s] = Tries
  BY <1>3, Left, LeftNext, Counted
<1>4. CASE pc[s] = "poll" /\ pc'[s] = "ask" /\ tries'[s] = tries[s]
  BY <1>4, Left, LeftNext, Counted
<1>5. CASE pc[s] = "ask" /\ pc'[s] = "poll" /\ tries'[s] = tries[s] - 1
  BY <1>5, Left, LeftNext, Counted
<1>6. CASE pc[s] \in {"probe", "compare", "resident"}
  BY <1>2, <1>6, StepLeads, Left, LeftNext, Counted
<1>7. CASE pc[s] \in {"signal", "term", "kill", "floor"}
  BY <1>2, <1>7, StepLeads, Left, LeftNext, Counted
<1> QED
  BY <1>1, <1>2, <1>3, <1>4, <1>5, <1>6, <1>7, StepLeads

\* Nothing another session or a server does moves a session, or costs it a try.
LEMMA OthersMoveNothing ==
  ASSUME TypeOK, NEW s \in Sessions, pc[s] # "idle", [Next]_vars, ~Step(s), ~Quit(s)
  PROVE  pc'[s] = pc[s] /\ tries'[s] = tries[s]
<1>1. CASE UNCHANGED vars
  BY <1>1 DEF vars, sessionVars
<1>2. CASE Machine
  BY <1>2
  DEF Machine, Bind, Obey, Crash, Wedge, Recover, Load, Release, Become, Exit, sessionVars
<1>3. ASSUME NEW t \in Sessions, NEW o, NEW m, Begin(t, o, m)
      PROVE  pc'[s] = pc[s] /\ tries'[s] = tries[s]
  BY <1>3 DEF Begin, Goto, TypeOK
<1>4. ASSUME NEW t \in Sessions, Quit(t)
      PROVE  pc'[s] = pc[s] /\ tries'[s] = tries[s]
  BY <1>4 DEF Quit, Return, Goto, TypeOK
<1>5. ASSUME NEW t \in Sessions, Step(t)
      PROVE  pc'[s] = pc[s] /\ tries'[s] = tries[s]
  <2>1. pc'[s] = pc[s]
    BY <1>5, OthersStay
  <2>2. tries' = tries \/ \E x : tries' = [tries EXCEPT ![t] = x]
    BY <1>5
    DEF Step, Probe, Resident, SendTerm, TermOver, TermTimesOut, KillOver, WiredFloor,
        AfterStop, RefuseStart, Launch, Poll, Ask, RunOn, Return
  <2> QED
    BY <1>5, <2>1, <2>2 DEF TypeOK
<1> QED
  BY <1>1, <1>2, <1>3, <1>4, <1>5 DEF Next

\* An operation comes nearer to its end with every step, even with a server that hangs
\* for ever: its polls are counted down and no wait is entered again.  With the fairness
\* of FairSpec that is why OperationsEnd holds.
THEOREM Shortens == Spec => StepsShorten
<1>1. TypeOK /\ [Next]_vars =>
        [\A s \in Sessions : pc[s] # "idle" =>
           /\ StepsLeft(s)' <= StepsLeft(s)
           /\ Step(s) \/ Quit(s) => StepsLeft(s)' < StepsLeft(s)]_vars
  <2> SUFFICES ASSUME TypeOK, [Next]_vars, NEW s \in Sessions, pc[s] # "idle"
               PROVE  /\ StepsLeft(s)' <= StepsLeft(s)
                      /\ Step(s) \/ Quit(s) => StepsLeft(s)' < StepsLeft(s)
    OBVIOUS
  <2>1. StepsLeft(s) \in Int
    BY Left, Counted DEF Places
  <2>2. StepsLeft(s)' \in Int
    <3>1. TypeOK'
      BY StepKeepsTypes
    <3>2. pc'[s] \in Places /\ tries'[s] \in Int /\ Tries \in Int
      BY <3>1, ConstantsAssumption DEF TypeOK
    <3> QED
      BY <3>2, LeftNext DEF Places
  <2>3. CASE Step(s)
    BY <2>1, <2>2, <2>3, StepShortens
  <2>4. CASE Quit(s)
    <3>1. pc'[s] = "idle"
      BY <2>4 DEF Quit, Return, Goto, TypeOK
    <3> QED
      BY <2>1, <2>2, <3>1, EndIsLeast
  <2>5. CASE ~Step(s) /\ ~Quit(s)
    <3>1. pc'[s] = pc[s] /\ tries'[s] = tries[s]
      BY <2>5, OthersMoveNothing
    <3>2. StepsLeft(s)' = StepsLeft(s)
      BY <3>1 DEF StepsLeft
    <3> QED
      BY <2>1, <2>5, <3>2
  <2> QED
    BY <2>3, <2>4, <2>5
<1> QED
  BY <1>1, TypeCorrect, PTL DEF Spec, StepsShorten

\* No operation takes more steps than that of an ensure_up that finds another model
\* resident, stops it and polls as often as it may.
THEOREM StepsBounded ==
  Spec => [](\A s \in Sessions : StepsLeft(s) \in Int /\ StepsLeft(s) <= 2 * Tries + 10)
<1>1. TypeOK => \A s \in Sessions : StepsLeft(s) \in Int /\ StepsLeft(s) <= 2 * Tries + 10
  BY Left, Counted DEF Places
<1> QED
  BY <1>1, TypeCorrect, PTL
=============================================================================
