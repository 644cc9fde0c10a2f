-------------------------- MODULE TurnBudgetProofs ---------------------------
(***************************************************************************)
(* Proofs, for every set of batches and every value of the limits, of the   *)
(* properties that TurnBudget states of the turn's clock.                   *)
(***************************************************************************)
EXTENDS TurnBudget, TLAPS

\* A call is only put to the user or run when one is left, and only for a batch.
CallInv ==
  /\ phase \in {"calls", "confirming", "tool"} => batch \in Batches
  /\ phase \in {"confirming", "tool"} => left # <<>>

\* The pause is what has been waited for confirmations until now, bar the one
\* that is going on.
Waited == now - since
ClockInv ==
  /\ pause <= since
  /\ worked = Charged - (IF phase = "confirming" THEN Waited ELSE 0)

TypeInv == TypeOK /\ CallInv /\ ClockInv

LEMMA CallsType ==
  ASSUME NEW b \in Batches
  PROVE  Calls[b] \in Seq(Kinds) /\ Calls[b] # <<>> /\ Len(Calls[b]) \in Nat \ {0}
  BY ConstantsAssumption

LEMMA EmptyType == <<>> \in Seq(Kinds)
  OBVIOUS

LEMMA CountedType ==
  ASSUME NEW counts \in [Batches -> Nat], NEW S
  PROVE  Counted(counts, S) \in [Batches -> Nat]
  BY DEF Counted

LEMMA TailType ==
  ASSUME NEW s \in Seq(Kinds), s # <<>>
  PROVE  Tail(s) \in Seq(Kinds) /\ Len(Tail(s)) = Len(s) - 1 /\ Len(s) \in Nat \ {0}
  OBVIOUS

\* A grant keeps the budget's variables to their types, whoever makes it.
LEMMA GrantType ==
  ASSUME TypeOK, GrantBudget
  PROVE  budget' \in Nat /\ grants' \in Nat /\ progress' \in Nat /\ earned' \in BOOLEAN
  BY ConstantsAssumption, SMTT(30) DEF TypeOK, GrantBudget, Later, Charged

\* What a batch that is issued is paid, and what a tool that returns does to the plan.
LEMMA IssuePays ==
  ASSUME NEW b \in Batches, Issue(b)
  PROVE  paid' = IF b \in seen THEN paid ELSE [paid EXCEPT ![b] = paid[b] + 1]
  BY DEF Issue

LEMMA IssueType ==
  ASSUME TypeInv, NEW b \in Batches, Issue(b)
  PROVE  TypeInv'
<1>1. /\ phase' = "calls" /\ since' = now /\ outcome' = outcome /\ phase = "streaming"
      /\ batch' = b /\ left' = Calls[b] /\ rescuing' = FALSE /\ doneBefore' = done
      /\ iter' = iter /\ now' = now /\ pause' = pause /\ worked' = worked /\ done' = done
      /\ seen' = seen /\ forgivenReads' = forgivenReads /\ forgivenNudged' = forgivenNudged
  BY DEF Issue, Go, Replied, At, clockVars
<1>2. paid' \in [Batches -> Nat]
  <2>1. paid \in [Batches -> Nat] /\ [paid EXCEPT ![b] = paid[b] + 1] \in [Batches -> Nat]
    BY DEF TypeInv, TypeOK
  <2>2. paid' = IF b \in seen THEN paid ELSE [paid EXCEPT ![b] = paid[b] + 1]
    BY IssuePays
  <2> QED
    BY <2>1, <2>2, Zenon
<1>3. budget' \in Nat /\ grants' \in Nat /\ progress' \in Nat /\ earned' \in BOOLEAN
  <2>1. CASE b \in seen
    BY <2>1 DEF Issue, budgetVars, TypeInv, TypeOK
  <2>2. CASE b \notin seen
    BY <2>2, GrantType DEF Issue, TypeInv
  <2> QED
    BY <2>1, <2>2
<1>4. left' \in Seq(Kinds)
  BY <1>1, CallsType
<1>5. /\ now' \in Nat /\ since' \in 0..now' /\ pause' \in 0..now' /\ worked' \in Nat
      /\ pause' <= since' /\ worked' = now' - pause'
  BY <1>1 DEF TypeInv, TypeOK, ClockInv, Charged
<1>6. TypeOK'
  BY <1>1, <1>2, <1>3, <1>4, <1>5 DEF TypeInv, TypeOK, Phases
<1>7. CallInv' /\ ClockInv'
  BY <1>1, <1>5 DEF CallInv, ClockInv, Charged
<1> QED
  BY <1>6, <1>7 DEF TypeInv

LEMMA ReturnedPlan ==
  ASSUME TypeOK, NEW ok \in BOOLEAN, Returned(ok)
  PROVE  done' \in 0..MaxTasks
  BY ConstantsAssumption DEF TypeOK, Returned

LEMMA InitTypes ==
  ASSUME Init
  PROVE  TypeInv
<1>1. left \in Seq(Kinds)
  BY EmptyType DEF Init
<1>2. iter \in 0..MaxIterations /\ budget \in Nat /\ doneBefore \in 0..MaxTasks
  BY ConstantsAssumption DEF Init
<1>3. /\ paid \in [Batches -> Nat] /\ forgivenReads \in [Batches -> Nat]
      /\ forgivenNudged \in [Batches -> Nat]
  BY DEF Init
<1>4. /\ now \in Nat /\ since \in 0..now /\ pause \in 0..now /\ worked \in Nat
      /\ progress \in Nat /\ grants \in Nat
  BY DEF Init
<1>5. TypeOK
  BY <1>1, <1>2, <1>3, <1>4 DEF Init, TypeOK, Phases, Outcomes
<1>6. CallInv
  BY DEF Init, CallInv
<1>7. ClockInv
  BY DEF Init, ClockInv, Charged
<1> QED
  BY <1>5, <1>6, <1>7 DEF TypeInv

\* Every variable keeps to the values the loop's own ones can have, and worked
\* time is what the clock shows less the pauses.
LEMMA TypeAndClock == Spec => []TypeInv
<1>1. Init => TypeInv
  BY InitTypes
<1> USE DEF TypeInv, TypeOK, CallInv, ClockInv, Charged, Waited
<1>2. TypeInv /\ [Next]_vars => TypeInv'
  <2> SUFFICES ASSUME TypeInv, [Next]_vars PROVE TypeInv'
    OBVIOUS
  <2> USE DEF clockVars, budgetVars, guardVars, callVars, Phases, Outcomes, At, Running, Go, Stop
  <2>1. CASE Tick
    BY <2>1 DEF Tick, Waiting
  <2>2. CASE CapReached
    BY <2>2 DEF CapReached
  <2>3. CASE ClockStop
    BY <2>3, ConstantsAssumption DEF ClockStop
  <2>4. CASE AskModel
    <3>1. forgivenReads' \in [Batches -> Nat]
      BY <2>4, CountedType DEF AskModel
    <3>2. iter' \in 0..MaxIterations
      BY <2>4, ConstantsAssumption DEF AskModel
    <3> QED
      BY <2>4, <3>1, <3>2 DEF AskModel
  <2>5. CASE Headers
    BY <2>5 DEF Headers
  <2>6. CASE CutOff
    BY <2>6 DEF CutOff, TimeIsUp
  <2>7. CASE Rescue
    BY <2>7, CallsType, ConstantsAssumption DEF Rescue, TimeIsUp
  <2>8. CASE Nudge
    <3>1. forgivenNudged' \in [Batches -> Nat]
      BY <2>8, CountedType DEF Nudge
    <3> QED
      BY <2>8, <3>1 DEF Nudge, Replied
  <2>9. ASSUME NEW b \in Batches, Issue(b) PROVE TypeInv'
    BY <2>9, IssueType
  <2>10. ASSUME NEW b \in Batches, TurnAway(b) PROVE TypeInv'
    BY <2>10 DEF TurnAway, Replied
  <2>11. CASE Refuse
    BY <2>11, TailType DEF Refuse, Pending
  <2>12. CASE Ask
    BY <2>12 DEF Ask, Pending
  <2>13. CASE Start
    BY <2>13 DEF Start, Pending
  <2>14. ASSUME NEW yes \in BOOLEAN, Confirmed(yes) PROVE TypeInv'
    <3>1. left' \in Seq(Kinds)
      BY <2>14, TailType DEF Confirmed
    <3>2. pause' = pause + (now - since) /\ now' = now /\ since' = now /\ worked' = worked
      BY <2>14 DEF Confirmed, Pause
    <3>3. phase = "confirming" /\ phase' \in {"tool", "calls"} /\ (phase' = "tool" => left' = left)
      BY <2>14 DEF Confirmed
    <3> QED
      BY <2>14, <3>1, <3>2, <3>3 DEF Confirmed
  <2>15. ASSUME NEW ok \in BOOLEAN, Returned(ok) PROVE TypeInv'
    <3>1. left' \in Seq(Kinds)
      BY <2>15, TailType DEF Returned
    <3>2. budget' \in Nat /\ grants' \in Nat /\ progress' \in Nat /\ earned' \in BOOLEAN
      BY <2>15, GrantType DEF Returned
    <3>3. done' \in 0..MaxTasks
      BY <2>15, ReturnedPlan
    <3> QED
      BY <2>15, <3>1, <3>2, <3>3 DEF Returned
  <2>16. CASE FinishBatch
    <3>1. budget' \in Nat /\ grants' \in Nat /\ progress' \in Nat /\ earned' \in BOOLEAN
      BY <2>16, GrantType DEF FinishBatch
    <3> QED
      BY <2>16, <3>1 DEF FinishBatch
  <2>17. CASE RescueOver
    BY <2>17 DEF RescueOver
  <2>18. CASE EndElsewhere
    BY <2>18 DEF EndElsewhere
  <2>19. CASE Interrupt
    BY <2>19 DEF Interrupt
  <2>20. CASE UNCHANGED vars
    BY <2>20 DEF vars
  <2> QED
    BY <2>1, <2>2, <2>3, <2>4, <2>5, <2>6, <2>7, <2>8, <2>9, <2>10, <2>11, <2>12, <2>13,
       <2>14, <2>15, <2>16, <2>17, <2>18, <2>19, <2>20 DEF Next
<1> QED
  BY <1>1, <1>2, PTL DEF Spec

\* Every variable keeps to the values the loop's own ones can have.
THEOREM TypeCorrect == Spec => []TypeOK
<1>1. TypeInv => TypeOK
  BY DEF TypeInv
<1> QED
  BY <1>1, TypeAndClock, PTL

-----------------------------------------------------------------------------
\* What the rest of the proofs takes from the type invariant.
LEMMA ClockFacts ==
  ASSUME TypeInv
  PROVE  /\ now \in Nat /\ since \in Nat /\ pause \in Nat /\ worked \in Nat
         /\ budget \in Nat /\ grants \in Nat /\ progress \in Nat
         /\ earned \in BOOLEAN /\ Charged \in Nat
         /\ pause <= since /\ since <= now
         /\ worked <= Charged /\ (phase # "confirming" => worked = Charged)
         /\ (phase = "confirming" => worked = since - pause)
         /\ Grant \in Nat /\ MaxWallclock \in Nat
  BY ConstantsAssumption DEF TypeInv, TypeOK, ClockInv, Charged, Waited

-----------------------------------------------------------------------------
\* The budget.  Progress is never dated after the work done, and the budget counts
\* as extended exactly when it is longer than the configured one.
GrantsInv ==
  /\ progress <= worked
  /\ grants = 0 => budget = MaxWallclock
  /\ grants # 0 => budget > MaxWallclock /\ Grant > 0 /\ earned
BudgetInv == GrantsInv /\ BudgetFollowsProgress

LEMMA GrantExtends ==
  ASSUME TypeInv, BudgetInv, phase # "confirming", GrantBudget, worked' = worked
  PROVE  BudgetInv'
<1>1. progress' = worked /\ earned' = TRUE
  BY ClockFacts DEF GrantBudget
<1>2. CASE Grant > 0
  <2>1. budget' = IF worked + Grant > budget THEN worked + Grant ELSE budget
    BY <1>2, ClockFacts DEF GrantBudget, Later
  <2>2. grants' = IF worked + Grant > budget THEN grants + 1 ELSE grants
    BY <1>2, ClockFacts DEF GrantBudget
  <2> QED
    BY <1>1, <1>2, <2>1, <2>2, ClockFacts DEF BudgetInv, GrantsInv, BudgetFollowsProgress
<1>3. CASE ~(Grant > 0)
  BY <1>1, <1>3, ClockFacts DEF GrantBudget, BudgetInv, GrantsInv, BudgetFollowsProgress
<1> QED
  BY <1>2, <1>3

LEMMA BudgetStands ==
  ASSUME TypeInv, BudgetInv, UNCHANGED budgetVars, worked' \in Nat, worked' >= worked
  PROVE  BudgetInv'
  BY ClockFacts DEF BudgetInv, GrantsInv, BudgetFollowsProgress, budgetVars

LEMMA BudgetStep ==
  ASSUME TypeInv, BudgetInv, [Next]_vars
  PROVE  BudgetInv'
<1> USE DEF clockVars, At
<1>1. CASE Tick
  BY <1>1, BudgetStands, ClockFacts DEF Tick
<1>2. CASE CapReached \/ ClockStop \/ AskModel \/ Headers \/ CutOff \/ Rescue \/ Nudge
  BY <1>2, BudgetStands, ClockFacts DEF CapReached, ClockStop, AskModel, Headers, CutOff, Rescue, Nudge
<1>3. CASE Refuse \/ Ask \/ Start \/ RescueOver \/ EndElsewhere \/ Interrupt
  BY <1>3, BudgetStands, ClockFacts DEF Refuse, Ask, Start, RescueOver, EndElsewhere, Interrupt
<1>4. ASSUME NEW b \in Batches, TurnAway(b) PROVE BudgetInv'
  BY <1>4, BudgetStands, ClockFacts DEF TurnAway
<1>5. ASSUME NEW b \in Batches, Issue(b) PROVE BudgetInv'
  <2>1. worked' = worked /\ phase # "confirming"
    BY <1>5 DEF Issue, Replied
  <2>2. UNCHANGED budgetVars \/ GrantBudget
    BY <1>5 DEF Issue
  <2> QED
    BY <2>1, <2>2, BudgetStands, GrantExtends, ClockFacts
<1>6. ASSUME NEW yes \in BOOLEAN, Confirmed(yes) PROVE BudgetInv'
  BY <1>6, BudgetStands, ClockFacts DEF Confirmed
<1>7. ASSUME NEW ok \in BOOLEAN, Returned(ok) PROVE BudgetInv'
  <2>1. worked' = worked /\ phase # "confirming"
    BY <1>7 DEF Returned
  <2>2. UNCHANGED budgetVars \/ GrantBudget
    BY <1>7 DEF Returned
  <2> QED
    BY <2>1, <2>2, BudgetStands, GrantExtends, ClockFacts
<1>8. CASE FinishBatch
  <2>1. worked' = worked /\ phase # "confirming"
    BY <1>8 DEF FinishBatch
  <2>2. UNCHANGED budgetVars \/ GrantBudget
    BY <1>8 DEF FinishBatch
  <2> QED
    BY <2>1, <2>2, BudgetStands, GrantExtends, ClockFacts
<1>9. CASE UNCHANGED vars
  BY <1>9, BudgetStands, ClockFacts DEF vars
<1> QED
  BY <1>1, <1>2, <1>3, <1>4, <1>5, <1>6, <1>7, <1>8, <1>9 DEF Next

LEMMA BudgetInvariant == Spec => []BudgetInv
<1>1. Init => BudgetInv
  BY ConstantsAssumption DEF Init, BudgetInv, GrantsInv, BudgetFollowsProgress
<1>2. TypeInv /\ BudgetInv /\ [Next]_vars => BudgetInv'
  BY BudgetStep
<1> QED
  BY <1>1, <1>2, TypeAndClock, PTL DEF Spec

\* The budget covers the configured time and, when extension is on, the grant from
\* the latest progress on, and nothing else moves it.
THEOREM TheBudgetFollowsProgress == Spec => []BudgetFollowsProgress
<1>1. BudgetInv => BudgetFollowsProgress
  BY DEF BudgetInv
<1> QED
  BY <1>1, BudgetInvariant, PTL

-----------------------------------------------------------------------------
\* The stops.  While a write cut off by the deadline is landed nothing can extend
\* the budget any more, so it is still used up when the turn ends.
RescueInv ==
  rescuing => /\ phase \in {"calls", "confirming", "tool"}
              /\ worked >= budget
              /\ left \in {<<>>, <<"other">>}
QuietInv == RescueInv /\ OnlyQuietTurnsDie

LEMMA UsedUp ==
  ASSUME TypeInv, BudgetInv
  PROVE  /\ budget >= MaxWallclock
         /\ Grant > 0 /\ earned => budget >= progress + Grant
  BY ClockFacts DEF BudgetInv, BudgetFollowsProgress

\* A step that neither ends the turn nor rescues keeps the two trivially.
LEMMA QuietGoesOn ==
  ASSUME outcome' = "running", rescuing' = FALSE
  PROVE  QuietInv'
  BY DEF QuietInv, RescueInv, OnlyQuietTurnsDie

LEMMA QuietStep ==
  ASSUME TypeInv, BudgetInv, QuietInv, [Next]_vars
  PROVE  QuietInv'
<1> USE DEF At, Running, Go, Stop, callVars, budgetVars, clockVars
<1>1. CASE Tick
  BY <1>1, ClockFacts DEF Tick, QuietInv, RescueInv, OnlyQuietTurnsDie
<1>2. CASE CapReached \/ AskModel \/ Headers \/ Nudge \/ EndElsewhere
  BY <1>2 DEF CapReached, AskModel, Headers, Nudge, Replied, EndElsewhere, QuietInv, RescueInv,
              OnlyQuietTurnsDie
<1>3. CASE ClockStop
  <2>1. rescuing = FALSE \/ rescuing = TRUE
    BY DEF TypeInv, TypeOK
  <2>2. rescuing' = FALSE
    BY <1>3, <2>1 DEF ClockStop, QuietInv, RescueInv
  <2>3. /\ outcome' = (IF grants = 0 THEN "wallclock" ELSE "quiet")
        /\ worked' = worked /\ budget' = budget /\ progress' = progress /\ earned' = earned
        /\ worked > budget
    BY <1>3, ClockFacts DEF ClockStop, Over
  <2> QED
    BY <2>2, <2>3, UsedUp, ClockFacts DEF QuietInv, RescueInv, OnlyQuietTurnsDie, BudgetInv, GrantsInv
<1>4. CASE CutOff
  <2>1. /\ outcome' = "cut" /\ worked' = worked /\ budget' = budget /\ progress' = progress
        /\ earned' = earned /\ worked >= budget /\ rescuing' = rescuing /\ phase = "streaming"
    BY <1>4, ClockFacts DEF CutOff, TimeIsUp
  <2> QED
    BY <2>1, UsedUp, ClockFacts DEF QuietInv, RescueInv, OnlyQuietTurnsDie
<1>5. CASE Rescue
  <2>1. /\ outcome' = "running" /\ worked' = worked /\ budget' = budget /\ worked >= budget
        /\ phase' = "calls" /\ left' = <<"other">>
    BY <1>5, ClockFacts, ConstantsAssumption DEF Rescue, TimeIsUp
  <2> QED
    BY <2>1 DEF QuietInv, RescueInv, OnlyQuietTurnsDie
<1>6. ASSUME NEW b \in Batches, Issue(b) PROVE QuietInv'
  BY <1>6, QuietGoesOn DEF Issue, Replied
<1>7. ASSUME NEW b \in Batches, TurnAway(b) PROVE QuietInv'
  BY <1>7 DEF TurnAway, Replied, QuietInv, RescueInv, OnlyQuietTurnsDie
<1>8. CASE Refuse
  <2>1. left = <<"other">> => Tail(left) = <<>>
    OBVIOUS
  <2> QED
    BY <1>8, <2>1 DEF Refuse, Pending, QuietInv, RescueInv, OnlyQuietTurnsDie
<1>9. CASE Ask \/ Start
  BY <1>9 DEF Ask, Start, Pending, QuietInv, RescueInv, OnlyQuietTurnsDie
<1>10. ASSUME NEW yes \in BOOLEAN, Confirmed(yes) PROVE QuietInv'
  <2>1. left = <<"other">> => Tail(left) = <<>>
    OBVIOUS
  <2>2. /\ outcome' = "running" /\ worked' = worked /\ budget' = budget /\ rescuing' = rescuing
        /\ phase = "confirming" /\ phase' \in {"tool", "calls"}
        /\ left' = left \/ left' = Tail(left)
    BY <1>10 DEF Confirmed
  <2>3. left # <<>>
    BY <2>2 DEF TypeInv, CallInv
  <2> QED
    BY <2>1, <2>2, <2>3 DEF QuietInv, RescueInv, OnlyQuietTurnsDie
<1>11. ASSUME NEW ok \in BOOLEAN, Returned(ok) PROVE QuietInv'
  <2>1. left = <<"other">> => Tail(left) = <<>> /\ Head(left) = "other"
    OBVIOUS
  <2>2. /\ outcome' = "running" /\ worked' = worked /\ rescuing' = rescuing
        /\ phase = "tool" /\ phase' = "calls" /\ left' = Tail(left)
        /\ Head(left) = "other" => budget' = budget
    BY <1>11 DEF Returned
  <2>3. left # <<>>
    BY <2>2 DEF TypeInv, CallInv
  <2> QED
    BY <2>1, <2>2, <2>3 DEF QuietInv, RescueInv, OnlyQuietTurnsDie
<1>12. CASE FinishBatch
  <2>1. rescuing' = FALSE
    BY <1>12 DEF FinishBatch, TypeInv, TypeOK
  <2> QED
    BY <1>12, <2>1, QuietGoesOn DEF FinishBatch
<1>13. CASE RescueOver
  <2>1. /\ outcome' = "cut" /\ worked' = worked /\ budget' = budget /\ progress' = progress
        /\ earned' = earned /\ worked >= budget /\ rescuing' = rescuing /\ phase' = phase
        /\ left' = left
    BY <1>13 DEF RescueOver, QuietInv, RescueInv
  <2> QED
    BY <2>1, UsedUp, ClockFacts DEF QuietInv, RescueInv, OnlyQuietTurnsDie
<1>14. CASE Interrupt
  BY <1>14 DEF Interrupt, QuietInv, RescueInv, OnlyQuietTurnsDie
<1>15. CASE UNCHANGED vars
  BY <1>15 DEF vars, QuietInv, RescueInv, OnlyQuietTurnsDie
<1> QED
  BY <1>1, <1>2, <1>3, <1>4, <1>5, <1>6, <1>7, <1>8, <1>9, <1>10, <1>11, <1>12, <1>13, <1>14, <1>15
  DEF Next

\* Only a turn that goes quiet dies of the clock, and the stop names its cause.
THEOREM OnlyQuietTurnsAreStopped == Spec => []OnlyQuietTurnsDie
<1>1. Init => QuietInv
  BY DEF Init, QuietInv, RescueInv, OnlyQuietTurnsDie
<1>2. TypeInv /\ BudgetInv /\ QuietInv /\ [Next]_vars => QuietInv'
  BY QuietStep
<1>3. QuietInv => OnlyQuietTurnsDie
  BY DEF QuietInv
<1> QED
  BY <1>1, <1>2, <1>3, TypeAndClock, BudgetInvariant, PTL DEF Spec

-----------------------------------------------------------------------------
\* The overrun, wait by wait: what the turn may be over its budget by so far.
Spent(b, n) == (Len(Calls[b]) - n) * MaxTool
OverrunInv ==
  /\ phase = "top" => OverrunBounded
  /\ phase = "opening" => worked <= budget + Waited /\ Waited <= MaxHeaders
  /\ phase = "streaming" => worked <= budget + MaxHeaders /\ (now > since => worked <= budget)
  /\ phase \in {"calls", "confirming", "tool"} =>
       /\ Len(left) <= Len(Calls[batch])
       /\ worked <= budget + Spent(batch, Len(left)) + (IF phase = "tool" THEN Waited ELSE 0)
  /\ phase = "tool" => Waited <= MaxTool

\* The time for one call more.
LEMMA SpentGrows ==
  ASSUME NEW b \in Batches, NEW n \in Nat, n > 0, n <= Len(Calls[b])
  PROVE  /\ Spent(b, n) \in Nat /\ Spent(b, n - 1) = Spent(b, n) + MaxTool
         /\ Spent(b, n) + MaxTool <= LongestWait(b)
<1>1. Len(Calls[b]) \in Nat /\ MaxTool \in Nat
  BY CallsType, ConstantsAssumption
<1>2. \A k, m \in Nat : (k + m) * MaxTool = k * MaxTool + m * MaxTool /\ k * MaxTool \in Nat
  BY <1>1
<1>3. PICK k \in Nat : Len(Calls[b]) = k + n
  <2>1. Len(Calls[b]) - n \in Nat /\ Len(Calls[b]) = (Len(Calls[b]) - n) + n
    BY <1>1
  <2> QED
    BY <2>1
<1>4. Spent(b, n) = k * MaxTool /\ Spent(b, n - 1) = (k + 1) * MaxTool
  BY <1>1, <1>3 DEF Spent
<1>5. (k + 1) * MaxTool = k * MaxTool + MaxTool
  BY <1>1, <1>2
<1>6. LongestWait(b) = (k + 1) * MaxTool + (n - 1) * MaxTool
  <2>1. k + n = (k + 1) + (n - 1) /\ n - 1 \in Nat /\ k + 1 \in Nat
    OBVIOUS
  <2> QED
    BY <1>2, <1>3, <2>1 DEF LongestWait
<1>7. (n - 1) * MaxTool \in Nat /\ k * MaxTool \in Nat
  <2>1. n - 1 \in Nat /\ \A j \in Nat : j * MaxTool \in Nat
    BY <1>1
  <2> QED
    BY <2>1
<1> QED
  BY <1>1, <1>4, <1>5, <1>6, <1>7

LEMMA LongerBudget ==
  \A x, y, spent, time, work \in Nat :
    y >= x /\ work <= x + spent + time => work <= y + (spent + time)
  OBVIOUS

LEMMA SpentBounds ==
  ASSUME NEW b \in Batches
  PROVE  Spent(b, Len(Calls[b])) = 0 /\ Spent(b, 0) = LongestWait(b) /\ LongestWait(b) \in Nat
<1>1. Len(Calls[b]) \in Nat /\ MaxTool \in Nat
  BY CallsType, ConstantsAssumption
<1>2. Len(Calls[b]) * MaxTool \in Nat /\ 0 * MaxTool = 0
  BY <1>1
<1> QED
  BY <1>1, <1>2 DEF Spent, LongestWait

\* In every phase the bound follows.
LEMMA OverrunFollows ==
  ASSUME TypeInv, OverrunInv
  PROVE  OverrunBounded
<1> USE DEF Waited
<1>1. MaxHeaders \in Nat
  BY ConstantsAssumption
<1>2. CASE phase \in {"top", "opening", "streaming"}
  BY <1>1, <1>2, ClockFacts DEF OverrunInv, OverrunBounded
<1>3. CASE phase \in {"calls", "confirming", "tool"}
  <2>1. batch \in Batches /\ Len(left) \in Nat /\ (phase \in {"confirming", "tool"} => Len(left) > 0)
    BY <1>3 DEF TypeInv, CallInv, TypeOK
  <2>2. worked <= budget + LongestWait(batch)
    <3>1. CASE Len(left) = 0
      <4>1. phase = "calls"
        BY <1>3, <2>1, <3>1
      <4> QED
        <5>1. worked <= budget + Spent(batch, Len(left))
          BY <4>1, <1>3, <2>1, <3>1, SpentBounds, ClockFacts DEF OverrunInv
        <5>2. Spent(batch, Len(left)) = LongestWait(batch)
          BY <2>1, <3>1, SpentBounds
        <5> QED
          BY <5>1, <5>2
    <3>2. CASE Len(left) > 0
      <4> DEFINE spent == Spent(batch, Len(left))
      <4>1. spent \in Nat /\ spent + MaxTool <= LongestWait(batch) /\ LongestWait(batch) \in Nat
        BY <1>3, <2>1, <3>2, SpentGrows, SpentBounds DEF OverrunInv
      <4>2. worked <= budget + spent + (IF phase = "tool" THEN Waited ELSE 0)
        BY <1>3 DEF OverrunInv
      <4>3. phase = "tool" => Waited <= MaxTool
        BY DEF OverrunInv
      <4>4. MaxTool \in Nat
        BY ConstantsAssumption
      <4> HIDE DEF spent
      <4> QED
        BY <4>1, <4>2, <4>3, <4>4, ClockFacts
    <3> QED
      BY <2>1, <3>1, <3>2
  <2> QED
    BY <2>1, <2>2 DEF OverrunBounded
<1> QED
  BY <1>2, <1>3 DEF TypeInv, TypeOK, Phases

LEMMA OverrunStep ==
  ASSUME TypeInv, BudgetInv, OverrunInv, [Next]_vars
  PROVE  OverrunInv'
<1> USE DEF At, Running, Go, Stop, callVars, budgetVars, clockVars, Waited
<1>0. OverrunBounded /\ MaxHeaders \in Nat /\ MaxTool \in Nat
  BY OverrunFollows, ConstantsAssumption
\* Back at the top with the clock and the budget as they were, or the budget longer.
<1>a. ASSUME phase' = "top", worked' = worked, budget' \in Nat, budget' >= budget
      PROVE  OverrunInv'
  <2>1. ASSUME worked <= budget + MaxHeaders PROVE OverrunBounded'
    <3>1. worked' <= budget' + MaxHeaders
      BY <1>0, <1>a, <2>1, ClockFacts
    <3> QED
      BY <3>1 DEF OverrunBounded
  <2>3. ASSUME NEW b \in Batches, worked <= budget + LongestWait(b) PROVE OverrunBounded'
    <3>1. LongestWait(b) \in Nat
      BY SpentBounds
    <3>2. worked' <= budget' + LongestWait(b)
      BY <1>a, <2>3, <3>1, ClockFacts
    <3> QED
      BY <3>2 DEF OverrunBounded, LongestWait
  <2>2. OverrunBounded'
    BY <1>0, <2>1, <2>3 DEF OverrunBounded
  <2> QED
    BY <1>a, <2>2 DEF OverrunInv
\* The turn ends: nothing the bounds speak of changes.
<1>b. ASSUME UNCHANGED <<phase, since, now, worked, budget, batch, left>> PROVE OverrunInv'
  BY <1>b DEF OverrunInv, OverrunBounded, Spent, LongestWait
<1>1. CASE Tick
  <2>1. /\ now' = now + 1 /\ phase' = phase /\ since' = since /\ budget' = budget /\ batch' = batch
        /\ left' = left /\ phase \in Waiting /\ MayWait
        /\ worked' = IF phase = "confirming" THEN worked ELSE worked + 1
    BY <1>1 DEF Tick
  <2>2. CASE phase \in {"opening", "streaming"}
    <3>1. worked' = worked + 1 /\ now' - since' = (now - since) + 1
      BY <2>1, <2>2, ClockFacts
    <3>2. CASE phase = "opening"
      <4>1. worked <= budget + (now - since) /\ now - since < MaxHeaders
        BY <2>1, <3>2 DEF OverrunInv, MayWait
      <4>2. worked' <= budget' + (now' - since') /\ now' - since' <= MaxHeaders
        BY <1>0, <2>1, <3>1, <4>1, ClockFacts
      <4> QED
        BY <2>1, <3>2, <4>2 DEF OverrunInv
    <3>3. CASE phase = "streaming"
      <4>1. worked < budget
        BY <2>1, <3>3, ClockFacts DEF MayWait
      <4>2. worked' <= budget' /\ worked' <= budget' + MaxHeaders
        BY <1>0, <2>1, <3>1, <4>1, ClockFacts
      <4> QED
        BY <2>1, <3>3, <4>2 DEF OverrunInv
    <3> QED
      BY <2>2, <3>2, <3>3
  <2>3. CASE phase = "confirming"
    BY <2>1, <2>3 DEF OverrunInv, Spent
  <2>4. CASE phase = "tool"
    <3>1. batch \in Batches /\ Len(left) \in Nat /\ Len(left) > 0 /\ Len(left) <= Len(Calls[batch])
      BY <2>4 DEF TypeInv, CallInv, TypeOK, OverrunInv
    <3>2. Spent(batch, Len(left)) \in Nat
      BY <3>1, SpentGrows
    <3>3. Spent(batch, Len(left))' = Spent(batch, Len(left))
      BY <2>1 DEF Spent
    <3>4. worked <= budget + Spent(batch, Len(left)) + (now - since)
      BY <2>4 DEF OverrunInv
    <3>5. now - since < MaxTool
      BY <2>1, <2>4 DEF MayWait
    <3>6. worked' <= budget' + Spent(batch, Len(left))' + (now' - since')
      <4> DEFINE spent == Spent(batch, Len(left))
      <4>1. spent \in Nat /\ worked <= budget + spent + (now - since)
        BY <3>2, <3>4
      <4> HIDE DEF spent
      <4>2. worked + 1 <= budget + spent + ((now + 1) - since)
        BY <4>1, ClockFacts
      <4> QED
        BY <2>1, <2>4, <3>3, <4>2 DEF spent
    <3>7. now' - since' <= MaxTool
      BY <2>1, <3>5, <1>0, ClockFacts
    <3> QED
      BY <2>1, <2>4, <3>1, <3>6, <3>7 DEF OverrunInv
  <2> QED
    BY <2>1, <2>2, <2>3, <2>4 DEF Waiting
<1>2. CASE CapReached \/ ClockStop \/ CutOff \/ RescueOver \/ EndElsewhere \/ Interrupt
  BY <1>2, <1>b DEF CapReached, ClockStop, CutOff, RescueOver, EndElsewhere, Interrupt
<1>3. CASE AskModel
  BY <1>0, <1>3, ClockFacts DEF AskModel, Over, OverrunInv
<1>4. CASE Headers
  BY <1>0, <1>4, ClockFacts DEF Headers, OverrunInv
<1>5. CASE Nudge
  BY <1>a, <1>5, ClockFacts DEF Nudge
<1>6. ASSUME NEW b \in Batches, TurnAway(b) PROVE OverrunInv'
  BY <1>a, <1>6, ClockFacts DEF TurnAway
<1>7. CASE Rescue
  <2>1. /\ phase' = "calls" /\ batch' = Rescued /\ left' = Calls[Rescued] /\ worked' = worked
        /\ budget' = budget /\ worked <= budget /\ Rescued \in Batches
    BY <1>7, ConstantsAssumption DEF Rescue, TimeIsUp, OverrunInv
  <2>2. Len(Calls[Rescued]) \in Nat /\ Spent(Rescued, Len(Calls[Rescued])) = 0
    BY <2>1, CallsType, SpentBounds
  <2>3. Spent(batch, Len(left))' = 0
    BY <2>1, <2>2 DEF Spent
  <2> QED
    BY <2>1, <2>2, <2>3, ClockFacts DEF OverrunInv
<1>8. ASSUME NEW b \in Batches, Issue(b) PROVE OverrunInv'
  <2>1. phase' = "calls" /\ batch' = b /\ left' = Calls[b] /\ worked' = worked /\ worked <= budget
    BY <1>8, ClockFacts DEF Issue, Replied
  <2>2. budget' \in Nat /\ budget' >= budget
    <3>1. budget' = budget \/ GrantBudget
      BY <1>8 DEF Issue
    <3> QED
      BY <3>1, ClockFacts DEF GrantBudget, Later
  <2>3. Len(Calls[b]) \in Nat /\ Spent(b, Len(Calls[b])) = 0
    BY CallsType, SpentBounds
  <2>4. Spent(batch, Len(left))' = 0
    BY <2>1, <2>3 DEF Spent
  <2> QED
    BY <2>1, <2>2, <2>3, <2>4, ClockFacts DEF OverrunInv
<1>9. CASE Ask
  <2>1. phase = "calls" /\ phase' = "confirming" /\ UNCHANGED <<now, worked, budget, batch, left>>
    BY <1>9 DEF Ask, Pending
  <2> QED
    BY <2>1 DEF OverrunInv, Spent
<1>10. CASE Start
  <2>1. /\ phase = "calls" /\ phase' = "tool" /\ UNCHANGED <<now, worked, budget, batch, left>>
        /\ since' = now
    BY <1>10 DEF Start, Pending
  <2>2. now' - since' = 0
    BY <2>1, ClockFacts
  <2>3. Len(left) <= Len(Calls[batch]) /\ worked <= budget + Spent(batch, Len(left))
    <3>1. batch \in Batches /\ left \in Seq(Kinds) /\ left # <<>> /\ Len(left) \in Nat /\ Len(left) > 0
      BY <1>10, <2>1, TailType DEF Start, Pending, TypeInv, TypeOK, CallInv
    <3>2. Len(left) <= Len(Calls[batch])
      BY <2>1 DEF OverrunInv
    <3>3. Spent(batch, Len(left)) \in Nat
      BY <3>1, <3>2, SpentGrows
    <3> QED
      BY <2>1, <3>2, <3>3, ClockFacts DEF OverrunInv
  <2> QED
    BY <1>0, <2>1, <2>2, <2>3 DEF OverrunInv, Spent
\* A call less is left: what it took is part of the time for one call.
<1>c. ASSUME phase' = "calls", left # <<>>, left' = Tail(left), batch' = batch, worked' = worked,
             budget' \in Nat, budget' >= budget, phase \in {"calls", "confirming", "tool"}
      PROVE  OverrunInv'
  <2>1. /\ batch \in Batches /\ Len(left) \in Nat /\ Len(left) > 0 /\ Len(left) <= Len(Calls[batch])
        /\ Len(Tail(left)) = Len(left) - 1 /\ Len(Calls[batch]) \in Nat
    BY <1>c, TailType, CallsType DEF TypeInv, TypeOK, CallInv, OverrunInv
  <2> DEFINE spent == Spent(batch, Len(left))
             spentThen == Spent(batch, Len(left) - 1)
  <2>2. spent \in Nat /\ spentThen = spent + MaxTool
    BY <2>1, SpentGrows
  <2>3. Spent(batch, Len(left))' = spentThen
    BY <1>c, <2>1 DEF Spent
  <2>4. /\ worked <= budget + spent + (IF phase = "tool" THEN now - since ELSE 0)
        /\ phase = "tool" => now - since <= MaxTool
    BY <1>c DEF OverrunInv
  <2> HIDE DEF spent, spentThen
  <2>5. worked' <= budget' + spentThen
    <3>1. budget \in Nat /\ worked \in Nat /\ MaxTool \in Nat
      BY <1>0, ClockFacts
    <3>2. worked <= budget + spent + MaxTool
      <4>1. CASE phase = "tool"
        BY <2>2, <2>4, <3>1, <4>1, ClockFacts
      <4>2. CASE phase # "tool"
        BY <2>2, <2>4, <3>1, <4>2
      <4> QED
        BY <4>1, <4>2
    <3>3. worked' = worked /\ budget' \in Nat /\ budget' >= budget
      BY <1>c
    <3>4. worked' <= budget' + (spent + MaxTool)
      BY <2>2, <3>1, <3>2, <3>3, LongerBudget
    <3> QED
      BY <2>2, <3>4
  <2>6. Len(left') <= Len(Calls[batch'])
    BY <1>c, <2>1
  <2>7. worked' <= budget' + Spent(batch, Len(left))' + 0
    BY <1>0, <2>2, <2>3, <2>5, <1>c
  <2> QED
    BY <1>c, <2>6, <2>7 DEF OverrunInv
<1>11. CASE Refuse
  BY <1>c, <1>11, ClockFacts DEF Refuse, Pending
<1>12. ASSUME NEW yes \in BOOLEAN, Confirmed(yes) PROVE OverrunInv'
  <2>1. /\ phase = "confirming" /\ since' = now /\ now' = now /\ worked' = worked
        /\ budget' = budget /\ batch' = batch
        /\ IF yes THEN phase' = "tool" /\ left' = left ELSE phase' = "calls" /\ left' = Tail(left)
    BY <1>12 DEF Confirmed
  <2>2. left # <<>>
    BY <2>1 DEF TypeInv, CallInv
  <2>3. CASE yes
    <3>1. now' - since' = 0
      BY <2>1, ClockFacts
    <3>2. Len(left) <= Len(Calls[batch]) /\ worked <= budget + Spent(batch, Len(left)) + 0
      BY <2>1 DEF OverrunInv
    <3> QED
      BY <1>0, <2>1, <2>3, <3>1, <3>2 DEF OverrunInv, Spent
  <2>4. CASE ~yes
    BY <1>c, <2>1, <2>2, <2>4, ClockFacts
  <2> QED
    BY <2>3, <2>4
<1>13. ASSUME NEW ok \in BOOLEAN, Returned(ok) PROVE OverrunInv'
  <2>1. /\ phase = "tool" /\ phase' = "calls" /\ left' = Tail(left) /\ batch' = batch
        /\ worked' = worked /\ (budget' = budget \/ GrantBudget)
    BY <1>13 DEF Returned
  <2>2. left # <<>>
    BY <2>1 DEF TypeInv, CallInv
  <2>3. budget' \in Nat /\ budget' >= budget
    BY <2>1, ClockFacts DEF GrantBudget, Later
  <2> QED
    BY <1>c, <2>1, <2>2, <2>3
<1>14. CASE FinishBatch
  <2>1. phase' = "top" /\ worked' = worked /\ (budget' = budget \/ GrantBudget)
    BY <1>14 DEF FinishBatch
  <2>2. budget' \in Nat /\ budget' >= budget
    BY <2>1, ClockFacts DEF GrantBudget, Later
  <2> QED
    BY <1>a, <2>1, <2>2
<1>15. CASE UNCHANGED vars
  BY <1>15, <1>b DEF vars
<1> QED
  BY <1>1, <1>2, <1>3, <1>4, <1>5, <1>6, <1>7, <1>8, <1>9, <1>10, <1>11, <1>12, <1>13, <1>14, <1>15
  DEF Next

\* The turn outlives its budget by one wait at most.
THEOREM OverrunIsBounded == Spec => []OverrunBounded
<1>1. Init => OverrunInv
  <2> SUFFICES ASSUME Init PROVE OverrunInv
    OBVIOUS
  <2>1. phase = "top" /\ worked <= budget + MaxHeaders
    BY ConstantsAssumption DEF Init
  <2> QED
    BY <2>1 DEF OverrunInv, OverrunBounded
<1>2. TypeInv /\ BudgetInv /\ OverrunInv /\ [Next]_vars => OverrunInv'
  BY OverrunStep
<1>3. TypeInv /\ OverrunInv => OverrunBounded
  BY OverrunFollows
<1> QED
  BY <1>1, <1>2, <1>3, TypeAndClock, BudgetInvariant, PTL DEF Spec

-----------------------------------------------------------------------------
\* What repeats are paid.  A batch that is known, or that is being run for the first
\* time, has been paid once more than it was forgiven; forgiveness is bounded.
KnownNow(b) == b \in seen \/ (phase \in {"calls", "confirming", "tool"} /\ b = batch)
PaidInv ==
  \A b \in Batches :
    /\ paid[b] <= forgivenReads[b] + forgivenNudged[b] + (IF KnownNow(b) THEN 1 ELSE 0)
    /\ forgivenReads[b] <= (IF KindsOf(b) \subseteq {"read"} THEN MaxForgivenRereads ELSE 0)
    /\ forgivenNudged[b] <= (IF KindsOf(b) \subseteq {"read", "verify"} THEN MaxForgivenNudged ELSE 0)

LEMMA PaidStep ==
  ASSUME TypeInv, PaidInv, [Next]_vars
  PROVE  PaidInv'
<1> USE DEF At, Running, Go, Stop, guardVars
<1>0. /\ paid \in [Batches -> Nat] /\ forgivenReads \in [Batches -> Nat]
      /\ forgivenNudged \in [Batches -> Nat] /\ seen \subseteq Batches
      /\ MaxForgivenRereads \in Nat /\ MaxForgivenNudged \in Nat
  BY ConstantsAssumption DEF TypeInv, TypeOK
\* What is known stays known.
<1>a. ASSUME UNCHANGED <<paid, forgivenReads, forgivenNudged>>,
             \A b \in Batches : KnownNow(b) => KnownNow(b)'
      PROVE  PaidInv'
  <2> SUFFICES ASSUME NEW b \in Batches
               PROVE  paid[b] <= forgivenReads[b] + forgivenNudged[b] + (IF KnownNow(b)' THEN 1 ELSE 0)
    BY <1>a DEF PaidInv, KindsOf
  <2>1. paid[b] <= forgivenReads[b] + forgivenNudged[b] + (IF KnownNow(b) THEN 1 ELSE 0)
    BY DEF PaidInv
  <2>2. CASE KnownNow(b)'
    BY <1>0, <2>1, <2>2
  <2>3. CASE ~KnownNow(b)'
    <3>1. ~KnownNow(b)
      BY <1>a, <2>3
    <3> QED
      BY <2>1, <2>3, <3>1
  <2> QED
    BY <2>2, <2>3
<1>1. CASE Tick \/ CapReached \/ ClockStop \/ Headers \/ CutOff \/ Rescue
  BY <1>1, <1>a DEF Tick, CapReached, ClockStop, Headers, CutOff, Rescue, TimeIsUp, callVars, KnownNow
<1>2. CASE Refuse \/ Ask \/ Start \/ RescueOver \/ EndElsewhere \/ Interrupt
  BY <1>2, <1>a DEF Refuse, Ask, Start, Pending, RescueOver, EndElsewhere, Interrupt, callVars, KnownNow
<1>3. ASSUME NEW b \in Batches, TurnAway(b) PROVE PaidInv'
  BY <1>3, <1>a DEF TurnAway, Replied, callVars, KnownNow
<1>4. ASSUME NEW yes \in BOOLEAN, Confirmed(yes) PROVE PaidInv'
  BY <1>4, <1>a DEF Confirmed, KnownNow
<1>5. ASSUME NEW ok \in BOOLEAN, Returned(ok) PROVE PaidInv'
  BY <1>5, <1>a DEF Returned, KnownNow
<1>6. CASE FinishBatch
  BY <1>6, <1>a DEF FinishBatch, KnownNow
<1>7. CASE UNCHANGED vars
  BY <1>7, <1>a DEF vars, callVars, KnownNow
<1>8. CASE AskModel
  <2>1. CASE UNCHANGED guardVars
    BY <1>8, <1>a, <2>1 DEF AskModel, KnownNow
  <2>2. CASE seen' = seen \ Rereads /\ forgivenReads' = Counted(forgivenReads, Rereads)
             /\ UNCHANGED <<forgivenNudged, paid>>
    <3> SUFFICES ASSUME NEW b \in Batches
                 PROVE  /\ paid[b] <= forgivenReads'[b] + forgivenNudged[b] + (IF KnownNow(b)' THEN 1 ELSE 0)
                        /\ forgivenReads'[b] <= (IF KindsOf(b) \subseteq {"read"} THEN MaxForgivenRereads ELSE 0)
      BY <2>2 DEF PaidInv, KindsOf
    <3>1. forgivenReads'[b] = IF b \in Rereads THEN forgivenReads[b] + 1 ELSE forgivenReads[b]
      BY <2>2 DEF Counted
    <3>2. ~KnownNow(b)' => (~KnownNow(b) \/ b \in Rereads)
      BY <1>8, <2>2 DEF AskModel, KnownNow
    <3>3. b \in Rereads => KnownNow(b) /\ KindsOf(b) \subseteq {"read"} /\ forgivenReads[b] < MaxForgivenRereads
      BY DEF Rereads, KnownNow
    <3> QED
      BY <1>0, <3>1, <3>2, <3>3 DEF PaidInv
  <2> QED
    BY <1>8, <2>1, <2>2 DEF AskModel
<1>9. CASE Nudge
  <2>1. CASE UNCHANGED guardVars
    BY <1>9, <1>a, <2>1 DEF Nudge, Replied, KnownNow
  <2>2. CASE seen' = seen \ NudgedVerifies /\ forgivenNudged' = Counted(forgivenNudged, NudgedVerifies)
             /\ UNCHANGED <<forgivenReads, paid>>
    <3> SUFFICES ASSUME NEW b \in Batches
                 PROVE  /\ paid[b] <= forgivenReads[b] + forgivenNudged'[b] + (IF KnownNow(b)' THEN 1 ELSE 0)
                        /\ forgivenNudged'[b] <=
                             (IF KindsOf(b) \subseteq {"read", "verify"} THEN MaxForgivenNudged ELSE 0)
      BY <2>2 DEF PaidInv, KindsOf
    <3>1. forgivenNudged'[b] = IF b \in NudgedVerifies THEN forgivenNudged[b] + 1 ELSE forgivenNudged[b]
      BY <2>2 DEF Counted
    <3>2. ~KnownNow(b)' => (~KnownNow(b) \/ b \in NudgedVerifies)
      BY <1>9, <2>2 DEF Nudge, Replied, KnownNow
    <3>3. b \in NudgedVerifies =>
            KnownNow(b) /\ KindsOf(b) \subseteq {"read", "verify"} /\ forgivenNudged[b] < MaxForgivenNudged
      BY DEF NudgedVerifies, KnownNow
    <3> QED
      BY <1>0, <3>1, <3>2, <3>3 DEF PaidInv
  <2> QED
    BY <1>9, <2>1, <2>2 DEF Nudge
<1>10. ASSUME NEW b \in Batches, Issue(b) PROVE PaidInv'
  <2>1. paid' = IF b \in seen THEN paid ELSE [paid EXCEPT ![b] = paid[b] + 1]
    BY <1>10, IssuePays
  <2>2. /\ phase = "streaming" /\ phase' = "calls" /\ batch' = b
        /\ UNCHANGED <<seen, forgivenReads, forgivenNudged>>
    BY <1>10 DEF Issue, Replied
  <2>3. \A c \in Batches : KnownNow(c) => KnownNow(c)'
    BY <2>2 DEF KnownNow
  <2>4. CASE b \in seen
    BY <1>a, <2>1, <2>2, <2>3, <2>4
  <2>5. CASE b \notin seen
    <3>1. ~KnownNow(b) /\ KnownNow(b)'
      BY <2>2, <2>5 DEF KnownNow
    <3>2. paid'[b] = paid[b] + 1 /\ \A c \in Batches \ {b} : paid'[c] = paid[c]
      BY <1>0, <2>1, <2>5
    <3>3. ASSUME NEW c \in Batches
          PROVE  paid'[c] <= forgivenReads[c] + forgivenNudged[c] + (IF KnownNow(c)' THEN 1 ELSE 0)
      <4>1. CASE c = b
        BY <1>0, <3>1, <3>2, <4>1 DEF PaidInv
      <4>2. CASE c # b
        BY <1>0, <2>3, <3>2, <4>2 DEF PaidInv
      <4> QED
        BY <4>1, <4>2
    <3> QED
      BY <2>2, <3>3 DEF PaidInv, KindsOf
  <2> QED
    BY <2>4, <2>5
<1> QED
  BY <1>1, <1>2, <1>3, <1>4, <1>5, <1>6, <1>7, <1>8, <1>9, <1>10 DEF Next

\* Time for a new call is granted a bounded number of times to any one batch.
THEOREM RepeatsAreNotPaidForEver == Spec => []PaidBounded
<1>1. Init => PaidInv
  <2> SUFFICES ASSUME Init, NEW b \in Batches
               PROVE  /\ paid[b] <= forgivenReads[b] + forgivenNudged[b] + (IF KnownNow(b) THEN 1 ELSE 0)
                      /\ forgivenReads[b] <= (IF KindsOf(b) \subseteq {"read"} THEN MaxForgivenRereads ELSE 0)
                      /\ forgivenNudged[b] <=
                           (IF KindsOf(b) \subseteq {"read", "verify"} THEN MaxForgivenNudged ELSE 0)
    BY DEF PaidInv
  <2>1. paid[b] = 0 /\ forgivenReads[b] = 0 /\ forgivenNudged[b] = 0
    BY DEF Init
  <2> QED
    BY <2>1, ConstantsAssumption
<1>2. TypeInv /\ PaidInv /\ [Next]_vars => PaidInv'
  BY PaidStep
<1>3. TypeInv /\ PaidInv => PaidBounded
  <2> SUFFICES ASSUME TypeInv, PaidInv, NEW b \in Batches
               PROVE  paid[b] <= 1 + (IF KindsOf(b) \subseteq {"read"} THEN MaxForgivenRereads ELSE 0)
                                + (IF KindsOf(b) \subseteq {"read", "verify"} THEN MaxForgivenNudged ELSE 0)
    BY DEF PaidBounded
  <2>1. /\ paid[b] \in Nat /\ forgivenReads[b] \in Nat /\ forgivenNudged[b] \in Nat
        /\ MaxForgivenRereads \in Nat /\ MaxForgivenNudged \in Nat
    BY ConstantsAssumption DEF TypeInv, TypeOK
  <2> QED
    BY <2>1 DEF PaidInv
<1> QED
  BY <1>1, <1>2, <1>3, TypeAndClock, PTL DEF Spec
=============================================================================
