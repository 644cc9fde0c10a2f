------------------------- MODULE ProgressGuardsProofs -------------------------
(***************************************************************************)
(* Proofs, for every set of calls and every value of the limits, of the     *)
(* properties that ProgressGuards states of a turn's guards.                *)
(***************************************************************************)
EXTENDS ProgressGuards, FiniteSetTheorems, SequenceTheorems, TLAPS

\* The errors of a batch are those of its calls.
BatchInv ==
  /\ Len(batch.errs) <= batch.n
  /\ batch.errs # <<>> => ~batch.allEmpty
  /\ batch.ran /\ batch.allErr => ~batch.allEmpty
  /\ batch.noChange => ~batch.allEmpty

TypeInv == TypeOK /\ BatchInv

LEMMA EmptyReports == <<>> \in Seq(Tests \cup {Green})
  OBVIOUS

LEMMA NoBatchType ==
  /\ NoBatch \in [n : 0..MaxCalls, ran : BOOLEAN, allErr : BOOLEAN, allEmpty : BOOLEAN,
                  noChange : BOOLEAN, errs : Sigs \cup {<<>>}]
  /\ Len(NoBatch.errs) <= NoBatch.n /\ NoBatch.errs = <<>>
  /\ ~NoBatch.ran /\ ~NoBatch.noChange
  BY ConstantsAssumption DEF NoBatch

LEMMA SigsAreSequences ==
  ASSUME NEW s \in Sigs \cup {<<>>}
  PROVE  s \in Seq(Errors)
<1>1. CASE s = <<>>
  BY <1>1
<1>2. CASE s \in Sigs
  <2>1. PICK n \in 1..MaxCalls : s \in [1..n -> Errors]
    BY <1>2 DEF Sigs
  <2>2. n \in Nat
    BY <2>1, ConstantsAssumption
  <2> QED
    BY <2>1, <2>2, SeqDef
<1> QED
  BY <1>1, <1>2

LEMMA SequencesAreSigs ==
  ASSUME NEW s \in Seq(Errors), Len(s) \in 1..MaxCalls
  PROVE  s \in Sigs
  BY DEF Sigs

LEMMA SigsGrow ==
  ASSUME NEW s \in Sigs \cup {<<>>}, NEW e \in Errors, NEW n \in Nat, Len(s) <= n, n < MaxCalls
  PROVE  Append(s, e) \in Sigs /\ Len(Append(s, e)) = Len(s) + 1 /\ Append(s, e) # <<>>
<1>1. s \in Seq(Errors) /\ Len(s) \in Nat
  BY SigsAreSequences
<1>2. Append(s, e) \in Seq(Errors) /\ Len(Append(s, e)) = Len(s) + 1 /\ Append(s, e) # <<>>
  BY <1>1
<1>3. Len(Append(s, e)) \in 1..MaxCalls
  BY <1>1, <1>2, ConstantsAssumption
<1> QED
  BY <1>2, <1>3, SequencesAreSigs

\* What is known of a call of the batch.
LEMMA CallType ==
  ASSUME NEW c \in Issued
  PROVE  /\ c.file \in Files /\ c.test \in Readings
         /\ c.err \in Errors \cup {NoError} /\ (c.out = "failed" => c.err \in Errors)
  BY IssuedAssumption, ConstantsAssumption DEF Calls

LEMMA TallyType ==
  ASSUME TypeInv, NEW c \in Issued, batch.n < MaxCalls
  PROVE  /\ Tally(batch, c) \in
              [n : 0..MaxCalls, ran : BOOLEAN, allErr : BOOLEAN, allEmpty : BOOLEAN,
               noChange : BOOLEAN, errs : Sigs \cup {<<>>}]
         /\ LET b == Tally(batch, c)
            IN  /\ Len(b.errs) <= b.n
                /\ b.errs # <<>> => ~b.allEmpty
                /\ b.ran /\ b.allErr => ~b.allEmpty
                /\ b.noChange => ~b.allEmpty
<1> DEFINE b == Tally(batch, c)
<1>1. /\ batch.n \in 0..MaxCalls /\ batch.ran \in BOOLEAN /\ batch.allErr \in BOOLEAN
      /\ batch.allEmpty \in BOOLEAN /\ batch.noChange \in BOOLEAN
      /\ batch.errs \in Sigs \cup {<<>>} /\ Len(batch.errs) <= batch.n
  BY DEF TypeInv, TypeOK, BatchInv
<1>2. /\ b.n = batch.n + 1 /\ b.ran = (batch.ran \/ c.out \in Ran)
      /\ b.allErr = (batch.allErr /\ (c.out \in Ran => c.out \in Failed))
      /\ b.allEmpty = (batch.allEmpty /\ (c.out \in Ran => c.out = "empty"))
      /\ b.noChange = (batch.noChange \/ c.out \in NoChange)
      /\ b.errs = (IF c.out = "failed" THEN Append(batch.errs, c.err) ELSE batch.errs)
      /\ b = [n |-> b.n, ran |-> b.ran, allErr |-> b.allErr, allEmpty |-> b.allEmpty,
              noChange |-> b.noChange, errs |-> b.errs]
  BY DEF Tally
<1>3. b.n \in 0..MaxCalls
  BY <1>1, <1>2, ConstantsAssumption
<1>4. b.errs \in Sigs \cup {<<>>} /\ Len(b.errs) <= b.n
  <2>1. CASE c.out = "failed"
    <3>1. /\ Append(batch.errs, c.err) \in Sigs
          /\ Len(Append(batch.errs, c.err)) = Len(batch.errs) + 1
      BY <2>1, <1>1, CallType, SigsGrow, ConstantsAssumption
    <3>2. Len(batch.errs) \in Nat
      BY <1>1, SigsAreSequences
    <3> QED
      BY <2>1, <3>1, <3>2, <1>1, <1>2
  <2>2. CASE c.out # "failed"
    <3>1. Len(batch.errs) \in Nat
      BY <1>1, SigsAreSequences
    <3> QED
      BY <2>2, <3>1, <1>1, <1>2
  <2> QED
    BY <2>1, <2>2
<1>5. b.ran \in BOOLEAN /\ b.allErr \in BOOLEAN /\ b.allEmpty \in BOOLEAN /\ b.noChange \in BOOLEAN
  BY <1>1, <1>2, Zenon
<1>6. /\ b.errs # <<>> => ~b.allEmpty
      /\ b.noChange => ~b.allEmpty
  BY <1>1, <1>2 DEF TypeInv, BatchInv, Ran, NoChange
<1>7. b.ran /\ b.allErr => ~b.allEmpty
  <2>1. batch.ran /\ batch.allErr => ~batch.allEmpty
    BY DEF TypeInv, BatchInv
  <2>2. c.out \in Failed => c.out # "empty"
    BY DEF Failed
  <2>3. SUFFICES ASSUME b.ran, b.allErr, b.allEmpty PROVE FALSE
    OBVIOUS
  <2>4. CASE c.out \in Ran
    BY <2>4, <2>2, <2>3, <1>2
  <2>5. CASE c.out \notin Ran
    BY <2>5, <2>1, <2>3, <1>1, <1>2
  <2> QED
    BY <2>4, <2>5
<1> HIDE DEF b
<1>8. b \in [n : 0..MaxCalls, ran : BOOLEAN, allErr : BOOLEAN, allEmpty : BOOLEAN,
             noChange : BOOLEAN, errs : Sigs \cup {<<>>}]
  BY <1>2, <1>3, <1>4, <1>5
<1> QED
  BY <1>4, <1>6, <1>7, <1>8 DEF b
\* What a batch does to the counts of unchecked edits.
LEMMA RecountType ==
  ASSUME NEW c \in Issued, unverified \in [Files -> Nat], nudgedVerify \subseteq Files, Recount(c)
  PROVE  unverified' \in [Files -> Nat] /\ nudgedVerify' \subseteq Files
<1>1. c.file \in Files
  BY CallType
<1> QED
  BY <1>1 DEF Recount, gateVars

LEMMA ReportsGrow ==
  ASSUME NEW s \in Seq(Tests \cup {Green}), NEW t \in Tests \cup {Green}
  PROVE  Append(s, t) \in Seq(Tests \cup {Green})
  OBVIOUS

LEMMA ReportsTail ==
  ASSUME NEW s \in Seq(Tests \cup {Green}), s # <<>>
  PROVE  Tail(s) \in Seq(Tests \cup {Green}) /\ Head(s) \in Tests \cup {Green}
  OBVIOUS

LEMMA ArmType ==
  ASSUME NEW k \in {SteerBudget, ResendBudget}, iter \in 0..MaxIterations, Arm(k),
         armed \in 0..MaxIterations, budget \in {0, SteerBudget, ResendBudget},
         armedSince \in 0..MaxIterations, greenSince \in BOOLEAN
  PROVE  /\ armed' \in 0..MaxIterations /\ budget' \in {0, SteerBudget, ResendBudget}
         /\ armedSince' \in 0..MaxIterations /\ greenSince' \in BOOLEAN
  BY DEF Arm

LEMMA VerdictType ==
  Verdict \in {"denied", "same_error", "gate", "none"} \cup Guards
  BY DEF Verdict, Guards

LEMMA GrownType ==
  ASSUME NEW count \in [Guards -> Nat], NEW g \in Guards
  PROVE  Grown(count, g) \in Nat
  BY DEF Grown

LEMMA InitType ==
  ASSUME Init
  PROVE  TypeInv
<1>1. /\ errorStreaks \in [Sigs -> Nat] /\ streak \in [Guards -> Nat] /\ row \in [Guards -> Nat]
      /\ unverified \in [Files -> Nat] /\ reports \in Seq(Tests \cup {Green})
  BY EmptyReports DEF Init
<1>2. iter \in 0..MaxIterations /\ armed \in 0..MaxIterations /\ armedSince \in 0..MaxIterations
  BY ConstantsAssumption DEF Init
<1>3. batch \in [n : 0..MaxCalls, ran : BOOLEAN, allErr : BOOLEAN, allEmpty : BOOLEAN,
                 noChange : BOOLEAN, errs : Sigs \cup {<<>>}]
  BY NoBatchType DEF Init
<1>4. TypeOK
  BY <1>1, <1>2, <1>3 DEF Init, TypeOK, Phases, Outcomes
<1>5. BatchInv
  BY NoBatchType DEF Init, BatchInv
<1> QED
  BY <1>4, <1>5 DEF TypeInv

LEMMA CallKeepsTypes ==
  ASSUME TypeInv, NEW c \in Issued, Call(c)
  PROVE  TypeInv'
<1>1. /\ phase' = "calls" /\ outcome' = outcome /\ iter' = iter /\ reprieved' = reprieved
      /\ lastTest' = lastTest /\ sameRun' = sameRun /\ errorStreaks' = errorStreaks
      /\ nudgedStall' = nudgedStall /\ streak' = streak /\ nudged' = nudged /\ row' = row
      /\ batch' = Tally(batch, c) /\ batch.n < MaxCalls
  BY DEF Call, streakVars
<1>2. /\ armed' \in 0..MaxIterations /\ budget' \in {0, SteerBudget, ResendBudget}
      /\ armedSince' \in 0..MaxIterations /\ greenSince' \in BOOLEAN
  <2>1. CASE c.out \in {"resend", "resend_failed"}
    BY <2>1, ArmType DEF Call, TypeInv, TypeOK
  <2>2. CASE c.out \notin {"resend", "resend_failed"}
    BY <2>2 DEF Call, TypeInv, TypeOK
  <2> QED
    BY <2>1, <2>2
<1>3. unverified' \in [Files -> Nat] /\ nudgedVerify' \subseteq Files
  BY RecountType DEF Call, TypeInv, TypeOK
<1>4. reports' \in Seq(Tests \cup {Green})
  <2>1. CASE c.test = NoTest
    BY <2>1 DEF Call, TypeInv, TypeOK
  <2>2. CASE c.test # NoTest
    <3>1. c.test \in Tests \cup {Green}
      BY <2>2, CallType DEF Readings
    <3> QED
      BY <3>1, <2>2, ReportsGrow DEF Call, TypeInv, TypeOK
  <2> QED
    BY <2>1, <2>2
<1>5. unread' \in BOOLEAN
  BY Zenon DEF Call, TypeInv, TypeOK
<1>6. denials' \in Nat
  BY DEF Call, TypeInv, TypeOK
<1>7. /\ batch' \in [n : 0..MaxCalls, ran : BOOLEAN, allErr : BOOLEAN, allEmpty : BOOLEAN,
                     noChange : BOOLEAN, errs : Sigs \cup {<<>>}]
      /\ BatchInv'
  BY <1>1, TallyType DEF BatchInv
<1> QED
  BY <1>1, <1>2, <1>3, <1>4, <1>5, <1>6, <1>7 DEF TypeInv, TypeOK, Phases

LEMMA ReportKeepsTypes ==
  ASSUME TypeInv, Report
  PROVE  TypeInv'
<1>1. reports' \in Seq(Tests \cup {Green}) /\ Head(reports) \in Tests \cup {Green}
  BY ReportsTail DEF Report, TypeInv, TypeOK
<1>2. /\ armed' \in 0..MaxIterations /\ budget' \in {0, SteerBudget, ResendBudget}
      /\ armedSince' \in 0..MaxIterations /\ greenSince' \in BOOLEAN
      /\ lastTest' \in Tests \cup {NoTest} /\ sameRun' \in Nat
  <2>1. CASE Head(reports) = Green
    BY <2>1, ConstantsAssumption DEF Report, ReadGreen, TypeInv, TypeOK
  <2>2. CASE Head(reports) # Green
    <3>1. /\ lastTest' = Head(reports) /\ sameRun' \in Nat
      BY <2>2 DEF Report, ReadFailure, TypeInv, TypeOK
    <3>2. \/ Arm(SteerBudget)
          \/ UNCHANGED <<armed, budget, armedSince, greenSince>>
      BY <2>2 DEF Report, ReadFailure
    <3>3. /\ armed' \in 0..MaxIterations /\ budget' \in {0, SteerBudget, ResendBudget}
          /\ armedSince' \in 0..MaxIterations /\ greenSince' \in BOOLEAN
      BY <3>2, ArmType DEF TypeInv, TypeOK
    <3> QED
      BY <3>1, <3>3, <2>2, <1>1
  <2> QED
    BY <2>1, <2>2
<1> QED
  BY <1>1, <1>2 DEF Report, streakVars, gateVars, TypeInv, TypeOK, BatchInv

LEMMA JudgeKeepsTypes ==
  ASSUME TypeInv, Judge
  PROVE  TypeInv'
<1>1. /\ phase' = "top" /\ batch' = NoBatch /\ iter' = iter /\ unread' = unread
      /\ reports' = reports /\ denials' = denials
      /\ unverified' = unverified /\ armed' = armed /\ budget' = budget
      /\ reprieved' = reprieved /\ armedSince' = armedSince /\ lastTest' = lastTest
      /\ sameRun' = sameRun /\ greenSince' = greenSince
  BY DEF Judge, clockVars, testVars
<1>2. errorStreaks' \in [Sigs -> Nat]
  <2>1. CASE batch.errs = <<>> \/ Refused
    BY <2>1 DEF Judge, TypeInv, TypeOK
  <2>2. CASE ~(batch.errs = <<>> \/ Refused)
    <3>1. errorStreaks' = [errorStreaks EXCEPT ![batch.errs] = errorStreaks[batch.errs] + 1]
      BY <2>2 DEF Judge
    <3> QED
      BY <3>1, <2>2 DEF TypeInv, TypeOK
  <2> QED
    BY <2>1, <2>2
<1>3. streak' \in [Guards -> Nat] /\ row' \in [Guards -> Nat]
  BY GrownType DEF Judge, TypeInv, TypeOK
<1>4. nudged' \subseteq Guards
  BY DEF Judge, TypeInv, TypeOK
<1>5. nudgedStall' \subseteq Sigs
  <2>1. CASE Verdict = "same_error"
    <3>1. Recurs
      BY <2>1 DEF Verdict
    <3> QED
      BY <2>1, <3>1 DEF Judge, Recurs, TypeInv, TypeOK
  <2>2. CASE Verdict # "same_error"
    BY <2>2 DEF Judge, TypeInv, TypeOK
  <2> QED
    BY <2>1, <2>2
<1>6. nudgedVerify' \subseteq Files
  BY DEF Judge, OverGate, TypeInv, TypeOK
<1>7. outcome' \in Outcomes
  <2>1. Warned => Verdict \in Guards \cup {"same_error"}
    BY DEF Warned, TypeInv, TypeOK
  <2> QED
    BY <2>1 DEF Judge, Outcomes, TypeInv, TypeOK
<1>8. /\ batch' \in [n : 0..MaxCalls, ran : BOOLEAN, allErr : BOOLEAN, allEmpty : BOOLEAN,
                     noChange : BOOLEAN, errs : Sigs \cup {<<>>}]
      /\ BatchInv'
  BY <1>1, NoBatchType DEF BatchInv
<1> QED
  BY <1>1, <1>2, <1>3, <1>4, <1>5, <1>6, <1>7, <1>8 DEF TypeInv, TypeOK, Phases

LEMMA StepKeepsTypes ==
  ASSUME TypeInv, [Next]_vars
  PROVE  TypeInv'
<1>1. CASE Top
  <2>1. iter' \in 0..MaxIterations
    BY <1>1, ConstantsAssumption DEF Top, TypeInv, TypeOK
  <2>2. armed' \in 0..MaxIterations /\ reprieved' \in BOOLEAN /\ outcome' \in Outcomes
        /\ phase' \in Phases
    <3>1. CASE Expired /\ ~Reprieve
      BY <1>1, <3>1 DEF Top, TypeInv, TypeOK, Outcomes
    <3>2. CASE ~(Expired /\ ~Reprieve)
      BY <1>1, <3>2, <2>1 DEF Top, TypeInv, TypeOK, Phases
    <3> QED
      BY <3>1, <3>2
  <2> QED
    BY <1>1, <2>1, <2>2 DEF Top, testVars, streakVars, gateVars, TypeInv, TypeOK, BatchInv
<1>2. CASE NoBatchReply
  BY <1>2 DEF NoBatchReply, clockVars, testVars, streakVars, gateVars, TypeInv, TypeOK,
              BatchInv, Phases
<1>3. CASE \E c \in Issued : Call(c)
  BY <1>3, CallKeepsTypes
<1>4. CASE CallsDone
  BY <1>4 DEF CallsDone, clockVars, testVars, streakVars, gateVars, TypeInv, TypeOK,
              BatchInv, Phases
<1>5. CASE Report
  BY <1>5, ReportKeepsTypes
<1>6. CASE ReportsDone
  BY <1>6 DEF ReportsDone, clockVars, testVars, streakVars, gateVars, TypeInv, TypeOK,
              BatchInv, Phases
<1>7. CASE Judge
  BY <1>7, JudgeKeepsTypes
<1>8. CASE EndElsewhere
  BY <1>8 DEF EndElsewhere, clockVars, testVars, streakVars, gateVars, TypeInv, TypeOK,
              BatchInv, Outcomes
<1>9. CASE UNCHANGED vars
  BY <1>9 DEF vars, clockVars, testVars, streakVars, gateVars, TypeInv, TypeOK, BatchInv
<1> QED
  BY <1>1, <1>2, <1>3, <1>4, <1>5, <1>6, <1>7, <1>8, <1>9 DEF Next

LEMMA TypesHold == Spec => []TypeInv
<1>1. Init => TypeInv
  BY InitType
<1>2. TypeInv /\ [Next]_vars => TypeInv'
  BY StepKeepsTypes
<1> QED
  BY <1>1, <1>2, PTL DEF Spec

\* Every variable keeps to the values the loop's own ones can have.
THEOREM TypeCorrect == Spec => []TypeOK
<1>1. TypeInv => TypeOK
  BY DEF TypeInv
<1> QED
  BY <1>1, TypesHold, PTL
-----------------------------------------------------------------------------
(* The stall clock.  While it runs no test has passed since it was started;   *)
(* the iteration it counts from is the one it was started in until the        *)
(* reprieve, and afterwards at most the budget and one iteration later.       *)
ClockRuns ==
  /\ armed # 0 =>
       /\ ~greenSince /\ armedSince <= armed /\ armed <= iter
       /\ armed - armedSince <= budget + 1
       /\ ~reprieved => armed = armedSince
  /\ armed # 0 /\ outcome = "running" => iter - armed <= budget
StallInv == ClockRuns /\ StallStopIsFair

LEMMA BudgetsAreNumbers ==
  ASSUME TypeInv
  PROVE  /\ iter \in Nat /\ armed \in Nat /\ armedSince \in Nat /\ budget \in Nat
         /\ reprieved \in BOOLEAN /\ greenSince \in BOOLEAN /\ unread \in BOOLEAN
  BY ConstantsAssumption DEF TypeInv, TypeOK

LEMMA ArmStartsTheClock ==
  ASSUME TypeInv, ClockRuns, NEW k \in {SteerBudget, ResendBudget}, Arm(k),
         UNCHANGED <<iter, outcome, reprieved>>
  PROVE  ClockRuns'
<1>1. k \in Nat
  BY ConstantsAssumption
<1>2. CASE k > 0 /\ armed = 0
  BY <1>1, <1>2, BudgetsAreNumbers DEF Arm, ClockRuns
<1>3. CASE ~(k > 0 /\ armed = 0)
  BY <1>3 DEF Arm, ClockRuns
<1> QED
  BY <1>2, <1>3

LEMMA TopKeepsTheClock ==
  ASSUME TypeInv, StallInv, Top
  PROVE  StallInv'
<1> USE BudgetsAreNumbers
<1>1. /\ outcome = "running" /\ iter' = iter + 1 /\ budget' = budget /\ armedSince' = armedSince
      /\ greenSince' = greenSince /\ unread' = unread
  BY DEF Top, Running, testVars
<1>2. CASE Expired /\ ~Reprieve
  <2>1. outcome' = "stalled" /\ armed' = armed /\ reprieved' = reprieved
    BY <1>2 DEF Top
  <2>2. armed # 0 /\ iter + 1 - armed > budget /\ (unread => reprieved)
    BY <1>2 DEF Expired, Reprieve
  <2>3. ~greenSince /\ armedSince <= armed /\ armed <= iter
    BY <2>2 DEF StallInv, ClockRuns
  <2>4. ClockRuns'
    BY <1>1, <2>1, <2>3 DEF StallInv, ClockRuns
  <2>5. StallStopIsFair'
    BY <1>1, <2>1, <2>2, <2>3 DEF StallStopIsFair
  <2> QED
    BY <2>4, <2>5 DEF StallInv
<1>3. CASE Expired /\ Reprieve
  <2>1. outcome' = "running" /\ armed' = iter + 1 /\ reprieved'
    BY <1>1, <1>3 DEF Top
  <2>2. armed # 0 /\ iter + 1 - armed > budget /\ ~reprieved
    BY <1>3 DEF Expired, Reprieve
  <2>3. armed = armedSince /\ ~greenSince /\ armed <= iter /\ iter - armed <= budget
    BY <1>1, <2>2 DEF StallInv, ClockRuns
  <2> QED
    BY <1>1, <2>1, <2>3 DEF StallInv, ClockRuns, StallStopIsFair
<1>4. CASE ~Expired
  <2>1. outcome' = "running" /\ armed' = armed /\ reprieved' = reprieved
    BY <1>1, <1>4 DEF Top, TypeInv, TypeOK
  <2>2. armed # 0 => iter + 1 - armed <= budget
    BY <1>4 DEF Expired
  <2> QED
    BY <1>1, <2>1, <2>2 DEF StallInv, ClockRuns, StallStopIsFair
<1> QED
  BY <1>2, <1>3, <1>4

LEMMA StepKeepsTheClock ==
  ASSUME TypeInv, StallInv, [Next]_vars
  PROVE  StallInv'
<1>1. CASE Top
  BY <1>1, TopKeepsTheClock
<1>2. CASE \E c \in Issued : Call(c)
  <2>1. PICK c \in Issued : Call(c)
    BY <1>2
  <2>2. outcome = "running" /\ UNCHANGED <<iter, outcome, reprieved>>
    BY <2>1 DEF Call, Running
  <2>3. \/ Arm(ResendBudget)
        \/ UNCHANGED <<armed, budget, armedSince, greenSince>>
    BY <2>1 DEF Call
  <2>4. ClockRuns'
    BY <2>2, <2>3, ArmStartsTheClock DEF StallInv, ClockRuns
  <2> QED
    BY <2>2, <2>4 DEF StallInv, StallStopIsFair
<1>3. CASE Report
  <2>1. outcome = "running" /\ UNCHANGED <<iter, outcome, reprieved>>
    BY <1>3 DEF Report, Running
  <2>2. CASE Head(reports) = Green
    BY <1>3, <2>1, <2>2 DEF Report, ReadGreen, StallInv, ClockRuns, StallStopIsFair
  <2>3. CASE Head(reports) # Green
    <3>1. \/ Arm(SteerBudget)
          \/ UNCHANGED <<armed, budget, armedSince, greenSince>>
      BY <1>3, <2>3 DEF Report, ReadFailure
    <3>2. ClockRuns'
      BY <2>1, <3>1, ArmStartsTheClock DEF StallInv, ClockRuns
    <3> QED
      BY <2>1, <3>2 DEF StallInv, StallStopIsFair
  <2> QED
    BY <2>2, <2>3
<1>4. CASE Judge
  <2>1. outcome = "running" /\ UNCHANGED <<iter, armed, budget, reprieved, armedSince, greenSince>>
    BY <1>4 DEF Judge, Running, clockVars, testVars
  <2>2. outcome' # "stalled"
    <3>1. Warned => Verdict \in Guards \cup {"same_error"}
      BY DEF Warned, TypeInv, TypeOK
    <3> QED
      BY <1>4, <2>1, <3>1 DEF Judge, Guards
  <2> QED
    BY <2>1, <2>2 DEF StallInv, ClockRuns, StallStopIsFair
<1>5. CASE NoBatchReply \/ CallsDone \/ ReportsDone \/ EndElsewhere \/ UNCHANGED vars
  <2>1. /\ UNCHANGED <<iter, armed, budget, reprieved, armedSince, greenSince, unread>>
        /\ outcome' \in {outcome, "elsewhere"}
    BY <1>5 DEF NoBatchReply, CallsDone, ReportsDone, EndElsewhere, vars, clockVars, testVars
  <2> QED
    BY <2>1 DEF StallInv, ClockRuns, StallStopIsFair
<1> QED
  BY <1>1, <1>2, <1>3, <1>4, <1>5 DEF Next

LEMMA TheClockHolds == Spec => [](TypeInv /\ StallInv)
<1>1. Init => StallInv
  BY DEF Init, StallInv, ClockRuns, StallStopIsFair
<1>2. TypeInv /\ StallInv /\ [Next]_vars => StallInv'
  BY StepKeepsTheClock
<1> QED
  BY <1>1, <1>2, TypesHold, PTL DEF Spec

\* Neither later triggers nor more edits keep a turn going whose tests keep failing the
\* same way: it gets the budget the clock was armed with, and once more for a reading.
THEOREM StallIsBounded == Spec => []StallBounded
<1>1. TypeInv /\ StallInv => StallBounded
  BY BudgetsAreNumbers DEF StallInv, ClockRuns, StallBounded
<1> QED
  BY <1>1, TheClockHolds, PTL

\* The clock stops a turn only when no test run has passed since it was armed, the
\* budget is spent, and edits no check has covered have had their reprieve.
THEOREM StallStopsAreFair == Spec => []StallStopIsFair
<1>1. TypeInv /\ StallInv => StallStopIsFair
  BY DEF StallInv
<1> QED
  BY <1>1, TheClockHolds, PTL

-----------------------------------------------------------------------------
(* The gate on unchecked edits.                                               *)

\* The nudge to look at a file is withheld only while its edits are still unchecked.
THEOREM TheGateRearms == Spec => []GateRearms
<1>1. Init => GateRearms
  BY DEF Init, GateRearms
<1>2. TypeInv /\ GateRearms /\ [Next]_vars => GateRearms'
  <2> SUFFICES ASSUME TypeInv, GateRearms, [Next]_vars PROVE GateRearms'
    OBVIOUS
  <2>1. unverified \in [Files -> Nat] /\ nudgedVerify \subseteq Files /\ Gate \in Nat
    BY ConstantsAssumption DEF TypeInv, TypeOK
  <2>2. CASE \E c \in Issued : Call(c)
    <3>1. PICK c \in Issued : Recount(c)
      BY <2>2 DEF Call
    <3>2. c.file \in Files
      BY CallType
    <3>3. CASE c.kind = "verify"
      BY <3>1, <3>3 DEF Recount, GateRearms
    <3>4. CASE c.kind = "read"
      BY <2>1, <3>1, <3>2, <3>4 DEF Recount, GateRearms
    <3>5. CASE c.kind = "edit"
      BY <2>1, <3>1, <3>2, <3>5 DEF Recount, GateRearms
    <3>6. CASE c.kind \notin {"verify", "read", "edit"}
      BY <3>1, <3>6 DEF Recount, gateVars, GateRearms
    <3> QED
      BY <3>3, <3>4, <3>5, <3>6
  <2>3. CASE Judge
    BY <2>1, <2>3 DEF Judge, OverGate, GateRearms
  <2>4. CASE Top \/ NoBatchReply \/ CallsDone \/ Report \/ ReportsDone \/ EndElsewhere
             \/ UNCHANGED vars
    BY <2>4 DEF Top, NoBatchReply, CallsDone, Report, ReportsDone, EndElsewhere, vars,
                gateVars, GateRearms
  <2> QED
    BY <2>2, <2>3, <2>4 DEF Next
<1> QED
  BY <1>1, <1>2, TypesHold, PTL DEF Spec
-----------------------------------------------------------------------------
(* Futility.  A streak the loop counts stays under its limit, or reaches it   *)
(* with the nudge sent; and a batch that a streak does not hear of, because   *)
(* an earlier guard spoke, is either no part of its row or one that guard can *)
(* only once account for.                                                     *)
StreaksBounded ==
  outcome = "running" =>
    \A g \in Guards : streak[g] < Max(g) \/ (streak[g] = Max(g) /\ g \in nudged)
Behind(g) ==
  CASE g = "noinfo" -> 0
    [] g = "allerr" -> Cardinality(nudgedStall)
    [] g = "nochange" -> Cardinality(nudgedStall) + (IF "allerr" \in nudged THEN 1 ELSE 0)
RowsFollow ==
  /\ IsFiniteSet(nudgedStall)
  /\ outcome = "running" => \A g \in Guards : row[g] <= streak[g] + Behind(g)
DenialsBounded ==
  Headless /\ outcome = "running" /\ phase \in {"top", "model"} => denials < MaxErrorStall
FutilityInv == StreaksBounded /\ RowsFollow /\ DenialsBounded

LEMMA LimitsArePositive ==
  ASSUME NEW g \in Guards
  PROVE  Max(g) \in Nat \ {0}
  BY ConstantsAssumption DEF Max, Guards

\* The guard the judgement ends at, and what each of the others knows then.
LEMMA VerdictTrips ==
  ASSUME NEW g \in Guards, Hears(g), Trips(g)
  PROVE  Verdict = g
<1>1. ~Refused /\ ~Recurs
  BY DEF Hears, Verdict, Guards
<1>2. CASE g = "allerr"
  BY <1>1, <1>2 DEF Verdict
<1>3. CASE g = "noinfo"
  <2>1. ~Trips("allerr")
    BY <1>1, <1>3 DEF Hears, Verdict
  <2> QED
    BY <1>1, <1>3, <2>1 DEF Verdict
<1>4. CASE g = "nochange"
  <2>1. ~Trips("allerr") /\ ~Trips("noinfo")
    BY <1>1, <1>4 DEF Hears, Verdict
  <2> QED
    BY <1>1, <1>4, <2>1 DEF Verdict
<1> QED
  BY <1>2, <1>3, <1>4 DEF Guards

LEMMA RunsOn ==
  ASSUME TypeInv, Judge, outcome' = "running"
  PROVE  /\ ~Refused /\ Verdict \notin nudged
         /\ Verdict = "same_error" => batch.errs \notin nudgedStall
<1>1. Verdict # "denied" /\ ~Warned
  <2>1. Warned => Verdict \in Guards \cup {"same_error"}
    BY DEF Warned, TypeInv, TypeOK
  <2> QED
    BY <2>1 DEF Judge, Guards
<1> QED
  BY <1>1 DEF Warned, Verdict

LEMMA JudgeBoundsStreaks ==
  ASSUME TypeInv, StreaksBounded, Judge
  PROVE  StreaksBounded'
<1> SUFFICES ASSUME outcome' = "running", NEW g \in Guards
             PROVE  streak'[g] < Max(g) \/ (streak'[g] = Max(g) /\ g \in nudged')
  BY DEF StreaksBounded, Max
<1>1. /\ streak[g] < Max(g) \/ (streak[g] = Max(g) /\ g \in nudged)
      /\ streak[g] \in Nat /\ Max(g) \in Nat \ {0}
  BY LimitsArePositive DEF Judge, Running, StreaksBounded, TypeInv, TypeOK
<1>2. /\ streak'[g] = (IF Hears(g) THEN Grown(streak, g) ELSE streak[g])
      /\ nudged' = nudged \cup ({Verdict} \cap Guards)
  BY DEF Judge
<1>3. CASE ~Hears(g)
  BY <1>1, <1>2, <1>3
<1>4. CASE Hears(g) /\ ~Was(g)
  BY <1>1, <1>2, <1>4 DEF Grown
<1>5. CASE Hears(g) /\ Was(g) /\ ~Trips(g)
  BY <1>1, <1>2, <1>5 DEF Grown, Trips
<1>6. CASE Hears(g) /\ Was(g) /\ Trips(g)
  <2>1. Verdict = g /\ g \notin nudged
    BY <1>6, VerdictTrips, RunsOn
  <2> QED
    BY <1>1, <1>2, <1>6, <2>1 DEF Grown, Trips
<1> QED
  BY <1>3, <1>4, <1>5, <1>6

\* A batch that another guard spoke about is no part of a row of empty ones, and not of
\* a row of edits without a change if it was one of empty answers.
LEMMA NotHeard ==
  ASSUME TypeInv, NEW g \in Guards, ~Hears(g), ~Refused
  PROVE  /\ g = "noinfo" => ~Was(g)
         /\ g = "allerr" => Verdict = "same_error"
         /\ g = "nochange" /\ Was(g) => Verdict \in {"same_error", "allerr"}
<1>1. Verdict = "same_error" => batch.errs # <<>>
  BY DEF Verdict, Recurs
<1>2. Verdict = "allerr" => batch.ran /\ batch.allErr
  BY DEF Verdict, Trips, Was
<1>3. Verdict = "noinfo" => batch.allEmpty
  BY DEF Verdict, Trips, Was
<1>4. Verdict # "denied"
  BY DEF Verdict
<1>5. CASE g = "noinfo"
  BY <1>1, <1>2, <1>4, <1>5 DEF Hears, Was, TypeInv, BatchInv
<1>6. CASE g = "allerr"
  BY <1>4, <1>6 DEF Hears
<1>7. CASE g = "nochange"
  BY <1>3, <1>4, <1>7 DEF Hears, Was, TypeInv, BatchInv
<1> QED
  BY <1>5, <1>6, <1>7 DEF Guards

LEMMA StallNudgesAdd ==
  ASSUME TypeInv, RowsFollow, Judge, outcome' = "running"
  PROVE  /\ IsFiniteSet(nudgedStall') /\ Cardinality(nudgedStall) \in Nat
         /\ Cardinality(nudgedStall') =
              Cardinality(nudgedStall) + (IF Verdict = "same_error" THEN 1 ELSE 0)
<1>1. IsFiniteSet(nudgedStall) /\ Cardinality(nudgedStall) \in Nat
  BY FS_CardinalityType DEF RowsFollow
<1>2. CASE Verdict = "same_error"
  <2>1. batch.errs \notin nudgedStall
    BY <1>2, RunsOn
  <2>2. nudgedStall' = nudgedStall \cup {batch.errs}
    BY <1>2 DEF Judge
  <2> QED
    BY <1>1, <1>2, <2>1, <2>2, FS_AddElement
<1>3. CASE Verdict # "same_error"
  BY <1>1, <1>3 DEF Judge
<1> QED
  BY <1>2, <1>3

LEMMA JudgeKeepsRows ==
  ASSUME TypeInv, RowsFollow, Judge
  PROVE  RowsFollow'
<1>1. IsFiniteSet(nudgedStall')
  <2>1. nudgedStall' \in {nudgedStall, nudgedStall \cup {batch.errs}}
    BY DEF Judge
  <2> QED
    BY <2>1, FS_AddElement DEF RowsFollow
<1>2. ASSUME outcome' = "running", NEW g \in Guards
      PROVE  row'[g] <= streak'[g] + Behind(g)'
  <2>1. /\ row[g] <= streak[g] + Behind(g) /\ row[g] \in Nat /\ streak[g] \in Nat
    BY DEF Judge, Running, RowsFollow, TypeInv, TypeOK
  <2>2. /\ Cardinality(nudgedStall) \in Nat
        /\ Cardinality(nudgedStall') =
             Cardinality(nudgedStall) + (IF Verdict = "same_error" THEN 1 ELSE 0)
    BY <1>2, StallNudgesAdd
  <2>3. /\ row'[g] = (IF Was(g) THEN row[g] + 1 ELSE 0)
        /\ streak'[g] = (IF Hears(g) THEN IF Was(g) THEN streak[g] + 1 ELSE 0 ELSE streak[g])
        /\ nudged' = nudged \cup ({Verdict} \cap Guards)
    BY DEF Judge, Grown
  <2>4. ~Refused /\ Verdict \notin nudged
    BY <1>2, RunsOn
  <2>5. Behind(g) \in Nat /\ Behind(g)' \in Nat /\ Behind(g) <= Behind(g)'
    BY <2>2, <2>3 DEF Behind, Guards
  <2>6. CASE Hears(g)
    BY <2>1, <2>3, <2>5, <2>6
  <2>7. CASE ~Hears(g) /\ ~Was(g)
    BY <2>1, <2>3, <2>5, <2>7
  <2>8. CASE ~Hears(g) /\ Was(g)
    <3>1. Behind(g)' = Behind(g) + 1
      <4>1. CASE g = "noinfo"
        BY <2>4, <2>8, <4>1, NotHeard
      <4>2. CASE g = "allerr"
        BY <2>2, <2>4, <2>8, <4>2, NotHeard DEF Behind
      <4>3. CASE g = "nochange"
        <5>1. Verdict \in {"same_error", "allerr"}
          BY <2>4, <2>8, <4>3, NotHeard
        <5>2. "allerr" \in nudged' <=> "allerr" \in nudged \/ Verdict = "allerr"
          BY <2>3 DEF Guards
        <5>3. CASE Verdict = "same_error"
          <6>1. "allerr" \in nudged' <=> "allerr" \in nudged
            BY <5>2, <5>3
          <6> QED
            BY <2>2, <4>3, <5>3, <6>1 DEF Behind
        <5>4. CASE Verdict = "allerr"
          <6>1. "allerr" \in nudged' /\ "allerr" \notin nudged
            BY <2>4, <5>2, <5>4
          <6> QED
            BY <2>2, <4>3, <5>4, <6>1 DEF Behind
        <5> QED
          BY <5>1, <5>3, <5>4
      <4> QED
        BY <4>1, <4>2, <4>3 DEF Guards
    <3> QED
      BY <2>1, <2>3, <2>5, <2>8, <3>1
  <2> QED
    BY <2>6, <2>7, <2>8
<1> QED
  BY <1>1, <1>2 DEF RowsFollow

LEMMA StepKeepsFutility ==
  ASSUME TypeInv, FutilityInv, [Next]_vars
  PROVE  FutilityInv'
<1>1. CASE Judge
  <2>1. DenialsBounded'
    <3>1. outcome' = "running" => ~Refused
      BY <1>1, RunsOn
    <3>2. denials \in Nat /\ MaxErrorStall \in Nat
      BY ConstantsAssumption DEF TypeInv, TypeOK
    <3> QED
      BY <1>1, <3>1, <3>2 DEF Judge, Refused, DenialsBounded
  <2> QED
    BY <1>1, <2>1, JudgeBoundsStreaks, JudgeKeepsRows DEF FutilityInv
<1>2. CASE ~Judge
  <2>1. UNCHANGED <<streak, row, nudged, nudgedStall>>
    BY <1>2 DEF Next, Top, NoBatchReply, Call, CallsDone, Report, ReportsDone, EndElsewhere,
                vars, streakVars
  <2>2. outcome' = "running" => outcome = "running"
    BY <1>2 DEF Next, Top, NoBatchReply, Call, CallsDone, Report, ReportsDone, EndElsewhere,
                vars, Running
  <2>3. outcome' = "running" /\ phase' \in {"top", "model"} =>
          phase \in {"top", "model"} /\ denials' = denials
    BY <1>2 DEF Next, Top, NoBatchReply, Call, CallsDone, Report, ReportsDone, EndElsewhere,
                vars, Running
  <2>4. StreaksBounded'
    BY <2>1, <2>2 DEF FutilityInv, StreaksBounded, Max
  <2>5. RowsFollow'
    BY <2>1, <2>2 DEF FutilityInv, RowsFollow, Behind
  <2>6. DenialsBounded'
    BY <2>2, <2>3 DEF FutilityInv, DenialsBounded
  <2> QED
    BY <2>4, <2>5, <2>6 DEF FutilityInv
<1> QED
  BY <1>1, <1>2

\* Batch after batch that only fails, only comes back empty or only edits without a
\* change is nudged and stopped, however many errors, files and calls there are.
THEOREM FutilityIsBounded == Spec => []FutilityBounded
<1>1. Init => FutilityInv
  <2>1. IsFiniteSet({}) /\ Cardinality({}) = 0
    BY FS_EmptySet
  <2>2. \A g \in Guards : Max(g) \in Nat \ {0}
    BY LimitsArePositive
  <2>3. Init => StreaksBounded
    BY <2>2 DEF Init, StreaksBounded
  <2>4. Init => RowsFollow
    BY <2>1 DEF Init, RowsFollow, Behind, Guards
  <2>5. Init => DenialsBounded
    BY ConstantsAssumption DEF Init, DenialsBounded
  <2> QED
    BY <2>3, <2>4, <2>5 DEF FutilityInv
<1>2. TypeInv /\ FutilityInv /\ [Next]_vars => FutilityInv'
  BY StepKeepsFutility
<1>3. TypeInv /\ FutilityInv => FutilityBounded
  <2> SUFFICES ASSUME TypeInv, FutilityInv, outcome = "running", NEW g \in Guards
               PROVE  row[g] <= Max(g) + Excuses(g)
    BY DEF FutilityInv, DenialsBounded, FutilityBounded
  <2>1. row[g] <= streak[g] + Behind(g)
    BY DEF FutilityInv, RowsFollow
  <2>2. row[g] \in Nat /\ streak[g] \in Nat /\ Max(g) \in Nat
    BY LimitsArePositive DEF TypeInv, TypeOK
  <2>3. streak[g] <= Max(g)
    BY <2>2 DEF FutilityInv, StreaksBounded
  <2>4. Cardinality(nudgedStall) \in Nat
    BY FS_CardinalityType DEF FutilityInv, RowsFollow
  <2>5. Behind(g) \in Nat /\ Excuses(g) \in Nat /\ Behind(g) <= Excuses(g)
    BY <2>4 DEF Behind, Excuses, Guards
  <2> QED
    BY <2>1, <2>5, <2>2, <2>3
<1> QED
  BY <1>1, <1>2, <1>3, TypesHold, PTL DEF Spec
=============================================================================
