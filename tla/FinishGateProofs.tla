-------------------------- MODULE FinishGateProofs ---------------------------
(***************************************************************************)
(* Proofs, for every set of texts and every value of the limits, of the     *)
(* safety properties that FinishGate states, and that it implements         *)
(* Patience.                                                                *)
(***************************************************************************)
EXTENDS FinishGate, TLAPS

\* A gate that nudges has a nudge left.
LEMMA VerdictLeft ==
  ASSUME NEW r \in Spoken, Verdict(r) \in NudgeKinds
  PROVE  Left(Verdict(r))
<1>1. "stop" \notin NudgeKinds /\ "answer" \notin NudgeKinds
  BY DEF NudgeKinds
<1> QED
  BY <1>1 DEF Verdict

LEMMA LimitType ==
  ASSUME NEW k \in NudgeKinds
  PROVE  Limit(k) \in Nat
  BY ConstantsAssumption DEF Limit

\* A nudge within the limits.
LEMMA NudgeType ==
  ASSUME TypeOK, NEW k \in NudgeKinds, Left(k), Nudge(k)
  PROVE  /\ nudges' \in [NudgeKinds -> Nat] /\ \A j \in NudgeKinds : nudges'[j] <= Limit(j)
         /\ nudges'[k] = nudges[k] + 1 /\ \A j \in NudgeKinds \ {k} : nudges'[j] = nudges[j]
<1>1. nudges \in [NudgeKinds -> Nat] /\ \A j \in NudgeKinds : nudges[j] <= Limit(j)
  BY DEF TypeOK
<1>2. nudges' = [nudges EXCEPT ![k] = nudges[k] + 1] /\ nudges[k] < Limit(k)
  BY DEF Nudge, Left
<1>3. nudges'[k] = nudges[k] + 1 /\ \A j \in NudgeKinds \ {k} : nudges'[j] = nudges[j]
  BY <1>1, <1>2
<1>4. Limit(k) \in Nat
  BY LimitType
<1>5. nudges[k] + 1 <= Limit(k)
  BY <1>1, <1>2, <1>4
<1>6. \A j \in NudgeKinds : nudges'[j] <= Limit(j)
  BY <1>1, <1>3, <1>5
<1> QED
  BY <1>1, <1>2, <1>3, <1>6

LEMMA CreditType ==
  ASSUME TypeOK, NEW v, CreditPlan(v)
  PROVE  open' \in 0..MaxTasks /\ onVerify' \in BOOLEAN
<1>1. CASE UNCHANGED <<open, onVerify>>
  BY <1>1 DEF TypeOK
<1>2. CASE /\ Credited /\ open' = open - 1
           /\ onVerify' \in (IF open > 1 THEN BOOLEAN ELSE {FALSE})
  <2>1. onVerify' \in BOOLEAN
    BY <1>2
  <2>2. open \in 0..MaxTasks /\ open > 0
    BY <1>2 DEF TypeOK, Credited
  <2> QED
    BY <1>2, <2>1, <2>2, ConstantsAssumption
<1> QED
  BY <1>1, <1>2 DEF CreditPlan

LEMMA EffectsType ==
  ASSUME TypeOK, NEW kind, Effects(kind)
  PROVE  /\ acted' \in BOOLEAN /\ missing' \in BOOLEAN /\ sawGreen' \in BOOLEAN
         /\ sawVerifyOk' \in BOOLEAN /\ open' \in 0..MaxTasks /\ onVerify' \in BOOLEAN
  BY DEF TypeOK, Effects

\* While the turn runs, a malformed call more is still within the limit.
Tolerant == outcome = "running" => malformed < MaxMalformed
TypeInv == TypeOK /\ Tolerant

LEMMA TypeStep ==
  ASSUME TypeInv, [Next]_vars
  PROVE  TypeOK'
<1> USE DEF TypeInv
<1>1. ASSUME NEW r \in Spoken, NudgeProse(r) PROVE TypeOK'
  <2>1. nudges' \in [NudgeKinds -> Nat] /\ \A j \in NudgeKinds : nudges'[j] <= Limit(j)
    BY <1>1, VerdictLeft, NudgeType DEF NudgeProse
  <2>2. open' \in 0..MaxTasks /\ onVerify' \in BOOLEAN
    BY <1>1, CreditType DEF NudgeProse
  <2>3. grinds' \in [Prose -> Nat]
    BY <1>1 DEF NudgeProse, TypeOK
  <2>4. calledSince' \in BOOLEAN /\ did' \in {"talk", "talked", "work"}
    BY <1>1 DEF NudgeProse, TypeOK, Talks
  <2> QED
    BY <1>1, <2>1, <2>2, <2>3, <2>4 DEF NudgeProse, TypeOK, Hear
<1>2. ASSUME NEW r \in Spoken, EndOnProse(r) PROVE TypeOK'
  <2>1. open' \in 0..MaxTasks /\ onVerify' \in BOOLEAN
    BY <1>2, CreditType DEF EndOnProse
  <2>2. outcome' \in Outcomes /\ claims' \subseteq Claims /\ did' \in {"talk", "talked", "work"}
    BY <1>2, SpokenAssumption DEF EndOnProse, TypeOK, Replies, Outcomes, Talks
  <2> QED
    BY <1>2, <2>1, <2>2 DEF EndOnProse, TypeOK, Hear
<1>3. ASSUME NEW k \in {"repetition", "empty", "echo"}, Discard(k) PROVE TypeOK'
  <2>1. k \in NudgeKinds
    BY DEF NudgeKinds
  <2>2. nudges' \in [NudgeKinds -> Nat] /\ \A j \in NudgeKinds : nudges'[j] <= Limit(j)
    <3>1. CASE Left(k)
      BY <1>3, <2>1, <3>1, NudgeType DEF Discard
    <3>2. CASE ~Left(k)
      BY <1>3, <3>2 DEF Discard, TypeOK
    <3> QED
      BY <3>1, <3>2
  <2>3. outcome' \in Outcomes /\ did' \in {"talk", "talked", "work"}
    BY <1>3 DEF Discard, TypeOK, Outcomes, Talks
  <2> QED
    BY <1>3, <2>2, <2>3 DEF Discard, TypeOK, workVars
<1>4. CASE Malformed
  <2>1. outcome' \in Outcomes /\ did' \in {"talk", "talked", "work"}
    BY <1>4 DEF Malformed, TypeOK, Outcomes, Talks
  <2>2. malformed' \in 0..MaxMalformed
    BY <1>4, ConstantsAssumption DEF Malformed, Talks, TypeOK, Tolerant
  <2> QED
    BY <1>4, <2>1, <2>2 DEF Malformed, TypeOK, workVars
<1>5. CASE TurnedAway
  BY <1>5 DEF TurnedAway, TypeOK, Works, workVars
<1>6. CASE Salvage
  <2>1. /\ malformed' \in 0..MaxMalformed /\ salvages' \in 0..MaxSalvaged
        /\ acted' \in BOOLEAN /\ missing' \in BOOLEAN /\ sawGreen' \in BOOLEAN
        /\ sawVerifyOk' \in BOOLEAN /\ open' \in 0..MaxTasks /\ onVerify' \in BOOLEAN
    BY <1>6, EffectsType, ConstantsAssumption DEF Salvage, TypeOK, workVars
  <2> QED
    BY <1>6, <2>1 DEF Salvage, TypeOK, Works
<1>7. ASSUME NEW kind \in {"edit", "bash", "plan", "other"}, RunCall(kind) PROVE TypeOK'
  <2>1. /\ malformed' \in 0..MaxMalformed
        /\ acted' \in BOOLEAN /\ missing' \in BOOLEAN /\ sawGreen' \in BOOLEAN
        /\ sawVerifyOk' \in BOOLEAN /\ open' \in 0..MaxTasks /\ onVerify' \in BOOLEAN
    BY <1>7, EffectsType, ConstantsAssumption DEF RunCall
  <2> QED
    BY <1>7, <2>1 DEF RunCall, TypeOK, Works
<1>8. CASE EndElsewhere
  BY <1>8 DEF EndElsewhere, TypeOK, Outcomes, gateVars, workVars
<1>9. CASE UNCHANGED vars
  BY <1>9 DEF vars, TypeOK, gateVars, workVars
<1> QED
  BY <1>1, <1>2, <1>3, <1>4, <1>5, <1>6, <1>7, <1>8, <1>9 DEF Next, Talk, Work

LEMMA TolerantStep ==
  ASSUME TypeInv, [Next]_vars
  PROVE  Tolerant'
<1> USE ConstantsAssumption DEF Tolerant, TypeInv, TypeOK
<1>1. ASSUME NEW r \in Spoken, NudgeProse(r) PROVE Tolerant'
  BY <1>1 DEF NudgeProse, Hear
<1>2. ASSUME NEW r \in Spoken, EndOnProse(r) PROVE Tolerant'
  BY <1>2 DEF EndOnProse, Hear
<1>3. ASSUME NEW k \in {"repetition", "empty", "echo"}, Discard(k) PROVE Tolerant'
  BY <1>3 DEF Discard
<1>4. CASE Malformed
  BY <1>4 DEF Malformed, Talks
<1>5. CASE TurnedAway
  BY <1>5 DEF TurnedAway
<1>6. CASE Salvage
  BY <1>6 DEF Salvage, Works
<1>7. ASSUME NEW kind \in {"edit", "bash", "plan", "other"}, RunCall(kind) PROVE Tolerant'
  BY <1>7 DEF RunCall
<1>8. CASE EndElsewhere
  BY <1>8 DEF EndElsewhere
<1>9. CASE UNCHANGED vars
  BY <1>9 DEF vars, gateVars
<1> QED
  BY <1>1, <1>2, <1>3, <1>4, <1>5, <1>6, <1>7, <1>8, <1>9 DEF Next, Talk, Work

LEMMA InitTypes ==
  ASSUME Init
  PROVE  TypeInv
<1>1. nudges \in [NudgeKinds -> Nat] /\ grinds \in [Prose -> Nat]
  BY DEF Init
<1>2. \A k \in NudgeKinds : nudges[k] <= Limit(k)
  BY LimitType DEF Init
<1>3. request \in Requests /\ missing \in BOOLEAN
  BY ConstantsAssumption DEF Init
<1>4. /\ malformed \in 0..MaxMalformed /\ malformed < MaxMalformed /\ salvages \in 0..MaxSalvaged
  BY ConstantsAssumption DEF Init
<1>5. onVerify \in BOOLEAN /\ open \in 0..MaxTasks
  BY DEF Init
<1>6. /\ outcome \in Outcomes /\ did \in {"talk", "talked", "work"} /\ claims \subseteq Claims
      /\ seen \subseteq Prose /\ calledSince \in BOOLEAN
      /\ acted \in BOOLEAN /\ sawGreen \in BOOLEAN /\ sawVerifyOk \in BOOLEAN
  BY DEF Init, Outcomes
<1> QED
  BY <1>1, <1>2, <1>3, <1>4, <1>5, <1>6 DEF TypeInv, Tolerant, TypeOK

LEMMA TypeInvariant == Spec => []TypeInv
<1>1. Init => TypeInv
  BY InitTypes
<1>2. TypeInv /\ [Next]_vars => TypeInv'
  BY TypeStep, TolerantStep DEF TypeInv
<1> QED
  BY <1>1, <1>2, PTL DEF Spec

\* Every variable keeps to the values the loop's own ones can have.
THEOREM TypeCorrect == Spec => []TypeOK
<1>1. TypeInv => TypeOK
  BY DEF TypeInv
<1> QED
  BY <1>1, TypeInvariant, PTL

-----------------------------------------------------------------------------
\* A text that a gate has sent back is a text the loop has seen, and the gates that
\* would send it back again are only reached by a text it has not.
GrindInv == \A p \in Prose : grinds[p] <= 1 /\ (grinds[p] # 0 => p \in seen)

LEMMA GrindsOnlyNews ==
  ASSUME TypeOK, NEW r \in Spoken, Verdict(r) \in GrindingGates
  PROVE  r.text \notin seen
<1>1. ~Repeated(r)
  BY DEF Verdict, GrindingGates
<1>2. Cut(r) \/ missing \/ open > 0
  <2>1. CASE Verdict(r) = "truncated"
    BY <2>1 DEF Verdict
  <2>2. CASE Verdict(r) = "deliverable"
    BY <2>2 DEF Verdict, DeliverableDue
  <2>3. CASE Verdict(r) = "open_task"
    <3>1. OpenThen > 0
      BY <2>3 DEF Verdict
    <3> QED
      BY <3>1 DEF OpenThen, Credited, TypeOK
  <2> QED
    BY <2>1, <2>2, <2>3 DEF GrindingGates
<1> QED
  BY <1>1, <1>2 DEF Repeated

\* A long reply repeated word for word is not sent back twice.
THEOREM NothingIsGroundTwice == Spec => []GrindsOncePerText
<1>1. Init => GrindInv
  <2> SUFFICES ASSUME Init, NEW p \in Prose
               PROVE  grinds[p] <= 1 /\ (grinds[p] # 0 => p \in seen)
    BY DEF GrindInv
  <2>1. grinds[p] = 0
    BY DEF Init
  <2> QED
    BY <2>1
<1>2. TypeInv /\ GrindInv /\ [Next]_vars => GrindInv'
  <2> SUFFICES ASSUME TypeInv, GrindInv, [Next]_vars PROVE GrindInv'
    OBVIOUS
  <2>1. TypeOK
    BY DEF TypeInv
  <2>2. ASSUME NEW r \in Spoken, NudgeProse(r) PROVE GrindInv'
    <3> SUFFICES ASSUME NEW p \in Prose
                 PROVE  grinds'[p] <= 1 /\ (grinds'[p] # 0 => p \in seen')
      BY DEF GrindInv
    <3>1. /\ grinds'[p] = IF p = r.text /\ Verdict(r) \in GrindingGates THEN grinds[p] + 1 ELSE grinds[p]
          /\ seen' = seen \cup ({r.text} \cap Prose)
      BY <2>2 DEF NudgeProse, Hear
    <3>2. grinds[p] \in Nat /\ grinds[p] <= 1 /\ (grinds[p] # 0 => p \in seen)
      BY <2>1 DEF TypeOK, GrindInv
    <3>3. CASE p = r.text /\ Verdict(r) \in GrindingGates
      BY <2>1, <3>1, <3>2, <3>3, GrindsOnlyNews
    <3>4. CASE ~(p = r.text /\ Verdict(r) \in GrindingGates)
      BY <3>1, <3>2, <3>4
    <3> QED
      BY <3>3, <3>4
  <2>3. ASSUME UNCHANGED grinds, seen \subseteq seen' PROVE GrindInv'
    BY <2>3 DEF GrindInv
  <2>4. ASSUME NEW r \in Spoken, EndOnProse(r) PROVE GrindInv'
    BY <2>3, <2>4 DEF EndOnProse, Hear
  <2>5. ASSUME NEW k \in {"repetition", "empty", "echo"}, Discard(k) PROVE GrindInv'
    BY <2>3, <2>5 DEF Discard
  <2>6. ASSUME NEW kind \in {"edit", "bash", "plan", "other"}, RunCall(kind) PROVE GrindInv'
    BY <2>3, <2>6 DEF RunCall
  <2>7. CASE Malformed \/ TurnedAway \/ Salvage \/ EndElsewhere \/ UNCHANGED vars
    BY <2>3, <2>7 DEF Malformed, TurnedAway, Salvage, EndElsewhere, vars, gateVars
  <2> QED
    BY <2>2, <2>4, <2>5, <2>6, <2>7 DEF Next, Talk, Work
<1>3. GrindInv => GrindsOncePerText
  BY DEF GrindInv, GrindsOncePerText
<1> QED
  BY <1>1, <1>2, <1>3, TypeInvariant, PTL DEF Spec

-----------------------------------------------------------------------------
\* What has to hold of the gates for a reply to get past all of them.
LEMMA AnswerPasses ==
  ASSUME TypeOK, NEW r \in Spoken, Verdict(r) = "answer"
  PROVE  /\ missing => nudges["deliverable"] # 0 /\ ~calledSince
         /\ OpenThen > 0 => ~Left("open_task")
         /\ "tests" \in r.claims => sawGreen \/ ~Left("tests")
         /\ "verify" \in r.claims => sawVerifyOk \/ ~Left("verify")
         /\ request.change /\ ~request.file => acted \/ ~Left("zero_change")
  BY DEF Verdict, DeliverableDue

LEMMA LimitReached ==
  ASSUME TypeOK
  PROVE  /\ ~Left("open_task") => nudges["open_task"] = Limit("open_task")
         /\ ~Left("tests") => nudges["tests"] = 1
         /\ ~Left("verify") => nudges["verify"] = 1
         /\ ~Left("zero_change") => nudges["zero_change"] = 1
         /\ nudges["deliverable"] # 0 => nudges["deliverable"] >= 1
<1>1. ASSUME NEW k \in NudgeKinds, ~Left(k) PROVE nudges[k] = Limit(k)
  <2>1. Limit(k) \in Nat /\ nudges[k] \in Nat /\ nudges[k] <= Limit(k)
    BY LimitType DEF TypeOK
  <2> QED
    BY <1>1, <2>1 DEF Left
<1>2. {"open_task", "tests", "verify", "zero_change", "deliverable"} \subseteq NudgeKinds
  BY DEF NudgeKinds
<1>3. Limit("tests") = 1 /\ Limit("verify") = 1 /\ Limit("zero_change") = 1
  BY DEF Limit, OneShot
<1>4. nudges["deliverable"] \in Nat
  BY <1>2 DEF TypeOK
<1> QED
  BY <1>1, <1>2, <1>3, <1>4

\* An answer reaches the user only when every gate it could fail has had its say.
THEOREM AnswersAreEarned == Spec => []AnswerIsEarned
<1>1. Init => AnswerIsEarned
  BY DEF Init, AnswerIsEarned
<1>2. TypeInv /\ AnswerIsEarned /\ [Next]_vars => AnswerIsEarned'
  <2> SUFFICES ASSUME TypeInv, AnswerIsEarned, [Next]_vars PROVE AnswerIsEarned'
    OBVIOUS
  <2>1. TypeOK
    BY DEF TypeInv
  <2>2. ASSUME outcome' # "answer" PROVE AnswerIsEarned'
    BY <2>2 DEF AnswerIsEarned
  <2>3. ASSUME NEW r \in Spoken, EndOnProse(r) PROVE AnswerIsEarned'
    <3>1. CASE Verdict(r) = "answer" /\ claims' = r.claims
      <4>1. /\ missing' = missing /\ nudges' = nudges /\ calledSince' = calledSince
            /\ request' = request /\ sawGreen' = sawGreen /\ sawVerifyOk' = sawVerifyOk
            /\ acted' = acted
        BY <2>3 DEF EndOnProse, Hear
      <4>2. open' = OpenThen
        BY <2>1, <2>3, <3>1 DEF EndOnProse, CreditPlan, OpenThen, EarlyGates
      <4> QED
        BY <2>1, <3>1, <4>1, <4>2, AnswerPasses, LimitReached DEF AnswerIsEarned, Limit
    <3>2. CASE outcome' = "stopped"
      BY <2>2, <3>2
    <3> QED
      BY <2>3, <3>1, <3>2 DEF EndOnProse
  <2>4. ASSUME NEW r \in Spoken, NudgeProse(r) PROVE AnswerIsEarned'
    BY <2>2, <2>4 DEF NudgeProse, Talks
  <2>5. ASSUME NEW k \in {"repetition", "empty", "echo"}, Discard(k) PROVE AnswerIsEarned'
    BY <2>2, <2>5 DEF Discard, Talks
  <2>6. ASSUME NEW kind \in {"edit", "bash", "plan", "other"}, RunCall(kind) PROVE AnswerIsEarned'
    BY <2>2, <2>6 DEF RunCall, Works
  <2>7. CASE Malformed \/ TurnedAway \/ Salvage \/ EndElsewhere
    BY <2>2, <2>7 DEF Malformed, TurnedAway, Salvage, EndElsewhere, Talks, Works
  <2>8. CASE UNCHANGED vars
    BY <2>8 DEF vars, gateVars, workVars, AnswerIsEarned, Limit
  <2> QED
    BY <2>3, <2>4, <2>5, <2>6, <2>7, <2>8 DEF Next, Talk, Work
<1> QED
  BY <1>1, <1>2, TypeInvariant, PTL DEF Spec

-----------------------------------------------------------------------------
\* The refinement of Patience: the budget of dead ends is what is left of the limits.
LEMMA FourBounded ==
  \A a, b, c, d, e, f, g, h \in Nat :
    a <= e /\ b <= f /\ c <= g /\ d <= h =>
      a + b + c + d \in Nat /\ e + f + g + h \in Nat /\ a + b + c + d <= e + f + g + h
OBVIOUS

LEMMA ThreeBounded ==
  \A a, b, c, e, f, g \in Nat :
    a <= e /\ b <= f /\ c <= g =>
      a + b + c \in Nat /\ e + f + g \in Nat /\ a + b + c <= e + f + g
OBVIOUS

LEMMA BudgetRange ==
  ASSUME TypeOK
  PROVE  /\ MostBudget \in Nat /\ Spent \in Nat /\ Budget \in 0..MostBudget
<1>1. \A k \in NudgeKinds : Limit(k) \in Nat /\ nudges[k] \in Nat /\ nudges[k] <= Limit(k)
  BY LimitType DEF TypeOK
<1>2. malformed \in Nat /\ MaxMalformed \in Nat /\ malformed <= MaxMalformed
  BY ConstantsAssumption DEF TypeOK
<1>3. NudgeKinds = {"repetition", "empty", "echo", "truncated", "deliverable", "open_task",
                     "intent", "tests", "verify", "zero_change"}
  BY DEF NudgeKinds
<1>4. Limit("repetition") \in Nat /\ nudges["repetition"] \in Nat /\ nudges["repetition"] <= Limit("repetition")
  BY <1>1, <1>3
<1>5. Limit("empty") \in Nat /\ nudges["empty"] \in Nat /\ nudges["empty"] <= Limit("empty")
  BY <1>1, <1>3
<1>6. Limit("echo") \in Nat /\ nudges["echo"] \in Nat /\ nudges["echo"] <= Limit("echo")
  BY <1>1, <1>3
<1>7. Limit("truncated") \in Nat /\ nudges["truncated"] \in Nat /\ nudges["truncated"] <= Limit("truncated")
  BY <1>1, <1>3
<1>8. Limit("deliverable") \in Nat /\ nudges["deliverable"] \in Nat /\ nudges["deliverable"] <= Limit("deliverable")
  BY <1>1, <1>3
<1>9. Limit("open_task") \in Nat /\ nudges["open_task"] \in Nat /\ nudges["open_task"] <= Limit("open_task")
  BY <1>1, <1>3
<1>10. Limit("intent") \in Nat /\ nudges["intent"] \in Nat /\ nudges["intent"] <= Limit("intent")
  BY <1>1, <1>3
<1>11. Limit("tests") \in Nat /\ nudges["tests"] \in Nat /\ nudges["tests"] <= Limit("tests")
  BY <1>1, <1>3
<1>12. Limit("verify") \in Nat /\ nudges["verify"] \in Nat /\ nudges["verify"] <= Limit("verify")
  BY <1>1, <1>3
<1>13. Limit("zero_change") \in Nat /\ nudges["zero_change"] \in Nat /\ nudges["zero_change"] <= Limit("zero_change")
  BY <1>1, <1>3
<1> DEFINE n1 == nudges["repetition"] + nudges["empty"] + nudges["echo"] + nudges["truncated"]
           n2 == nudges["deliverable"] + nudges["open_task"] + nudges["intent"]
           n3 == nudges["tests"] + nudges["verify"] + nudges["zero_change"]
           l1 == Limit("repetition") + Limit("empty") + Limit("echo") + Limit("truncated")
           l2 == Limit("deliverable") + Limit("open_task") + Limit("intent")
           l3 == Limit("tests") + Limit("verify") + Limit("zero_change")
<1>14. n1 \in Nat /\ l1 \in Nat /\ n1 <= l1
  BY <1>4, <1>5, <1>6, <1>7, FourBounded
<1>15. n2 \in Nat /\ l2 \in Nat /\ n2 <= l2
  BY <1>8, <1>9, <1>10, ThreeBounded
<1>16. n3 \in Nat /\ l3 \in Nat /\ n3 <= l3
  BY <1>11, <1>12, <1>13, ThreeBounded
<1>17. Spent = nudges["repetition"] + nudges["empty"] + nudges["echo"] + nudges["truncated"]
         + nudges["deliverable"] + nudges["open_task"] + nudges["intent"] + nudges["tests"]
         + nudges["verify"] + nudges["zero_change"] + malformed
  BY DEF Spent
<1>18. Spent = n1 + n2 + n3 + malformed
  BY <1>2, <1>4, <1>5, <1>6, <1>7, <1>8, <1>9, <1>10, <1>11, <1>12, <1>13, <1>17
<1>19. MostBudget = l1 + l2 + l3 + MaxMalformed
  BY <1>2, <1>4, <1>5, <1>6, <1>7, <1>8, <1>9, <1>10, <1>11, <1>12, <1>13 DEF MostBudget
<1> HIDE DEF n1, n2, n3, l1, l2, l3
<1>20. Spent \in Nat /\ MostBudget \in Nat /\ Spent <= MostBudget
  BY <1>2, <1>14, <1>15, <1>16, <1>18, <1>19
<1> QED
  BY <1>20 DEF Budget

LEMMA NudgeCosts ==
  ASSUME TypeOK, NEW k \in NudgeKinds, Left(k), Nudge(k), malformed' = malformed
  PROVE  Budget' = Budget - 1
<1>1. \A j \in NudgeKinds : nudges[j] \in Nat /\ nudges'[j] = IF j = k THEN nudges[j] + 1 ELSE nudges[j]
  BY NudgeType DEF TypeOK
<1>2. malformed \in Nat /\ MostBudget \in Nat
  BY BudgetRange DEF TypeOK
<1>3. Spent' = Spent + 1
  BY <1>1, <1>2 DEF Spent, NudgeKinds
<1> QED
  BY <1>2, <1>3, BudgetRange DEF Budget, MostBudget, Limit

\* A malformed call costs as much as a nudge.
LEMMA MalformedCosts ==
  ASSUME TypeOK, nudges' = nudges, malformed' = malformed + 1
  PROVE  Spent' = Spent + 1
<1>1. \A k \in NudgeKinds : nudges[k] \in Nat
  BY DEF TypeOK
<1>2. malformed \in Nat
  BY DEF TypeOK
<1> DEFINE sum == nudges["repetition"] + nudges["empty"] + nudges["echo"] + nudges["truncated"]
                  + nudges["deliverable"] + nudges["open_task"] + nudges["intent"] + nudges["tests"]
                  + nudges["verify"] + nudges["zero_change"]
<1>3. sum \in Nat
  BY <1>1 DEF NudgeKinds
<1>4. Spent = sum + malformed /\ Spent' = sum + malformed'
  BY DEF Spent
<1> HIDE DEF sum
<1> QED
  BY <1>2, <1>3, <1>4

\* Every reply without a call costs the turn patience or ends it, and only a batch
\* that ran gives any back.
THEOREM ImplementsPatience == Spec => PatienceRunsOut
<1>1. Init => P!Init
  <2> SUFFICES ASSUME Init PROVE P!Init
    OBVIOUS
  <2>1. TypeOK
    BY InitTypes DEF TypeInv
  <2> QED
    BY <2>1, BudgetRange DEF Init, P!Init
<1>2. TypeInv => Budget \in 0..MostBudget
  BY BudgetRange DEF TypeInv
<1>3. /\ TypeInv /\ TypeInv' /\ Budget \in 0..MostBudget /\ (Budget \in 0..MostBudget)' /\ [Next]_vars
      => [P!Next]_<<did, Budget, outcome # "running">>
  <2> SUFFICES ASSUME TypeInv, TypeInv', Budget \in 0..MostBudget, (Budget \in 0..MostBudget)', [Next]_vars
               PROVE  [P!Next]_<<did, Budget, outcome # "running">>
    OBVIOUS
  <2>1. TypeOK /\ TypeOK'
    BY DEF TypeInv
  <2>2. Budget \in 0..MostBudget /\ Budget' \in 0..MostBudget
    <3>1. MostBudget' = MostBudget
      BY DEF MostBudget, Limit
    <3> QED
      BY <3>1
  \* A reply without a call that costs something, or ends the turn.
  <2>a. ASSUME Talks, Budget' < Budget \/ outcome' # "running" PROVE P!Next
    BY <2>1, <2>2, <2>a DEF Talks, TypeOK, P!Next, P!Talk
  <2>3. ASSUME NEW r \in Spoken, NudgeProse(r) PROVE P!Next
    <3>1. Budget' = Budget - 1
      BY <2>1, <2>3, VerdictLeft, NudgeCosts DEF NudgeProse, Hear
    <3>2. Budget' < Budget
      BY <2>2, <3>1
    <3> QED
      BY <2>a, <2>3, <3>2 DEF NudgeProse
  <2>4. ASSUME NEW r \in Spoken, EndOnProse(r) PROVE P!Next
    BY <2>a, <2>4 DEF EndOnProse
  <2>5. ASSUME NEW k \in {"repetition", "empty", "echo"}, Discard(k) PROVE P!Next
    <3>1. k \in NudgeKinds
      BY DEF NudgeKinds
    <3>2. CASE Left(k)
      <4>1. Budget' = Budget - 1
        BY <2>1, <2>5, <3>1, <3>2, NudgeCosts DEF Discard
      <4>2. Budget' < Budget
        BY <2>2, <4>1
      <4> QED
        BY <2>a, <2>5, <4>2 DEF Discard
    <3>3. CASE ~Left(k)
      BY <2>a, <2>5, <3>3 DEF Discard
    <3> QED
      BY <3>2, <3>3
  <2>6. CASE Malformed
    <3>1. malformed' = malformed + 1 /\ nudges' = nudges /\ malformed \in Nat
      BY <2>1, <2>6 DEF Malformed, TypeOK
    <3>2. Spent \in Nat /\ MostBudget \in Nat
      BY <2>1, BudgetRange
    <3>3. Spent' = Spent + 1
      BY <2>1, <3>1, MalformedCosts
    <3>4. Budget' < Budget
      BY <3>2, <3>3 DEF Budget, MostBudget, Limit
    <3> QED
      BY <2>a, <2>6, <3>4 DEF Malformed
  <2>7. ASSUME Works, UNCHANGED outcome PROVE P!Next
    BY <2>2, <2>7 DEF Works, P!Next, P!Work
  <2>8. ASSUME NEW kind \in {"edit", "bash", "plan", "other"}, RunCall(kind) PROVE P!Next
    BY <2>7, <2>8 DEF RunCall
  <2>9. CASE TurnedAway \/ Salvage
    BY <2>7, <2>9 DEF TurnedAway, Salvage
  <2>10. CASE EndElsewhere
    BY <2>10 DEF EndElsewhere, gateVars, Budget, MostBudget, Spent, Limit, P!Next, P!End
  <2>11. CASE UNCHANGED vars
    BY <2>11 DEF vars, gateVars, Budget, MostBudget, Spent, Limit
  <2> QED
    BY <2>3, <2>4, <2>5, <2>6, <2>8, <2>9, <2>10, <2>11 DEF Next, Talk, Work
<1> QED
  BY <1>1, <1>2, <1>3, TypeInvariant, PTL DEF Spec, PatienceRunsOut, P!Spec
=============================================================================
