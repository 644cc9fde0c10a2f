-------------------------- MODULE RepeatGuardProofs --------------------------
(***************************************************************************)
(* Proofs, for every set of batches and every value of the limits, of the   *)
(* properties that RepeatGuard states.                                      *)
(***************************************************************************)
EXTENDS RepeatGuard, TLAPS

\* Only a batch the model issued is run.
RunsABatch == pc = "run" => batch \in Batches
TypeInv == TypeOK /\ RunsABatch

\* A batch always has a call, and the kinds of its calls are known.
LEMMA KindsOfBatch ==
  ASSUME NEW b \in Batches
  PROVE  KindsOf(b) \subseteq Kinds /\ KindsOf(b) # {}
<1>1. Calls[b] \in Seq(Kinds) /\ Calls[b] # <<>>
  BY ConstantsAssumption
<1>2. 1 \in DOMAIN Calls[b] /\ \A k \in DOMAIN Calls[b] : Calls[b][k] \in Kinds
  BY <1>1
<1> QED
  BY <1>2 DEF KindsOf

LEMMA AbsentType == Absent \in [res : Seq(Texts), n : Nat] /\ <<>> \in Seq(Texts)
<1>1. <<>> \in Seq(Texts)
  OBVIOUS
<1> QED
  BY <1>1 DEF Absent

LEMMA CountedType ==
  ASSUME NEW counts \in [Batches -> Nat], NEW S
  PROVE  Counted(counts, S) \in [Batches -> Nat]
  BY DEF Counted

\* The call that runs next is one of the batch's.
LEMMA KindOfCall ==
  ASSUME TypeInv, Running
  PROVE  Kind \in KindsOf(batch) /\ Kind \in Kinds
<1>1. batch \in Batches /\ Calls[batch] \in Seq(Kinds) /\ results \in Seq(Texts)
  BY ConstantsAssumption DEF TypeInv, TypeOK, RunsABatch, Running
<1>2. Len(results) + 1 \in DOMAIN Calls[batch]
  BY <1>1 DEF Running
<1> QED
  BY <1>1, <1>2 DEF Kind, KindsOf

LEMMA SeenStreakType ==
  ASSUME TypeOK, NEW b \in Batches
  PROVE  /\ SeenStreak(b) \in Nat
         /\ StreakOnIssue(b) \in [Batches -> [res : Seq(Texts), n : Nat]]
         /\ StreakOnIssue(b)[b].n = SeenStreak(b)
         /\ \A c \in Batches \ {b} : StreakOnIssue(b)[c] = streak[c]
  BY DEF TypeOK, SeenStreak, StreakOnIssue

\* The types, and that a batch under way is one of the model's: the invariant every
\* proof below starts from.
LEMMA TypeInvariant == Spec => []TypeInv
<1> USE ConstantsAssumption DEF TypeInv, TypeOK, RunsABatch
<1>1. Init => TypeInv
  <2> SUFFICES ASSUME Init PROVE TypeInv
    OBVIOUS
  <2>1. streak \in [Batches -> [res : Seq(Texts), n : Nat]]
    BY AbsentType DEF Init
  <2>2. results \in Seq(Texts)
    BY AbsentType DEF Init
  <2> QED
    BY <2>1, <2>2 DEF Init, Outcomes
<1>2. TypeInv /\ [Next]_vars => TypeInv'
  <2> SUFFICES ASSUME TypeInv, [Next]_vars PROVE TypeInv'
    OBVIOUS
  <2> USE DEF turnVars, workVars, guardVars, ghostVars
  <2>1. CASE EndElsewhere
    BY <2>1 DEF EndElsewhere, Outcomes
  <2>2. CASE Interrupt
    BY <2>2 DEF Interrupt, Outcomes
  <2>3. CASE TopOfLoop
    <3>1. streak' \in [Batches -> [res : Seq(Texts), n : Nat]]
      BY <2>3, AbsentType DEF TopOfLoop, Forgiven
    <3>2. nudged' \subseteq Batches /\ moved' \in [Batches -> BOOLEAN]
      BY <2>3 DEF TopOfLoop, Forgiven
    <3>3. forgivenReads' \in [Batches -> Nat] /\ forgivenNudged' \in [Batches -> Nat]
      <4>1. Counted(forgivenReads, Rereads) \in [Batches -> Nat]
        BY CountedType
      <4> QED
        BY <2>3, <4>1 DEF TopOfLoop
    <3> QED
      BY <2>3, <3>1, <3>2, <3>3 DEF TopOfLoop
  <2>4. CASE OpenTasksReply
    <3>1. streak' \in [Batches -> [res : Seq(Texts), n : Nat]] /\ nudged' \subseteq Batches
      BY <2>4, AbsentType DEF OpenTasksReply, Forgiven
    <3>2. forgivenNudged' \in [Batches -> Nat]
      BY <2>4, CountedType DEF OpenTasksReply
    <3> QED
      BY <2>4, <3>1, <3>2 DEF OpenTasksReply, AtModel
  <2>5. CASE OtherNudgedReply
    BY <2>5 DEF OtherNudgedReply, PlanStates, AtModel
  <2>6. ASSUME NEW b \in Batches, FinishPlan(b) PROVE TypeInv'
    BY <2>6, SeenStreakType DEF FinishPlan, Outcomes, AtModel
  <2>7. ASSUME NEW b \in Batches, Suppress(b) PROVE TypeInv'
    BY <2>7, SeenStreakType DEF Suppress, AtModel
  <2>8. ASSUME NEW b \in Batches, EndOnRepeat(b) PROVE TypeInv'
    BY <2>8, SeenStreakType DEF EndOnRepeat, Outcomes, AtModel
  <2>9. ASSUME NEW b \in Batches, Issue(b) PROVE TypeInv'
    BY <2>9, SeenStreakType, AbsentType DEF Issue, AtModel
  <2>10. ASSUME NEW t \in Texts, RunCall(t) PROVE TypeInv'
    <3>1. plan' \in PlanStates
      BY <2>10 DEF RunCall, Running, PlanStates
    <3>2. results' \in Seq(Texts)
      BY <2>10 DEF RunCall
    <3>3. landedEdit' \in BOOLEAN /\ lastVerifyOk' \in BOOLEAN /\ dirty' \in BOOLEAN
      BY <2>10 DEF RunCall, Lands
    <3>4. moved' \in [Batches -> BOOLEAN] /\ still' \in [Batches -> Nat]
      BY <2>10 DEF RunCall
    <3> QED
      BY <2>10, <3>1, <3>2, <3>3, <3>4 DEF RunCall
  <2>11. ASSUME NEW t \in Texts, Refuse(t) PROVE TypeInv'
    BY <2>11 DEF Refuse
  <2>12. CASE FinishBatch
    BY <2>12, SMTT(30) DEF FinishBatch, BatchOver, Grows
  <2>13. CASE UNCHANGED vars
    BY <2>13 DEF vars
  <2> QED
    BY <2>1, <2>2, <2>3, <2>4, <2>5, <2>6, <2>7, <2>8, <2>9, <2>10, <2>11, <2>12, <2>13
    DEF Next
<1> QED
  BY <1>1, <1>2, PTL DEF Spec

\* Every variable keeps to the values the loop's own ones can have.
THEOREM TypeCorrect == Spec => []TypeOK
<1>1. TypeInv => TypeOK
  BY DEF TypeInv
<1> QED
  BY <1>1, TypeInvariant, PTL

-----------------------------------------------------------------------------
\* The edits.  The streak of a batch of edits is never dropped or reset, so it
\* counts the runs of the batch; a batch runs only while it is below the limit.
StreakBelowLimit == \A b \in Batches : streak[b].n <= MaxRepeat - 1
RunBelowLimit == pc = "run" => streak[batch].n < MaxRepeat - 1
StreakCountsEdits == \A b \in Batches : Mutating(b) => runs[b] <= streak[b].n
EditInv == TypeInv /\ StreakBelowLimit /\ RunBelowLimit /\ StreakCountsEdits

LEMMA EditsAreNeverForgiven ==
  ASSUME NEW b \in Batches, Mutating(b)
  PROVE  "edit" \in KindsOf(b) /\ ~ReadOnly(b) /\ ~Forgivable(b)
  BY KindsOfBatch DEF Mutating, ReadOnly, Forgivable

\* What turning a batch away or issuing it does to the streaks.
LEMMA SeenStreakBounds ==
  ASSUME TypeOK, StreakBelowLimit, NEW b \in Batches
  PROVE  /\ SeenStreak(b) <= MaxRepeat - 1
         /\ Mutating(b) => SeenStreak(b) = streak[b].n
  BY ConstantsAssumption, EditsAreNeverForgiven
  DEF TypeOK, StreakBelowLimit, SeenStreak, VerifiesAChange

LEMMA StreakOnIssueKeepsEditInv ==
  ASSUME EditInv, NEW b \in Batches, streak' = StreakOnIssue(b), UNCHANGED runs
  PROVE  StreakBelowLimit' /\ StreakCountsEdits'
  BY SeenStreakType, SeenStreakBounds
  DEF EditInv, TypeInv, StreakBelowLimit, StreakCountsEdits

LEMMA ForgivenKeepsEditInv ==
  ASSUME EditInv, NEW S, Forgiven(S), UNCHANGED runs,
         \A b \in S : b \in Batches /\ ~Mutating(b)
  PROVE  StreakBelowLimit' /\ StreakCountsEdits'
<1>1. \A b \in Batches : streak'[b] = IF b \in S THEN Absent ELSE streak[b]
  BY DEF Forgiven
<1>2. StreakBelowLimit'
  BY <1>1, ConstantsAssumption DEF EditInv, StreakBelowLimit, Absent
<1>3. \A b \in Batches : Mutating(b) => streak'[b] = streak[b]
  BY <1>1
<1>4. StreakCountsEdits'
  BY <1>3 DEF EditInv, StreakCountsEdits, Mutating, KindsOf
<1> QED
  BY <1>2, <1>4

LEMMA EditInvInductive ==
  ASSUME EditInv, [Next]_vars, TypeInv'
  PROVE  EditInv'
<1> USE DEF EditInv, turnVars, workVars, guardVars, ghostVars
<1> SUFFICES StreakBelowLimit' /\ RunBelowLimit' /\ StreakCountsEdits'
  OBVIOUS
<1>1. ASSUME UNCHANGED <<streak, runs, batch>>, pc' = pc \/ pc' # "run"
      PROVE  StreakBelowLimit' /\ RunBelowLimit' /\ StreakCountsEdits'
  BY <1>1 DEF StreakBelowLimit, RunBelowLimit, StreakCountsEdits, Mutating, KindsOf
<1>2. CASE EndElsewhere \/ Interrupt \/ OtherNudgedReply
  BY <1>1, <1>2 DEF EndElsewhere, Interrupt, OtherNudgedReply
<1>3. CASE TopOfLoop
  <2>1. CASE UNCHANGED guardVars
    BY <1>1, <1>3, <2>1 DEF TopOfLoop
  <2>2. CASE Forgiven(Rereads)
    <3>1. \A b \in Rereads : b \in Batches /\ ~Mutating(b)
      BY EditsAreNeverForgiven DEF Rereads
    <3> QED
      BY <1>3, <2>2, <3>1, ForgivenKeepsEditInv DEF TopOfLoop, RunBelowLimit
  <2> QED
    BY <1>3, <2>1, <2>2 DEF TopOfLoop
<1>4. CASE OpenTasksReply
  <2>1. \A b \in NudgedVerifies : b \in Batches /\ ~Mutating(b)
    BY EditsAreNeverForgiven DEF NudgedVerifies
  <2> QED
    BY <1>4, <2>1, ForgivenKeepsEditInv DEF OpenTasksReply, RunBelowLimit
<1>5. ASSUME NEW b \in Batches, FinishPlan(b) \/ Suppress(b) \/ EndOnRepeat(b)
      PROVE  StreakBelowLimit' /\ RunBelowLimit' /\ StreakCountsEdits'
  BY <1>5, StreakOnIssueKeepsEditInv DEF FinishPlan, Suppress, EndOnRepeat, AtModel, RunBelowLimit
<1>6. ASSUME NEW b \in Batches, Issue(b)
      PROVE  StreakBelowLimit' /\ RunBelowLimit' /\ StreakCountsEdits'
  <2>1. StreakBelowLimit' /\ StreakCountsEdits'
    BY <1>6, StreakOnIssueKeepsEditInv DEF Issue
  <2>2. SeenStreak(b) \in Nat /\ ~(SeenStreak(b) >= MaxRepeat - 1)
    BY <1>6, SeenStreakType DEF Issue, Futile, TypeInv
  <2>3. streak'[b].n = SeenStreak(b) /\ batch' = b
    BY <1>6, SeenStreakType DEF Issue, TypeInv
  <2> QED
    BY <2>1, <2>2, <2>3, ConstantsAssumption DEF RunBelowLimit
<1>7. ASSUME NEW t \in Texts, RunCall(t) \/ Refuse(t)
      PROVE  StreakBelowLimit' /\ RunBelowLimit' /\ StreakCountsEdits'
  BY <1>1, <1>7 DEF RunCall, Refuse
<1>8. CASE FinishBatch
  <2>1. batch \in Batches /\ streak[batch].n < MaxRepeat - 1 /\ streak[batch].n \in Nat
    BY <1>8 DEF FinishBatch, BatchOver, TypeInv, TypeOK, RunsABatch, RunBelowLimit
  <2>2. /\ streak'[batch].n = (IF Grows THEN streak[batch].n + 1 ELSE 1)
        /\ runs'[batch] = runs[batch] + 1
        /\ \A b \in Batches \ {batch} : streak'[b] = streak[b] /\ runs'[b] = runs[b]
    BY <1>8, <2>1 DEF FinishBatch, TypeInv, TypeOK
  <2>3. StreakBelowLimit' /\ RunBelowLimit'
    BY <1>8, <2>1, <2>2, ConstantsAssumption
    DEF FinishBatch, StreakBelowLimit, RunBelowLimit
  <2>4. ASSUME Mutating(batch) PROVE runs'[batch] <= streak'[batch].n
    <3>1. runs[batch] <= streak[batch].n /\ runs[batch] \in Nat
      BY <2>1, <2>4 DEF StreakCountsEdits, TypeInv, TypeOK
    <3> QED
      BY <2>1, <2>2, <2>4, <3>1 DEF Grows
  <2>5. StreakCountsEdits'
    BY <2>2, <2>4 DEF StreakCountsEdits, Mutating, KindsOf
  <2> QED
    BY <2>3, <2>5
<1>9. CASE UNCHANGED vars
  BY <1>1, <1>9 DEF vars
<1> QED
  BY <1>2, <1>3, <1>4, <1>5, <1>6, <1>7, <1>8, <1>9 DEF Next

\* An edit re-issued byte for byte runs at most max_repeat_calls - 1 times.
THEOREM RepeatedEditIsBounded == Spec => []RepeatedEditBounded
<1>1. Init /\ TypeInv => EditInv
  BY ConstantsAssumption
  DEF Init, EditInv, StreakBelowLimit, RunBelowLimit, StreakCountsEdits, Absent
<1>2. EditInv /\ [Next]_vars /\ TypeInv' => EditInv'
  BY EditInvInductive
<1>3. EditInv => RepeatedEditBounded
  <2> SUFFICES ASSUME EditInv, NEW b \in Batches, Mutating(b) PROVE runs[b] <= MaxRepeat - 1
    BY DEF RepeatedEditBounded
  <2>1. runs[b] <= streak[b].n /\ streak[b].n <= MaxRepeat - 1
    BY DEF EditInv, StreakCountsEdits, StreakBelowLimit
  <2>2. runs[b] \in Nat /\ streak[b].n \in Nat
    BY DEF EditInv, TypeInv, TypeOK
  <2> QED
    BY <2>1, <2>2, ConstantsAssumption
<1> QED
  BY <1>1, <1>2, <1>3, TypeInvariant, PTL DEF Spec

-----------------------------------------------------------------------------
\* The other batches.  A run that brings nothing new is paid for by the streak or,
\* once the streak was dropped, by an allowance; a batch that a landed edit will
\* excuse (moved) has not run since.
MovedIsFresh == \A b \in Batches : moved[b] => still[b] = 0
Allowances(b) == forgivenReads[b] + forgivenNudged[b]
StillIsPaid ==
  \A b \in Batches : still[b] <= streak[b].n + (MaxRepeat - 1) * Allowances(b)
AllowancesBounded ==
  \A b \in Batches :
    /\ forgivenReads[b] <= IF ReadOnly(b) THEN MaxForgivenRereads ELSE 0
    /\ forgivenNudged[b] <= IF Forgivable(b) THEN MaxForgivenNudged ELSE 0
FutileInv == EditInv /\ MovedIsFresh /\ StillIsPaid /\ AllowancesBounded

\* One more allowance pays for a full streak.
LEMMA AllowancePays ==
  ASSUME NEW m \in Nat, NEW a \in Nat, NEW n \in Nat, NEW k \in Nat,
         n <= m, k <= n + m * a
  PROVE  k <= m * (a + 1)
<1>1. m * a \in Nat /\ m * (a + 1) = m * a + m
  OBVIOUS
<1> QED
  BY <1>1

\* Whatever is forgiven still had an allowance left.
LEMMA RereadsKeepBound ==
  ASSUME TypeOK, AllowancesBounded, forgivenReads' = Counted(forgivenReads, Rereads),
         UNCHANGED forgivenNudged
  PROVE  /\ AllowancesBounded'
         /\ \A b \in Rereads : Allowances(b)' = Allowances(b) + 1
         /\ \A b \in Batches \ Rereads : Allowances(b)' = Allowances(b)
<1>1. \A b \in Batches : forgivenReads[b] \in Nat /\ forgivenNudged[b] \in Nat
  BY DEF TypeOK
<1>2. \A b \in Batches :
        forgivenReads'[b] = IF b \in Rereads THEN forgivenReads[b] + 1 ELSE forgivenReads[b]
  BY DEF Counted
<1>3. \A b \in Rereads : b \in Batches /\ ReadOnly(b) /\ forgivenReads[b] < MaxForgivenRereads
  BY DEF Rereads
<1>4. \A b \in Batches : forgivenReads'[b] <= IF ReadOnly(b) THEN MaxForgivenRereads ELSE 0
  BY <1>1, <1>2, <1>3, ConstantsAssumption DEF AllowancesBounded
<1>5. AllowancesBounded'
  BY <1>4 DEF AllowancesBounded, ReadOnly, Forgivable, KindsOf
<1> QED
  BY <1>1, <1>2, <1>3, <1>5 DEF Allowances

LEMMA NudgedVerifiesKeepBound ==
  ASSUME TypeOK, AllowancesBounded, forgivenNudged' = Counted(forgivenNudged, NudgedVerifies),
         UNCHANGED forgivenReads
  PROVE  /\ AllowancesBounded'
         /\ \A b \in NudgedVerifies : Allowances(b)' = Allowances(b) + 1
         /\ \A b \in Batches \ NudgedVerifies : Allowances(b)' = Allowances(b)
<1>1. \A b \in Batches : forgivenReads[b] \in Nat /\ forgivenNudged[b] \in Nat
  BY DEF TypeOK
<1>2. \A b \in Batches :
        forgivenNudged'[b] = IF b \in NudgedVerifies THEN forgivenNudged[b] + 1 ELSE forgivenNudged[b]
  BY DEF Counted
<1>3. \A b \in NudgedVerifies :
        b \in Batches /\ Forgivable(b) /\ forgivenNudged[b] < MaxForgivenNudged
  BY DEF NudgedVerifies
<1>4. \A b \in Batches : forgivenNudged'[b] <= IF Forgivable(b) THEN MaxForgivenNudged ELSE 0
  BY <1>1, <1>2, <1>3, ConstantsAssumption DEF AllowancesBounded
<1>5. AllowancesBounded'
  BY <1>4 DEF AllowancesBounded, ReadOnly, Forgivable, KindsOf
<1> QED
  BY <1>1, <1>2, <1>3, <1>5 DEF Allowances

LEMMA FutileInvInductive ==
  ASSUME FutileInv, [Next]_vars, EditInv'
  PROVE  FutileInv'
<1> USE DEF FutileInv, turnVars, workVars, guardVars, ghostVars
<1> DEFINE Goal == MovedIsFresh' /\ StillIsPaid' /\ AllowancesBounded'
<1> SUFFICES Goal
  OBVIOUS
<1> HIDE DEF Goal
<1>0. /\ TypeOK /\ TypeOK' /\ MaxRepeat - 1 \in Nat
      /\ \A b \in Batches : streak[b].n \in Nat /\ streak[b].n <= MaxRepeat - 1
      /\ \A b \in Batches : still[b] \in Nat /\ Allowances(b) \in Nat
      /\ \A b \in Batches : (MaxRepeat - 1) * Allowances(b) \in Nat
  <2>1. TypeOK /\ TypeOK' /\ MaxRepeat - 1 \in Nat
    BY ConstantsAssumption DEF EditInv, TypeInv
  <2>2. \A b \in Batches : streak[b].n \in Nat /\ streak[b].n <= MaxRepeat - 1
    BY <2>1 DEF TypeOK, EditInv, StreakBelowLimit
  <2>3. \A b \in Batches : still[b] \in Nat /\ Allowances(b) \in Nat
    <3> SUFFICES ASSUME NEW b \in Batches PROVE still[b] \in Nat /\ Allowances(b) \in Nat
      OBVIOUS
    <3>1. still[b] \in Nat /\ forgivenReads[b] \in Nat /\ forgivenNudged[b] \in Nat
      BY <2>1 DEF TypeOK
    <3> QED
      BY <3>1 DEF Allowances
  <2>4. \A m, a \in Nat : m * a \in Nat
    OBVIOUS
  <2> QED
    BY <2>1, <2>2, <2>3, <2>4
<1>1. ASSUME UNCHANGED <<streak, still, moved, forgivenReads, forgivenNudged>> PROVE Goal
  BY <1>1 DEF Goal, MovedIsFresh, StillIsPaid, AllowancesBounded, Allowances, ReadOnly,
              Forgivable, KindsOf
<1>2. CASE EndElsewhere \/ Interrupt \/ OtherNudgedReply
  BY <1>1, <1>2 DEF EndElsewhere, Interrupt, OtherNudgedReply
\* Forgiving S adds one allowance to each of its batches.
<1>3. ASSUME NEW S \in SUBSET Batches, Forgiven(S), UNCHANGED <<still, moved>>,
             \A b \in S : Allowances(b)' = Allowances(b) + 1,
             \A b \in Batches \ S : Allowances(b)' = Allowances(b)
      PROVE  MovedIsFresh' /\ StillIsPaid'
  <2>1. MovedIsFresh'
    BY <1>3 DEF MovedIsFresh
  <2>2. ASSUME NEW b \in S PROVE still'[b] <= streak'[b].n + (MaxRepeat - 1) * Allowances(b)'
    <3>1. still[b] <= (MaxRepeat - 1) * (Allowances(b) + 1)
      BY <1>0, AllowancePays DEF StillIsPaid
    <3>2. streak'[b].n = 0 /\ still'[b] = still[b]
      BY <1>3 DEF Forgiven, Absent
    <3>3. (MaxRepeat - 1) * (Allowances(b) + 1) \in Nat
      BY <1>0
    <3> QED
      BY <1>3, <3>1, <3>2, <3>3
  <2>3. \A b \in Batches \ S : still'[b] = still[b] /\ streak'[b] = streak[b]
    BY <1>3 DEF Forgiven
  <2> QED
    BY <1>3, <2>1, <2>2, <2>3 DEF StillIsPaid
<1>4. CASE TopOfLoop
  <2>1. CASE UNCHANGED guardVars
    BY <1>1, <1>4, <2>1 DEF TopOfLoop
  <2>2. CASE Forgiven(Rereads) /\ forgivenReads' = Counted(forgivenReads, Rereads)
             /\ UNCHANGED <<moved, forgivenNudged>>
    <3>1. /\ AllowancesBounded'
          /\ \A b \in Rereads : Allowances(b)' = Allowances(b) + 1
          /\ \A b \in Batches \ Rereads : Allowances(b)' = Allowances(b)
      BY <1>0, <2>2, RereadsKeepBound
    <3>2. Rereads \in SUBSET Batches
      BY DEF Rereads
    <3> QED
      BY <1>3, <1>4, <2>2, <3>1, <3>2 DEF TopOfLoop, Goal
  <2> QED
    BY <1>4, <2>1, <2>2 DEF TopOfLoop
<1>5. CASE OpenTasksReply
  <2>1. /\ AllowancesBounded'
        /\ \A b \in NudgedVerifies : Allowances(b)' = Allowances(b) + 1
        /\ \A b \in Batches \ NudgedVerifies : Allowances(b)' = Allowances(b)
    BY <1>0, <1>5, NudgedVerifiesKeepBound DEF OpenTasksReply
  <2>2. NudgedVerifies \in SUBSET Batches
    BY DEF NudgedVerifies
  <2> QED
    BY <1>3, <1>5, <2>1, <2>2 DEF OpenTasksReply, Goal
\* A streak that is cut back to 1 on issue had not been run since the edit.
<1>6. ASSUME NEW b \in Batches, streak' = StreakOnIssue(b),
             UNCHANGED <<still, moved, forgivenReads, forgivenNudged>>
      PROVE  Goal
  <2>1. MovedIsFresh' /\ AllowancesBounded'
    BY <1>6 DEF MovedIsFresh, AllowancesBounded, ReadOnly, Forgivable, KindsOf
  <2>2. streak'[b].n = SeenStreak(b) /\ \A c \in Batches \ {b} : streak'[c] = streak[c]
    BY <1>0, <1>6, SeenStreakType
  <2>3. still[b] <= SeenStreak(b) + (MaxRepeat - 1) * Allowances(b)
    BY <1>0 DEF SeenStreak, VerifiesAChange, MovedIsFresh, StillIsPaid
  <2>4. \A c \in Batches : Allowances(c)' = Allowances(c)
    BY <1>6 DEF Allowances
  <2> QED
    BY <1>6, <2>1, <2>2, <2>3, <2>4 DEF StillIsPaid, Goal
<1>7. ASSUME NEW b \in Batches, FinishPlan(b) \/ Suppress(b) \/ EndOnRepeat(b) \/ Issue(b)
      PROVE  Goal
  BY <1>6, <1>7 DEF FinishPlan, Suppress, EndOnRepeat, Issue
<1>8. ASSUME NEW t \in Texts, RunCall(t) PROVE Goal
  <2>1. CASE Lands(t)
    <3>1. \A b \in Batches : still'[b] = 0
      BY <1>8, <2>1 DEF RunCall
    <3>2. UNCHANGED <<streak, forgivenReads, forgivenNudged>>
      BY <1>8 DEF RunCall
    <3>3. \A b \in Batches : Allowances(b)' = Allowances(b)
      BY <3>2 DEF Allowances
    <3>4. MovedIsFresh' /\ AllowancesBounded'
      BY <3>1, <3>2 DEF MovedIsFresh, AllowancesBounded, ReadOnly, Forgivable, KindsOf
    <3>5. \A b \in Batches : 0 <= streak[b].n + (MaxRepeat - 1) * Allowances(b)
      BY <1>0
    <3> QED
      BY <3>1, <3>2, <3>3, <3>4, <3>5 DEF StillIsPaid, Goal
  <2>2. CASE ~Lands(t)
    BY <1>1, <1>8, <2>2 DEF RunCall
  <2> QED
    BY <2>1, <2>2
<1>9. ASSUME NEW t \in Texts, Refuse(t) PROVE Goal
  BY <1>1, <1>9 DEF Refuse
<1>10. CASE FinishBatch
  <2>1. batch \in Batches
    BY <1>10 DEF FinishBatch, BatchOver, EditInv, TypeInv, RunsABatch
  <2>2. /\ streak'[batch].n = (IF Grows THEN streak[batch].n + 1 ELSE 1)
        /\ still'[batch] = (IF streak[batch].n = 0 \/ Grows THEN still[batch] + 1 ELSE 1)
        /\ moved'[batch] = FALSE
        /\ \A b \in Batches \ {batch} :
             streak'[b] = streak[b] /\ still'[b] = still[b] /\ moved'[b] = moved[b]
    BY <1>0, <1>10, <2>1 DEF FinishBatch, TypeOK
  <2>3. UNCHANGED <<forgivenReads, forgivenNudged>>
    BY <1>10 DEF FinishBatch
  <2>4. MovedIsFresh' /\ AllowancesBounded'
    BY <2>2, <2>3 DEF MovedIsFresh, AllowancesBounded, ReadOnly, Forgivable, KindsOf
  <2>5. \A b \in Batches : Allowances(b)' = Allowances(b)
    BY <2>3 DEF Allowances
  <2>6. still'[batch] <= streak'[batch].n + (MaxRepeat - 1) * Allowances(batch)
    <3>1. still[batch] <= streak[batch].n + (MaxRepeat - 1) * Allowances(batch)
      BY <2>1 DEF StillIsPaid
    <3> QED
      BY <1>0, <2>1, <2>2, <3>1
  <2> QED
    BY <2>1, <2>2, <2>4, <2>5, <2>6 DEF StillIsPaid, Goal
<1>11. CASE UNCHANGED vars
  BY <1>1, <1>11 DEF vars
<1> QED
  BY <1>2, <1>4, <1>5, <1>7, <1>8, <1>9, <1>10, <1>11 DEF Next

\* A batch that brings nothing new while the workspace stands still runs at most
\* max_repeat_calls - 1 times per allowance, and allowances are bounded.
THEOREM FutileRunsAreBounded == Spec => []FutileRunsBounded
<1>1. Init /\ TypeInv => FutileInv
  <2> SUFFICES ASSUME Init, TypeInv PROVE FutileInv
    OBVIOUS
  <2>1. EditInv
    BY ConstantsAssumption
    DEF Init, EditInv, StreakBelowLimit, RunBelowLimit, StreakCountsEdits, Absent
  <2>2. MovedIsFresh /\ AllowancesBounded
    BY ConstantsAssumption DEF Init, MovedIsFresh, AllowancesBounded
  <2>3. \A b \in Batches : still[b] = 0 /\ streak[b].n = 0 /\ Allowances(b) = 0
    <3> SUFFICES ASSUME NEW b \in Batches PROVE still[b] = 0 /\ streak[b].n = 0 /\ Allowances(b) = 0
      OBVIOUS
    <3>1. still[b] = 0 /\ streak[b].n = 0 /\ forgivenReads[b] = 0 /\ forgivenNudged[b] = 0
      BY DEF Init, Absent
    <3> QED
      BY <3>1 DEF Allowances
  <2>4. StillIsPaid
    <3>1. MaxRepeat - 1 \in Nat
      BY ConstantsAssumption
    <3>2. \A m \in Nat : 0 <= 0 + m * 0
      OBVIOUS
    <3>3. 0 <= 0 + (MaxRepeat - 1) * 0
      BY <3>1, <3>2
    <3> QED
      BY <2>3, <3>3 DEF StillIsPaid
  <2> QED
    BY <2>1, <2>2, <2>4 DEF FutileInv
<1>2. FutileInv /\ [Next]_vars /\ TypeInv' => FutileInv'
  BY EditInvInductive, FutileInvInductive DEF FutileInv
<1>3. FutileInv => FutileRunsBounded
  <2> SUFFICES ASSUME FutileInv, NEW b \in Batches
               PROVE still[b] <= (MaxRepeat - 1) * (1 + forgivenReads[b] + forgivenNudged[b])
    BY DEF FutileInv, FutileRunsBounded, AllowancesBounded
  <2>1. /\ still[b] \in Nat /\ streak[b].n \in Nat
        /\ forgivenReads[b] \in Nat /\ forgivenNudged[b] \in Nat
    BY DEF FutileInv, EditInv, TypeInv, TypeOK
  <2>2. /\ still[b] <= streak[b].n + (MaxRepeat - 1) * Allowances(b)
        /\ streak[b].n <= MaxRepeat - 1
    BY DEF FutileInv, EditInv, StillIsPaid, StreakBelowLimit
  <2>3. Allowances(b) \in Nat /\ Allowances(b) + 1 = 1 + forgivenReads[b] + forgivenNudged[b]
    BY <2>1 DEF Allowances
  <2>4. MaxRepeat - 1 \in Nat
    BY ConstantsAssumption
  <2> HIDE DEF Allowances
  <2>5. still[b] <= (MaxRepeat - 1) * (Allowances(b) + 1)
    BY <2>1, <2>2, <2>3, <2>4, AllowancePays
  <2> QED
    BY <2>3, <2>5
<1> QED
  BY <1>1, <1>2, <1>3, TypeInvariant, PTL DEF Spec

-----------------------------------------------------------------------------
\* No false alarm.  Unless an edit is about to excuse a batch (and then also while
\* it runs), all but one of the runs its streak counts came after the last edit.
StreakIsStill ==
  \A b \in Batches :
    "edit" \notin KindsOf(b) /\ (~moved[b] \/ (pc = "run" /\ batch = b))
    => streak[b].n <= still[b] + 1
AlarmInv == TypeInv /\ StreakIsStill

LEMMA AlarmInvInductive ==
  ASSUME AlarmInv, [Next]_vars, TypeInv'
  PROVE  AlarmInv'
<1> USE DEF AlarmInv, turnVars, workVars, guardVars, ghostVars
<1> SUFFICES StreakIsStill'
  OBVIOUS
<1>0. /\ TypeOK
      /\ \A b \in Batches : streak[b].n \in Nat /\ still[b] \in Nat /\ moved[b] \in BOOLEAN
  BY DEF TypeInv, TypeOK
<1>1. ASSUME UNCHANGED <<streak, still, moved, batch>>, pc' = pc \/ pc' # "run"
      PROVE  StreakIsStill'
  BY <1>1 DEF StreakIsStill, KindsOf
<1>2. CASE EndElsewhere \/ Interrupt \/ OtherNudgedReply
  BY <1>1, <1>2 DEF EndElsewhere, Interrupt, OtherNudgedReply
<1>3. ASSUME NEW S, Forgiven(S), UNCHANGED <<still, moved>>, pc' # "run"
      PROVE  StreakIsStill'
  <2>1. \A b \in Batches : streak'[b].n = 0 \/ streak'[b] = streak[b]
    BY <1>3 DEF Forgiven, Absent
  <2> QED
    BY <1>0, <1>3, <2>1 DEF StreakIsStill, KindsOf
<1>4. CASE TopOfLoop
  BY <1>1, <1>3, <1>4 DEF TopOfLoop
<1>5. CASE OpenTasksReply
  BY <1>3, <1>5 DEF OpenTasksReply
<1>6. ASSUME NEW b \in Batches, FinishPlan(b) \/ Suppress(b) \/ EndOnRepeat(b) \/ Issue(b)
      PROVE  StreakIsStill'
  <2>1. streak' = StreakOnIssue(b) /\ UNCHANGED <<still, moved>> /\ pc = "model"
    BY <1>6 DEF FinishPlan, Suppress, EndOnRepeat, Issue, AtModel
  <2>2. pc' # "run" \/ batch' = b
    BY <1>6, <2>1 DEF FinishPlan, Suppress, EndOnRepeat, Issue
  <2>3. streak'[b].n = SeenStreak(b) /\ \A c \in Batches \ {b} : streak'[c] = streak[c]
    BY <1>0, <2>1, SeenStreakType
  <2>4. "edit" \notin KindsOf(b) => SeenStreak(b) <= still[b] + 1
    BY <1>0 DEF SeenStreak, VerifiesAChange, StreakIsStill
  <2>5. \A c \in Batches \ {b} : "edit" \notin KindsOf(c) /\ ~moved[c] => streak[c].n <= still[c] + 1
    BY DEF StreakIsStill
  <2> QED
    BY <2>1, <2>2, <2>3, <2>4, <2>5 DEF StreakIsStill, KindsOf
<1>7. ASSUME NEW t \in Texts, RunCall(t) PROVE StreakIsStill'
  <2>1. CASE Lands(t)
    <3>1. Kind = "edit" /\ "edit" \in KindsOf(batch)
      BY <1>7, <2>1, KindOfCall DEF RunCall, Lands
    <3>2. UNCHANGED <<batch, streak>> /\ \A b \in Batches : moved'[b]
      BY <1>7, <2>1 DEF RunCall
    <3> QED
      BY <3>1, <3>2 DEF StreakIsStill, KindsOf
  <2>2. CASE ~Lands(t)
    BY <1>1, <1>7, <2>2 DEF RunCall
  <2> QED
    BY <2>1, <2>2
<1>8. ASSUME NEW t \in Texts, Refuse(t) PROVE StreakIsStill'
  BY <1>1, <1>8 DEF Refuse
<1>9. CASE FinishBatch
  <2>1. batch \in Batches /\ pc = "run"
    BY <1>9 DEF FinishBatch, BatchOver, TypeInv, RunsABatch
  <2>2. /\ streak'[batch].n = (IF Grows THEN streak[batch].n + 1 ELSE 1)
        /\ still'[batch] = (IF streak[batch].n = 0 \/ Grows THEN still[batch] + 1 ELSE 1)
        /\ \A b \in Batches \ {batch} :
             streak'[b] = streak[b] /\ still'[b] = still[b] /\ moved'[b] = moved[b]
    BY <1>0, <1>9, <2>1 DEF FinishBatch, TypeOK
  <2>3. "edit" \notin KindsOf(batch) => streak'[batch].n <= still'[batch] + 1
    BY <1>0, <2>1, <2>2 DEF StreakIsStill
  <2>4. pc' = "top"
    BY <1>9 DEF FinishBatch
  <2>5. \A b \in Batches \ {batch} : "edit" \notin KindsOf(b) /\ ~moved[b] => streak[b].n <= still[b] + 1
    BY DEF StreakIsStill
  <2> QED
    BY <2>1, <2>2, <2>3, <2>4, <2>5 DEF StreakIsStill, KindsOf
<1>10. CASE UNCHANGED vars
  BY <1>1, <1>10 DEF vars
<1> QED
  BY <1>2, <1>4, <1>5, <1>6, <1>7, <1>8, <1>9, <1>10 DEF Next

\* Turning b away, or ending the turn on it, as NoFalseAlarm sees it.
TurnsAway(b) ==
  \/ b \in nudged' \ nudged
  \/ outcome = "running" /\ outcome' \in {"done", "repeat_stop"} /\ batch' = b

LEMMA OnlyTheGuardTurnsAway ==
  ASSUME NEW b \in Batches, TypeInv, Next, TurnsAway(b)
  PROVE  Futile(b)
<1> USE DEF TurnsAway, turnVars, workVars, guardVars, ghostVars
<1>1. \A c \in Batches : Suppress(c) \/ EndOnRepeat(c) => c = b /\ Futile(b)
  BY ConstantsAssumption DEF Suppress, EndOnRepeat, AtModel
<1>2. ~EndElsewhere /\ ~Interrupt /\ ~OtherNudgedReply /\ ~FinishBatch
  BY DEF EndElsewhere, Interrupt, OtherNudgedReply, FinishBatch, BatchOver
<1>3. ~TopOfLoop /\ ~OpenTasksReply
  BY DEF TopOfLoop, OpenTasksReply, Forgiven, AtModel
<1>4. \A c \in Batches : ~FinishPlan(c) /\ ~Issue(c)
  BY DEF FinishPlan, Issue, AtModel
<1>5. \A t \in Texts : ~RunCall(t) /\ ~Refuse(t)
  BY DEF RunCall, Refuse, Running
<1> QED
  BY <1>1, <1>2, <1>3, <1>4, <1>5 DEF Next

\* Re-running a check after a change is never called repetition.
THEOREM NeverAFalseAlarm == Spec => NoFalseAlarm
<1> DEFINE Step == \A b \in Batches :
                     "edit" \notin KindsOf(b) /\ TurnsAway(b) => still[b] >= MaxRepeat - 2
<1>1. Init /\ TypeInv => AlarmInv
  BY DEF Init, AlarmInv, StreakIsStill, Absent
<1>2. AlarmInv /\ [Next]_vars /\ TypeInv' => AlarmInv'
  BY AlarmInvInductive
<1>3. AlarmInv /\ [Next]_vars => [Step]_vars
  <2> SUFFICES ASSUME AlarmInv, Next, NEW b \in Batches, "edit" \notin KindsOf(b), TurnsAway(b)
               PROVE still[b] >= MaxRepeat - 2
    OBVIOUS
  <2>1. Futile(b)
    BY OnlyTheGuardTurnsAway DEF AlarmInv
  <2>2. SeenStreak(b) >= MaxRepeat - 1
    BY <2>1 DEF Futile
  <2>3. streak[b].n \in Nat /\ still[b] \in Nat /\ moved[b] \in BOOLEAN
    BY DEF AlarmInv, TypeInv, TypeOK
  <2>4. SeenStreak(b) <= still[b] + 1
    BY <2>3 DEF SeenStreak, VerifiesAChange, AlarmInv, StreakIsStill
  <2>5. SeenStreak(b) \in Nat
    BY SeenStreakType DEF AlarmInv, TypeInv
  <2> QED
    BY <2>2, <2>3, <2>4, <2>5, ConstantsAssumption
<1>4. [Step]_vars => [\A b \in Batches :
         /\ "edit" \notin KindsOf(b)
         /\ \/ b \in nudged' \ nudged
            \/ outcome = "running" /\ outcome' \in {"done", "repeat_stop"} /\ batch' = b
         => still[b] >= MaxRepeat - 2]_vars
  BY DEF TurnsAway
<1> QED
  BY <1>1, <1>2, <1>3, <1>4, TypeInvariant, PTL DEF Spec, NoFalseAlarm

-----------------------------------------------------------------------------
\* The done exit.  A batch of checks that has a streak and that no edit is about to
\* excuse last ran on the workspace as it is, unless a check may be refused.
ReadingCovers ==
  "verify" \notin Refusable =>
    /\ \A b \in Batches : AllVerify(b) /\ streak[b].n > 0 /\ ~moved[b] => ~dirty
    /\ pc = "run" /\ AllVerify(batch) /\ results # <<>> => ~dirty
DoneInv == TypeInv /\ ReadingCovers /\ DoneReadingIsCurrent

LEMMA ChecksDoNotEdit ==
  ASSUME NEW b \in Batches, AllVerify(b)
  PROVE  "edit" \notin KindsOf(b)
  BY DEF AllVerify

LEMMA DoneInvInductive ==
  ASSUME DoneInv, [Next]_vars, TypeInv'
  PROVE  DoneInv'
<1> USE DEF DoneInv, turnVars, workVars, guardVars, ghostVars
<1> SUFFICES ASSUME "verify" \notin Refusable
             PROVE  ReadingCovers' /\ DoneReadingIsCurrent'
  BY DEF ReadingCovers, DoneReadingIsCurrent
<1>0. /\ TypeOK
      /\ \A b \in Batches : streak[b].n \in Nat /\ moved[b] \in BOOLEAN
      /\ dirty \in BOOLEAN
  BY DEF TypeInv, TypeOK
<1>1. ASSUME UNCHANGED <<streak, moved, batch, results, dirty>>, pc' = pc \/ pc' # "run"
      PROVE  ReadingCovers'
  BY <1>1 DEF ReadingCovers, AllVerify, KindsOf
<1>2. ASSUME outcome' # "done" PROVE DoneReadingIsCurrent'
  BY <1>2 DEF DoneReadingIsCurrent
<1>3. CASE EndElsewhere \/ Interrupt \/ OtherNudgedReply
  BY <1>1, <1>2, <1>3 DEF EndElsewhere, Interrupt, OtherNudgedReply, AtModel
<1>4. ASSUME NEW S, Forgiven(S), UNCHANGED <<moved, dirty>>, pc' # "run"
      PROVE  ReadingCovers'
  <2>1. \A b \in Batches : streak'[b].n = 0 \/ streak'[b] = streak[b]
    BY <1>4 DEF Forgiven, Absent
  <2> QED
    BY <1>4, <2>1 DEF ReadingCovers, AllVerify, KindsOf
<1>5. CASE TopOfLoop
  BY <1>1, <1>2, <1>4, <1>5 DEF TopOfLoop
<1>6. CASE OpenTasksReply
  BY <1>2, <1>4, <1>6 DEF OpenTasksReply, AtModel
<1>7. ASSUME NEW b \in Batches, FinishPlan(b) \/ Suppress(b) \/ EndOnRepeat(b) \/ Issue(b)
      PROVE  ReadingCovers'
  <2>1. streak' = StreakOnIssue(b) /\ UNCHANGED <<moved, dirty>> /\ pc = "model"
    BY <1>7 DEF FinishPlan, Suppress, EndOnRepeat, Issue, AtModel
  <2>2. pc' # "run" \/ results' = <<>>
    BY <1>7, <2>1 DEF FinishPlan, Suppress, EndOnRepeat, Issue
  <2>3. \A c \in Batches : streak'[c].n > 0 => streak[c].n > 0
    <3>1. streak'[b].n = SeenStreak(b) /\ \A c \in Batches \ {b} : streak'[c] = streak[c]
      BY <1>0, <2>1, SeenStreakType
    <3>2. SeenStreak(b) > 0 => streak[b].n > 0
      BY <1>0 DEF SeenStreak, VerifiesAChange
    <3> QED
      BY <3>1, <3>2
  <2> QED
    BY <2>1, <2>2, <2>3 DEF ReadingCovers, AllVerify, KindsOf
<1>8. ASSUME NEW b \in Batches, EndOnRepeat(b) PROVE DoneReadingIsCurrent'
  <2> SUFFICES ASSUME outcome' = "done", MaxRepeat > 2
               PROVE  ~dirty' /\ lastVerifyOk'
    BY DEF DoneReadingIsCurrent
  <2>1. AllVerify(b) /\ lastVerifyOk /\ SeenStreak(b) >= MaxRepeat - 1
    BY <1>8 DEF EndOnRepeat, Verified, Futile
  <2>2. streak[b].n > 0 /\ ~moved[b]
    BY <1>0, <2>1, ChecksDoNotEdit, ConstantsAssumption DEF SeenStreak, VerifiesAChange
  <2> QED
    BY <1>8, <2>1, <2>2 DEF EndOnRepeat, ReadingCovers
<1>9. ASSUME NEW b \in Batches, FinishPlan(b) \/ Suppress(b) \/ Issue(b)
      PROVE  DoneReadingIsCurrent'
  BY <1>2, <1>9 DEF FinishPlan, Suppress, Issue, AtModel
<1>10. ASSUME NEW t \in Texts, RunCall(t) PROVE ReadingCovers' /\ DoneReadingIsCurrent'
  <2>1. UNCHANGED <<batch, streak, pc, outcome>> /\ batch \in Batches /\ outcome = "running"
    BY <1>10 DEF RunCall, Running, TypeInv, RunsABatch
  <2>2. DoneReadingIsCurrent'
    BY <1>2, <2>1
  <2>3. Kind \in KindsOf(batch)
    BY <1>10, KindOfCall DEF RunCall
  <2>4. AllVerify(batch) => ~dirty'
    BY <1>10, <2>3 DEF AllVerify, RunCall, Lands
  <2>5. CASE Lands(t)
    <3>1. \A b \in Batches : moved'[b]
      BY <1>10, <2>5 DEF RunCall
    <3> QED
      BY <2>1, <2>2, <2>4, <3>1 DEF ReadingCovers, AllVerify, KindsOf
  <2>6. CASE ~Lands(t)
    <3>1. moved' = moved /\ (~dirty => ~dirty')
      BY <1>10, <2>6 DEF RunCall
    <3> QED
      BY <2>1, <2>2, <2>4, <3>1 DEF ReadingCovers, AllVerify, KindsOf
  <2> QED
    BY <2>5, <2>6
<1>11. ASSUME NEW t \in Texts, Refuse(t) PROVE ReadingCovers' /\ DoneReadingIsCurrent'
  <2>1. Kind \in KindsOf(batch) /\ Kind # "verify"
    BY <1>11, KindOfCall DEF Refuse
  <2>2. ~AllVerify(batch)
    BY <2>1 DEF AllVerify
  <2>3. UNCHANGED <<batch, streak, moved, dirty, outcome>> /\ outcome = "running"
    BY <1>11 DEF Refuse, Running
  <2> QED
    BY <1>2, <2>2, <2>3 DEF ReadingCovers, AllVerify, KindsOf
<1>12. CASE FinishBatch
  <2>1. batch \in Batches /\ pc = "run" /\ pc' = "top" /\ outcome' # "done" /\ dirty' = dirty
    BY <1>12 DEF FinishBatch, BatchOver, TypeInv, RunsABatch
  <2>2. results # <<>>
    BY <1>12, <2>1, ConstantsAssumption DEF FinishBatch, BatchOver
  <2>3. \A b \in Batches \ {batch} : streak'[b] = streak[b] /\ moved'[b] = moved[b]
    BY <1>0, <1>12 DEF FinishBatch, TypeOK
  <2> QED
    BY <1>2, <2>1, <2>2, <2>3 DEF ReadingCovers, AllVerify, KindsOf
<1>13. CASE UNCHANGED vars
  BY <1>1, <1>13 DEF vars, DoneReadingIsCurrent
<1> QED
  BY <1>3, <1>5, <1>6, <1>7, <1>8, <1>9, <1>10, <1>11, <1>12, <1>13 DEF Next

\* A turn the loop itself declares done rests on a check that ran, and passed, after
\* the last edit that landed, when no check can be refused.
THEOREM DoneRestsOnACurrentReading == Spec => []DoneReadingIsCurrent
<1>1. Init /\ TypeInv => DoneInv
  BY DEF Init, DoneInv, ReadingCovers, DoneReadingIsCurrent
<1>2. DoneInv /\ [Next]_vars /\ TypeInv' => DoneInv'
  BY DoneInvInductive
<1>3. DoneInv => DoneReadingIsCurrent
  BY DEF DoneInv
<1> QED
  BY <1>1, <1>2, <1>3, TypeInvariant, PTL DEF Spec
=============================================================================
