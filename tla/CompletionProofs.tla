-------------------------- MODULE CompletionProofs ---------------------------
(***************************************************************************)
(* Proofs, for replies of any length, of the safety properties Completion    *)
(* states of a turn that the user, the server, the clock and a process       *)
(* disturb at any moment.                                                    *)
(***************************************************************************)
EXTENDS Completion, TLAPS

\* A call is only run when one is left, and a reply never outgrows its bound.
CallsInv ==
  /\ pc = "wait" /\ line = "call" => got < MaxCalls
  /\ pc \in Commanding \cup {"confirm"} => calls > 0

\* Before Esc nothing is counted.  A line read after it leaves the wait, to which the
\* token bars the way back; a request made after it gets no further than its first line,
\* or the body of an error.
EscInv ==
  /\ ~cancelled => linesAfter = 0 /\ requestsAfter = 0 /\ ~woken
  /\ linesAfter > 0 => linesAfter = 1 /\ pc # "wait"
  /\ requestsAfter > 0 => requestsAfter = 1 /\ pc \in {"open", "body", "check", "idle"}

\* A command that runs has its hook until Esc is pressed, and one that timed out has been
\* signalled.
HookInv ==
  /\ pc = "run" /\ ~cancelled => hooks = 1
  /\ pc = "reap" => proc # "running"

Safe == /\ ClosedWhenOver /\ AftermathBounded /\ CommandsAreReached
        /\ CallsInv /\ EscInv /\ HookInv
IInv == TypeOK /\ Safe

\* The type invariant in two parts, which the provers are given one at a time.
Flags ==
  /\ cancelled \in BOOLEAN /\ woken \in BOOLEAN /\ fatal \in BOOLEAN /\ late \in BOOLEAN
  /\ last \in BOOLEAN /\ stubborn \in BOOLEAN /\ torn \in BOOLEAN
Ranges ==
  /\ pc \in Places /\ outcome \in Outcomes /\ hooks \in 0..1
  /\ tasks \subseteq {"enter", "watch", "cancel_wait", "line"}
  /\ stream \in {"none", "opening", "open"} /\ headers \in {"none", "ok", "error", "told"}
  /\ line \in Lines /\ got \in 0..MaxCalls /\ calls \in 0..MaxCalls
  /\ proc \in {"none", "running", "signalled", "left", "dead"}
  /\ linesAfter \in Nat /\ requestsAfter \in Nat

LEMMA Bounds == MaxCalls \in Nat /\ MaxCalls >= 1
  BY ConstantsAssumption

LEMMA Regroup == (Flags /\ Ranges => TypeOK) /\ (Flags' /\ Ranges' => TypeOK')
  BY DEF Flags, Ranges, TypeOK

LEMMA InitInv == Init => IInv
<1>1. Init => Flags
  BY DEF Init, IInv, TypeOK, Flags
<1>2. Init => Ranges
  BY Bounds
  DEF Init, IInv, TypeOK, Ranges, Safe, CallsInv, EscInv, Places, Completing,
      Commanding, Outcomes, Lines
<1>3. Init => Safe
  BY Bounds
  DEF Init, IInv, TypeOK, Safe, ClosedWhenOver, AftermathBounded, CommandsAreReached,
      CallsInv, EscInv, HookInv, Completing, Commanding
<1> QED
  BY <1>1, <1>2, <1>3, Regroup DEF IInv

\* An end of a completion leaves the rest of the turn's state as it is.
LEMMA FailsKeeps ==
  ASSUME IInv, NEW how \in {"interrupted", "server_error", "deadline"}, Fails(how),
         pc \in Completing, how = "interrupted" => cancelled
  PROVE  IInv'
  BY Bounds
  DEF Fails, Close, EndTurn, IInv, Safe, TypeOK, ClosedWhenOver, AftermathBounded,
      CommandsAreReached, CallsInv, EscInv, HookInv, Places, Completing, Commanding,
      Outcomes, Lines, tokenVars, serverVars, replyVars, procVars, histVars

LEMMA ExpiresKeeps ==
  ASSUME IInv, Expires, pc \in {"check", "wait"}, pc = "check" => ~cancelled
  PROVE  IInv'
<1>1. CASE Fails("deadline")
  BY <1>1, FailsKeeps DEF Completing
<1>2. CASE ~Fails("deadline")
  <2>1. Flags'
    BY <1>2
    DEF Expires, Close, EndTurn, IInv, TypeOK, Flags, tokenVars, serverVars, replyVars,
        procVars, histVars
  <2>2. Ranges'
    BY <1>2, Bounds
    DEF Expires, Close, EndTurn, IInv, TypeOK, Ranges, Safe, CallsInv, EscInv, Places,
        Completing, Commanding, Outcomes, Lines, tokenVars, serverVars, replyVars,
        procVars, histVars
  <2>3. Safe'
    BY <1>2, Bounds
    DEF Expires, Close, EndTurn, IInv, TypeOK, Safe, ClosedWhenOver, AftermathBounded,
        CommandsAreReached, CallsInv, EscInv, HookInv, Completing, Commanding,
        tokenVars, serverVars, replyVars, procVars, histVars
  <2> QED
    BY <2>1, <2>2, <2>3, Regroup DEF IInv
<1> QED
  BY <1>1, <1>2

LEMMA BeginKeeps == ASSUME IInv, Begin PROVE IInv'
<1>1. Flags'
  BY DEF Begin, Request, IInv, TypeOK, Flags
<1>2. Ranges'
  BY Bounds
  DEF Begin, Request, IInv, TypeOK, Ranges, Safe, CallsInv, EscInv, Places, Completing,
      Commanding, Outcomes, Lines
<1>3. Safe'
  BY Bounds
  DEF Begin, Request, IInv, TypeOK, Safe, ClosedWhenOver, AftermathBounded,
      CommandsAreReached, CallsInv, EscInv, HookInv, Completing, Commanding
<1> QED
  BY <1>1, <1>2, <1>3, Regroup DEF IInv

LEMMA CompletionStepKeeps ==
  ASSUME IInv, HeadersIn \/ OpenFails \/ ErrorIn \/ Refused \/ NextLine \/ CheckFails
               \/ WaitFails \/ ReadLine \/ ReplyEnds
  PROVE  IInv'
<1> USE Bounds
<1>1. CASE HeadersIn
  <2>1. Flags'
    BY <1>1
    DEF HeadersIn, IInv, TypeOK, Flags, tokenVars, serverVars, replyVars, procVars,
        histVars
  <2>2. Ranges'
    BY <1>1, Bounds
    DEF HeadersIn, IInv, TypeOK, Ranges, Safe, CallsInv, EscInv, Places, Completing,
        Commanding, Outcomes, Lines, tokenVars, serverVars, replyVars, procVars,
        histVars
  <2>3. Safe'
    BY <1>1, Bounds
    DEF HeadersIn, IInv, TypeOK, Safe, ClosedWhenOver, AftermathBounded,
        CommandsAreReached, CallsInv, EscInv, HookInv, Completing, Commanding,
        tokenVars, serverVars, replyVars, procVars, histVars
  <2> QED
    BY <2>1, <2>2, <2>3, Regroup DEF IInv
<1>2. CASE OpenFails
  <2>1. pc \in Completing /\ (EscWins => cancelled)
    BY <1>2 DEF OpenFails, Completing, EscWins, IInv, Safe, EscInv, TypeOK
  <2> QED
    BY <1>2, <2>1, FailsKeeps DEF OpenFails
<1>3. CASE NextLine
  BY <1>3
  DEF NextLine, LooksAtToken, IInv, Safe, TypeOK, ClosedWhenOver, AftermathBounded,
      CommandsAreReached, CallsInv, EscInv, HookInv, Places, Completing, Commanding,
      Outcomes, Lines, tokenVars, replyVars, procVars, histVars
<1>4. CASE CheckFails
  BY <1>4, FailsKeeps, ExpiresKeeps DEF CheckFails, LooksAtToken, Completing
<1>5. CASE WaitFails
  <2>1. pc \in Completing /\ (woken => cancelled)
    BY <1>5 DEF WaitFails, Completing, IInv, Safe, EscInv, TypeOK
  <2> QED
    BY <1>5, <2>1, FailsKeeps, ExpiresKeeps DEF WaitFails
<1>6. CASE ReadLine
  BY <1>6
  DEF ReadLine, After, IInv, Safe, TypeOK, ClosedWhenOver, AftermathBounded,
      CommandsAreReached, CallsInv, EscInv, HookInv, Places, Completing, Commanding,
      Outcomes, Lines, tokenVars, serverVars, procVars
<1>7. CASE ReplyEnds
  BY <1>7
  DEF ReplyEnds, Close, EndTurn, After, IInv, Safe, TypeOK, ClosedWhenOver, AftermathBounded,
      CommandsAreReached, CallsInv, EscInv, HookInv, Places, Completing, Commanding,
      Outcomes, Lines, tokenVars, serverVars, procVars
<1>8. CASE ErrorIn
  <2>1. Flags'
    BY <1>8
    DEF ErrorIn, IInv, TypeOK, Flags, tokenVars, serverVars, replyVars, procVars,
        histVars
  <2>2. Ranges'
    BY <1>8, Bounds
    DEF ErrorIn, IInv, TypeOK, Ranges, Safe, CallsInv, EscInv, Places, Completing,
        Commanding, Outcomes, Lines, tokenVars, serverVars, replyVars, procVars,
        histVars
  <2>3. Safe'
    BY <1>8, Bounds
    DEF ErrorIn, IInv, TypeOK, Safe, ClosedWhenOver, AftermathBounded,
        CommandsAreReached, CallsInv, EscInv, HookInv, Completing, Commanding,
        tokenVars, serverVars, replyVars, procVars, histVars
  <2> QED
    BY <2>1, <2>2, <2>3, Regroup DEF IInv
<1>9. CASE Refused
  BY <1>9, FailsKeeps DEF Refused, Completing
<1> QED
  BY <1>1, <1>2, <1>3, <1>4, <1>5, <1>6, <1>7, <1>8, <1>9

LEMMA CallStepKeeps ==
  ASSUME IInv, QuickCall \/ AskUser \/ RunCommand \/ UserAnswers \/ Register \/ TimesOut
               \/ ShellReaped \/ CommandEnds
  PROVE  IInv'
<1> USE Bounds
<1>1. CASE QuickCall
  BY <1>1
  DEF QuickCall, InBatch, NextCall, IInv, Safe, TypeOK, ClosedWhenOver, AftermathBounded,
      CommandsAreReached, CallsInv, EscInv, HookInv, Places, Completing, Commanding,
      Outcomes, Lines, tokenVars, connVars, serverVars, procVars, histVars
<1>2. CASE AskUser
  BY <1>2
  DEF AskUser, InBatch, IInv, Safe, TypeOK, ClosedWhenOver, AftermathBounded,
      CommandsAreReached, CallsInv, EscInv, HookInv, Places, Completing, Commanding,
      Outcomes, Lines, tokenVars, connVars, serverVars, replyVars, procVars, histVars
<1>3. ASSUME Spawn, InBatch \/ pc = "confirm" PROVE IInv'
  BY <1>3
  DEF Spawn, InBatch, IInv, Safe, TypeOK, ClosedWhenOver, AftermathBounded,
      CommandsAreReached, CallsInv, EscInv, HookInv, Places, Completing, Commanding,
      Outcomes, Lines, tokenVars, connVars, serverVars, replyVars, histVars
<1>4. CASE RunCommand
  BY <1>3, <1>4 DEF RunCommand
<1>5. CASE UserAnswers
  <2>1. CASE Spawn
    BY <1>3, <1>5, <2>1 DEF UserAnswers
  <2>2. CASE /\ NextCall
            /\ UNCHANGED <<outcome, tokenVars, connVars, serverVars, got, last, procVars,
                           histVars>>
    <3>1. Flags'
      BY <1>5, <2>2
      DEF UserAnswers, NextCall, IInv, TypeOK, Flags, tokenVars, connVars, serverVars,
          procVars, histVars
    <3>2. Ranges'
      BY <1>5, <2>2, Bounds
      DEF UserAnswers, NextCall, IInv, TypeOK, Ranges, Safe, CallsInv, EscInv, Places,
          Completing, Commanding, Outcomes, Lines, tokenVars, connVars, serverVars,
          procVars, histVars
    <3>3. Safe'
      BY <1>5, <2>2, Bounds
      DEF UserAnswers, NextCall, IInv, TypeOK, Safe, ClosedWhenOver, AftermathBounded,
          CommandsAreReached, CallsInv, EscInv, HookInv, Completing, Commanding,
          tokenVars, connVars, serverVars, procVars, histVars
    <3> QED
      BY <3>1, <3>2, <3>3, Regroup DEF IInv
  <2> QED
    BY <1>5, <2>1, <2>2 DEF UserAnswers
<1>6. CASE Register
  BY <1>6
  DEF Register, Fire, Signalled, IInv, Safe, TypeOK, ClosedWhenOver, AftermathBounded,
      CommandsAreReached, CallsInv, EscInv, HookInv, Places, Completing, Commanding,
      Outcomes, Lines, connVars, serverVars, replyVars, histVars
<1>7. ASSUME CallOver, pc \in {"run", "reap"}, proc \notin {"running", "signalled"}
      PROVE  IInv'
  <2>1. Flags'
    BY <1>7
    DEF CallOver, NextCall, IInv, TypeOK, Flags, connVars, serverVars, procVars, histVars
  <2>2. Ranges'
    BY <1>7, Bounds
    DEF CallOver, NextCall, Deregistered, IInv, TypeOK, Ranges, Safe, CallsInv, EscInv,
        Places, Completing, Commanding, Outcomes, Lines, connVars, serverVars, procVars,
        histVars
  <2>3. Safe'
    BY <1>7, Bounds
    DEF CallOver, NextCall, Deregistered, IInv, TypeOK, Safe, ClosedWhenOver,
        AftermathBounded, CommandsAreReached, CallsInv, EscInv, HookInv, Completing,
        Commanding, connVars, serverVars, procVars, histVars
  <2> QED
    BY <2>1, <2>2, <2>3, Regroup DEF IInv
<1>8. CASE TimesOut
  <2>1. CASE CallOver
    BY <1>7, <1>8, <2>1 DEF TimesOut, CallOver, NextCall
  <2>2. CASE ~CallOver
    BY <1>8, <2>2
    DEF TimesOut, Signalled, IInv, Safe, TypeOK, ClosedWhenOver, AftermathBounded,
        CommandsAreReached, CallsInv, EscInv, HookInv, Places, Completing, Commanding,
        Outcomes, Lines, tokenVars, connVars, serverVars, replyVars, histVars
  <2> QED
    BY <2>1, <2>2
<1>9. CASE CommandEnds \/ ShellReaped
  BY <1>7, <1>9 DEF CommandEnds, ShellReaped
<1> QED
  BY <1>1, <1>2, <1>4, <1>5, <1>6, <1>8, <1>9

LEMMA BatchEndKeeps ==
  ASSUME IInv, NextIteration \/ StopsAfterBatch \/ CutOff \/ ReadingEnds
  PROVE  IInv'
<1> USE Bounds
<1>1. CASE NextIteration
  <2>1. Flags'
    BY <1>1
    DEF NextIteration, Request, After, IInv, TypeOK, Flags, tokenVars, procVars
  <2>2. Ranges'
    BY <1>1, Bounds
    DEF NextIteration, Request, After, IInv, TypeOK, Ranges, Safe, CallsInv, EscInv,
        Places, Completing, Commanding, Outcomes, Lines, tokenVars, procVars
  <2>3. Safe'
    BY <1>1, Bounds
    DEF NextIteration, Request, After, IInv, TypeOK, Safe, ClosedWhenOver,
        AftermathBounded, CommandsAreReached, CallsInv, EscInv, HookInv, Completing,
        Commanding, tokenVars, procVars
  <2> QED
    BY <2>1, <2>2, <2>3, Regroup DEF IInv
<1>2. CASE StopsAfterBatch
  BY <1>2
  DEF StopsAfterBatch, EndTurn, IInv, Safe, TypeOK, ClosedWhenOver, AftermathBounded,
      CommandsAreReached, CallsInv, EscInv, HookInv, Places, Completing, Commanding,
      Outcomes, Lines, tokenVars, connVars, serverVars, replyVars, procVars, histVars
<1>3. CASE CutOff
  <2>1. Flags'
    BY <1>3
    DEF CutOff, Abandoned, EndTurn, Deregistered, IInv, TypeOK, Flags, serverVars,
        replyVars, procVars
  <2>2. Ranges'
    BY <1>3, Bounds
    DEF CutOff, Abandoned, EndTurn, Deregistered, IInv, TypeOK, Ranges, Safe, CallsInv,
        EscInv, Places, Completing, Commanding, Outcomes, Lines, serverVars, replyVars,
        procVars
  <2>3. Safe'
    BY <1>3, Bounds
    DEF CutOff, Abandoned, EndTurn, Deregistered, IInv, TypeOK, Safe, ClosedWhenOver,
        AftermathBounded, CommandsAreReached, CallsInv, EscInv, HookInv, Completing,
        Commanding, serverVars, replyVars, procVars
  <2> QED
    BY <2>1, <2>2, <2>3, Regroup DEF IInv
<1>4. CASE ReadingEnds
  BY <1>4
  DEF ReadingEnds, IInv, Safe, TypeOK, ClosedWhenOver, AftermathBounded,
      CommandsAreReached, CallsInv, EscInv, HookInv, Places, Completing, Commanding,
      Outcomes, Lines, tokenVars, serverVars, replyVars, procVars, histVars
<1> QED
  BY <1>1, <1>2, <1>3, <1>4

\* What the user, the server, the clock and the process do is no threat to it.
Outside ==
  \/ Esc \/ CancelWakes \/ HeadersArrive \/ BodyArrives \/ LogsFatal \/ LineArrives
  \/ DeadlinePasses \/ ChildEnds \/ \E rest \in {"left", "dead"} : ShellEnds(rest)
LEMMA OutsideKeeps == ASSUME IInv, Outside
  PROVE  IInv'
<1> USE Bounds
<1>1. CASE Esc
  BY <1>1
  DEF Esc, Listening, InBatch, Signalled, IInv, Safe, TypeOK, ClosedWhenOver,
      AftermathBounded, CommandsAreReached, CallsInv, EscInv, HookInv, Places,
      Completing, Commanding, Outcomes, Lines, connVars, serverVars, replyVars, histVars
<1>2. CASE CancelWakes
  BY <1>2
  DEF CancelWakes, IInv, Safe, TypeOK, ClosedWhenOver, AftermathBounded, CommandsAreReached,
      CallsInv, EscInv, HookInv, Places, Completing, Commanding, Outcomes, Lines,
      tokenVars, serverVars, replyVars, procVars, histVars
<1>3. CASE HeadersArrive
  <2>1. Flags'
    BY <1>3
    DEF HeadersArrive, IInv, TypeOK, Flags, tokenVars, connVars, replyVars, procVars, histVars
  <2>2. Ranges'
    BY <1>3
    DEF HeadersArrive, IInv, TypeOK, Ranges, Lines, tokenVars, connVars, replyVars, procVars,
        histVars
  <2>3. Safe'
    BY <1>3
    DEF HeadersArrive, IInv, TypeOK, Safe, ClosedWhenOver, AftermathBounded, CommandsAreReached,
        CallsInv, EscInv, HookInv, Completing, Commanding, tokenVars, connVars,
        replyVars, procVars, histVars
  <2> QED
    BY <2>1, <2>2, <2>3, Regroup DEF IInv
<1>4. CASE LogsFatal
  <2>1. Flags'
    BY <1>4
    DEF LogsFatal, IInv, TypeOK, Flags, tokenVars, connVars, replyVars, procVars, histVars
  <2>2. Ranges'
    BY <1>4
    DEF LogsFatal, IInv, TypeOK, Ranges, Lines, tokenVars, connVars, replyVars, procVars,
        histVars
  <2>3. Safe'
    BY <1>4
    DEF LogsFatal, IInv, TypeOK, Safe, ClosedWhenOver, AftermathBounded, CommandsAreReached,
        CallsInv, EscInv, HookInv, Completing, Commanding, tokenVars, connVars,
        replyVars, procVars, histVars
  <2> QED
    BY <2>1, <2>2, <2>3, Regroup DEF IInv
<1>5. CASE LineArrives
  <2>1. Flags'
    BY <1>5
    DEF LineArrives, IInv, TypeOK, Flags, tokenVars, connVars, replyVars, procVars, histVars
  <2>2. Ranges'
    BY <1>5
    DEF LineArrives, IInv, TypeOK, Ranges, Lines, tokenVars, connVars, replyVars, procVars,
        histVars
  <2>3. Safe'
    BY <1>5
    DEF LineArrives, IInv, TypeOK, Safe, ClosedWhenOver, AftermathBounded, CommandsAreReached,
        CallsInv, EscInv, HookInv, Completing, Commanding, tokenVars, connVars,
        replyVars, procVars, histVars
  <2> QED
    BY <2>1, <2>2, <2>3, Regroup DEF IInv
<1>6. CASE DeadlinePasses
  <2>1. Flags'
    BY <1>6
    DEF DeadlinePasses, IInv, TypeOK, Flags, tokenVars, connVars, replyVars, procVars, histVars
  <2>2. Ranges'
    BY <1>6
    DEF DeadlinePasses, IInv, TypeOK, Ranges, Lines, tokenVars, connVars, replyVars, procVars,
        histVars
  <2>3. Safe'
    BY <1>6
    DEF DeadlinePasses, IInv, TypeOK, Safe, ClosedWhenOver, AftermathBounded, CommandsAreReached,
        CallsInv, EscInv, HookInv, Completing, Commanding, tokenVars, connVars,
        replyVars, procVars, histVars
  <2> QED
    BY <2>1, <2>2, <2>3, Regroup DEF IInv
<1>7. CASE ChildEnds
  BY <1>7
  DEF ChildEnds, IInv, Safe, TypeOK, ClosedWhenOver, AftermathBounded, CommandsAreReached,
      CallsInv, EscInv, HookInv, Places, Completing, Commanding, Outcomes, Lines,
      tokenVars, connVars, serverVars, replyVars, histVars
<1>8. ASSUME NEW rest \in {"left", "dead"}, ShellEnds(rest) PROVE IInv'
  BY <1>8
  DEF ShellEnds, IInv, Safe, TypeOK, ClosedWhenOver, AftermathBounded, CommandsAreReached,
      CallsInv, EscInv, HookInv, Places, Completing, Commanding, Outcomes, Lines,
      tokenVars, connVars, serverVars, replyVars, histVars
<1>9. CASE BodyArrives
  <2>1. Flags'
    BY <1>9
    DEF BodyArrives, IInv, TypeOK, Flags, tokenVars, connVars, replyVars, procVars, histVars
  <2>2. Ranges'
    BY <1>9
    DEF BodyArrives, IInv, TypeOK, Ranges, Lines, tokenVars, connVars, replyVars, procVars,
        histVars
  <2>3. Safe'
    BY <1>9
    DEF BodyArrives, IInv, TypeOK, Safe, ClosedWhenOver, AftermathBounded, CommandsAreReached,
        CallsInv, EscInv, HookInv, Completing, Commanding, tokenVars, connVars,
        replyVars, procVars, histVars
  <2> QED
    BY <2>1, <2>2, <2>3, Regroup DEF IInv
<1> QED
  BY <1>1, <1>2, <1>3, <1>4, <1>5, <1>6, <1>7, <1>8, <1>9 DEF Outside

LEMMA StepKeeps == IInv /\ [Next]_vars => IInv'
<1> SUFFICES ASSUME IInv, [Next]_vars PROVE IInv'
  OBVIOUS
<1>1. CASE Begin
  BY <1>1, BeginKeeps
<1>2. CASE TaskStep
  BY <1>2, CompletionStepKeeps, CallStepKeeps, BatchEndKeeps DEF TaskStep
<1>3. CASE UserAnswers \/ TimesOut \/ ShellReaped
  BY <1>3, CallStepKeeps
<1>4. CASE CutOff \/ ReadingEnds
  BY <1>4, BatchEndKeeps
<1>5. CASE Outside
  BY <1>5, OutsideKeeps
<1>6. CASE UNCHANGED vars
  BY <1>6
  DEF vars, IInv, Safe, TypeOK, ClosedWhenOver, AftermathBounded, CommandsAreReached, CallsInv,
      EscInv, HookInv, tokenVars, connVars, serverVars, replyVars, procVars, histVars
<1> QED
  BY <1>1, <1>2, <1>3, <1>4, <1>5, <1>6 DEF Next, Outside

---------------------------------------------------------------------------
\* The invariant holds in every state of every behaviour, fair or not.
THEOREM InvariantHolds == Spec => []IInv
  BY InitInv, StepKeeps, PTL DEF Spec

\* Every variable keeps its type, and one hook at most is registered.
THEOREM TypeCorrect == Spec => []TypeOK
<1>1. IInv => TypeOK
  BY DEF IInv, Safe
<1> QED
  BY <1>1, InvariantHolds, PTL

\* On every way out of a completion its connection is closed and its helpers are gone, but
\* for the read that Ctrl-C in the middle of a wait for a line leaves.
THEOREM Closed == Spec => []ClosedWhenOver
<1>1. IInv => ClosedWhenOver
  BY DEF IInv, Safe
<1> QED
  BY <1>1, InvariantHolds, PTL

\* After Esc one line and one request at most, however the races go.
THEOREM Aftermath == Spec => []AftermathBounded
<1>1. IInv => AftermathBounded
  BY DEF IInv, Safe
<1> QED
  BY <1>1, InvariantHolds, PTL

\* Esc reaches the shell of the command that runs; no shell outlives its call, unless the
\* turn was cut off, and no hook its command.
THEOREM CommandsReached == Spec => []CommandsAreReached
<1>1. IInv => CommandsAreReached
  BY DEF IInv, Safe
<1> QED
  BY <1>1, InvariantHolds, PTL

---------------------------------------------------------------------------
\* What bounds the rest of a turn once Esc was pressed in it: the steps its task may still
\* take, a batch's by the calls that are left in it.
StepsLeft ==
  CASE pc = "idle" -> 0
    [] pc \in {"check", "body"} -> 1
    [] pc = "open" -> 2
    [] pc = "reap" -> 5 * calls - 1
    [] pc = "run" -> 5 * calls
    [] pc = "spawn" -> 5 * calls + 1
    [] pc = "confirm" -> 5 * calls + 2
    [] pc = "batch" -> 5 * calls + 3
    [] pc = "wait" -> 5 * MaxCalls + 4

\* The steps that move the task.
Moves == TaskStep \/ UserAnswers \/ TimesOut \/ ShellReaped \/ CutOff

\* While a turn goes on after Esc every step of its task brings its end nearer, the
\* answer of the user and the command's own timeout included, and nothing else that
\* happens puts it off.
EscShortens ==
  [][cancelled /\ cancelled' =>
       /\ StepsLeft' <= StepsLeft
       /\ Moves => StepsLeft' < StepsLeft]_vars

\* The task can move on: what it waits for is there.
Ready ==
  \/ pc \in {"batch", "spawn"}
  \/ pc = "check" /\ cancelled
  \/ pc = "open" /\ (headers # "none" \/ woken)
  \/ pc = "body" /\ headers = "told"
  \/ pc = "wait" /\ (line # "none" \/ woken)
  \/ pc \in {"run", "reap"} /\ proc = "dead"
\* After Esc a turn waits for nothing else: its task can move on, or the helper that waits
\* for the token can wake it, or the user is asked, or the command has been sent the signal
\* it ends on; or it is in one of the two waits Esc does not reach, for the body of an
\* error and for a child whose shell has ended.
EscLeavesNoWait ==
  cancelled /\ pc # "idle" =>
    \/ Ready
    \/ pc \in {"open", "wait"} /\ "cancel_wait" \in tasks
    \/ pc = "confirm"
    \/ pc \in {"run", "reap"} /\ proc = "signalled"
    \/ Held

\* What StepsLeft is at each place, before a step and after it.
LEMMA Left ==
  /\ (pc = "idle" => StepsLeft = 0) /\ (pc \in {"check", "body"} => StepsLeft = 1)
  /\ (pc = "open" => StepsLeft = 2) /\ (pc = "wait" => StepsLeft = 5 * MaxCalls + 4)
  /\ (pc = "reap" => StepsLeft = 5 * calls - 1) /\ (pc = "run" => StepsLeft = 5 * calls)
  /\ (pc = "spawn" => StepsLeft = 5 * calls + 1)
  /\ (pc = "confirm" => StepsLeft = 5 * calls + 2)
  /\ (pc = "batch" => StepsLeft = 5 * calls + 3)
  BY DEF StepsLeft

LEMMA LeftNext ==
  /\ (pc' = "idle" => StepsLeft' = 0) /\ (pc' \in {"check", "body"} => StepsLeft' = 1)
  /\ (pc' = "open" => StepsLeft' = 2) /\ (pc' = "wait" => StepsLeft' = 5 * MaxCalls + 4)
  /\ (pc' = "reap" => StepsLeft' = 5 * calls' - 1) /\ (pc' = "run" => StepsLeft' = 5 * calls')
  /\ (pc' = "spawn" => StepsLeft' = 5 * calls' + 1)
  /\ (pc' = "confirm" => StepsLeft' = 5 * calls' + 2)
  /\ (pc' = "batch" => StepsLeft' = 5 * calls' + 3)
  BY DEF StepsLeft

LEMMA LeftAlone ==
  ASSUME UNCHANGED <<pc, calls>>
  PROVE  StepsLeft' = StepsLeft
  BY DEF StepsLeft

\* What the arithmetic below needs of the invariant.
LEMMA Counts ==
  ASSUME IInv
  PROVE  /\ pc \in Places /\ calls \in Int /\ calls >= 0 /\ calls <= MaxCalls
         /\ got \in Int /\ got <= MaxCalls
         /\ (pc \in Commanding \cup {"confirm"} => calls >= 1)
  BY Bounds DEF IInv, Safe, TypeOK, CallsInv

\* The end of a turn is the least there is.
LEMMA EndIsLeast ==
  ASSUME IInv, pc # "idle", pc' = "idle"
  PROVE  StepsLeft' < StepsLeft
<1>1. StepsLeft' = 0
  BY LeftNext
<1> QED
  BY <1>1, Left, Counts, Bounds DEF Places, Completing, Commanding

LEMMA CompletionShortens ==
  ASSUME IInv, cancelled,
         HeadersIn \/ OpenFails \/ ErrorIn \/ Refused \/ NextLine \/ CheckFails \/ WaitFails
           \/ ReadLine \/ ReplyEnds
  PROVE  StepsLeft' < StepsLeft
<1>1. CASE HeadersIn \/ ErrorIn
  BY <1>1, Left, LeftNext DEF HeadersIn, ErrorIn
<1>2. CASE OpenFails \/ Refused
  BY <1>2, EndIsLeast DEF OpenFails, Refused, Fails, EndTurn
<1>3. CASE NextLine
  BY <1>3 DEF NextLine, LooksAtToken
<1>4. CASE CheckFails
  BY <1>4, EndIsLeast DEF CheckFails, LooksAtToken, Fails, EndTurn
<1>5. CASE WaitFails
  <2>1. CASE pc' = "idle"
    BY <1>5, <2>1, EndIsLeast DEF WaitFails
  <2>2. CASE pc' # "idle"
    <3>1. pc = "wait" /\ pc' = "batch" /\ calls' = 1
      BY <1>5, <2>2 DEF WaitFails, Expires, Fails, EndTurn
    <3> QED
      BY <3>1, Left, LeftNext, Bounds
  <2> QED
    BY <2>1, <2>2
<1>6. CASE ReadLine
  BY <1>6, Left, LeftNext, Bounds DEF ReadLine
<1>7. CASE ReplyEnds
  <2>1. CASE pc' = "idle"
    BY <1>7, <2>1, EndIsLeast DEF ReplyEnds
  <2>2. CASE pc' # "idle"
    <3>1. pc = "wait" /\ pc' = "batch" /\ calls' \in {0, got}
      BY <1>7, <2>2 DEF ReplyEnds, EndTurn
    <3>2. StepsLeft = 5 * MaxCalls + 4 /\ StepsLeft' = 5 * calls' + 3
      BY <3>1, Left, LeftNext
    <3>3. calls' \in Int /\ calls' <= MaxCalls
      BY <3>1, Counts, Bounds
    <3>4. 5 * calls' + 3 < 5 * MaxCalls + 4
      <4>1. \A m, n \in Int : n <= m => 5 * n + 3 < 5 * m + 4
        OBVIOUS
      <4>2. MaxCalls \in Int
        BY Bounds
      <4> QED
        BY <3>3, <4>1, <4>2
    <3> QED
      BY <3>2, <3>4
  <2> QED
    BY <2>1, <2>2
<1> QED
  BY <1>1, <1>2, <1>3, <1>4, <1>5, <1>6, <1>7

LEMMA CallShortens ==
  ASSUME IInv,
         QuickCall \/ AskUser \/ RunCommand \/ UserAnswers \/ Register \/ TimesOut
           \/ ShellReaped \/ CommandEnds \/ NextIteration \/ StopsAfterBatch \/ CutOff
  PROVE  StepsLeft' < StepsLeft
<1>0. calls \in Int /\ calls >= 0 /\ (pc \in Commanding \cup {"confirm"} => calls >= 1)
  BY Counts
<1>1. CASE QuickCall
  BY <1>0, <1>1, Left, LeftNext DEF QuickCall, InBatch, NextCall
<1>2. CASE AskUser
  BY <1>0, <1>2, Left, LeftNext DEF AskUser, InBatch, replyVars
<1>3. CASE RunCommand
  BY <1>0, <1>3, Left, LeftNext DEF RunCommand, InBatch, Spawn, replyVars
<1>4. CASE UserAnswers
  BY <1>0, <1>4, Left, LeftNext DEF UserAnswers, Spawn, NextCall, replyVars
<1>5. CASE Register
  BY <1>0, <1>5, Left, LeftNext DEF Register, replyVars
<1>6. CASE TimesOut
  BY <1>0, <1>6, Left, LeftNext DEF TimesOut, CallOver, NextCall, Commanding, replyVars
<1>7. CASE CommandEnds \/ ShellReaped
  BY <1>0, <1>7, Left, LeftNext DEF CommandEnds, ShellReaped, CallOver, NextCall, Commanding
<1>8. CASE NextIteration
  BY <1>0, <1>8, Left, LeftNext DEF NextIteration, Request
<1>9. CASE StopsAfterBatch
  BY <1>9, EndIsLeast DEF StopsAfterBatch, EndTurn
<1>10. CASE CutOff
  BY <1>10, EndIsLeast DEF CutOff, EndTurn
<1> QED
  BY <1>1, <1>2, <1>3, <1>4, <1>5, <1>6, <1>7, <1>8, <1>9, <1>10

\* What the user, the server, the clock and the process do moves the task nowhere.
LEMMA OutsideMovesNothing ==
  ASSUME Outside \/ ReadingEnds \/ UNCHANGED vars
  PROVE  UNCHANGED <<pc, calls>>
  BY DEF Outside, Esc, CancelWakes, HeadersArrive, BodyArrives, LogsFatal, LineArrives,
         DeadlinePasses, ChildEnds, ShellEnds, ReadingEnds, vars, replyVars

\* Once Esc was pressed in a turn, each step of its task brings the turn's end nearer, and
\* nothing the user, the server, the clock or the process does puts it off: half of why
\* EscEnds holds.
THEOREM Shortens == Spec => EscShortens
<1>1. IInv /\ [Next]_vars
        => [cancelled /\ cancelled' =>
              /\ StepsLeft' <= StepsLeft
              /\ Moves => StepsLeft' < StepsLeft]_vars
  <2> SUFFICES ASSUME IInv, [Next]_vars, cancelled, cancelled'
               PROVE  /\ StepsLeft' <= StepsLeft
                      /\ Moves => StepsLeft' < StepsLeft
    OBVIOUS
  <2>0. StepsLeft \in Int
    BY Left, Counts, Bounds DEF Places, Completing, Commanding
  <2>1. CASE Moves
    <3>1. StepsLeft' < StepsLeft
      BY <2>1, CompletionShortens, CallShortens DEF Moves, TaskStep
    <3>2. StepsLeft' \in Int
      <4>1. IInv'
        BY StepKeeps
      <4>2. pc' \in Places /\ calls' \in Int
        BY <4>1, Bounds DEF IInv, TypeOK
      <4> QED
        BY <4>2, LeftNext, Bounds DEF Places, Completing, Commanding
    <3> QED
      BY <2>0, <3>1, <3>2
  <2>2. CASE ~Moves
    <3>1. ~Begin
      BY DEF Begin
    <3>2. UNCHANGED <<pc, calls>>
      BY <2>2, <3>1, OutsideMovesNothing DEF Moves, Next, Outside
    <3> QED
      BY <2>0, <2>2, <3>2, LeftAlone
  <2> QED
    BY <2>1, <2>2
<1> QED
  BY <1>1, InvariantHolds, PTL DEF Spec, EscShortens

\* While a completion goes on the helper that waits for the token does, but for the read
\* of an error's body, and a command that was begun has a process.
HelperInv ==
  /\ pc \in {"open", "check", "wait"} => "cancel_wait" \in tasks
  /\ pc = "body" => headers \in {"error", "told"}
  /\ pc \in Commanding => proc # "none"

LEMMA CompletionKeepsHelpers ==
  ASSUME HelperInv, Begin \/ HeadersIn \/ OpenFails \/ ErrorIn \/ Refused \/ NextLine
                    \/ CheckFails \/ WaitFails \/ ReadLine \/ ReplyEnds
  PROVE  HelperInv'
<1> USE DEF HelperInv, Completing, Commanding
<1>1. CASE Begin
  BY <1>1 DEF Begin, Request
<1>2. CASE HeadersIn \/ ErrorIn
  BY <1>2 DEF HeadersIn, ErrorIn, serverVars
<1>3. CASE OpenFails \/ Refused \/ CheckFails \/ WaitFails
  <2>1. pc' \in {"idle", "batch"}
    BY <1>3 DEF OpenFails, CheckFails, WaitFails, Refused, Expires, Fails, EndTurn
  <2> QED
    BY <2>1
<1>4. CASE NextLine
  BY <1>4 DEF NextLine
<1>5. CASE ReadLine
  BY <1>5 DEF ReadLine
<1>6. CASE ReplyEnds
  <2>1. pc' \in {"idle", "batch"}
    BY <1>6 DEF ReplyEnds, EndTurn
  <2> QED
    BY <2>1
<1> QED
  BY <1>1, <1>2, <1>3, <1>4, <1>5, <1>6

LEMMA CallsKeepHelpers ==
  ASSUME HelperInv, QuickCall \/ AskUser \/ RunCommand \/ UserAnswers \/ Register
                    \/ TimesOut \/ ShellReaped \/ CommandEnds \/ NextIteration
                    \/ StopsAfterBatch \/ CutOff
  PROVE  HelperInv'
<1> USE DEF HelperInv, Completing, Commanding
<1>1. CASE QuickCall \/ AskUser \/ CommandEnds \/ ShellReaped \/ StopsAfterBatch \/ CutOff
  <2>1. pc' \in {"idle", "batch", "confirm"}
    BY <1>1
    DEF QuickCall, AskUser, CommandEnds, ShellReaped, CallOver, StopsAfterBatch, CutOff,
        NextCall, EndTurn
  <2> QED
    BY <2>1
<1>2. CASE RunCommand \/ UserAnswers
  BY <1>2 DEF RunCommand, UserAnswers, Spawn, NextCall
<1>3. CASE Register
  BY <1>3 DEF Register, Fire, Signalled
<1>4. CASE TimesOut
  BY <1>4 DEF TimesOut, CallOver, NextCall, Signalled
<1>5. CASE NextIteration
  BY <1>5 DEF NextIteration, Request
<1> QED
  BY <1>1, <1>2, <1>3, <1>4, <1>5

LEMMA OutsideKeepsHelpers ==
  ASSUME HelperInv, Outside \/ ReadingEnds \/ UNCHANGED vars
  PROVE  HelperInv'
<1>1. UNCHANGED pc /\ (pc # "idle" => UNCHANGED tasks)
  BY DEF Outside, Esc, CancelWakes, HeadersArrive, BodyArrives, LogsFatal, LineArrives,
         DeadlinePasses, ChildEnds, ShellEnds, ReadingEnds, vars, connVars
<1>2. proc' = proc \/ proc' \in {"signalled", "left", "dead"}
  BY DEF Outside, Esc, CancelWakes, HeadersArrive, BodyArrives, LogsFatal, LineArrives,
         DeadlinePasses, ChildEnds, ShellEnds, ReadingEnds, Signalled, vars, procVars
<1>3. pc = "body" => headers' = headers \/ headers' = "told"
  BY DEF Outside, Esc, CancelWakes, HeadersArrive, BodyArrives, LogsFatal, LineArrives,
         DeadlinePasses, ChildEnds, ShellEnds, ReadingEnds, vars, serverVars
<1> QED
  BY <1>1, <1>2, <1>3 DEF HelperInv, Commanding

\* In every state of a turn after Esc something other than the server and the clock can
\* move it on, or it is held; with the theorem before it, no way is left for EscEnds to
\* fail but a fairness the code does not have.
THEOREM NoWaitAfterEsc == Spec => []EscLeavesNoWait
<1>1. Init => HelperInv
  BY DEF Init, HelperInv, Completing, Commanding
<1>2. HelperInv /\ [Next]_vars => HelperInv'
  BY CompletionKeepsHelpers, CallsKeepHelpers, OutsideKeepsHelpers
     DEF Next, TaskStep, Outside
<1>3. IInv /\ HelperInv => EscLeavesNoWait
  BY DEF IInv, Safe, TypeOK, HelperInv, CommandsAreReached, EscLeavesNoWait, Ready, Held,
         Places, Completing, Commanding
<1> QED
  BY <1>1, <1>2, <1>3, InvariantHolds, PTL DEF Spec

\* So a turn takes at most five steps for each call of a whole reply, and four, after Esc.
THEOREM StepsBounded == Spec => [](StepsLeft \in Int /\ StepsLeft <= 5 * MaxCalls + 4)
<1>1. IInv => StepsLeft \in Int /\ StepsLeft <= 5 * MaxCalls + 4
  <2> SUFFICES ASSUME IInv
               PROVE  StepsLeft \in Int /\ StepsLeft <= 5 * MaxCalls + 4
    OBVIOUS
  <2>1. MaxCalls \in Int /\ MaxCalls >= 1
    BY Bounds
  <2>2. calls \in Int /\ calls <= MaxCalls
    BY Counts
  <2>3. CASE pc \in {"idle", "check", "body", "open", "wait"}
    BY <2>1, <2>3, Left
  <2>4. CASE pc \in {"reap", "run", "spawn", "confirm", "batch"}
    BY <2>1, <2>2, <2>4, Left
  <2> QED
    BY <2>3, <2>4, Counts DEF Places, Completing, Commanding
<1> QED
  BY <1>1, InvariantHolds, PTL
=============================================================================
