---------------------------- MODULE Conversation -----------------------------
(***************************************************************************)
(* The conversation a session keeps (AgentLoop.history), what shrinks it    *)
(* (agent/compact.py), and the record of files read (_seen_files) that lets *)
(* an edit through only while the file's text is still in the conversation. *)
(* History is a set of messages ordered by `at`: dropping one leaves a gap. *)
(* One call per reply, as the loop runs the models it parses from text; the *)
(* system prompt, which nothing touches, is left out, and so are the prose   *)
(* around a call, the length of a mark, and the redaction of an edit that     *)
(* changed nothing, which leaves its message where it is.                    *)
(***************************************************************************)
EXTENDS Integers, FiniteSets, FiniteSetsExt

CONSTANTS
  Dirs, Names,     \* a file is a directory and a name in it
  Start,           \* the directory a process starts in
  SizeOf,          \* characters of a file's text, by name
  LongSize,        \* characters of the long reply
  ShortSize,       \* of a message of any other kind, or of one cut down
  Keep,            \* agent.compact_keep_recent
  Soft, Hard,      \* max_history_chars times auto_compact_ratio, max_history_chars
  RecoveryShare,   \* 1 / min_compact_recovery_ratio
  MaxNotices,      \* _MAX_COMPACT_NOTICES
  MaxMessages,     \* messages of a conversation, notices aside (bound of the model)
  MaxSaved         \* messages of a saved conversation (bound of the model)

Files == Dirs \X Names
NoFile == <<>>
Kinds == {"prompt", "nudge", "claim", "essay", "reply", "call", "result"}
Tools == {"none", "read", "edit", "write"}
MaxMessageChars == 800         \* _MAX_MESSAGE_CHARS
RecentShrinkThreshold == 4000  \* _RECENT_SHRINK_THRESHOLD
\* The names whose whole text is cut even inside the recent window.
Big == {n \in Names : SizeOf[n] > RecentShrinkThreshold}

\* A claim is a prose reply of _MIN_DEDUPE_CHARS to _MAX_MESSAGE_CHARS that the model
\* repeats verbatim, an essay a longer one, and a reply is any other prose; `again` is
\* set once one is marked as repeated, and `said` is the length an essay's end states
\* since it was cut last, 0 before.  The text of a file is in the result of its read, the
\* whole of it or a part (a window, or the first _MAX_BYTES; one over the threshold is as
\* good as whole here), and in the call of its write.
Messages == [at : Nat, kind : Kinds, tool : Tools, file : Files \cup {NoFile},
             text : {"none", "part", "whole", "cut"}, said : Nat, again : BOOLEAN]
Given == {"part", "whole"}

ASSUME ConstantsAssumption ==
  /\ Start \in Dirs /\ SizeOf \in [Names -> Nat]
  /\ Keep \in Nat /\ Soft \in Nat /\ Hard \in Nat /\ RecoveryShare \in Nat
  /\ MaxNotices \in Nat /\ MaxMessages \in Nat /\ MaxSaved \in 0..MaxMessages
\* With its mark, an essay is over the threshold only if it is so without.
ASSUME SizesAssumption ==
  /\ ShortSize \in Nat /\ ShortSize <= MaxMessageChars
  /\ LongSize \in Nat /\ LongSize > MaxMessageChars
  /\ LongSize \notin 3800..RecentShrinkThreshold

VARIABLES
  pc,        \* "idle", a step of a turn: "check", "reply", "tools"; or "saving"
  cwd,       \* _cwd
  history,   \* the conversation
  next,      \* where the next message goes
  seen,      \* _seen_files
  notices,   \* compact_notices of the turn
  session,   \* the session file: its state, and what it holds when it is whole
  slipped    \* history: a file seen has lost its text in a way the record cannot tell

vars == <<pc, cwd, history, next, seen, notices, session, slipped>>

---------------------------------------------------------------------------
\* compact_history

\* Cut to its first 800 characters, an essay ends in "...[compacted: <n> chars total]".
Digits(n) ==  \* of n with its comma
  IF n < 1000 THEN 3 ELSE IF n < 10000 THEN 5 ELSE IF n < 100000 THEN 6 ELSE 7
CutLength(n) == MaxMessageChars + 27 + Digits(n)
Length(m) ==
  IF m.kind = "essay" THEN IF m.said = 0 THEN LongSize ELSE CutLength(m.said)
  ELSE IF m.text = "whole" THEN SizeOf[m.file[2]] ELSE ShortSize
Chars(h) == MapThenSumSet(Length, h)

Positions(h) == {m.at : m \in h}
Recent(h, m) == Cardinality({p \in Positions(h) : p > m.at}) < Keep

\* A bulky text goes once it is behind the recent window, a huge one at once.
Shrunk(h, m) ==
  m.text \in Given /\ (~Recent(h, m) \/ (m.text = "whole" /\ m.file[2] \in Big))
\* So does an essay, and again in every pass: with what it ends in, one that was cut is
\* still over 800 characters, so it is cut anew and states the length it had by then.
Cut(h, m) == m.kind = "essay" /\ (~Recent(h, m) \/ Length(m) > RecentShrinkThreshold)
SaidAfter(h, m) == IF Cut(h, m) THEN Length(m) ELSE m.said
\* Nudges behind the window go, and every copy of a reply but the first, as they compare
\* once they are cut.
Copies(h, m) == {c \in h : /\ m.kind \in {"claim", "essay"} /\ c.kind = m.kind /\ c.at # m.at
                           /\ SaidAfter(h, c) = SaidAfter(h, m)}
Gone(h, m) ==
  \/ m.kind = "nudge" /\ ~Recent(h, m)
  \/ \E c \in Copies(h, m) : c.at < m.at
SqueezedForgets(h, m) ==  \* mutant: the mark of an earlier pass is not read back
  [m EXCEPT !.text = IF Shrunk(h, m) THEN "cut" ELSE @, !.said = SaidAfter(h, m),
            !.again = Copies(h, m) # {}]
SqueezedMut(h, m) ==  \* mutant: the copy that stays is not marked
  [m EXCEPT !.text = IF Shrunk(h, m) THEN "cut" ELSE @, !.said = SaidAfter(h, m)]
Squeezed(h, m) ==
  [m EXCEPT !.text = IF Shrunk(h, m) THEN "cut" ELSE @, !.said = SaidAfter(h, m),
            !.again = @ \/ Copies(h, m) # {}]
Compact(h) == {Squeezed(h, m) : m \in {n \in h : ~Gone(h, n)}}

\* A pass is adopted only when it recovers enough to pay for rebuilding the prompt.
Worthwhile(h) ==
  Chars(h) > Soft /\ RecoveryShare * (Chars(h) - Chars(Compact(h))) >= Chars(h)

\* _forget_seen(kept_verbatim): the names read in the recent window, each call followed
\* by a result, as they resolve now.
Answered(h, c) == \E r \in h : r.kind = "result" /\ r.at = c.at + 1
IntactMut(h) == {}  \* mutant: an automatic pass forgets everything, as /compact does
Intact(h) == {<<cwd, c.file[2]>> :
                c \in {m \in h : /\ m.kind = "call" /\ m.tool = "read"
                                 /\ Recent(h, m) /\ Answered(h, m)}}

---------------------------------------------------------------------------
Room == next < MaxMessages
Message(kind, tool, file, text) ==
  [at |-> next, kind |-> kind, tool |-> tool, file |-> file, text |-> text,
   said |-> 0, again |-> FALSE]
Put(h, m) == history' = h \cup {m} /\ next' = next + 1
Say(kind) == Room /\ Put(history, Message(kind, "none", NoFile, "none"))

NoSession == [state |-> "none", cwd |-> Start, history |-> {}, next |-> 0]
TornSession == [NoSession EXCEPT !.state = "torn"]

Init ==
  /\ pc = "idle" /\ cwd = Start /\ history = {} /\ next = 0 /\ seen = {}
  /\ notices = 0 /\ session = NoSession /\ slipped = FALSE

\* run_turn: the request joins the conversation.
Ask ==
  /\ pc = "idle" /\ pc' = "check" /\ notices' = 0
  /\ Say("prompt")
  /\ UNCHANGED <<cwd, seen, session, slipped>>

AfterCheck(h) == pc' = IF Chars(h) > Hard THEN "idle" ELSE "reply"

\* The check before a completion finds nothing worth compacting.
CheckSize ==
  /\ pc = "check" /\ ~Worthwhile(history)
  /\ AfterCheck(history)
  /\ UNCHANGED <<cwd, history, next, seen, notices, session, slipped>>

NoticeDueMut == notices <= MaxNotices  \* mutant: one notice too many
NoticeDue == notices < MaxNotices
AutoCompact ==
  /\ pc = "check" /\ Worthwhile(history)
  /\ LET h == Compact(history) IN
       /\ AfterCheck(h)
       /\ seen' = seen \cap Intact(h)
       /\ IF NoticeDue
          THEN /\ notices' = notices + 1
               /\ Put(h, Message("nudge", "none", NoFile, "none"))
          ELSE history' = h /\ UNCHANGED <<notices, next>>
  /\ slipped' = (slipped \/ \E m \in history : Gone(history, m) /\ Recent(history, m))
  /\ UNCHANGED <<cwd, session>>

\* The model answers with a call; only a write carries a file's text.
Call(tool, name) ==
  /\ pc = "reply" /\ pc' = "tools" /\ Room
  /\ Put(history, Message("call", tool, <<cwd, name>>,
                              IF tool = "write" THEN "whole" ELSE "none"))
  /\ UNCHANGED <<cwd, seen, notices, session, slipped>>

\* It answers with prose that ends the turn, or Esc ends the reply.
Answer(kind) ==
  /\ pc = "reply" /\ pc' = "idle"
  /\ Say(kind)
  /\ UNCHANGED <<cwd, seen, notices, session, slipped>>

\* It answers with prose that a gate sends back to work with a nudge.
Nudged(kind) ==
  /\ pc = "reply" /\ pc' = "check" /\ next + 1 < MaxMessages
  /\ history' = history \cup {Message(kind, "none", NoFile, "none"),
                              [Message("nudge", "none", NoFile, "none") EXCEPT !.at = next + 1]}
  /\ next' = next + 2
  /\ UNCHANGED <<cwd, seen, notices, session, slipped>>

\* A runaway, empty or malformed reply is thrown away, and a call that repeats one too
\* often is not run; either is answered with a nudge.
Discarded ==
  /\ pc \in {"reply", "tools"} /\ pc' = "check"
  /\ Say("nudge")
  /\ UNCHANGED <<cwd, seen, notices, session, slipped>>

\* The guards over what the calls came to answer the result with a nudge of their own.
GuardNudge ==
  /\ pc = "check" /\ \E m \in history : m.kind = "result" /\ m.at = next - 1
  /\ Say("nudge")
  /\ UNCHANGED <<pc, cwd, seen, notices, session, slipped>>

\* A budget, a guard or a failing server ends the turn and adds nothing.
Stopped ==
  /\ pc \in {"check", "reply"} /\ pc' = "idle"
  /\ UNCHANGED <<cwd, history, next, seen, notices, session, slipped>>

\* The call that waits for its result.
Pending == {m \in history : m.kind = "call" /\ m.at = next - 1}

Result(c, text) ==
  /\ pc = "tools" /\ pc' = "check" /\ Room
  /\ Put(history, Message("result", c.tool, c.file, text))
  /\ UNCHANGED <<cwd, notices, session>>

\* ReadFile.run and WriteFile.run succeed and mark the file, a read of a part as well:
\* the record is "a floor against editing text the model never saw, not a guarantee that
\* it saw the right part".
ReadFile(c, text) ==
  /\ c.tool = "read" /\ text \in Given /\ Result(c, text)
  /\ seen' = seen \cup {c.file} /\ UNCHANGED slipped
WriteFile(c) ==
  /\ c.tool = "write" /\ Result(c, "none")
  /\ seen' = seen \cup {c.file} /\ UNCHANGED slipped
\* An edit leaves the record alone, whether it lands or _unseen_help refuses it; so
\* does a call that fails or is denied.
EditFile(c) == c.tool = "edit" /\ Result(c, "none") /\ UNCHANGED <<seen, slipped>>
FailedCall(c) ==
  /\ c.tool # "edit" /\ Result(c, "none")
  /\ slipped' = (slipped \/ (c.tool = "read" /\ c.file \in seen))
  /\ UNCHANGED seen

\* Ctrl-C while a tool runs leaves its call without a result.
Interrupt ==
  /\ pc = "tools" /\ pc' = "idle"
  /\ UNCHANGED <<cwd, history, next, seen, notices, session, slipped>>

---------------------------------------------------------------------------
\* Commands between turns: /clear, /compact, /cwd, /save and /resume.
ForgetAll == seen' = {} /\ slipped' = FALSE

Clear ==
  /\ pc = "idle" /\ history' = {} /\ next' = 0 /\ ForgetAll
  /\ UNCHANGED <<pc, cwd, notices, session>>

CompactCommand ==
  /\ pc = "idle" /\ history' = Compact(history) /\ ForgetAll
  /\ UNCHANGED <<pc, cwd, next, notices, session>>

ChangeDir(d) ==
  /\ pc = "idle" /\ d # cwd /\ cwd' = d
  /\ slipped' = (slipped \/ seen # {})
  /\ UNCHANGED <<pc, history, next, seen, notices, session>>

\* write_text empties the file before it fills it.
SaveBegins ==
  /\ pc = "idle" /\ next <= MaxSaved /\ pc' = "saving" /\ session' = TornSession
  /\ UNCHANGED <<cwd, history, next, seen, notices, slipped>>
SaveEnds ==
  /\ pc = "saving" /\ pc' = "idle"
  /\ session' = [state |-> "whole", cwd |-> cwd, history |-> history, next |-> next]
  /\ UNCHANGED <<cwd, history, next, seen, notices, slipped>>
SaveFails ==
  /\ pc = "saving" /\ pc' = "idle"
  /\ UNCHANGED <<cwd, history, next, seen, notices, session, slipped>>

ResumeMut ==  \* mutant: a resumed conversation keeps the record of the one before
  /\ pc = "idle" /\ session.state = "whole"
  /\ cwd' = session.cwd /\ history' = session.history /\ next' = session.next
  /\ UNCHANGED <<pc, seen, slipped, notices, session>>
Resume ==
  /\ pc = "idle" /\ session.state = "whole"
  /\ cwd' = session.cwd /\ history' = session.history /\ next' = session.next
  /\ ForgetAll
  /\ UNCHANGED <<pc, notices, session>>

\* The process dies and starts anew; the session file is what survives.
Restart ==
  /\ pc' = "idle" /\ cwd' = Start /\ history' = {} /\ next' = 0 /\ notices' = 0
  /\ ForgetAll /\ UNCHANGED session

Next ==
  \/ Ask \/ CheckSize \/ AutoCompact \/ Interrupt \/ Discarded \/ GuardNudge \/ Stopped
  \/ \E tool \in Tools \ {"none"}, n \in Names : Call(tool, n)
  \/ \E kind \in {"claim", "essay", "reply"} : Answer(kind) \/ Nudged(kind)
  \/ \E c \in Pending : WriteFile(c) \/ EditFile(c) \/ FailedCall(c)
                        \/ \E text \in Given : ReadFile(c, text)
  \/ Clear \/ CompactCommand \/ (\E d \in Dirs : ChangeDir(d))
  \/ SaveBegins \/ SaveEnds \/ SaveFails \/ Resume \/ Restart

Spec == Init /\ [][Next]_vars

---------------------------------------------------------------------------
Sessions == [state : {"none", "torn", "whole"}, cwd : Dirs, history : SUBSET Messages,
             next : Nat]
\* Types of the variables (loop.py, compact.py, session.py).
TypeOK ==
  /\ pc \in {"idle", "check", "reply", "tools", "saving"}
  /\ cwd \in Dirs /\ history \subseteq Messages /\ seen \subseteq Files
  /\ next \in 0..(MaxMessages + MaxNotices) /\ notices \in 0..MaxNotices
  /\ session \in Sessions /\ slipped \in BOOLEAN
  /\ \A m \in history : m.at < next

HasText(f) == \E m \in history : m.file = f /\ m.text \in Given

\* The record of files read does not outlive their text (loop.py:178): unless the
\* record slipped in one of the ways it cannot tell (a repeated reply collapsed inside
\* the window, /cwd, a read that failed), a file of ordinary size that an edit would be
\* let through to has text in the conversation that a read gave, the whole or the part
\* the model asked for, or that a write wrote, over every order of turns, compactions,
\* saves, resumes and restarts.
RecordIsHonest == ~slipped => \A f \in seen : f[2] \in Big \/ HasText(f)

RecentReads == {c \in history : /\ c.kind = "call" /\ c.tool = "read" /\ c.file[1] = cwd
                                /\ Recent(history, c) /\ Answered(history, c)}
\* A read and its result that sit in the recent window keep their file in the record
\* when the check compacts: forgetting it sent the model into a loop of reading and
\* being refused (loop.py:184).
RecentReadSurvives ==
  [][AutoCompact => \A c \in RecentReads : c.file \in seen => c.file \in seen']_vars

\* Passes settle.  Unless the second leaves all as the first left it, "a cheap no-op for
\* anything it already shrank" (compact.py:117), it changes none but the essays, which are
\* over the limit still; and a fourth changes nothing, whatever the sizes.
CompactSettles ==
  LET once == Compact(history)  twice == Compact(once)  thrice == Compact(twice) IN
    \/ twice = once
    \/ (\A m \in once : m.kind # "essay" => m \in twice) /\ Compact(thrice) = thrice

Leaves(m) == ~\E n \in history' : n.at = m.at /\ n.kind = m.kind /\ n.file = m.file
Noise(m) ==
  \/ m.kind = "nudge"
  \/ /\ m.kind \in {"claim", "essay"}
     /\ \E n \in history' : n.kind = m.kind /\ n.at < m.at /\ n.again
InTurn == pc \in {"check", "reply", "tools"}
\* Inside a turn only noise leaves the conversation (compact.py:18): a nudge, or a
\* repeated claim or essay, whose earlier copy stays and is marked.
OnlyNoiseGoes ==
  [][InTurn /\ next' >= next =>
       \A m \in history : Leaves(m) => Noise(m)]_vars

\* What the loop says of the record: a call is matched only with the content it read,
\* since "keep[ing] a path whose content was dropped ... is the failure the gate exists
\* to prevent" (loop.py:200).  An edit the gate lets through has the text before it.
EditIsSighted ==
  pc = "tools" => \A c \in Pending : c.tool = "edit" /\ c.file \in seen => HasText(c.file)
=============================================================================
