------------------------------ MODULE FileTools ------------------------------
(***************************************************************************)
(* The tools that change files (tools/fs.py), the policy that lets them      *)
(* (permissions.py), the diff the user is shown before approving a call      *)
(* (ui/render.py), and the user, who may save a file from an editor at any   *)
(* moment, the wait for the approval included.  A text is a sequence of      *)
(* lines, a line its indentation and what it says; blank lines, tabs, line   *)
(* endings and matches inside a line are left out.                           *)
(***************************************************************************)
EXTENDS Integers, FiniteSets, SequencesExt

CONSTANTS
  Files, Python,      \* the files, and those whose name ends in .py
  Area,               \* Area[f]: "auto" under auto_allow_under, "deny" in deny_paths
  Base,               \* Base[tool]: the configured permission, or the tool's own
  Yolo, Approver,     \* --yolo; someone is there to ask
  Toks, Openers,      \* what a line may say; what opens a block
  MaxIndent, MaxLines,  \* bounds of the model
  Ratio(_, _),        \* difflib's similarity of two blocks, in percent (external)
  Calls,              \* calls the model may make: records with the fields of the tool
  Saves,              \* texts the user may save
  MaxRemembered       \* answers for good (bound of the model)

Tools == {"read_file", "edit_file", "replace_lines", "write_file", "append_file", "move_file"}
Lines == [indent : 0..MaxIndent, tok : Toks]
Texts == UNION {[1..n -> Lines] : n \in 0..MaxLines}

ASSUME ConstantsAssumption ==
  /\ Python \subseteq Files /\ Area \in [Files -> {"auto", "deny", "plain"}]
  /\ Base \in [Tools -> {"auto", "ask", "deny"}]
  /\ Yolo \in BOOLEAN /\ Approver \in BOOLEAN
  /\ MaxIndent \in Nat /\ MaxLines \in Nat /\ MaxRemembered \in Nat
  /\ \A c \in Calls :
       /\ c.tool \in Tools
       /\ IF c.tool = "move_file" THEN {c.src, c.dst} \subseteq Files ELSE c.file \in Files
  /\ Saves \subseteq Files \X Texts

VARIABLES
  disk,     \* the files there are, each with its text
  seen,     \* ToolContext.seen_files
  session,  \* PermissionPolicy._session, "none" where it holds nothing
  asked,    \* the call the user is asked to approve, if any
  shown     \* the text it was asked about, and what the diff said it would be

vars == <<disk, seen, session, asked, shown>>

Nothing == [before |-> <<>>, after |-> <<>>]
Content(f) == IF f \in DOMAIN disk THEN disk[f] ELSE <<>>

---------------------------------------------------------------------------
\* Python's compile(), as far as indentation goes: a block is opened before its lines are
\* indented, it is not empty, and what ends it returns to a column that is open.
Parses(t) ==
  /\ \A i \in DOMAIN t :
       LET opened == i > 1 /\ t[i - 1].tok \in Openers IN
       IF opened THEN t[i].indent > t[i - 1].indent
       ELSE IF i = 1 THEN t[i].indent = 0
       ELSE \E j \in 1..(i - 1) :
              /\ t[j].indent = t[i].indent
              /\ \A k \in j..(i - 1) : t[k].indent >= t[i].indent
  /\ t # <<>> => t[Len(t)].tok \notin Openers
Breaks(f, before, after) == f \in Python /\ Parses(before) /\ ~Parses(after)

Says(t) == [i \in DOMAIN t |-> t[i].tok]
Starts(t, n) == {s \in 1..Len(t) : s + n - 1 <= Len(t)}
Block(t, s, n) == SubSeq(t, s, s + n - 1)

\* The edits: blocks that say the same are wholly alike, and where all matches are to be
\* replaced no two overlap (how the spans of such are spliced is left out).
Sayings == UNION {[1..n -> Toks] : n \in 0..MaxLines}
Overlaps(old) ==
  \E n \in 1..(Len(old) - 1) : Says(Block(old, 1, n)) = Says(Block(old, Len(old) - n + 1, n))
ASSUME EditsAssumption ==
  /\ \A c \in Calls : c.tool = "edit_file" =>
       /\ {c.old, c.new} \subseteq Seq([indent : Nat, tok : Toks])
       /\ c.all \in BOOLEAN /\ c.nth \in Nat
       /\ c.all => ~Overlaps(c.old)
  /\ \A x, y \in Sayings : Ratio(x, y) \in 0..100 /\ Ratio(x, x) = 100

\* text.find: the first line of `old` may lack some of the indentation, no other may; it
\* is looked for again from where the match before it ends.
Fits(t, old, s) ==
  \A k \in DOMAIN old :
    LET line == t[s + k - 1] IN
    /\ line.tok = old[k].tok
    /\ IF k = 1 THEN line.indent >= old[k].indent ELSE line.indent = old[k].indent
Exact(t, old) ==
  LET starts == Starts(t, Len(old))
      clear[s \in starts] ==
        \A r \in 1..(s - 1) : Fits(t, old, r) /\ clear[r] => r + Len(old) <= s
  IN  {s \in starts : Fits(t, old, s) /\ clear[s]}
Tolerant(t, old) ==
  {s \in Starts(t, Len(old)) : Says(Block(t, s, Len(old))) = Says(old)}
Likeness(t, old, s) == Ratio(Says(old), Says(Block(t, s, Len(old))))
Fuzzy(t, old) ==
  {s \in Starts(t, Len(old)) :
     /\ Likeness(t, old, s) >= 80
     /\ \A r \in Starts(t, Len(old)) \ {s} : Likeness(t, old, s) - Likeness(t, old, r) >= 5}
Nth(S, n) == CHOOSE s \in S : Cardinality({r \in S : r <= s}) = n

---------------------------------------------------------------------------
\* A match: where it starts, how many lines it has, and whether its span leaves out the
\* first line's indentation; the column is where its span starts.
Match(s, n, strip) == [at |-> s, len |-> n, strip |-> strip]
Matched(S, n, strip) == {Match(s, n, strip) : s \in S}
Column(t, old, m) ==
  IF m.strip THEN t[m.at].indent ELSE t[m.at].indent - old[1].indent

At(line, col) == [line EXCEPT !.indent = col]
\* `new` put at a column as it is, or with its first line's own indentation dropped.
Plain(new, col, strip) ==
  [k \in DOMAIN new |->
     IF k > 1 THEN new[k] ELSE At(new[1], IF strip THEN col ELSE col + new[1].indent)]
\* _anchor_new: the later lines keep their indentation relative to the first.
Anchored(new, col) ==
  IF \E k \in DOMAIN new : new[k].indent < new[1].indent THEN Plain(new, col, TRUE)
  ELSE [k \in DOMAIN new |-> At(new[k], col + new[k].indent - new[1].indent)]
Splice(t, M, Ins(_)) ==
  FlattenSeq([i \in DOMAIN t |->
    IF \E m \in M : m.at = i THEN Ins(CHOOSE m \in M : m.at = i)
    ELSE IF \E m \in M : i > m.at /\ i < m.at + m.len THEN <<>>
    ELSE <<t[i]>>])

\* _frame_ok: `old` has the shape of the block it matched.
FrameOK(t, old, m) ==
  \A k \in DOMAIN old :
    t[m.at + k - 1].indent - t[m.at].indent = old[k].indent - old[1].indent
\* _pick_splice: the columns are mended where the splice as written would break the file.
Mendable(t, old, M) == \A m \in M : Column(t, old, m) > 0 /\ FrameOK(t, old, m)
AsWritten(t, old, new, M) == Splice(t, M, LAMBDA m : Plain(new, Column(t, old, m), m.strip))
AsMended(t, old, new, M) == Splice(t, M, LAMBDA m : Anchored(new, Column(t, old, m)))
PickSplice(t, old, new, M, py) ==
  LET plain == AsWritten(t, old, new, M)
      mended == AsMended(t, old, new, M)
      mend == py /\ Parses(t) /\ ~Parses(plain) /\ Mendable(t, old, M) /\ Parses(mended)
  IN  IF mend THEN mended ELSE plain

\* try_edit: the matches of the first tier that has some; none where it is ambiguous,
\* where the occurrence asked for does not exist, and where nothing matches.
ExactMatchesMut(S, c) ==  \* mutant: the first match, whatever the number
  {m \in Matched(S, Len(c.old), FALSE) :
     IF c.nth > 0 THEN m.at = Nth(S, 1) ELSE c.all \/ Cardinality(S) = 1}
ExactMatches(S, c) ==
  {m \in Matched(S, Len(c.old), FALSE) :
     IF c.nth > 0 THEN c.nth <= Cardinality(S) /\ m.at = Nth(S, c.nth)
     ELSE c.all \/ Cardinality(S) = 1}
Matches(t, c) ==
  LET exact == Exact(t, c.old)
      tolerant == Tolerant(t, c.old)
      n == Len(c.old)
  IN  IF c.old = <<>> THEN {}
      ELSE IF exact # {} THEN ExactMatches(exact, c)
      ELSE IF tolerant # {} /\ (c.all \/ Cardinality(tolerant) = 1)
             THEN Matched(tolerant, n, TRUE)
      ELSE IF c.all THEN {} ELSE Matched(Fuzzy(t, c.old), n, TRUE)
TryEdit(t, c, py) ==
  IF Matches(t, c) = {} THEN t ELSE PickSplice(t, c.old, c.new, Matches(t, c), py)

\* try_replace_lines, and _reindent_to, which moves the new lines as one.
TryReplaceLines(t, c, new) ==
  IF c.first < 1 \/ c.first > Len(t) \/ c.last < c.first THEN t
  ELSE SubSeq(t, 1, c.first - 1) \o new \o SubSeq(t, c.last + 1, Len(t))
Shiftable(new, delta) ==
  new # <<>> /\ delta # 0 /\ \A k \in DOMAIN new : new[k].indent + delta >= 0
Shifted(new, delta) == [k \in DOMAIN new |-> At(new[k], new[k].indent + delta)]
Reindented(t, c) ==
  LET delta == IF c.new = <<>> THEN 0 ELSE t[c.first].indent - c.new[1].indent
  IN  IF Shiftable(c.new, delta) THEN TryReplaceLines(t, c, Shifted(c.new, delta)) ELSE t

---------------------------------------------------------------------------
\* What the text of a file is after the call that edits it, and what the diff shown for
\* its approval says: render.py works a call out with the tools' own functions, but
\* hands try_edit a path without a suffix and knows nothing of the reindentation.
GuardedMut(f, t, new) == new  \* mutant: what breaks the file is written all the same
Guarded(f, t, new) == IF Breaks(f, t, new) THEN t ELSE new
EditFile(f, t, c) ==
  IF c.old = c.new \/ (c.all /\ c.nth > 0) THEN t
  ELSE Guarded(f, t, TryEdit(t, c, f \in Python))
ReplaceLinesMut(f, t, c) ==  \* mutant: the lines are reindented before they are tried
  IF TryReplaceLines(t, c, c.new) = t THEN t ELSE Guarded(f, t, Reindented(t, c))
ReplaceLines(f, t, c) ==
  LET plain == TryReplaceLines(t, c, c.new) IN
  IF Breaks(f, t, plain) THEN Guarded(f, t, Reindented(t, c)) ELSE plain
Edited(f, t, c) == IF c.tool = "edit_file" THEN EditFile(f, t, c) ELSE ReplaceLines(f, t, c)

Edits == {"edit_file", "replace_lines"}
Previewed == Edits \cup {"write_file", "append_file"}
Preview(c, t) ==
  CASE c.tool = "edit_file" -> TryEdit(t, c, FALSE)
    [] c.tool = "replace_lines" -> TryReplaceLines(t, c, c.new)
    [] c.tool = "write_file" -> c.new
    [] c.tool = "append_file" -> t \o c.new
PreviewOf(c) ==
  IF c.tool \notin Previewed THEN Nothing
  ELSE [before |-> Content(c.file), after |-> Preview(c, Content(c.file))]

\* PermissionPolicy.resolve: the user's answers for good, the places, the configuration.
\* A move is refused if either end is denied, and allowed if either is in the area.
EndsMut(c) ==  \* mutant: only where a move starts is looked at
  IF c.tool = "move_file" THEN {c.src} ELSE {c.file}
Ends(c) == IF c.tool = "move_file" THEN {c.src, c.dst} ELSE {c.file}
Placed(c, where) == c.tool # "read_file" /\ \E f \in Ends(c) : Area[f] = where
Resolve(c) ==
  IF session[c.tool] # "none" THEN session[c.tool]
  ELSE IF Placed(c, "deny") THEN "deny"
  ELSE IF Placed(c, "auto") THEN "auto"
  ELSE IF Yolo /\ Base[c.tool] = "ask" THEN "auto" ELSE Base[c.tool]

---------------------------------------------------------------------------
\* The tool runs.  An edit needs a file that was read; a write counts as a read.
Holding(f, t) == [g \in DOMAIN disk \cup {f} |-> IF g = f THEN t ELSE disk[g]]
Put(f, t) == t \in Texts /\ disk' = Holding(f, t)  \* within the bounds of the model
Run(c) ==
  \/ /\ c.tool = "read_file" /\ UNCHANGED disk
     /\ seen' = IF c.file \in DOMAIN disk THEN seen \cup {c.file} ELSE seen
  \/ /\ c.tool \in Edits /\ UNCHANGED seen
     /\ IF c.file \in DOMAIN disk /\ c.file \in seen
          THEN Put(c.file, Edited(c.file, disk[c.file], c)) ELSE UNCHANGED disk
  \/ /\ c.tool = "write_file" /\ Put(c.file, c.new) /\ seen' = seen \cup {c.file}
  \/ /\ c.tool = "append_file" /\ UNCHANGED seen
     /\ IF c.file \in DOMAIN disk THEN Put(c.file, disk[c.file] \o c.new)
                                  ELSE UNCHANGED disk
  \/ /\ c.tool = "move_file" /\ UNCHANGED seen
     /\ disk' = IF c.src \notin DOMAIN disk THEN disk
                ELSE [f \in (DOMAIN disk \ {c.src}) \cup {c.dst} |->
                        IF f = c.dst THEN disk[c.src] ELSE disk[f]]

Init ==
  /\ \E here \in SUBSET Files : disk \in [here -> {s[2] : s \in Saves}]
  /\ \A f \in DOMAIN disk : <<f, disk[f]>> \in Saves
  /\ seen = {} /\ session = [t \in Tools |-> "none"]
  /\ asked = {} /\ shown = Nothing

\* A call the policy allows runs at once; one it refuses leaves everything as it is, as
\* does one nobody is there to approve.
AllowedCall(c) ==
  /\ asked = {} /\ Resolve(c) = "auto"
  /\ Run(c) /\ UNCHANGED <<session, asked, shown>>
Ask(c) ==
  /\ asked = {} /\ Resolve(c) = "ask" /\ Approver
  /\ asked' = {c} /\ shown' = PreviewOf(c) /\ UNCHANGED <<disk, seen, session>>

\* The answer, remembered or not; a call is approved as it was asked about, and worked
\* out anew on the file as it is now.
Answered == asked' = {} /\ shown' = Nothing
RememberMut(tool, decision) ==  \* mutant: the answer is remembered, not the decision
  session' = [session EXCEPT ![tool] = "always"]
Remember(tool, decision) ==
  /\ Cardinality({t \in Tools : session[t] # "none"}) < MaxRemembered
  /\ session' = [session EXCEPT ![tool] = decision]
Approve(c) ==
  /\ c \in asked /\ Answered /\ Run(c)
  /\ UNCHANGED session \/ Remember(c.tool, "auto")
Refuse(c) ==
  /\ c \in asked /\ Answered /\ UNCHANGED <<disk, seen>>
  /\ UNCHANGED session \/ Remember(c.tool, "deny")

\* The user saves a file, the context is cleared or compacted, the program restarts.
UserSaves ==
  /\ \E s \in Saves : disk' = Holding(s[1], s[2])
  /\ UNCHANGED <<seen, session, asked, shown>>
Forget ==
  /\ asked = {} /\ seen # {} /\ seen' \in SUBSET seen
  /\ UNCHANGED <<disk, session, asked, shown>>
Restart ==
  /\ asked' = {} /\ shown' = Nothing /\ seen' = {}
  /\ session' = [t \in Tools |-> "none"] /\ UNCHANGED disk

Next ==
  \/ \E c \in Calls : AllowedCall(c) \/ Ask(c) \/ Approve(c) \/ Refuse(c)
  \/ UserSaves \/ Forget \/ Restart
Spec == Init /\ [][Next]_vars

---------------------------------------------------------------------------
\* Types of the variables: one call at a time waits for the user or has just run.
TypeOK ==
  /\ \E here \in SUBSET Files : disk \in [here -> Texts]
  /\ seen \subseteq Files /\ session \in [Tools -> {"none", "auto", "deny"}]
  /\ asked \subseteq Calls /\ \A a, b \in asked : a = b

Runs(c) == AllowedCall(c) \/ Approve(c)
Changed(f) == (f \in DOMAIN disk)' # (f \in DOMAIN disk) \/ Content(f)' # Content(f)

\* edit_file and replace_lines never turn a file that parses into one that does not,
\* however they mend columns: only the user, a write, an append and a move do.
EditsKeepParsing ==
  [][\A c \in Calls : c.tool \in Edits /\ Runs(c) =>
       \A f \in Files : ~Breaks(f, Content(f), Content(f)')]_vars

\* What the user approved is what is written, unless the file was saved meanwhile or what
\* was shown would not parse: the diff knows nothing of the columns mended then.
ShownIsWritten ==
  [][\A c \in Calls :
       c.tool \in Previewed /\ Approve(c) /\ Content(c.file) = shown.before =>
         \/ Content(c.file)' \in {shown.before, shown.after}
         \/ Breaks(c.file, shown.before, shown.after)]_vars

ReplacesOne(c, t, u) ==
  \E s \in Starts(t, Len(c.old)) :
    /\ SubSeq(u, 1, s - 1) = SubSeq(t, 1, s - 1)
    /\ SubSeq(u, s + Len(c.new), Len(u)) = SubSeq(t, s + Len(c.old), Len(t))
    /\ Says(Block(u, s, Len(c.new))) = Says(c.new)
    /\ Likeness(t, c.old, s) >= 80
    /\ \A r \in Starts(t, Len(c.old)) : Likeness(t, c.old, r) <= Likeness(t, c.old, s)
    /\ Exact(t, c.old) \ {s} # {} => Cardinality({r \in Exact(t, c.old) : r <= s}) = c.nth
\* An edit_file that does not ask for all matches puts what it was given in the place of
\* one block, and touches no other line: the block most like `old`, at least four fifths
\* so; where several are exactly it, the one that was asked for.  Columns may be mended.
OnePlaceChanges ==
  [][\A c \in Calls : c.tool = "edit_file" /\ ~c.all /\ Runs(c) =>
       \A f \in Files : Changed(f) =>
         f = c.file /\ ReplacesOne(c, Content(f), Content(f)')]_vars

\* A file changes by a call only if the user approved that call or its tool for good, or
\* the place or the configuration allows it; by a tool refused for good it never does, and
\* in a denied place only by one allowed for good.  A move with one end in the area needs
\* no approval, whatever it does to the other end.
ChangesAreAuthorised ==
  [][\A c \in Calls, f \in Files : Runs(c) /\ Changed(f) =>
       /\ session[c.tool] # "deny"
       /\ Area[f] = "deny" => session[c.tool] = "auto"
       /\ \/ c \in asked \/ session[c.tool] = "auto"
          \/ \E g \in Ends(c) : Area[g] = "auto"
          \/ Base[c.tool] = "auto" \/ Yolo]_vars

\* fs.py:292 and render.py:442: "the approved diff is exactly what gets written".
ApprovedIsWritten ==
  [][\A c \in Calls :
       c.tool = "edit_file" /\ Approve(c) /\ Content(c.file) = shown.before =>
         Content(c.file)' \in {shown.before, shown.after}]_vars
=============================================================================
