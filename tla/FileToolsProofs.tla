--------------------------- MODULE FileToolsProofs ---------------------------
(***************************************************************************)
(* Proofs, for every set of files, calls and texts, every policy and every   *)
(* similarity of blocks, of what FileTools states of the calls that change   *)
(* files, of the one block an edit replaces included.                        *)
(***************************************************************************)
EXTENDS FileTools, FiniteSetTheorems, SequenceTheorems, NaturalsInduction,
        WellFoundedInduction, TLAPS

\* While the user is asked about a call its tool has no answer for good, no place it
\* touches is denied, and what is shown is the call worked out on the text it was asked on.
AskInv ==
  \A c \in asked :
    /\ session[c.tool] = "none" /\ ~Placed(c, "deny")
    /\ c.tool \in Previewed => shown.after = Preview(c, shown.before)

IInv == TypeOK /\ AskInv

LEMMA CallsHaveEnds ==
  ASSUME NEW c \in Calls
  PROVE  c.tool \in Tools /\ Ends(c) \subseteq Files
  BY ConstantsAssumption DEF Ends

LEMMA HoldingType ==
  ASSUME NEW here \in SUBSET Files, disk \in [here -> Texts], NEW f \in Files,
         NEW t \in Texts
  PROVE  Holding(f, t) \in [here \cup {f} -> Texts] /\ here \cup {f} \in SUBSET Files
  BY DEF Holding

\* A call that runs keeps the disk and the record of files to their types.
LEMMA RunType ==
  ASSUME TypeOK, NEW c \in Calls, Run(c)
  PROVE  (\E here \in SUBSET Files : disk' \in [here -> Texts]) /\ seen' \subseteq Files
<1> PICK here \in SUBSET Files : disk \in [here -> Texts]
  BY DEF TypeOK
<1>1. DOMAIN disk = here /\ seen \subseteq Files
  BY DEF TypeOK
<1>2. c.tool # "move_file" => c.file \in Files
  BY ConstantsAssumption
<1>3. ASSUME NEW t, c.file \in Files, Put(c.file, t)
      PROVE  \E there \in SUBSET Files : disk' \in [there -> Texts]
  <2>1. t \in Texts /\ disk' = Holding(c.file, t)
    BY <1>3 DEF Put
  <2>2. /\ Holding(c.file, t) \in [here \cup {c.file} -> Texts]
        /\ here \cup {c.file} \in SUBSET Files
    BY <1>3, <2>1, HoldingType
  <2> QED
    BY <2>1, <2>2
<1>4. CASE c.tool = "read_file" /\ UNCHANGED disk
           /\ seen' = IF c.file \in DOMAIN disk THEN seen \cup {c.file} ELSE seen
  BY <1>1, <1>2, <1>4
<1>5. CASE c.tool \in Edits /\ UNCHANGED seen
           /\ IF c.file \in DOMAIN disk /\ c.file \in seen
                THEN Put(c.file, Edited(c.file, disk[c.file], c)) ELSE UNCHANGED disk
  BY <1>1, <1>2, <1>3, <1>5 DEF Edits
<1>6. CASE c.tool = "write_file" /\ Put(c.file, c.new) /\ seen' = seen \cup {c.file}
  BY <1>1, <1>2, <1>3, <1>6
<1>7. CASE c.tool = "append_file" /\ UNCHANGED seen
           /\ IF c.file \in DOMAIN disk THEN Put(c.file, disk[c.file] \o c.new)
                                        ELSE UNCHANGED disk
  BY <1>1, <1>2, <1>3, <1>7
<1>8. CASE /\ c.tool = "move_file" /\ UNCHANGED seen
           /\ disk' = IF c.src \notin DOMAIN disk THEN disk
                      ELSE [f \in (DOMAIN disk \ {c.src}) \cup {c.dst} |->
                              IF f = c.dst THEN disk[c.src] ELSE disk[f]]
  <2>1. c.src \in Files /\ c.dst \in Files
    BY <1>8, ConstantsAssumption
  <2>2. CASE c.src \notin DOMAIN disk
    BY <1>1, <1>8, <2>2
  <2>3. CASE c.src \in DOMAIN disk
    <3> DEFINE there == (here \ {c.src}) \cup {c.dst}
    <3>1. there \in SUBSET Files
      BY <2>1
    <3>2. disk' \in [there -> Texts]
      BY <1>1, <1>8, <2>3
    <3> QED
      BY <1>1, <1>8, <3>1, <3>2
  <2> QED
    BY <2>2, <2>3
<1> QED
  BY <1>4, <1>5, <1>6, <1>7, <1>8 DEF Run

LEMMA ResolveAsks ==
  ASSUME TypeOK, NEW c \in Calls, Resolve(c) = "ask"
  PROVE  session[c.tool] = "none" /\ ~Placed(c, "deny")
  BY CallsHaveEnds DEF Resolve, TypeOK

LEMMA InitInv == Init => IInv
<1> SUFFICES ASSUME Init PROVE IInv
  OBVIOUS
<1>1. PICK here \in SUBSET Files : disk \in [here -> {s[2] : s \in Saves}]
  BY DEF Init
<1>2. disk \in [here -> Texts]
  BY <1>1, ConstantsAssumption
<1> QED
  BY <1>2 DEF Init, IInv, TypeOK, AskInv

LEMMA AllowedKeeps ==
  ASSUME IInv, NEW c \in Calls, AllowedCall(c)
  PROVE  IInv'
<1>1. TypeOK /\ Run(c) /\ UNCHANGED <<session, asked, shown>> /\ asked = {}
  BY DEF AllowedCall, IInv
<1>2. (\E here \in SUBSET Files : disk' \in [here -> Texts]) /\ seen' \subseteq Files
  BY <1>1, RunType
<1> QED
  BY <1>1, <1>2 DEF IInv, TypeOK, AskInv

LEMMA AskKeeps ==
  ASSUME IInv, NEW c \in Calls, Ask(c)
  PROVE  IInv'
<1>1. TypeOK /\ session[c.tool] = "none" /\ ~Placed(c, "deny")
  BY ResolveAsks DEF Ask, IInv
<1>2. TypeOK'
  BY <1>1 DEF Ask, TypeOK
<1>3. c.tool \in Previewed => shown'.after = Preview(c, shown'.before)
  BY DEF Ask, PreviewOf
<1>4. asked' = {c} /\ session' = session
  BY DEF Ask
<1>5. AskInv'
  BY <1>1, <1>3, <1>4 DEF AskInv, Placed, Ends, Preview, TryEdit, TryReplaceLines
<1> QED
  BY <1>2, <1>5 DEF IInv

LEMMA AnswerType ==
  ASSUME TypeOK, NEW c \in Calls, NEW decision \in {"auto", "deny"},
         UNCHANGED session \/ Remember(c.tool, decision)
  PROVE  session' \in [Tools -> {"none", "auto", "deny"}]
<1>1. session \in [Tools -> {"none", "auto", "deny"}]
  BY DEF TypeOK
<1>2. CASE UNCHANGED session
  BY <1>1, <1>2
<1>3. CASE Remember(c.tool, decision)
  BY <1>1, <1>3 DEF Remember
<1> QED
  BY <1>2, <1>3

LEMMA AnswerKeeps ==
  ASSUME IInv, NEW c \in Calls, Approve(c) \/ Refuse(c)
  PROVE  IInv'
<1>1. TypeOK /\ asked' = {}
  BY DEF Approve, Refuse, Answered, IInv
<1>2. session' \in [Tools -> {"none", "auto", "deny"}]
  BY <1>1, AnswerType DEF Approve, Refuse
<1>3. (\E here \in SUBSET Files : disk' \in [here -> Texts]) /\ seen' \subseteq Files
  <2>1. CASE Approve(c)
    BY <1>1, <2>1, RunType DEF Approve
  <2>2. CASE Refuse(c)
    BY <1>1, <2>2 DEF Refuse, TypeOK
  <2> QED
    BY <2>1, <2>2
<1> QED
  BY <1>1, <1>2, <1>3 DEF IInv, TypeOK, AskInv

LEMMA OutsideKeeps ==
  ASSUME IInv, UserSaves \/ Forget \/ Restart
  PROVE  IInv'
<1>1. TypeOK
  BY DEF IInv
<1>2. CASE UserSaves
  <2>1. PICK s \in Saves : disk' = Holding(s[1], s[2])
    BY <1>2 DEF UserSaves
  <2>2. s[1] \in Files /\ s[2] \in Texts
    BY ConstantsAssumption
  <2>3. PICK here \in SUBSET Files : disk \in [here -> Texts]
    BY <1>1 DEF TypeOK
  <2>4. \E there \in SUBSET Files : disk' \in [there -> Texts]
    <3>1. /\ Holding(s[1], s[2]) \in [here \cup {s[1]} -> Texts]
          /\ here \cup {s[1]} \in SUBSET Files
      BY <2>2, <2>3, HoldingType
    <3> QED
      BY <2>1, <3>1
  <2>5. TypeOK'
    BY <1>1, <1>2, <2>4 DEF UserSaves, TypeOK
  <2>6. AskInv'
    BY <1>2 DEF UserSaves, IInv, AskInv, Placed, Ends, Preview, TryEdit, TryReplaceLines
  <2> QED
    BY <2>5, <2>6 DEF IInv
<1>3. CASE Forget
  BY <1>1, <1>3 DEF Forget, IInv, TypeOK, AskInv
<1>4. CASE Restart
  BY <1>1, <1>4 DEF Restart, IInv, TypeOK, AskInv
<1> QED
  BY <1>2, <1>3, <1>4

LEMMA StepKeeps == IInv /\ [Next]_vars => IInv'
<1> SUFFICES ASSUME IInv, [Next]_vars PROVE IInv'
  OBVIOUS
<1>1. CASE \E c \in Calls : AllowedCall(c) \/ Ask(c) \/ Approve(c) \/ Refuse(c)
  BY <1>1, AllowedKeeps, AskKeeps, AnswerKeeps
<1>2. CASE UserSaves \/ Forget \/ Restart
  BY <1>2, OutsideKeeps
<1>3. CASE UNCHANGED vars
  BY <1>3 DEF vars, IInv, TypeOK, AskInv, Placed, Ends, Preview, TryEdit, TryReplaceLines
<1> QED
  BY <1>1, <1>2, <1>3 DEF Next

\* The invariant holds in every state.
THEOREM InvariantHolds == Spec => []IInv
  BY InitInv, StepKeeps, PTL DEF Spec

\* Every variable keeps its type; one call at a time waits for an answer.
THEOREM TypeCorrect == Spec => []TypeOK
<1>1. IInv => TypeOK
  BY DEF IInv
<1> QED
  BY <1>1, InvariantHolds, PTL

---------------------------------------------------------------------------
\* An edit keeps to its file: what it reads there afterwards is what it was, or the edit
\* worked out on it.
LEMMA EditWrites ==
  ASSUME NEW c \in Calls, Run(c), c.tool \in Edits, NEW f
  PROVE  \/ Content(f)' = Content(f)
         \/ f = c.file /\ Content(f)' = Edited(f, Content(f), c)
<1>1. IF c.file \in DOMAIN disk /\ c.file \in seen
        THEN Put(c.file, Edited(c.file, disk[c.file], c)) ELSE UNCHANGED disk
  BY DEF Run, Edits
<1>2. CASE UNCHANGED disk
  BY <1>2 DEF Content
<1>3. CASE c.file \in DOMAIN disk /\ Put(c.file, Edited(c.file, disk[c.file], c))
  <2>1. disk' = Holding(c.file, Edited(c.file, disk[c.file], c))
    BY <1>3 DEF Put
  <2>2. DOMAIN disk' = DOMAIN disk \cup {c.file}
    BY <2>1 DEF Holding
  <2>3. CASE f = c.file
    <3>1. disk'[f] = Edited(c.file, disk[c.file], c)
      BY <2>1, <2>3 DEF Holding
    <3> QED
      BY <1>3, <2>2, <2>3, <3>1 DEF Content
  <2>4. CASE f # c.file /\ f \in DOMAIN disk
    <3>1. disk'[f] = disk[f]
      BY <2>1, <2>4 DEF Holding
    <3> QED
      BY <2>2, <2>4, <3>1 DEF Content
  <2>5. CASE f # c.file /\ f \notin DOMAIN disk
    BY <2>2, <2>5 DEF Content
  <2> QED
    BY <2>3, <2>4, <2>5
<1> QED
  BY <1>1, <1>2, <1>3

\* The guard behind both tools, whatever they have worked out.
LEMMA GuardedParses ==
  ASSUME NEW f, NEW t, NEW new
  PROVE  ~Breaks(f, t, Guarded(f, t, new))
  BY DEF Breaks, Guarded

LEMMA EditedParses ==
  ASSUME NEW f, NEW t, NEW c
  PROVE  ~Breaks(f, t, Edited(f, t, c))
<1>1. ~Breaks(f, t, t)
  BY DEF Breaks
<1>2. ~Breaks(f, t, EditFile(f, t, c))
  BY <1>1, GuardedParses DEF EditFile
<1>3. ~Breaks(f, t, ReplaceLines(f, t, c))
  BY GuardedParses DEF ReplaceLines
<1> QED
  BY <1>2, <1>3 DEF Edited

\* No call of edit_file or replace_lines makes a file that parses one that does not.
THEOREM ParsingKept == Spec => EditsKeepParsing
<1> DEFINE Kept == \A c \in Calls : c.tool \in Edits /\ Runs(c) =>
                     \A f \in Files : ~Breaks(f, Content(f), Content(f)')
<1>1. Kept
  <2> SUFFICES ASSUME NEW c \in Calls, c.tool \in Edits, Runs(c), NEW f \in Files
               PROVE  ~Breaks(f, Content(f), Content(f)')
    OBVIOUS
  <2>1. Run(c)
    BY DEF Runs, AllowedCall, Approve
  <2>2. \/ Content(f)' = Content(f)
        \/ f = c.file /\ Content(f)' = Edited(f, Content(f), c)
    BY <2>1, EditWrites
  <2>3. ~Breaks(f, Content(f), Content(f))
    BY DEF Breaks
  <2> QED
    BY <2>2, <2>3, EditedParses
<1> QED
  BY <1>1, PTL DEF EditsKeepParsing

---------------------------------------------------------------------------
\* What the operators an edit is made of do to a text.
Less == {ss \in Nat \X Nat : ss[1] < ss[2]}
LEMMA LeastPosition ==
  ASSUME NEW T, T \subseteq Nat, T # {}
  PROVE  \E p \in T : \A q \in T : p <= q
<1>1. IsWellFoundedOn(Less, Nat)
  BY NatLessThanWellFounded DEF OpToRel, Less
<1>2. PICK p \in T : \A q \in T : ~(<<q, p>> \in Less)
  BY <1>1, WFMin
<1>3. ASSUME NEW q \in T PROVE p <= q
  <2>1. <<q, p>> \in Nat \X Nat /\ ~(q < p)
    BY <1>2 DEF Less
  <2> QED
    BY <2>1
<1> QED
  BY <1>3

\* FlattenSeq of a sequence of sequences is whatever satisfies its recursion.
LEMMA FlattenIs ==
  ASSUME NEW s, Len(s) \in Nat, Len(s) > 0, NEW F,
         F = [i \in 1..Len(s) |-> F[i]],
         \A i \in 1..Len(s) : F[i] = IF i = 1 THEN s[i] ELSE F[i - 1] \o s[i]
  PROVE  FlattenSeq(s) = F[Len(s)]
<1> DEFINE Rec(f) == [i \in 1..Len(s) |-> IF i = 1 THEN s[i] ELSE f[i - 1] \o s[i]]
           G == CHOOSE f : f = Rec(f)
<1>1. FlattenSeq(s) = G[Len(s)]
  BY DEF FlattenSeq
<1>2. F = Rec(F)
  OBVIOUS
<1>3. G = Rec(G)
  <2> HIDE DEF Rec
  <2> QED
    BY <1>2
<1>4. /\ \A i \in 1..Len(s) : F[i] = IF i = 1 THEN s[i] ELSE F[i - 1] \o s[i]
      /\ \A i \in 1..Len(s) : G[i] = IF i = 1 THEN s[i] ELSE G[i - 1] \o s[i]
  <2> HIDE DEF G
  <2> QED
    BY <1>2, <1>3
<1> DEFINE T == {i \in 1..Len(s) : F[i] # G[i]}
<1>5. CASE T = {}
  <2>1. Len(s) \in 1..Len(s)
    OBVIOUS
  <2> HIDE DEF G
  <2> QED
    BY <1>1, <1>5, <2>1
<1>6. CASE T # {}
  <2> HIDE DEF G
  <2>1. T \subseteq Nat
    OBVIOUS
  <2>2. PICK p \in T : \A q \in T : p <= q
    <3> HIDE DEF T
    <3> QED
      BY <1>6, <2>1, LeastPosition
  <2>3. p # 1
    BY <1>4, <2>2
  <2>4. p - 1 \in 1..Len(s) /\ F[p - 1] = G[p - 1]
    BY <2>2, <2>3
  <2>5. F[p] = F[p - 1] \o s[p] /\ G[p] = G[p - 1] \o s[p]
    BY <1>4, <2>3
  <2>6. F[p] # G[p]
    OBVIOUS
  <2> QED
    BY <2>4, <2>5, <2>6
<1> QED
  BY <1>5, <1>6

\* A text grown by a line.
LEMMA Grows ==
  ASSUME NEW S, NEW t \in Seq(S), NEW a \in 1..Len(t), NEW i \in a..Len(t)
  PROVE  SubSeq(t, a, i) = SubSeq(t, a, i - 1) \o <<t[i]>>
  BY SubSeqRecursiveSecond

LEMMA SubSeqIsSeq ==
  ASSUME NEW S, NEW t \in Seq(S), NEW a \in 1..(Len(t) + 1), NEW b \in 0..Len(t)
  PROVE  /\ SubSeq(t, a, b) \in Seq(S)
         /\ Len(SubSeq(t, a, b)) = IF a <= b THEN b - a + 1 ELSE 0
<1>1. \A i \in a..b : t[i] \in S
  BY ElementOfSeq
<1> QED
  BY <1>1, SubSeqProperties

LEMMA GrowsBehind ==
  ASSUME NEW S, NEW t \in Seq(S), NEW body \in Seq(S),
         NEW a \in 1..Len(t), NEW i \in a..Len(t)
  PROVE  body \o SubSeq(t, a, i) = (body \o SubSeq(t, a, i - 1)) \o <<t[i]>>
<1> DEFINE mid == SubSeq(t, a, i - 1)
           line == <<t[i]>>
<1>1. SubSeq(t, a, i) = mid \o line
  BY Grows
<1>2. mid \in Seq(S) /\ line \in Seq(S)
  BY SubSeqIsSeq, ElementOfSeq
<1> HIDE DEF mid, line
<1>3. (body \o mid) \o line = body \o (mid \o line)
  BY <1>2, ConcatAssociative, SMTT(60)
<1> QED
  BY <1>1, <1>3 DEF mid, line

\* What stays in front of a block, what is put in its place, and what stays behind it.
LEMMA SpliceOne ==
  ASSUME NEW S, NEW t \in Seq(S), NEW p \in 1..Len(t), NEW n \in Nat, n > 0,
         p + n - 1 <= Len(t), NEW ins \in Seq(S), NEW s
  PROVE  /\ s = [i \in 1..Len(t) |-> s[i]]
         /\ \A i \in 1..Len(t) :
              s[i] = IF i = p THEN ins ELSE IF i > p /\ i < p + n THEN <<>> ELSE <<t[i]>>
         => FlattenSeq(s) = (SubSeq(t, 1, p - 1) \o ins) \o SubSeq(t, p + n, Len(t))
<1>0. SUFFICES ASSUME s = [i \in 1..Len(t) |-> s[i]],
                      \A i \in 1..Len(t) :
                        s[i] = IF i = p THEN ins
                               ELSE IF i > p /\ i < p + n THEN <<>> ELSE <<t[i]>>
               PROVE  FlattenSeq(s) = (SubSeq(t, 1, p - 1) \o ins) \o SubSeq(t, p + n, Len(t))
  OBVIOUS
<1> DEFINE head == SubSeq(t, 1, p - 1)
           body == head \o ins
           F == [i \in 1..Len(t) |->
                   IF i < p THEN SubSeq(t, 1, i) ELSE body \o SubSeq(t, p + n, i)]
<1>1. Len(t) \in Nat /\ Len(s) = Len(t)
  <2>1. s \in [1..Len(t) -> Seq(S)]
    <3>1. \A i \in 1..Len(t) : <<t[i]>> \in Seq(S) /\ <<>> \in Seq(S)
      BY ElementOfSeq, EmptySeq
    <3> QED
      BY <1>0, <3>1
  <2>2. Len(t) \in Nat
    BY LenProperties
  <2>3. s \in Seq(Seq(S))
    BY <2>1, <2>2, SeqDef
  <2> QED
    BY <2>1, <2>2, <2>3, LenProperties
<1>2. head \in Seq(S) /\ body \in Seq(S)
  <2>1. head \in Seq(S)
    BY <1>1, SubSeqIsSeq
  <2> QED
    BY <2>1, ConcatProperties
<1>3. /\ \A i \in 1..Len(t) : i < p => F[i] = SubSeq(t, 1, i)
      /\ \A i \in 1..Len(t) : i >= p => F[i] = body \o SubSeq(t, p + n, i)
      /\ \A i \in 1..Len(t) : i >= p /\ i < p + n => F[i] = body
  <2>1. \A i \in 1..Len(t) : i < p + n => SubSeq(t, p + n, i) = <<>>
    BY SubSeqEmpty
  <2>2. body \o <<>> = body
    BY <1>2, ConcatEmptySeq
  <2>3. \A i \in 1..Len(t) : i >= p => F[i] = body \o SubSeq(t, p + n, i)
    <3> HIDE DEF body
    <3> QED
      BY <1>1
  <2>4. \A i \in 1..Len(t) : i < p => F[i] = SubSeq(t, 1, i)
    BY <1>1
  <2> HIDE DEF body, F
  <2>5. \A i \in 1..Len(t) : i >= p /\ i < p + n => F[i] = body
    BY <2>1, <2>2, <2>3
  <2> QED
    BY <2>3, <2>4, <2>5
<1>4. ASSUME NEW i \in 1..Len(t)
      PROVE  F[i] = IF i = 1 THEN s[i] ELSE F[i - 1] \o s[i]
  <2>1. /\ i = p => s[i] = ins
        /\ i > p /\ i < p + n => s[i] = <<>>
        /\ i < p \/ i >= p + n => s[i] = <<t[i]>>
    BY <1>0, <1>1
  <2>2. <<t[i]>> \in Seq(S)
    BY ElementOfSeq
  <2>3. i # 1 => i - 1 \in 1..Len(t)
    BY <1>1
  <2> HIDE DEF F
  <2>4. CASE i < p
    <3>1. F[i] = SubSeq(t, 1, i - 1) \o <<t[i]>> /\ s[i] = <<t[i]>>
      BY <1>1, <1>3, <2>1, <2>4, Grows, SMTT(30)
    <3>2. CASE i = 1
      <4>1. SubSeq(t, 1, i - 1) = <<>>
        BY <3>2, SubSeqEmpty
      <4> QED
        BY <2>2, <3>1, <3>2, <4>1, ConcatEmptySeq
    <3>3. CASE i # 1
      <4>1. i - 1 \in 1..Len(t) /\ i - 1 < p
        BY <2>3, <2>4, <3>3
      <4>2. F[i - 1] = SubSeq(t, 1, i - 1)
        BY <1>3, <4>1
      <4> QED
        BY <3>1, <3>3, <4>2
    <3> QED
      BY <3>2, <3>3
  <2>5. CASE i = p
    <3>1. F[i] = body /\ s[i] = ins
      <4>1. i >= p /\ i < p + n
        BY <2>5
      <4> HIDE DEF body
      <4> QED
        BY <1>3, <2>1, <2>5, <4>1
    <3>2. CASE i = 1
      <4>1. head = <<>>
        BY <2>5, <3>2, SubSeqEmpty
      <4>2. body = ins
        <5> HIDE DEF head
        <5> QED
          BY <4>1, ConcatEmptySeq
      <4> QED
        BY <3>1, <3>2, <4>2
    <3>3. CASE i # 1
      <4>1. F[i - 1] = head
        BY <1>1, <1>3, <2>3, <2>5, <3>3
      <4> HIDE DEF head
      <4> QED
        BY <3>1, <3>3, <4>1
    <3> QED
      BY <3>2, <3>3
  <2>6. CASE i > p /\ i < p + n
    <3>1. F[i] = body /\ F[i - 1] = body /\ s[i] = <<>> /\ i # 1
      BY <1>1, <1>3, <2>1, <2>3, <2>6, SMTT(30)
    <3> HIDE DEF body
    <3> QED
      BY <1>2, <3>1, ConcatEmptySeq
  <2>7. CASE i >= p + n
    <3>1. /\ p + n \in 1..Len(t) /\ i \in (p + n)..Len(t) /\ i # 1
          /\ i - 1 \in 1..Len(t) /\ i - 1 >= p /\ i >= p
      BY <1>1, <2>3, <2>7
    <3>2. s[i] = <<t[i]>>
      BY <2>1, <2>7
    <3> HIDE DEF body
    <3>3. F[i] = body \o SubSeq(t, p + n, i) /\ F[i - 1] = body \o SubSeq(t, p + n, i - 1)
      BY <1>3, <3>1
    <3>4. body \o SubSeq(t, p + n, i) = (body \o SubSeq(t, p + n, i - 1)) \o <<t[i]>>
      BY <1>2, <3>1, GrowsBehind
    <3> QED
      BY <3>1, <3>2, <3>3, <3>4
  <2> QED
    BY <1>1, <2>4, <2>5, <2>6, <2>7
<1>5. F = [i \in 1..Len(s) |-> F[i]]
  BY <1>1
<1>6. FlattenSeq(s) = F[Len(s)]
  <2>1. Len(s) \in Nat /\ Len(s) > 0
    BY <1>1
  <2> HIDE DEF F
  <2> QED
    BY <1>1, <1>4, <1>5, <2>1, FlattenIs
<1>7. Len(t) \in 1..Len(t) /\ Len(t) >= p
  BY <1>1
<1> HIDE DEF F
<1> QED
  BY <1>1, <1>3, <1>6, <1>7

\* The parts a text was put together from.
LEMMA Parts ==
  ASSUME NEW S, NEW x \in Seq(S), NEW y \in Seq(S), NEW z \in Seq(S), NEW u,
         u = (x \o y) \o z
  PROVE  /\ u \in Seq(S) /\ Len(u) = Len(x) + Len(y) + Len(z)
         /\ SubSeq(u, 1, Len(x)) = x
         /\ SubSeq(u, Len(x) + 1, Len(x) + Len(y)) = y
         /\ SubSeq(u, Len(x) + Len(y) + 1, Len(u)) = z
<1>1. Len(x) \in Nat /\ Len(y) \in Nat /\ Len(z) \in Nat
  BY LenProperties
<1>2. /\ x \o y \in Seq(S) /\ Len(x \o y) = Len(x) + Len(y)
      /\ \A i \in 1..(Len(x) + Len(y)) :
           (x \o y)[i] = IF i <= Len(x) THEN x[i] ELSE y[i - Len(x)]
  BY ConcatProperties
<1> DEFINE w == x \o y
<1> HIDE DEF w
<1>3. w \in Seq(S) /\ Len(w) = Len(x) + Len(y) /\ u = w \o z
  BY <1>2 DEF w
<1>4. /\ u \in Seq(S) /\ Len(u) = Len(w) + Len(z)
      /\ \A i \in 1..(Len(w) + Len(z)) :
           u[i] = IF i <= Len(w) THEN w[i] ELSE z[i - Len(w)]
  <2>1. /\ w \o z \in Seq(S) /\ Len(w \o z) = Len(w) + Len(z)
        /\ \A i \in 1..(Len(w) + Len(z)) :
             (w \o z)[i] = IF i <= Len(w) THEN w[i] ELSE z[i - Len(w)]
    <3>1. w \in Seq(S) /\ z \in Seq(S)
      BY <1>3
    <3> QED
      BY <3>1, ConcatProperties
  <2> QED
    BY <1>3, <2>1
<1>5. \A i \in 1..Len(u) : u[i] \in S
  BY <1>4, ElementOfSeq
<1>6. /\ \A i \in 1..Len(x) : u[i] = x[i]
      /\ \A i \in 1..Len(y) : u[Len(x) + i] = y[i]
      /\ \A i \in 1..Len(z) : u[Len(x) + Len(y) + i] = z[i]
  <2>1. ASSUME NEW i \in 1..Len(x) PROVE u[i] = x[i]
    BY <1>1, <1>2, <1>3, <1>4 DEF w
  <2>2. ASSUME NEW i \in 1..Len(y) PROVE u[Len(x) + i] = y[i]
    <3>1. /\ Len(x) + i \in 1..(Len(w) + Len(z))
          /\ Len(x) + i <= Len(w) /\ ~(Len(x) + i <= Len(x))
      BY <1>1, <1>3
    <3>2. u[Len(x) + i] = w[Len(x) + i]
      BY <1>4, <3>1
    <3>3. w[Len(x) + i] = y[(Len(x) + i) - Len(x)]
      BY <1>1, <1>2, <3>1 DEF w
    <3> QED
      BY <1>1, <3>2, <3>3
  <2>3. ASSUME NEW i \in 1..Len(z) PROVE u[Len(x) + Len(y) + i] = z[i]
    <3>1. /\ Len(x) + Len(y) + i \in 1..(Len(w) + Len(z))
          /\ ~(Len(x) + Len(y) + i <= Len(w)) /\ (Len(x) + Len(y) + i) - Len(w) = i
      BY <1>1, <1>3
    <3> QED
      BY <1>4, <3>1
  <2> QED
    BY <2>1, <2>2, <2>3
<1>7. SubSeq(u, 1, Len(x)) = x
  <2> DEFINE v == SubSeq(u, 1, Len(x))
  <2>1. /\ v \in Seq(S) /\ Len(v) = Len(x)
        /\ \A i \in 1..Len(x) : v[i] = u[1 + i - 1]
    BY <1>1, <1>3, <1>4, <1>5, SubSeqProperties
  <2>2. \A i \in 1..Len(v) : v[i] = x[i]
    BY <1>1, <1>6, <2>1
  <2> HIDE DEF v
  <2>3. v = x
    BY <2>1, <2>2, SeqEqual
  <2> QED
    BY <2>3 DEF v
<1>8. SubSeq(u, Len(x) + 1, Len(x) + Len(y)) = y
  <2> DEFINE v == SubSeq(u, Len(x) + 1, Len(x) + Len(y))
  <2>1. /\ v \in Seq(S) /\ Len(v) = Len(y)
        /\ \A i \in 1..Len(y) : v[i] = u[Len(x) + 1 + i - 1]
    BY <1>1, <1>3, <1>4, <1>5, SubSeqProperties
  <2>2. \A i \in 1..Len(v) : v[i] = y[i]
    BY <1>1, <1>6, <2>1
  <2> HIDE DEF v
  <2>3. v = y
    BY <2>1, <2>2, SeqEqual
  <2> QED
    BY <2>3 DEF v
<1>9. SubSeq(u, Len(x) + Len(y) + 1, Len(u)) = z
  <2> DEFINE v == SubSeq(u, Len(x) + Len(y) + 1, Len(u))
  <2>1. /\ v \in Seq(S) /\ Len(v) = Len(z)
        /\ \A i \in 1..Len(z) : v[i] = u[Len(x) + Len(y) + 1 + i - 1]
    BY <1>1, <1>3, <1>4, <1>5, SubSeqProperties, SMTT(30)
  <2>2. \A i \in 1..Len(v) : v[i] = z[i]
    BY <1>1, <1>6, <2>1
  <2> HIDE DEF v
  <2>3. v = z
    BY <2>1, <2>2, SeqEqual
  <2> QED
    BY <2>3 DEF v
<1> QED
  BY <1>3, <1>4, <1>7, <1>8, <1>9

Indented == [indent : Int, tok : Toks]

\* What is put in the place of a match says what `new` does.
LEMMA Inserted ==
  ASSUME NEW new \in Seq([indent : Nat, tok : Toks]), NEW col \in Int, NEW strip \in BOOLEAN,
         NEW ins \in {Plain(new, col, strip), Anchored(new, col)}
  PROVE  ins \in Seq(Indented) /\ Len(ins) = Len(new) /\ Says(ins) = Says(new)
<1>1. /\ Len(new) \in Nat /\ DOMAIN new = 1..Len(new)
      /\ \A k \in 1..Len(new) : new[k] \in [indent : Nat, tok : Toks]
  BY LenProperties, ElementOfSeq
<1>2. ASSUME NEW line \in [indent : Nat, tok : Toks], NEW n \in Int
      PROVE  At(line, n) \in Indented /\ At(line, n).tok = line.tok
  BY DEF At, Indented
<1>3. ASSUME NEW st \in BOOLEAN, NEW v, v = Plain(new, col, st)
      PROVE  /\ v \in [1..Len(new) -> Indented]
             /\ \A k \in 1..Len(new) : v[k].tok = new[k].tok
  <2>1. v = [k \in 1..Len(new) |->
               IF k > 1 THEN new[k]
               ELSE At(new[1], IF st THEN col ELSE col + new[1].indent)]
    BY <1>1, <1>3 DEF Plain
  <2>2. ASSUME NEW k \in 1..Len(new)
        PROVE  v[k] \in Indented /\ v[k].tok = new[k].tok
    <3>1. CASE k > 1
      BY <1>1, <2>1, <3>1 DEF Indented
    <3>2. CASE k = 1
      <4>1. (IF st THEN col ELSE col + new[1].indent) \in Int
        BY <1>1, <3>2
      <4> QED
        BY <1>1, <1>2, <2>1, <3>2, <4>1
    <3> QED
      BY <1>1, <3>1, <3>2
  <2> QED
    BY <2>1, <2>2
<1>4. /\ ins \in [1..Len(new) -> Indented]
      /\ \A k \in 1..Len(new) : ins[k].tok = new[k].tok
  <2>1. CASE ins = Plain(new, col, strip)
    BY <1>3, <2>1
  <2>2. CASE ins = Anchored(new, col) /\ \E k \in DOMAIN new : new[k].indent < new[1].indent
    BY <1>3, <2>2 DEF Anchored
  <2>3. CASE ins = Anchored(new, col) /\ ~\E k \in DOMAIN new : new[k].indent < new[1].indent
    <3>1. ins = [k \in 1..Len(new) |-> At(new[k], col + new[k].indent - new[1].indent)]
      BY <1>1, <2>3 DEF Anchored
    <3>2. ASSUME NEW k \in 1..Len(new)
          PROVE  ins[k] \in Indented /\ ins[k].tok = new[k].tok
      <4>1. col + new[k].indent - new[1].indent \in Int
        BY <1>1
      <4> QED
        BY <1>1, <1>2, <3>1, <4>1
    <3> QED
      BY <3>1, <3>2
  <2> QED
    BY <2>1, <2>2, <2>3
<1>5. ins \in Seq(Indented) /\ Len(ins) = Len(new)
  <2>1. ins \in Seq(Indented)
    BY <1>1, <1>4, SeqDef
  <2> QED
    BY <1>1, <1>4, <2>1, LenProperties
<1>6. DOMAIN ins = DOMAIN new
  BY <1>1, <1>4
<1>7. Says(ins) = Says(new)
  BY <1>1, <1>4, <1>6 DEF Says
<1> QED
  BY <1>5, <1>7

\* Of n matches there is a k-th for every k up to n.
LEMMA NthIs ==
  ASSUME NEW n \in Nat, NEW S, S \subseteq 1..n, NEW k \in Nat, k > 0, k <= Cardinality(S)
  PROVE  Nth(S, k) \in S /\ Cardinality({r \in S : r <= Nth(S, k)}) = k
<1> DEFINE upto(p) == {r \in S : r <= p}
           T == {p \in Nat : Cardinality(upto(p)) >= k}
<1>1. IsFiniteSet(S) /\ Cardinality(S) \in Nat
  <2>1. IsFiniteSet(1..n)
    BY FS_Interval
  <2> QED
    BY <2>1, FS_Subset, FS_CardinalityType
<1>2. \A p : IsFiniteSet(upto(p)) /\ Cardinality(upto(p)) \in Nat
  BY <1>1, FS_Subset, FS_CardinalityType
<1>0. \A r \in S : r \in Nat /\ r >= 1 /\ r <= n
  OBVIOUS
<1>3. upto(n) = S /\ upto(0) = {}
  <2>1. \A r \in S : r <= n /\ ~(r <= 0)
    BY <1>0
  <2> QED
    BY <2>1
<1>4. n \in T /\ T \subseteq Nat
  BY <1>3
<1>5. PICK p \in T : \A q \in T : p <= q
  <2> HIDE DEF T
  <2> QED
    BY <1>4, LeastPosition
<1>6. p \in Nat /\ Cardinality(upto(p)) >= k
  OBVIOUS
<1>7. p # 0
  BY <1>3, <1>6, FS_EmptySet
<1>8. Cardinality(upto(p - 1)) < k
  <2>1. p - 1 \in Nat /\ ~(p <= p - 1)
    BY <1>6, <1>7
  <2>2. p - 1 \notin T
    BY <1>5, <2>1
  <2>3. ~(Cardinality(upto(p - 1)) >= k)
    BY <2>1, <2>2
  <2> HIDE DEF upto
  <2> QED
    BY <1>2, <2>3
<1>9. p \in S
  <2>1. CASE p \notin S
    <3>1. \A r \in S : r <= p <=> r <= p - 1
      BY <1>0, <1>6, <2>1
    <3>2. upto(p) = upto(p - 1)
      BY <3>1
    <3> HIDE DEF upto
    <3> QED
      BY <1>2, <1>6, <1>8, <3>2
  <2> QED
    BY <2>1
<1>10. Cardinality(upto(p)) = k
  <2>1. \A r \in S : r <= p <=> r <= p - 1 \/ r = p
    BY <1>0, <1>6
  <2>2. upto(p) = upto(p - 1) \cup {p}
    BY <1>6, <1>9, <2>1
  <2>3. Cardinality(upto(p)) <= Cardinality(upto(p - 1)) + 1
    <3> DEFINE B == upto(p - 1)
    <3> HIDE DEF upto
    <3>1. IsFiniteSet(B) /\ Cardinality(B) \in Nat
      BY <1>2
    <3> HIDE DEF B
    <3>2. Cardinality(B \cup {p}) = IF p \in B THEN Cardinality(B) ELSE Cardinality(B) + 1
      BY <3>1, FS_AddElement
    <3>3. Cardinality(B \cup {p}) <= Cardinality(B) + 1
      BY <3>1, <3>2
    <3> QED
      BY <2>2, <3>3 DEF B
  <2> HIDE DEF upto
  <2> QED
    BY <1>2, <1>6, <1>8, <2>3
<1> QED
  BY <1>9, <1>10 DEF Nth

---------------------------------------------------------------------------
LEMMA TextIs ==
  ASSUME NEW t \in Texts
  PROVE  /\ t \in Seq(Lines) /\ t \in Seq(Indented)
         /\ Len(t) \in Nat /\ Len(t) <= MaxLines /\ DOMAIN t = 1..Len(t)
         /\ \A i \in 1..Len(t) : t[i].indent \in Nat /\ t[i].tok \in Toks
<1>1. PICK n \in 0..MaxLines : t \in [1..n -> Lines]
  BY DEF Texts
<1>2. n \in Nat /\ n <= MaxLines
  BY ConstantsAssumption
<1>3. t \in Seq(Lines)
  BY <1>1, <1>2, SeqDef
<1>4. Len(t) = n /\ DOMAIN t = 1..Len(t)
  BY <1>1, <1>2, <1>3, LenProperties
<1>5. \A l \in Lines : l.indent \in Nat /\ l.tok \in Toks
  BY ConstantsAssumption DEF Lines
<1>6. Lines \subseteq Indented
  BY ConstantsAssumption DEF Lines, Indented
<1> QED
  BY <1>1, <1>2, <1>3, <1>4, <1>5, <1>6, SeqMonotonic

\* How alike a block is to `old`, where it can be laid over the text at all.
LEMMA BlockIs ==
  ASSUME NEW t \in Texts, NEW old \in Seq([indent : Nat, tok : Toks]), Len(old) > 0,
         NEW s \in Starts(t, Len(old))
  PROVE  /\ Likeness(t, old, s) \in Int /\ Likeness(t, old, s) <= 100
         /\ Says(Block(t, s, Len(old))) = Says(old) => Likeness(t, old, s) = 100
         /\ Fits(t, old, s) => Says(Block(t, s, Len(old))) = Says(old)
         /\ t[s].indent \in Nat /\ old[1].indent \in Nat
<1> DEFINE n == Len(old)
           b == Block(t, s, n)
<1>1. /\ n \in Nat /\ DOMAIN old = 1..n
      /\ \A k \in 1..n : old[k].indent \in Nat /\ old[k].tok \in Toks
  <2>1. /\ n \in Nat /\ DOMAIN old = 1..n
        /\ \A k \in 1..n : old[k] \in [indent : Nat, tok : Toks]
    BY LenProperties, ElementOfSeq
  <2> QED
    BY <2>1
<1>2. /\ Len(t) \in Nat /\ Len(t) <= MaxLines /\ t \in Seq(Lines)
      /\ \A i \in 1..Len(t) : t[i].indent \in Nat /\ t[i].tok \in Toks
  BY TextIs
<1>3. s \in 1..Len(t) /\ s + n - 1 <= Len(t)
  BY DEF Starts
<1>4. b \in Seq(Lines) /\ Len(b) = n /\ \A k \in 1..n : b[k] = t[s + k - 1]
  <2>1. \A i \in s..(s + n - 1) : t[i] \in Lines
    BY <1>1, <1>2, <1>3, ElementOfSeq
  <2>2. s \in Int /\ s + n - 1 \in Int /\ s <= s + n - 1 /\ (s + n - 1) - s + 1 = n
    BY <1>1, <1>3
  <2> QED
    BY <2>1, <2>2, SubSeqProperties DEF Block
<1>5. DOMAIN b = 1..n
  BY <1>4, LenProperties
<1>6. n \in 0..MaxLines
  BY <1>1, <1>2, <1>3, ConstantsAssumption
<1>7. ASSUME NEW k \in 1..n PROVE b[k].tok \in Toks /\ b[k] = t[s + k - 1]
  <2>1. s + k - 1 \in 1..Len(t)
    BY <1>1, <1>2, <1>3
  <2>2. b[k] = t[s + k - 1]
    BY <1>4
  <2> QED
    BY <1>2, <2>1, <2>2
<1> HIDE DEF b
<1>8. Says(b) \in Sayings /\ Says(old) \in Sayings
  <2>1. Says(b) \in [1..n -> Toks] /\ Says(old) \in [1..n -> Toks]
    BY <1>1, <1>5, <1>7 DEF Says
  <2> QED
    BY <1>6, <2>1 DEF Sayings
<1>9. Likeness(t, old, s) = Ratio(Says(old), Says(b))
  BY DEF Likeness, b
<1>10. Fits(t, old, s) => Says(b) = Says(old)
  <2> SUFFICES ASSUME Fits(t, old, s) PROVE Says(b) = Says(old)
    OBVIOUS
  <2>1. \A k \in 1..n : t[s + k - 1].tok = old[k].tok
    BY <1>1 DEF Fits
  <2>2. \A k \in 1..n : b[k].tok = old[k].tok
    BY <1>7, <2>1
  <2> QED
    BY <1>1, <1>5, <2>2 DEF Says
<1>11. t[s].indent \in Nat /\ old[1].indent \in Nat
  BY <1>1, <1>2, <1>3
<1>12. /\ Ratio(Says(old), Says(b)) \in Int /\ Ratio(Says(old), Says(b)) <= 100
       /\ Says(b) = Says(old) => Ratio(Says(old), Says(b)) = 100
  <2>1. /\ Ratio(Says(old), Says(b)) \in 0..100
        /\ Ratio(Says(old), Says(old)) = 100
    BY <1>8, EditsAssumption
  <2>2. \A r \in 0..100 : r \in Int /\ r <= 100
    OBVIOUS
  <2>3. Says(b) = Says(old) => Ratio(Says(old), Says(b)) = 100
    BY <2>1
  <2> QED
    BY <2>1, <2>2, <2>3
<1> QED
  BY <1>9, <1>10, <1>11, <1>12 DEF b

\* What the one match of an edit is: no block is more like `old`, and where the text
\* holds `old` elsewhere too it is the occurrence that was asked for.
Chosen(t, c, s) ==
  /\ Likeness(t, c.old, s) >= 80
  /\ \A r \in Starts(t, Len(c.old)) : Likeness(t, c.old, r) <= Likeness(t, c.old, s)
  /\ Exact(t, c.old) \ {s} # {} =>
       Cardinality({r \in Exact(t, c.old) : r <= s}) = c.nth

LEMMA OneMatch ==
  ASSUME NEW t \in Texts, NEW c \in Calls, c.tool = "edit_file", ~c.all, Matches(t, c) # {}
  PROVE  /\ Len(c.old) > 0
         /\ \E s \in Starts(t, Len(c.old)), strip \in BOOLEAN :
              /\ Matches(t, c) = {Match(s, Len(c.old), strip)}
              /\ Chosen(t, c, s)
<1> DEFINE old == c.old
           n == Len(old)
<1>1. /\ old \in Seq([indent : Nat, tok : Toks]) /\ c.nth \in Nat
  BY EditsAssumption
<1>2. n \in Nat /\ n > 0
  <2>1. old # <<>>
    BY DEF Matches
  <2> QED
    BY <1>1, <2>1, EmptySeq
<1>3. Len(t) \in Nat
  BY TextIs
<1>4. ASSUME NEW s \in Starts(t, n)
      PROVE  /\ Likeness(t, old, s) \in Int /\ Likeness(t, old, s) <= 100
             /\ Says(Block(t, s, n)) = Says(old) => Likeness(t, old, s) = 100
             /\ Fits(t, old, s) => Says(Block(t, s, n)) = Says(old)
  <2> HIDE DEF old, n
  <2>1. n = Len(old)
    BY DEF n
  <2> QED
    BY <1>1, <1>2, <2>1, BlockIs, ZenonT(60)
<1>5. ASSUME NEW s, NEW strip PROVE Matched({s}, n, strip) = {Match(s, n, strip)}
  BY DEF Matched
<1>6. /\ Exact(t, old) \subseteq Starts(t, n)
      /\ \A s \in Exact(t, old) : Fits(t, old, s)
  BY DEF Exact
<1>7. Starts(t, n) \subseteq 1..Len(t)
  BY DEF Starts
<1>8. ASSUME NEW S, S \subseteq Starts(t, n), Cardinality(S) = 1
      PROVE  \E s \in Starts(t, n) : S = {s}
  <2>1. IsFiniteSet(S)
    <3>1. IsFiniteSet(1..Len(t)) /\ S \in SUBSET (1..Len(t))
      BY <1>3, <1>7, <1>8, FS_Interval
    <3> QED
      BY <3>1, FS_Subset
  <2>2. \E s : S = {s}
    BY <1>8, <2>1, FS_Singleton
  <2> QED
    BY <1>8, <2>2
<1>9. ASSUME NEW s \in Starts(t, n), Likeness(t, old, s) = 100
      PROVE  /\ Likeness(t, old, s) >= 80
             /\ \A r \in Starts(t, n) : Likeness(t, old, r) <= Likeness(t, old, s)
  <2>1. \A r \in Starts(t, n) : Likeness(t, old, r) \in Int /\ Likeness(t, old, r) <= 100
    BY <1>4
  <2> QED
    BY <1>9, <2>1
<1>10. CASE Exact(t, old) # {}
  <2>1. Matches(t, c) = ExactMatches(Exact(t, old), c)
    BY <1>2, <1>10 DEF Matches
  <2>2. CASE c.nth > 0
    <3> DEFINE S == Exact(t, old)
               s == Nth(S, c.nth)
    <3>1. c.nth <= Cardinality(S)
      BY <2>1, <2>2 DEF ExactMatches
    <3>2. s \in S /\ Cardinality({r \in S : r <= s}) = c.nth
      BY <1>1, <1>3, <1>6, <1>7, <2>2, <3>1, NthIs
    <3>3. Matches(t, c) = {m \in Matched(S, n, FALSE) : m.at = s}
      BY <2>1, <2>2, <3>1 DEF ExactMatches
    <3> HIDE DEF s
    <3>4. \A r : Match(r, n, FALSE).at = r
      BY DEF Match
    <3>5. Matches(t, c) = {Match(s, n, FALSE)}
      BY <3>2, <3>3, <3>4, ZenonT(60) DEF Matched
    <3>6. s \in Starts(t, n) /\ Likeness(t, old, s) = 100
      BY <1>4, <1>6, <3>2
    <3>7. Chosen(t, c, s)
      BY <1>9, <3>2, <3>6 DEF Chosen
    <3> QED
      BY <1>2, <3>5, <3>6, <3>7
  <2>3. CASE ~(c.nth > 0)
    <3>1. Cardinality(Exact(t, old)) = 1
      BY <2>1, <2>3 DEF ExactMatches
    <3>2. PICK s \in Starts(t, n) : Exact(t, old) = {s}
      BY <1>6, <1>8, <3>1
    <3>3. Matches(t, c) = {Match(s, n, FALSE)}
      <4>1. Matches(t, c) = Matched(Exact(t, old), n, FALSE)
        BY <2>1, <2>3, <3>1 DEF ExactMatches
      <4> QED
        BY <1>5, <3>2, <4>1
    <3>4. Likeness(t, old, s) = 100
      BY <1>4, <1>6, <3>2
    <3>5. Chosen(t, c, s)
      BY <1>9, <3>2, <3>4 DEF Chosen
    <3> QED
      BY <1>2, <3>3, <3>5
  <2> QED
    BY <2>2, <2>3
<1>11. CASE Exact(t, old) = {} /\ Tolerant(t, old) # {} /\ Cardinality(Tolerant(t, old)) = 1
  <2>1. Matches(t, c) = Matched(Tolerant(t, old), n, TRUE)
    BY <1>2, <1>11 DEF Matches
  <2>2. PICK s \in Starts(t, n) : Tolerant(t, old) = {s}
    BY <1>8, <1>11 DEF Tolerant
  <2>3. Matches(t, c) = {Match(s, n, TRUE)}
    BY <1>5, <2>1, <2>2
  <2>4. Likeness(t, old, s) = 100
    <3>1. Says(Block(t, s, n)) = Says(old)
      BY <2>2 DEF Tolerant
    <3> QED
      BY <1>4, <3>1
  <2>5. Chosen(t, c, s)
    BY <1>9, <1>11, <2>4 DEF Chosen
  <2> QED
    BY <1>2, <2>3, <2>5
<1>12. CASE Exact(t, old) = {}
            /\ ~(Tolerant(t, old) # {} /\ Cardinality(Tolerant(t, old)) = 1)
  <2>1. Matches(t, c) = Matched(Fuzzy(t, old), n, TRUE)
    BY <1>2, <1>12 DEF Matches
  <2>2. PICK s \in Fuzzy(t, old) : TRUE
    BY <2>1 DEF Matched
  <2>3. /\ s \in Starts(t, n) /\ Likeness(t, old, s) >= 80
        /\ \A r \in Starts(t, n) \ {s} : Likeness(t, old, s) - Likeness(t, old, r) >= 5
    BY <2>2 DEF Fuzzy
  <2>4. ASSUME NEW r \in Starts(t, n), r # s
        PROVE  Likeness(t, old, r) < Likeness(t, old, s) /\ r \notin Fuzzy(t, old)
    <3>1. /\ Likeness(t, old, s) - Likeness(t, old, r) >= 5
          /\ Likeness(t, old, s) \in Int /\ Likeness(t, old, r) \in Int
      BY <1>4, <2>3, <2>4
    <3>2. ~(Likeness(t, old, r) - Likeness(t, old, s) >= 5)
      BY <3>1
    <3>3. r \notin Fuzzy(t, old)
      BY <2>3, <2>4, <3>2 DEF Fuzzy
    <3> QED
      BY <3>1, <3>3
  <2>5. Fuzzy(t, old) = {s}
    <3>1. Fuzzy(t, old) \subseteq Starts(t, n)
      BY DEF Fuzzy
    <3> QED
      BY <2>2, <2>4, <3>1
  <2>6. Matches(t, c) = {Match(s, n, TRUE)}
    BY <1>5, <2>1, <2>5
  <2>7. ASSUME NEW r \in Starts(t, n) PROVE Likeness(t, old, r) <= Likeness(t, old, s)
    <3>1. Likeness(t, old, r) \in Int /\ Likeness(t, old, s) \in Int
      BY <1>4, <2>3
    <3> QED
      BY <2>4, <3>1
  <2>8. Chosen(t, c, s)
    BY <1>12, <2>3, <2>7 DEF Chosen
  <2> QED
    BY <1>2, <2>3, <2>6, <2>8
<1> QED
  BY <1>10, <1>11, <1>12

\* An edit of one match puts it together from what is in front of the block, what is put
\* in its place and what is behind it.
LEMMA EditReplacesOne ==
  ASSUME NEW t \in Texts, NEW c \in Calls, c.tool = "edit_file", ~c.all, Matches(t, c) # {},
         NEW py
  PROVE  ReplacesOne(c, t, TryEdit(t, c, py))
<1> DEFINE n == Len(c.old)
           u == TryEdit(t, c, py)
<1>1. PICK s \in Starts(t, n), strip \in BOOLEAN :
        Matches(t, c) = {Match(s, n, strip)} /\ Chosen(t, c, s)
  BY OneMatch
<1>2. /\ n \in Nat /\ n > 0 /\ c.old \in Seq([indent : Nat, tok : Toks])
      /\ c.new \in Seq([indent : Nat, tok : Toks])
  BY OneMatch, EditsAssumption, LenProperties
<1> DEFINE m == Match(s, n, strip)
           col == Column(t, c.old, m)
<1>3. m.at = s /\ m.len = n /\ m.strip = strip
  BY DEF Match
<1>4. col \in Int
  <2>1. t[s].indent \in Nat /\ c.old[1].indent \in Nat
    BY <1>2, BlockIs, ZenonT(60)
  <2> QED
    BY <1>3, <2>1 DEF Column
<1>5. /\ Plain(c.new, Column(t, c.old, m), m.strip) \in Seq(Indented)
      /\ Anchored(c.new, Column(t, c.old, m)) \in Seq(Indented)
  BY <1>2, <1>3, <1>4, Inserted
<1>6. \E ins \in {Plain(c.new, col, strip), Anchored(c.new, col)} :
        u = (SubSeq(t, 1, s - 1) \o ins) \o SubSeq(t, s + n, Len(t))
  <2>0. /\ DOMAIN t = 1..Len(t) /\ t \in Seq(Indented)
        /\ s \in 1..Len(t) /\ s + n - 1 <= Len(t)
    BY TextIs DEF Starts
  <2>1. u \in {AsWritten(t, c.old, c.new, {m}), AsMended(t, c.old, c.new, {m})}
    <3>1. u = PickSplice(t, c.old, c.new, {m}, py)
      BY <1>1 DEF TryEdit
    <3> HIDE DEF u, m
    <3> QED
      BY <3>1 DEF PickSplice
  <2>2. AsWritten(t, c.old, c.new, {m}) =
          (SubSeq(t, 1, s - 1) \o Plain(c.new, col, strip)) \o SubSeq(t, s + n, Len(t))
    <3> DEFINE it(i) == CHOOSE k \in {m} : k.at = i
               Q == [i \in DOMAIN t |->
                  IF \E k \in {m} : k.at = i
                    THEN Plain(c.new, Column(t, c.old, it(i)), it(i).strip)
                  ELSE IF \E k \in {m} : i > k.at /\ i < k.at + k.len THEN <<>>
                  ELSE <<t[i]>>]
    <3>1. AsWritten(t, c.old, c.new, {m}) = FlattenSeq(Q)
      BY DEF AsWritten, Splice
    <3>2. \A i : (\E k \in {m} : k.at = i) => it(i) = m
      <4> HIDE DEF m
      <4> QED
        OBVIOUS
    <3>3. ASSUME NEW i \in 1..Len(t)
          PROVE  Q[i] = IF i = s THEN Plain(c.new, col, strip)
                        ELSE IF i > s /\ i < s + n THEN <<>> ELSE <<t[i]>>
      <4> HIDE DEF m, n, col
      <4>1. CASE i = s
        BY <1>3, <2>0, <3>2, <4>1 DEF col
      <4>2. CASE i # s
        BY <1>3, <2>0, <4>2
      <4> QED
        BY <4>1, <4>2
    <3>4. Q = [i \in 1..Len(t) |-> Q[i]]
      BY <2>0
    <3>5. Plain(c.new, col, strip) \in Seq(Indented)
      BY <1>3, <1>5
    <3> HIDE DEF Q, col
    <3>6. FlattenSeq(Q) =
            (SubSeq(t, 1, s - 1) \o Plain(c.new, col, strip)) \o SubSeq(t, s + n, Len(t))
      <4> DEFINE ins == Plain(c.new, col, strip)
      <4>1. ins \in Seq(Indented)
        BY <3>5
      <4>2. \A i \in 1..Len(t) :
              Q[i] = IF i = s THEN ins ELSE IF i > s /\ i < s + n THEN <<>> ELSE <<t[i]>>
        BY <3>3
      <4>3. n \in Nat /\ n > 0
        BY <1>2
      <4> HIDE DEF ins, n
      <4>4. FlattenSeq(Q) = (SubSeq(t, 1, s - 1) \o ins) \o SubSeq(t, s + n, Len(t))
        BY <2>0, <3>4, <4>1, <4>2, <4>3, SpliceOne, ZenonT(60)
      <4> QED
        BY <4>4 DEF ins
    <3> QED
      BY <3>1, <3>6
  <2>3. AsMended(t, c.old, c.new, {m}) =
          (SubSeq(t, 1, s - 1) \o Anchored(c.new, col)) \o SubSeq(t, s + n, Len(t))
    <3> DEFINE it(i) == CHOOSE k \in {m} : k.at = i
               Q == [i \in DOMAIN t |->
                  IF \E k \in {m} : k.at = i THEN Anchored(c.new, Column(t, c.old, it(i)))
                  ELSE IF \E k \in {m} : i > k.at /\ i < k.at + k.len THEN <<>>
                  ELSE <<t[i]>>]
    <3>1. AsMended(t, c.old, c.new, {m}) = FlattenSeq(Q)
      BY DEF AsMended, Splice
    <3>2. \A i : (\E k \in {m} : k.at = i) => it(i) = m
      <4> HIDE DEF m
      <4> QED
        OBVIOUS
    <3>3. ASSUME NEW i \in 1..Len(t)
          PROVE  Q[i] = IF i = s THEN Anchored(c.new, col)
                        ELSE IF i > s /\ i < s + n THEN <<>> ELSE <<t[i]>>
      <4> HIDE DEF m, n, col
      <4>1. CASE i = s
        BY <1>3, <2>0, <3>2, <4>1 DEF col
      <4>2. CASE i # s
        BY <1>3, <2>0, <4>2
      <4> QED
        BY <4>1, <4>2
    <3>4. Q = [i \in 1..Len(t) |-> Q[i]]
      BY <2>0
    <3>5. Anchored(c.new, col) \in Seq(Indented)
      BY <1>3, <1>5
    <3> HIDE DEF Q, col
    <3>6. FlattenSeq(Q) =
            (SubSeq(t, 1, s - 1) \o Anchored(c.new, col)) \o SubSeq(t, s + n, Len(t))
      <4> DEFINE ins == Anchored(c.new, col)
      <4>1. ins \in Seq(Indented)
        BY <3>5
      <4>2. \A i \in 1..Len(t) :
              Q[i] = IF i = s THEN ins ELSE IF i > s /\ i < s + n THEN <<>> ELSE <<t[i]>>
        BY <3>3
      <4>3. n \in Nat /\ n > 0
        BY <1>2
      <4> HIDE DEF ins, n
      <4>4. FlattenSeq(Q) = (SubSeq(t, 1, s - 1) \o ins) \o SubSeq(t, s + n, Len(t))
        BY <2>0, <3>4, <4>1, <4>2, <4>3, SpliceOne, ZenonT(60)
      <4> QED
        BY <4>4 DEF ins
    <3> QED
      BY <3>1, <3>6
  <2> HIDE DEF u, m, col
  <2> QED
    BY <2>1, <2>2, <2>3
<1> HIDE DEF col, u
<1>7. PICK ins \in {Plain(c.new, col, strip), Anchored(c.new, col)} :
        u = (SubSeq(t, 1, s - 1) \o ins) \o SubSeq(t, s + n, Len(t))
  BY <1>6
<1>8. ins \in Seq(Indented) /\ Len(ins) = Len(c.new) /\ Says(ins) = Says(c.new)
  BY <1>2, <1>4, Inserted
<1>9. /\ t \in Seq(Indented) /\ Len(t) \in Nat /\ s \in 1..Len(t) /\ s + n - 1 <= Len(t)
  BY TextIs DEF Starts
<1> DEFINE x == SubSeq(t, 1, s - 1)
           z == SubSeq(t, s + n, Len(t))
<1>10. x \in Seq(Indented) /\ Len(x) = s - 1 /\ z \in Seq(Indented)
  BY <1>2, <1>9, SubSeqIsSeq
<1> HIDE DEF x, z
<1>11. Len(ins) \in Nat /\ Len(c.new) \in Nat
  BY <1>2, LenProperties
<1>12. u = (x \o ins) \o z
  BY <1>7 DEF x, z
<1>13. /\ SubSeq(u, 1, Len(x)) = x
       /\ SubSeq(u, Len(x) + 1, Len(x) + Len(ins)) = ins
       /\ SubSeq(u, Len(x) + Len(ins) + 1, Len(u)) = z
  <2>1. x \in Seq(Indented) /\ ins \in Seq(Indented) /\ z \in Seq(Indented)
    BY <1>8, <1>10
  <2> QED
    BY <1>12, <2>1, Parts
<1>14. /\ Len(x) + 1 = s /\ Len(x) + Len(ins) = s + Len(c.new) - 1
       /\ Len(x) + Len(ins) + 1 = s + Len(c.new)
  BY <1>8, <1>9, <1>10, <1>11
<1>15. /\ SubSeq(u, 1, s - 1) = SubSeq(t, 1, s - 1)
       /\ SubSeq(u, s + Len(c.new), Len(u)) = SubSeq(t, s + n, Len(t))
       /\ Says(Block(u, s, Len(c.new))) = Says(c.new)
  BY <1>8, <1>10, <1>13, <1>14 DEF x, z, Block
<1> QED
  BY <1>1, <1>15 DEF ReplacesOne, Chosen, u

\* An edit leaves the files there are as many as they were.
LEMMA EditKeepsFiles ==
  ASSUME NEW c \in Calls, Run(c), c.tool \in Edits
  PROVE  DOMAIN disk' = DOMAIN disk
<1>1. IF c.file \in DOMAIN disk /\ c.file \in seen
        THEN Put(c.file, Edited(c.file, disk[c.file], c)) ELSE UNCHANGED disk
  BY DEF Run, Edits
<1> QED
  BY <1>1 DEF Put, Holding

LEMMA ContentIsText ==
  ASSUME TypeOK, NEW f
  PROVE  Content(f) \in Texts
<1>1. <<>> \in Texts
  <2>1. <<>> \in [1..0 -> Lines] /\ 0 \in 0..MaxLines
    BY ConstantsAssumption
  <2> QED
    BY <2>1 DEF Texts
<1> QED
  BY <1>1 DEF Content, TypeOK

\* A call of edit_file that does not ask for all matches replaces one block: the one most
\* like what it was given, or the occurrence it asked for.
THEOREM OnePlace == Spec => OnePlaceChanges
<1> DEFINE One == \A c \in Calls : c.tool = "edit_file" /\ ~c.all /\ Runs(c) =>
                    \A f \in Files : Changed(f) =>
                      f = c.file /\ ReplacesOne(c, Content(f), Content(f)')
<1>1. IInv => One
  <2> SUFFICES ASSUME IInv, NEW c \in Calls, c.tool = "edit_file", ~c.all, Runs(c),
                      NEW f \in Files, Changed(f)
               PROVE  f = c.file /\ ReplacesOne(c, Content(f), Content(f)')
    OBVIOUS
  <2>1. Run(c) /\ c.tool \in Edits
    BY DEF Runs, AllowedCall, Approve, Edits
  <2>2. Content(f)' # Content(f)
    BY <2>1, EditKeepsFiles DEF Changed
  <2>3. f = c.file /\ Content(f)' = EditFile(f, Content(f), c)
    BY <2>1, <2>2, EditWrites DEF Edited
  <2>4. Content(f)' = TryEdit(Content(f), c, f \in Python)
    BY <2>2, <2>3 DEF EditFile, Guarded
  <2>5. Content(f) \in Texts
    BY ContentIsText DEF IInv
  <2>6. Matches(Content(f), c) # {}
    BY <2>2, <2>4 DEF TryEdit
  <2> QED
    BY <2>3, <2>4, <2>5, <2>6, EditReplacesOne
<1> QED
  BY <1>1, InvariantHolds, PTL DEF OnePlaceChanges

---------------------------------------------------------------------------
\* What an edit writes differs from what its diff shows only where that would not parse.
LEMMA EditedAsShown ==
  ASSUME NEW f, NEW t, NEW c, c.tool \in Edits
  PROVE  Edited(f, t, c) \in {t, Preview(c, t)} \/ Breaks(f, t, Preview(c, t))
<1>1. CASE c.tool = "edit_file"
  <2>1. Preview(c, t) = TryEdit(t, c, FALSE) /\ Edited(f, t, c) = EditFile(f, t, c)
    BY <1>1 DEF Preview, Edited
  <2>2. EditFile(f, t, c) \in {t, TryEdit(t, c, f \in Python)}
    BY DEF EditFile, Guarded
  <2>3. CASE Matches(t, c) = {}
    BY <2>1, <2>2, <2>3 DEF TryEdit
  <2>4. CASE Matches(t, c) # {}
    <3> DEFINE plain == AsWritten(t, c.old, c.new, Matches(t, c))
    <3>1. TryEdit(t, c, FALSE) = plain
      BY <2>4 DEF TryEdit, PickSplice
    <3>2. CASE TryEdit(t, c, f \in Python) = plain
      BY <2>1, <2>2, <3>1, <3>2
    <3>3. CASE TryEdit(t, c, f \in Python) # plain
      <4>1. f \in Python /\ Parses(t) /\ ~Parses(plain)
        BY <2>4, <3>3 DEF TryEdit, PickSplice
      <4> QED
        BY <2>1, <3>1, <4>1 DEF Breaks
    <3> QED
      BY <3>2, <3>3
  <2> QED
    BY <2>3, <2>4
<1>2. CASE c.tool = "replace_lines"
  <2>1. Preview(c, t) = TryReplaceLines(t, c, c.new)
        /\ Edited(f, t, c) = ReplaceLines(f, t, c)
    BY <1>2 DEF Preview, Edited
  <2> QED
    BY <2>1 DEF ReplaceLines
<1> QED
  BY <1>1, <1>2 DEF Edits

\* A write puts its text, an append adds it to a file there is.
LEMMA WriteWrites ==
  ASSUME NEW c \in Calls, Run(c), c.tool \in {"write_file", "append_file"}
  PROVE  Content(c.file)' \in {Content(c.file), Preview(c, Content(c.file))}
<1>1. ASSUME NEW t, Put(c.file, t) PROVE Content(c.file)' = t
  BY <1>1 DEF Put, Holding, Content
<1>2. CASE c.tool = "write_file"
  <2>1. Put(c.file, c.new)
    BY <1>2 DEF Run, Edits
  <2> QED
    BY <1>1, <1>2, <2>1 DEF Preview
<1>3. CASE c.tool = "append_file" /\ c.file \in DOMAIN disk
  <2>1. Put(c.file, disk[c.file] \o c.new)
    BY <1>3 DEF Run, Edits
  <2>2. Content(c.file) = disk[c.file]
    BY <1>3 DEF Content
  <2> QED
    BY <1>1, <1>3, <2>1, <2>2 DEF Preview
<1>4. CASE c.tool = "append_file" /\ c.file \notin DOMAIN disk
  <2>1. UNCHANGED disk
    BY <1>4 DEF Run, Edits
  <2> QED
    BY <2>1 DEF Content
<1> QED
  BY <1>2, <1>3, <1>4

\* An approved call writes what was shown of it, unless the file was saved meanwhile or
\* what was shown would not have parsed.
THEOREM WrittenAsShown == Spec => ShownIsWritten
<1> DEFINE AsShown == \A c \in Calls :
             c.tool \in Previewed /\ Approve(c) /\ Content(c.file) = shown.before =>
               \/ Content(c.file)' \in {shown.before, shown.after}
               \/ Breaks(c.file, shown.before, shown.after)
<1>1. IInv => AsShown
  <2> SUFFICES ASSUME IInv, NEW c \in Calls, c.tool \in Previewed, Approve(c),
                      Content(c.file) = shown.before
               PROVE  \/ Content(c.file)' \in {shown.before, shown.after}
                      \/ Breaks(c.file, shown.before, shown.after)
    OBVIOUS
  <2>1. Run(c) /\ shown.after = Preview(c, Content(c.file))
    BY DEF Approve, IInv, AskInv
  <2>2. CASE c.tool \in Edits
    <3>1. \/ Content(c.file)' = Content(c.file)
          \/ Content(c.file)' = Edited(c.file, Content(c.file), c)
      BY <2>1, <2>2, EditWrites
    <3>2. \/ Edited(c.file, Content(c.file), c)
               \in {Content(c.file), Preview(c, Content(c.file))}
          \/ Breaks(c.file, Content(c.file), Preview(c, Content(c.file)))
      BY <2>2, EditedAsShown
    <3> QED
      BY <2>1, <3>1, <3>2
  <2>3. CASE c.tool \in {"write_file", "append_file"}
    BY <2>1, <2>3, WriteWrites
  <2> QED
    BY <2>2, <2>3 DEF Previewed
<1> QED
  BY <1>1, InvariantHolds, PTL DEF ShownIsWritten

---------------------------------------------------------------------------
\* A call changes only the files it names, and a read none.
LEMMA RunKeepsOthers ==
  ASSUME NEW c \in Calls, Run(c), NEW f, Changed(f)
  PROVE  f \in Ends(c) /\ c.tool # "read_file"
<1>1. ~UNCHANGED disk
  BY DEF Changed, Content
<1>2. ASSUME NEW g, NEW t, Put(g, t) PROVE f = g
  BY <1>2 DEF Put, Holding, Changed, Content
<1>3. CASE c.tool = "move_file"
  <2>1. /\ c.src \in DOMAIN disk
        /\ disk' = [g \in (DOMAIN disk \ {c.src}) \cup {c.dst} |->
                      IF g = c.dst THEN disk[c.src] ELSE disk[g]]
    BY <1>1, <1>3 DEF Run, Edits
  <2>2. f \in {c.src, c.dst}
    BY <2>1 DEF Changed, Content
  <2> QED
    BY <1>3, <2>2 DEF Ends
<1>4. CASE c.tool # "move_file"
  BY <1>1, <1>2, <1>4 DEF Run, Edits, Ends
<1> QED
  BY <1>3, <1>4

\* Nothing changes but what the user, the places and the configuration allow.
THEOREM Authorised == Spec => ChangesAreAuthorised
<1> DEFINE Allowed(c, f) ==
             /\ session[c.tool] # "deny"
             /\ Area[f] = "deny" => session[c.tool] = "auto"
             /\ \/ c \in asked \/ session[c.tool] = "auto"
                \/ \E g \in Ends(c) : Area[g] = "auto"
                \/ Base[c.tool] = "auto" \/ Yolo
    Held == \A c \in Calls, f \in Files : Runs(c) /\ Changed(f) => Allowed(c, f)
<1>1. IInv => Held
  <2> SUFFICES ASSUME IInv, NEW c \in Calls, NEW f \in Files, Runs(c), Changed(f)
               PROVE  Allowed(c, f)
    OBVIOUS
  <2>1. f \in Ends(c) /\ c.tool # "read_file"
    BY RunKeepsOthers DEF Runs, AllowedCall, Approve
  <2>2. CASE AllowedCall(c)
    <3>1. Resolve(c) = "auto" /\ c.tool \in Tools
      BY <2>2, CallsHaveEnds DEF AllowedCall
    <3>2. session[c.tool] \in {"none", "auto", "deny"}
      BY <3>1 DEF IInv, TypeOK
    <3> QED
      BY <2>1, <3>1, <3>2 DEF Resolve, Placed
  <2>3. CASE Approve(c)
    <3>1. c \in asked /\ session[c.tool] = "none" /\ ~Placed(c, "deny")
      BY <2>3 DEF Approve, IInv, AskInv
    <3> QED
      BY <2>1, <3>1 DEF Placed
  <2> QED
    BY <2>2, <2>3 DEF Runs
<1> QED
  BY <1>1, InvariantHolds, PTL DEF ChangesAreAuthorised
=============================================================================
