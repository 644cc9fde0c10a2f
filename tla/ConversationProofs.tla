-------------------------- MODULE ConversationProofs --------------------------
(***************************************************************************)
(* Proofs, for every set of files, every size of the recent window and every *)
(* budget, of the properties that Conversation states.  A conversation is    *)
(* never measured here: a pass may be adopted or discarded at any time.      *)
(***************************************************************************)
EXTENDS Conversation, FiniteSetTheorems, WellFoundedInduction, TLAPS

---------------------------------------------------------------------------
\* Positions and the recent window.

Bounded(h, n) == h \subseteq Messages /\ n \in Nat /\ \A m \in h : m.at < n
After(h, p) == {q \in Positions(h) : q > p}

LEMMA AfterFinite ==
  ASSUME NEW h, NEW n, Bounded(h, n), NEW p
  PROVE  IsFiniteSet(After(h, p)) /\ Cardinality(After(h, p)) \in Nat
<1>1. n - 1 \in Int /\ IsFiniteSet(0..(n - 1))
  BY FS_Interval DEF Bounded
<1>2. After(h, p) \in SUBSET (0..(n - 1))
  BY DEF After, Positions, Bounded, Messages
<1>3. IsFiniteSet(After(h, p))
  BY <1>1, <1>2, FS_Subset
<1> QED
  BY <1>3, FS_CardinalityType

LEMMA RecentIsAfter ==
  ASSUME NEW h, NEW m
  PROVE  Recent(h, m) <=> Cardinality(After(h, m.at)) < Keep
  BY DEF Recent, After

\* With fewer positions in the conversation a message is at least as recent.
LEMMA RecentMonotone ==
  ASSUME NEW h, NEW n, Bounded(h, n), NEW g, Positions(g) \subseteq Positions(h),
         NEW m, NEW k, k.at = m.at, Recent(h, m)
  PROVE  Recent(g, k)
<1>1. After(g, k.at) \in SUBSET After(h, m.at)
  BY DEF After
<1>2. IsFiniteSet(After(h, m.at)) /\ Cardinality(After(h, m.at)) \in Nat
  BY AfterFinite
<1>3. /\ Cardinality(After(g, k.at)) <= Cardinality(After(h, m.at))
      /\ IsFiniteSet(After(g, k.at))
  BY <1>1, <1>2, FS_Subset
<1>4. Cardinality(After(g, k.at)) \in Nat
  BY <1>3, FS_CardinalityType
<1>5. Cardinality(After(h, m.at)) < Keep
  BY RecentIsAfter
<1>6. Cardinality(After(g, k.at)) < Keep
  BY <1>2, <1>3, <1>4, <1>5, ConstantsAssumption
<1> QED
  BY <1>6, RecentIsAfter

Less == {ss \in Nat \X Nat : ss[1] < ss[2]}
LEMMA LessWellFounded == IsWellFoundedOn(Less, Nat)
BY NatLessThanWellFounded DEF OpToRel, Less
LEMMA LessIs ==
  ASSUME NEW x \in Nat, NEW y \in Nat, ~(<<x, y>> \in Less)
  PROVE  y <= x
<1>1. <<x, y>> \in Nat \X Nat
  OBVIOUS
<1>2. ~(x < y)
  BY <1>1 DEF Less
<1> QED
  BY <1>2

\* A non-empty set of positions has a greatest one, and a least one.
LEMMA GreatestPosition ==
  ASSUME NEW n \in Nat, NEW T, T \subseteq Nat, T # {}, \A p \in T : p < n
  PROVE  \E p \in T : \A q \in T : q <= p
<1> DEFINE D == {n - p : p \in T}
<1>1. D \subseteq Nat /\ D # {}
  <2>1. \A p \in T : n - p \in Nat
    OBVIOUS
  <2>2. D \subseteq Nat
    BY <2>1
  <2>3. \A p \in T : n - p \in D
    OBVIOUS
  <2> QED  BY <2>2, <2>3
<1>2. PICK d \in D : \A e \in D : ~(<<e, d>> \in Less)
  <2> HIDE DEF D
  <2> QED  BY <1>1, LessWellFounded, WFMin
<1>3. \A e \in D : e >= d
  <2> SUFFICES ASSUME NEW e \in D PROVE e >= d
    OBVIOUS
  <2>1. e \in Nat /\ d \in Nat /\ ~(<<e, d>> \in Less)
    BY <1>1, <1>2
  <2>2. d <= e
    BY <2>1, LessIs
  <2> QED  BY <2>1, <2>2
<1>4. PICK p \in T : d = n - p
  OBVIOUS
<1>5. ASSUME NEW q \in T PROVE q <= p
  <2>1. n - q >= n - p
    BY <1>3, <1>4
  <2> QED  BY <2>1
<1> QED
  BY <1>5

LEMMA LeastPosition ==
  ASSUME NEW T, T \subseteq Nat, T # {}
  PROVE  \E p \in T : \A q \in T : p <= q
<1>1. PICK p \in T : \A q \in T : ~(<<q, p>> \in Less)
  BY LessWellFounded, WFMin
<1>2. \A q \in T : p <= q
  <2> SUFFICES ASSUME NEW q \in T PROVE p <= q
    OBVIOUS
  <2>1. q \in Nat /\ p \in Nat
    OBVIOUS
  <2> QED  BY <1>1, <2>1, LessIs
<1> QED
  BY <1>2

\* A message behind the window has a full window of positions after it that are all
\* recent themselves.
LEMMA WindowIsFull ==
  ASSUME NEW h, NEW n, Bounded(h, n), NEW m \in h, ~Recent(h, m)
  PROVE  \E p \in Nat : /\ p >= m.at
                        /\ Cardinality(After(h, p)) >= Keep
                        /\ \A k \in h : k.at > p => Recent(h, k)
<1> DEFINE T == {p \in Positions(h) : Cardinality(After(h, p)) >= Keep}
<1>1. \A p : Cardinality(After(h, p)) \in Nat
  BY AfterFinite
<1>2. m.at \in T
  <2>1. m.at \in Positions(h)
    BY DEF Positions
  <2>2. ~(Cardinality(After(h, m.at)) < Keep)
    BY RecentIsAfter
  <2> QED  BY <1>1, <2>1, <2>2, ConstantsAssumption
<1>3. T \subseteq Nat /\ n \in Nat /\ \A p \in T : p < n
  BY DEF Positions, Bounded, Messages
<1>4. PICK p \in T : \A q \in T : q <= p
  <2> HIDE DEF T
  <2> QED  BY <1>2, <1>3, GreatestPosition
<1>5. ASSUME NEW k \in h, k.at > p PROVE Recent(h, k)
  <2>1. k.at \in Positions(h) /\ k.at \notin T
    BY <1>3, <1>4, <1>5 DEF Positions, Bounded, Messages
  <2>2. Cardinality(After(h, k.at)) < Keep
    BY <1>1, <2>1, ConstantsAssumption
  <2> QED  BY <2>2, RecentIsAfter
<1> QED
  BY <1>2, <1>3, <1>4, <1>5

---------------------------------------------------------------------------
\* What a pass of compaction does.

LEMMA Sizes ==
  /\ LongSize \in Nat /\ ShortSize \in Nat /\ MaxMessageChars = 800
  /\ RecentShrinkThreshold = 4000
  /\ \A n \in Nat : CutLength(n) \in Nat /\ CutLength(n) >= 830 /\ CutLength(n) <= 834
  /\ \A n \in Nat : n < 1000 => CutLength(n) = 830
<1>1. LongSize \in Nat /\ ShortSize \in Nat
  BY SizesAssumption
<1>2. ASSUME NEW n \in Nat
      PROVE  Digits(n) \in 3..7 /\ (n < 1000 => Digits(n) = 3)
  BY SMT DEF Digits
<1> QED
  BY <1>1, <1>2 DEF CutLength, MaxMessageChars, RecentShrinkThreshold

LEMMA SaidAfterType ==
  ASSUME NEW h, NEW m \in Messages
  PROVE  SaidAfter(h, m) \in Nat
<1>1. m.said \in Nat
  BY DEF Messages
<1>2. m.kind = "essay" => Length(m) \in Nat
  BY <1>1, Sizes DEF Length
<1> QED
  BY <1>1, <1>2 DEF SaidAfter, Cut

LEMMA SqueezedKeeps ==
  ASSUME NEW h, NEW m \in Messages
  PROVE  LET s == Squeezed(h, m) IN
           /\ s \in Messages /\ s.at = m.at /\ s.kind = m.kind /\ s.tool = m.tool
           /\ s.file = m.file
           /\ s.text = (IF Shrunk(h, m) THEN "cut" ELSE m.text)
           /\ s.said = SaidAfter(h, m)
           /\ s.again = (m.again \/ Copies(h, m) # {})
<1>1. SaidAfter(h, m) \in Nat
  BY SaidAfterType
<1> QED
  BY <1>1 DEF Squeezed, Messages

LEMMA CompactOrigin ==
  ASSUME NEW h, NEW s \in Compact(h)
  PROVE  \E m \in h : ~Gone(h, m) /\ s = Squeezed(h, m)
  BY DEF Compact

LEMMA CompactImage ==
  ASSUME NEW h, NEW m \in h, ~Gone(h, m)
  PROVE  Squeezed(h, m) \in Compact(h)
  BY DEF Compact

LEMMA CompactBounded ==
  ASSUME NEW h, NEW n, Bounded(h, n)
  PROVE  Bounded(Compact(h), n) /\ Positions(Compact(h)) \subseteq Positions(h)
<1>1. ASSUME NEW s \in Compact(h)
      PROVE  s \in Messages /\ s.at < n /\ s.at \in Positions(h)
  <2>1. PICK m \in h : s = Squeezed(h, m)
    BY CompactOrigin
  <2>2. m \in Messages /\ m.at < n
    BY DEF Bounded
  <2> QED  BY <2>1, <2>2, SqueezedKeeps DEF Positions
<1> QED
  BY <1>1 DEF Bounded, Positions

\* Only nudges, claims and essays are dropped.
LEMMA OthersStay ==
  ASSUME NEW h, NEW m, m.kind \notin {"nudge", "claim", "essay"}
  PROVE  ~Gone(h, m) /\ Copies(h, m) = {}
  BY DEF Gone, Copies

\* Unless a copy of a claim was dropped from the window itself, what is recent in the
\* compacted conversation was recent before.
LEMMA WindowStands ==
  ASSUME NEW h, NEW n, Bounded(h, n), NEW m \in h, ~Gone(h, m),
         \A k \in h : Recent(h, k) => ~Gone(h, k),
         Recent(Compact(h), Squeezed(h, m))
  PROVE  Recent(h, m)
<1> SUFFICES ASSUME ~Recent(h, m) PROVE FALSE
  OBVIOUS
<1>1. PICK p \in Nat : /\ p >= m.at
                       /\ Cardinality(After(h, p)) >= Keep
                       /\ \A k \in h : k.at > p => Recent(h, k)
  BY WindowIsFull
<1>2. m \in Messages /\ Squeezed(h, m).at = m.at
  BY SqueezedKeeps DEF Bounded
<1>3. After(h, p) \in SUBSET After(Compact(h), m.at)
  <2> SUFFICES ASSUME NEW q \in After(h, p) PROVE q \in After(Compact(h), m.at)
    OBVIOUS
  <2>1. PICK k \in h : k.at = q /\ q > p
    BY DEF After, Positions
  <2>2. k \in Messages /\ ~Gone(h, k)
    BY <1>1, <2>1 DEF Bounded
  <2>3. Squeezed(h, k) \in Compact(h) /\ Squeezed(h, k).at = q
    BY <2>1, <2>2, CompactImage, SqueezedKeeps
  <2>4. q > m.at
    BY <1>1, <1>2, <2>1, <2>2 DEF Messages
  <2> QED  BY <2>3, <2>4 DEF After, Positions
<1>4. /\ IsFiniteSet(After(Compact(h), m.at))
      /\ Cardinality(After(Compact(h), m.at)) \in Nat
  BY CompactBounded, AfterFinite
<1>5. Cardinality(After(h, p)) <= Cardinality(After(Compact(h), m.at))
  BY <1>3, <1>4, FS_Subset
<1>6. Cardinality(After(h, p)) \in Nat
  BY AfterFinite
<1>7. Cardinality(After(Compact(h), m.at)) < Keep
  BY <1>2, RecentIsAfter
<1> QED
  BY <1>1, <1>4, <1>5, <1>6, <1>7, ConstantsAssumption

\* A text that survives a pass: a recent one of ordinary size.
LEMMA RecentTextStays ==
  ASSUME NEW h, NEW m \in h, m \in Messages, Recent(h, m), m.text \in Given,
         m.kind \in {"call", "result"}, m.file[2] \notin Big
  PROVE  m \in Compact(h)
<1>1. ~Gone(h, m) /\ Copies(h, m) = {} /\ ~Shrunk(h, m) /\ SaidAfter(h, m) = m.said
  BY OthersStay DEF Shrunk, SaidAfter, Cut
<1>2. Squeezed(h, m) = m
  BY <1>1 DEF Squeezed, Messages
<1> QED
  BY <1>1, <1>2, CompactImage

\* A second pass leaves a message as it is, if it cuts none of its kind.
LEMMA PassLeaves ==
  ASSUME NEW h, NEW n, Bounded(h, n), NEW s \in Compact(h),
         \A c \in Compact(h) : c.kind = s.kind => SaidAfter(Compact(h), c) = c.said
  PROVE  ~Gone(Compact(h), s) /\ Squeezed(Compact(h), s) = s
<1> DEFINE C == Compact(h)
<1>1. PICK m \in h : ~Gone(h, m) /\ s = Squeezed(h, m)
  BY CompactOrigin
<1>2. m \in Messages /\ m.at \in Nat
  BY DEF Bounded, Messages
<1>3. /\ s \in Messages /\ s.at = m.at /\ s.kind = m.kind /\ s.file = m.file
      /\ s.text = (IF Shrunk(h, m) THEN "cut" ELSE m.text) /\ s.said = SaidAfter(h, m)
  BY <1>1, <1>2, SqueezedKeeps
<1>4. Recent(h, m) => Recent(C, s)
  BY <1>3, CompactBounded, RecentMonotone
<1>5. Copies(C, s) = {}
  <2> SUFFICES ASSUME NEW c \in C, s.kind \in {"claim", "essay"}, c.kind = s.kind, c.at # s.at,
                      SaidAfter(C, c) = SaidAfter(C, s)
               PROVE  FALSE
    BY DEF Copies
  <2>1. PICK k \in h : ~Gone(h, k) /\ c = Squeezed(h, k)
    BY CompactOrigin
  <2>2. k \in Messages /\ k.at \in Nat
    BY DEF Bounded, Messages
  <2>3. c.at = k.at /\ c.kind = k.kind /\ c.said = SaidAfter(h, k)
    BY <2>1, <2>2, SqueezedKeeps
  <2>4. SaidAfter(h, k) = SaidAfter(h, m)
    BY <1>3, <2>3
  <2>5. k \in Copies(h, m) /\ m \in Copies(h, k)
    BY <1>3, <2>3, <2>4 DEF Copies
  <2>6. k.at < m.at \/ m.at < k.at
    BY <1>2, <1>3, <2>2, <2>3
  <2> QED  BY <1>1, <2>1, <2>5, <2>6 DEF Gone
<1>6. ~Gone(C, s)
  BY <1>1, <1>3, <1>4, <1>5 DEF Gone
<1>7. ~Shrunk(C, s)
  BY <1>3, <1>4 DEF Shrunk, Given
<1>8. SaidAfter(C, s) = s.said
  OBVIOUS
<1> QED
  BY <1>3, <1>5, <1>6, <1>7, <1>8 DEF Squeezed, Messages

\* What no second pass cuts stays as it is.
LEMMA CompactStands ==
  ASSUME NEW h, NEW n, Bounded(h, n),
         \A c \in Compact(h) : SaidAfter(Compact(h), c) = c.said
  PROVE  Compact(Compact(h)) = Compact(h)
<1> DEFINE C == Compact(h)
<1>1. \A s \in C : ~Gone(C, s) /\ Squeezed(C, s) = s
  BY PassLeaves
<1>2. Compact(C) \subseteq C
  BY <1>1, CompactOrigin
<1>3. C \subseteq Compact(C)
  <2> SUFFICES ASSUME NEW s \in C PROVE s \in Compact(C)
    OBVIOUS
  <2> HIDE DEF C
  <2> QED  BY <1>1, CompactImage
<1> QED
  BY <1>2, <1>3

\* A message, and what a pass made of it.
LEMMA PassOf ==
  ASSUME NEW h, NEW n, Bounded(h, n), NEW s \in Compact(h)
  PROVE  \E m \in h : /\ m \in Messages /\ s \in Messages /\ s.kind = m.kind
                      /\ s.said = SaidAfter(h, m) /\ (Recent(h, m) => Recent(Compact(h), s))
<1>1. PICK m \in h : s = Squeezed(h, m)
  BY CompactOrigin
<1>2. m \in Messages
  BY DEF Bounded
<1>3. s \in Messages /\ s.at = m.at /\ s.kind = m.kind /\ s.said = SaidAfter(h, m)
  BY <1>1, <1>2, SqueezedKeeps
<1>4. Recent(h, m) => Recent(Compact(h), s)
  BY <1>3, CompactBounded, RecentMonotone
<1> QED
  BY <1>2, <1>3, <1>4

\* An essay cut in three passes states its own length, and one left alone in the third
\* is left alone from then on.
LEMMA EssaySettles ==
  ASSUME NEW h, NEW n, Bounded(h, n), NEW s \in Compact(Compact(Compact(h)))
  PROVE  SaidAfter(Compact(Compact(Compact(h))), s) = s.said
<1> DEFINE C1 == Compact(h)
           C2 == Compact(C1)
           C3 == Compact(C2)
<1>0. Bounded(C1, n) /\ Bounded(C2, n)
  BY CompactBounded
<1>1. PICK m2 \in C2 : /\ m2 \in Messages /\ s \in Messages /\ s.kind = m2.kind
                       /\ s.said = SaidAfter(C2, m2) /\ (Recent(C2, m2) => Recent(C3, s))
  <2>1. s \in Compact(C2)
    OBVIOUS
  <2> HIDE DEF C1, C2
  <2> QED  BY <1>0, <2>1, PassOf DEF C3
<1>2. PICK m1 \in C1 : /\ m1 \in Messages /\ m2.kind = m1.kind
                       /\ m2.said = SaidAfter(C1, m1) /\ (Recent(C1, m1) => Recent(C2, m2))
  <2> HIDE DEF C1
  <2> QED  BY <1>0, PassOf
<1>3. PICK m0 \in h : /\ m0 \in Messages /\ m1.kind = m0.kind
                      /\ m1.said = SaidAfter(h, m0) /\ (Recent(h, m0) => Recent(C1, m1))
  BY PassOf
<1> HIDE DEF C1, C2, C3
<1> SUFFICES SaidAfter(C3, s) = s.said
  BY DEF C1, C2, C3
<1>4. CASE s.kind # "essay"
  BY <1>4 DEF SaidAfter, Cut
<1>5. CASE s.kind = "essay" /\ ~Recent(C2, m2)
  <2>1. ~Recent(C1, m1) /\ ~Recent(h, m0)
    BY <1>2, <1>3, <1>5
  <2>2. m1.said = Length(m0) /\ m2.said = Length(m1) /\ s.said = Length(m2)
    BY <1>1, <1>2, <1>3, <1>5, <2>1 DEF SaidAfter, Cut
  <2>3. m0.said \in Nat /\ m1.said \in Nat /\ m2.said \in Nat /\ s.said \in Nat
    BY <1>1, <1>2, <1>3 DEF Messages
  <2>4. m1.said > 0
    BY <1>1, <1>2, <1>3, <1>5, <2>2, <2>3, Sizes, SizesAssumption DEF Length
  <2>5. m2.said = CutLength(m1.said)
    BY <1>1, <1>2, <1>5, <2>2, <2>3, <2>4 DEF Length
  <2>6. m2.said > 0 /\ m2.said < 1000
    BY <2>3, <2>5, Sizes
  <2>7. s.said = 830
    BY <1>1, <1>5, <2>2, <2>3, <2>6, Sizes DEF Length
  <2>8. Length(s) = 830
    BY <1>5, <2>7, Sizes DEF Length
  <2> QED  BY <2>7, <2>8 DEF SaidAfter
<1>6. CASE s.kind = "essay" /\ Recent(C2, m2)
  <2>1. Recent(C3, s) /\ s.said \in Nat /\ m2.said \in Nat
    BY <1>1, <1>6 DEF Messages
  <2>2. Length(s) <= RecentShrinkThreshold
    <3>1. CASE s.said # 0
      BY <1>6, <2>1, <3>1, Sizes DEF Length
    <3>2. CASE s.said = 0
      <4>1. Length(m2) = IF m2.said = 0 THEN LongSize ELSE CutLength(m2.said)
        BY <1>1, <1>6 DEF Length
      <4>2. Length(m2) \in Nat /\ Length(m2) > 0
        BY <2>1, <4>1, Sizes, SizesAssumption
      <4>3. ~Cut(C2, m2) /\ m2.said = 0
        BY <1>1, <2>1, <3>2, <4>2 DEF SaidAfter
      <4>4. Length(m2) <= RecentShrinkThreshold
        BY <1>1, <1>6, <4>2, <4>3, Sizes DEF Cut
      <4> QED  BY <1>6, <3>2, <4>1, <4>3, <4>4 DEF Length
    <3> QED  BY <3>1, <3>2
  <2>3. Length(s) \in Nat
    BY <1>6, <2>1, Sizes DEF Length
  <2>4. ~Cut(C3, s)
    BY <2>1, <2>2, <2>3, Sizes DEF Cut
  <2> QED  BY <2>4 DEF SaidAfter
<1> QED
  BY <1>4, <1>5, <1>6

\* A second pass changes none but essays, and a fourth changes nothing.
LEMMA PassesSettle ==
  ASSUME NEW h, NEW n, Bounded(h, n)
  PROVE  /\ \A s \in Compact(h) : s.kind # "essay" => s \in Compact(Compact(h))
         /\ LET C3 == Compact(Compact(Compact(h))) IN Compact(C3) = C3
<1>1. ASSUME NEW s \in Compact(h), s.kind # "essay"
      PROVE  s \in Compact(Compact(h))
  <2>1. \A c \in Compact(h) : c.kind = s.kind => SaidAfter(Compact(h), c) = c.said
    BY <1>1 DEF SaidAfter, Cut
  <2>2. ~Gone(Compact(h), s) /\ Squeezed(Compact(h), s) = s
    BY <2>1, PassLeaves
  <2> QED  BY <2>2, CompactImage
<1>2. Bounded(Compact(Compact(h)), n)
  BY CompactBounded
<1>3. LET C3 == Compact(Compact(Compact(h))) IN Compact(C3) = C3
  BY <1>2, EssaySettles, CompactStands
<1> QED
  BY <1>1, <1>3

---------------------------------------------------------------------------
\* The shape of a conversation, and what backs the record of files seen.

WellFormed(h, n) ==
  /\ Bounded(h, n)
  /\ \A m, k \in h : m.at = k.at => m = k
  /\ \A m \in h : m.kind = "call" => m.file \in Files
  /\ \A m \in h : m.text \in Given => m.kind \in {"call", "result"}

Text(h, f, p) == \E m \in h : m.file = f /\ m.text \in Given /\ m.at >= p
Reading(h, c) ==
  /\ c \in h /\ c.kind = "call" /\ c.tool = "read"
  /\ Recent(h, c) /\ Answered(h, c)
\* A file seen has text a read or a write gave, and no read of its name in the window is
\* later than that.
Backed(h, S, d) ==
  \A f \in S :
    /\ f[1] = d
    /\ f[2] \notin Big =>
         /\ Text(h, f, 0)
         /\ \A c : Reading(h, c) /\ c.file[2] = f[2] => Text(h, f, c.at)

LEMMA BackedEmpty ==
  ASSUME NEW h, NEW d
  PROVE  Backed(h, {}, d)
  BY DEF Backed

\* A message joins the conversation at its end.
LEMMA PutWellFormed ==
  ASSUME NEW h, NEW n, WellFormed(h, n), NEW k \in Messages, k.at = n,
         k.kind = "call" => k.file \in Files,
         k.text \in Given => k.kind \in {"call", "result"}
  PROVE  WellFormed(h \cup {k}, n + 1)
<1> DEFINE g == h \cup {k}
<1>1. Bounded(g, n + 1)
  BY DEF WellFormed, Bounded, Messages
<1>2. ASSUME NEW m \in g, NEW j \in g, m.at = j.at PROVE m = j
  <2>1. \A i \in h : i.at < n /\ i.at \in Nat /\ n \in Nat
    BY DEF WellFormed, Bounded, Messages
  <2>2. CASE m \in h /\ j \in h
    BY <1>2, <2>2 DEF WellFormed
  <2>3. CASE m = k \/ j = k
    BY <1>2, <2>1, <2>3
  <2> QED  BY <2>2, <2>3
<1>3. \A m \in g : m.kind = "call" => m.file \in Files
  BY DEF WellFormed
<1>4. \A m \in g : m.text \in Given => m.kind \in {"call", "result"}
  BY DEF WellFormed
<1> QED
  BY <1>1, <1>2, <1>3, <1>4 DEF WellFormed

LEMMA PutRecent ==
  ASSUME NEW h, NEW n, WellFormed(h, n), NEW k \in Messages, k.at = n, NEW m,
         Recent(h \cup {k}, m)
  PROVE  Recent(h, m)
<1>2. Bounded(h \cup {k}, n + 1)
  BY DEF WellFormed, Bounded, Messages
<1>3. Positions(h) \subseteq Positions(h \cup {k})
  BY DEF Positions
<1> QED
  BY <1>2, <1>3, RecentMonotone

LEMMA TextGrows ==
  ASSUME NEW h, NEW k, NEW f, NEW p, Text(h, f, p)
  PROVE  Text(h \cup {k}, f, p)
  BY DEF Text

\* A read in the window is answered by an older result, or just now by the last message.
LEMMA PutReading ==
  ASSUME NEW h, NEW n, WellFormed(h, n), NEW k \in Messages, k.at = n,
         NEW c, Reading(h \cup {k}, c), c # k
  PROVE  /\ c \in h
         /\ Reading(h, c) \/ (k.kind = "result" /\ c.at = n - 1)
<1>1. c \in h /\ Recent(h, c) /\ c.at \in Nat
  BY PutRecent DEF Reading, WellFormed, Bounded, Messages
<1>2. PICK r \in h \cup {k} : r.kind = "result" /\ r.at = c.at + 1
  BY DEF Reading, Answered
<1>3. CASE r \in h
  BY <1>1, <1>2, <1>3 DEF Reading, Answered
<1>4. CASE r = k
  BY <1>1, <1>2, <1>4
<1> QED
  BY <1>1, <1>3, <1>4

LEMMA PutBacked ==
  ASSUME NEW h, NEW n, WellFormed(h, n), NEW k \in Messages, k.at = n,
         k.kind # "result", NEW S, NEW d, Backed(h, S, d)
  PROVE  Backed(h \cup {k}, S, d)
<1> DEFINE g == h \cup {k}
<1> SUFFICES ASSUME NEW f \in S, f[2] \notin Big
             PROVE  /\ Text(g, f, 0)
                    /\ \A c : Reading(g, c) /\ c.file[2] = f[2] => Text(g, f, c.at)
  BY DEF Backed
<1>1. Text(g, f, 0)
  BY TextGrows DEF Backed
<1>2. ASSUME NEW c, Reading(g, c), c.file[2] = f[2] PROVE Text(g, f, c.at)
  <2>1. c # k
    <3> SUFFICES ASSUME c = k PROVE FALSE
      OBVIOUS
    <3>1. PICK r \in g : r.kind = "result" /\ r.at = n + 1
      BY <1>2 DEF Reading, Answered
    <3>2. r \in h /\ r.at < n /\ n \in Nat
      BY <3>1 DEF WellFormed, Bounded
    <3> QED  BY <3>1, <3>2
  <2>2. Reading(h, c)
    BY <1>2, <2>1, PutReading
  <2>3. Text(h, f, c.at)
    BY <1>2, <2>2 DEF Backed
  <2> QED  BY <2>3, TextGrows
<1> QED
  BY <1>1, <1>2

\* A result joins the conversation behind the call it answers: the files seen that the
\* call may have named have their text no earlier than the call.
LEMMA ResultBacked ==
  ASSUME NEW h, NEW n, WellFormed(h, n), NEW k \in Messages, k.at = n,
         k.kind = "result", NEW c \in h, c.at = n - 1,
         NEW S, NEW T, NEW d, Backed(h, S, d),
         \A f \in T \ S : f[1] = d /\ Text(h \cup {k}, f, n - 1),
         \A f \in T : c.tool = "read" /\ f[2] = c.file[2] /\ f[2] \notin Big =>
                        Text(h \cup {k}, f, n - 1)
  PROVE  Backed(h \cup {k}, T, d)
<1> DEFINE g == h \cup {k}
<1>1. ASSUME NEW f \in T PROVE f[1] = d
  BY DEF Backed
<1>2. ASSUME NEW f \in T, f[2] \notin Big PROVE Text(g, f, 0)
  <2>1. CASE f \in S
    BY <1>2, <2>1, TextGrows DEF Backed
  <2>2. CASE f \notin S
    <3>1. PICK m \in g : m.file = f /\ m.text \in Given /\ m.at >= n - 1
      BY <2>2 DEF Text
    <3>2. m.at \in Nat
      BY DEF WellFormed, Bounded, Messages
    <3> QED  BY <3>1, <3>2 DEF Text
  <2> QED  BY <2>1, <2>2
<1>3. ASSUME NEW f \in T, f[2] \notin Big, NEW e, Reading(g, e), e.file[2] = f[2]
      PROVE  Text(g, f, e.at)
  <2>1. e # k /\ e \in h /\ e.at \in Nat /\ e.at < n /\ n \in Nat
    BY <1>3 DEF Reading, WellFormed, Bounded, Messages
  <2>2. Reading(h, e) \/ e.at = n - 1
    BY <1>3, <2>1, PutReading
  <2>3. CASE e.at = n - 1
    <3>1. e = c
      BY <2>1, <2>3 DEF WellFormed
    <3> QED  BY <1>3, <2>3, <3>1 DEF Reading
  <2>4. CASE Reading(h, e) /\ f \in S
    <3>1. Text(h, f, e.at)
      BY <1>3, <2>4 DEF Backed
    <3> QED  BY <3>1, TextGrows
  <2>5. CASE f \notin S
    <3>1. PICK m \in g : m.file = f /\ m.text \in Given /\ m.at >= n - 1
      BY <2>5 DEF Text
    <3>2. m.at \in Nat
      BY DEF WellFormed, Bounded, Messages
    <3> QED  BY <2>1, <3>1, <3>2 DEF Text
  <2> QED  BY <2>2, <2>3, <2>4, <2>5
<1> QED
  BY <1>1, <1>2, <1>3 DEF Backed

\* A pass keeps the shape.
LEMMA CompactWellFormed ==
  ASSUME NEW h, NEW n, WellFormed(h, n)
  PROVE  WellFormed(Compact(h), n)
<1>1. Bounded(Compact(h), n)
  BY CompactBounded DEF WellFormed
<1>2. ASSUME NEW s \in Compact(h)
      PROVE  \E m \in h : /\ s = Squeezed(h, m) /\ m \in Messages /\ s.at = m.at
                          /\ s.kind = m.kind /\ s.file = m.file
                          /\ s.text = (IF Shrunk(h, m) THEN "cut" ELSE m.text)
  <2>1. PICK m \in h : s = Squeezed(h, m)
    BY CompactOrigin
  <2>2. m \in Messages
    BY DEF WellFormed, Bounded
  <2> QED  BY <2>1, <2>2, SqueezedKeeps
<1>3. ASSUME NEW s \in Compact(h), NEW t \in Compact(h), s.at = t.at PROVE s = t
  <2>1. PICK m \in h : s = Squeezed(h, m) /\ s.at = m.at
    BY <1>2
  <2>2. PICK k \in h : t = Squeezed(h, k) /\ t.at = k.at
    BY <1>2
  <2>3. m = k
    BY <1>3, <2>1, <2>2 DEF WellFormed
  <2> QED  BY <2>1, <2>2, <2>3
<1>4. \A s \in Compact(h) : s.kind = "call" => s.file \in Files
  BY <1>2 DEF WellFormed
<1>5. ASSUME NEW s \in Compact(h), s.text \in Given PROVE s.kind \in {"call", "result"}
  BY <1>2, <1>5 DEF WellFormed, Given
<1> QED
  BY <1>1, <1>3, <1>4, <1>5 DEF WellFormed

\* A read in the window of a compacted conversation was in the window before.
LEMMA CompactReading ==
  ASSUME NEW h, NEW n, WellFormed(h, n), \A k \in h : Recent(h, k) => ~Gone(h, k),
         NEW s, Reading(Compact(h), s)
  PROVE  \E c : Reading(h, c) /\ c.at = s.at /\ c.file = s.file
<1>1. PICK c \in h : ~Gone(h, c) /\ s = Squeezed(h, c)
  BY CompactOrigin DEF Reading
<1>2. c \in Messages
  BY DEF WellFormed, Bounded
<1>3. s.at = c.at /\ s.kind = c.kind /\ s.tool = c.tool /\ s.file = c.file
  BY <1>1, <1>2, SqueezedKeeps
<1>4. Recent(h, c)
  BY <1>1, WindowStands DEF Reading, WellFormed
<1>5. PICK r \in Compact(h) : r.kind = "result" /\ r.at = s.at + 1
  BY DEF Reading, Answered
<1>6. PICK q \in h : r = Squeezed(h, q)
  BY CompactOrigin
<1>7. q \in Messages
  BY DEF WellFormed, Bounded
<1>8. q.kind = "result" /\ q.at = c.at + 1
  BY <1>3, <1>5, <1>6, <1>7, SqueezedKeeps
<1> QED
  BY <1>3, <1>4, <1>8 DEF Reading, Answered

LEMMA CompactBacked ==
  ASSUME NEW h, NEW n, WellFormed(h, n), \A k \in h : Recent(h, k) => ~Gone(h, k),
         NEW S, Backed(h, S, cwd), S \subseteq Files
  PROVE  Backed(Compact(h), S \cap Intact(Compact(h)), cwd)
<1> DEFINE C == Compact(h)
<1>1. ASSUME NEW f \in S, f[2] \notin Big, NEW s, Reading(C, s), s.file[2] = f[2]
      PROVE  Text(C, f, s.at)
  <2>1. PICK c : Reading(h, c) /\ c.at = s.at /\ c.file = s.file
    BY <1>1, CompactReading
  <2>2. PICK m \in h : m.file = f /\ m.text \in Given /\ m.at >= c.at
    BY <1>1, <2>1 DEF Backed, Text
  <2>3. m \in Messages /\ c \in Messages /\ m.kind \in {"call", "result"}
    BY <2>1, <2>2 DEF Reading, WellFormed, Bounded
  <2>4. Recent(h, m)
    <3>1. After(h, m.at) \in SUBSET After(h, c.at)
      BY <2>2, <2>3 DEF After, Positions, Messages, WellFormed, Bounded
    <3>2. IsFiniteSet(After(h, c.at)) /\ Cardinality(After(h, c.at)) \in Nat
      BY AfterFinite DEF WellFormed
    <3>3. Cardinality(After(h, m.at)) <= Cardinality(After(h, c.at))
      BY <3>1, <3>2, FS_Subset
    <3>4. Cardinality(After(h, m.at)) \in Nat
      BY AfterFinite DEF WellFormed
    <3>5. Cardinality(After(h, c.at)) < Keep
      BY <2>1, RecentIsAfter DEF Reading
    <3>6. Cardinality(After(h, m.at)) < Keep
      BY <3>2, <3>3, <3>4, <3>5, ConstantsAssumption
    <3> QED  BY <3>6, RecentIsAfter
  <2>5. m \in C
    BY <1>1, <2>2, <2>3, <2>4, RecentTextStays
  <2> QED  BY <2>1, <2>2, <2>5 DEF Text
<1>2. ASSUME NEW f \in S \cap Intact(C), f[2] \notin Big PROVE Text(C, f, 0)
  <2>1. PICK s \in C : /\ s.kind = "call" /\ s.tool = "read" /\ Recent(C, s)
                       /\ Answered(C, s) /\ f = <<cwd, s.file[2]>>
    BY DEF Intact
  <2>2. Reading(C, s) /\ s.file[2] = f[2]
    BY <2>1 DEF Reading
  <2>3. Text(C, f, s.at)
    BY <1>1, <1>2, <2>2
  <2>4. s.at \in Nat /\ \A m \in C : m.at \in Nat
    BY CompactBounded DEF WellFormed, Bounded, Messages
  <2> QED  BY <2>3, <2>4 DEF Text
<1> QED
  BY <1>1, <1>2 DEF Backed

---------------------------------------------------------------------------
\* The inductive invariant.

PendingOK ==
  pc = "tools" => \A c \in Pending : c.file[1] = cwd /\ (c.tool = "write" => c.text \in Given)
SessionOK == WellFormed(session.history, session.next) /\ session.next <= MaxSaved
IInv ==
  /\ TypeOK /\ WellFormed(history, next) /\ next <= MaxMessages + notices
  /\ SessionOK /\ PendingOK
  /\ pc = "saving" => next <= MaxSaved
  /\ ~slipped => Backed(history, seen, cwd)

LEMMA MessageIs ==
  ASSUME TypeOK, NEW kind \in Kinds, NEW tool \in Tools, NEW file \in Files \cup {NoFile},
         NEW text \in {"none", "part", "whole", "cut"}
  PROVE  LET m == Message(kind, tool, file, text) IN
           /\ m \in Messages /\ m.at = next /\ m.kind = kind /\ m.tool = tool
           /\ m.file = file /\ m.text = text
  BY DEF TypeOK, Message, Messages

LEMMA EmptyIsWellFormed == WellFormed({}, 0)
  BY DEF WellFormed, Bounded

LEMMA Bounds ==
  /\ MaxMessages \in Nat /\ MaxNotices \in Nat /\ MaxSaved \in Nat /\ MaxSaved <= MaxMessages
  /\ 0 \in 0..MaxNotices /\ 0 \in 0..(MaxMessages + MaxNotices)
  /\ \A n \in Nat, k \in 0..MaxNotices :
       n <= MaxMessages + k => n \in 0..(MaxMessages + MaxNotices)
  /\ \A n \in Nat, k \in 0..MaxNotices : n <= MaxMessages => n <= MaxMessages + k
  BY ConstantsAssumption

LEMMA InitIInv ==
  ASSUME Init
  PROVE  IInv
<1>1. TypeOK
  <2>1. NoSession \in Sessions
    BY ConstantsAssumption DEF NoSession, Sessions
  <2> QED  BY <2>1, ConstantsAssumption, Bounds DEF Init, TypeOK
<1>2. SessionOK /\ PendingOK
  BY EmptyIsWellFormed, ConstantsAssumption DEF Init, SessionOK, PendingOK, NoSession
<1>3. Backed(history, seen, cwd)
  BY BackedEmpty DEF Init
<1>4. WellFormed(history, next) /\ next <= MaxMessages + notices
  BY EmptyIsWellFormed, Bounds DEF Init
<1> QED
  BY <1>1, <1>2, <1>3, <1>4 DEF IInv, Init

\* A request, a prose answer, a call: one message that is not a result.
LEMMA PutStep ==
  ASSUME IInv, Room, NEW kind \in {"prompt", "nudge", "claim", "essay", "reply", "call"},
         NEW tool \in Tools, NEW file \in Files \cup {NoFile}, NEW text \in {"none", "whole"},
         kind = "call" => file \in Files, text \in Given => kind = "call",
         Put(history, Message(kind, tool, file, text))
  PROVE  /\ WellFormed(history', next') /\ next' \in Nat /\ next' <= MaxMessages
         /\ history' \subseteq Messages /\ \A m \in history' : m.at < next'
         /\ \A S, d : Backed(history, S, d) => Backed(history', S, d)
         /\ \A m \in history' : m.at = next' - 1 => m = Message(kind, tool, file, text)
<1> DEFINE k == Message(kind, tool, file, text)
<1>1. /\ k \in Messages /\ k.at = next /\ k.kind = kind /\ k.tool = tool
      /\ k.file = file /\ k.text = text
  BY MessageIs DEF IInv, Kinds
<1>2. history' = history \cup {k} /\ next' = next + 1
  BY DEF Put
<1>3. WellFormed(history, next) /\ next \in Nat /\ MaxMessages \in Nat
  BY ConstantsAssumption DEF IInv, WellFormed, Bounded
<1> HIDE DEF k
<1>4. WellFormed(history', next')
  BY <1>1, <1>2, <1>3, PutWellFormed
<1>5. \A S, d : Backed(history, S, d) => Backed(history', S, d)
  BY <1>1, <1>2, <1>3, PutBacked
<1>6. next' \in Nat /\ next' <= MaxMessages
  BY <1>2, <1>3 DEF Room
<1>7. \A m \in history' : m.at = next' - 1 => m = k
  BY <1>1, <1>2, <1>3 DEF WellFormed, Bounded, Messages
<1> QED
  BY <1>4, <1>5, <1>6, <1>7 DEF WellFormed, Bounded, k

LEMMA AskStep ==
  ASSUME IInv, Ask
  PROVE  IInv'
<1>1. Room /\ Put(history, Message("prompt", "none", NoFile, "none"))
  BY DEF Ask, Say
<1>2. /\ WellFormed(history', next') /\ next' \in Nat /\ next' <= MaxMessages
      /\ history' \subseteq Messages /\ \A m \in history' : m.at < next'
      /\ \A S, d : Backed(history, S, d) => Backed(history', S, d)
  BY <1>1, PutStep DEF Tools, Given
<1>3. TypeOK' /\ next' <= MaxMessages + notices'
  BY <1>2, ConstantsAssumption DEF IInv, TypeOK, Ask
<1>4. SessionOK' /\ PendingOK' /\ (~slipped' => Backed(history', seen', cwd'))
  BY <1>2 DEF IInv, SessionOK, PendingOK, Ask
<1> QED
  BY <1>2, <1>3, <1>4 DEF IInv, Ask

LEMMA AnswerStep ==
  ASSUME IInv, NEW kind \in {"claim", "essay", "reply"}, Answer(kind)
  PROVE  IInv'
<1>1. Room /\ Put(history, Message(kind, "none", NoFile, "none"))
  BY DEF Answer, Say
<1>2. /\ WellFormed(history', next') /\ next' \in Nat /\ next' <= MaxMessages
      /\ history' \subseteq Messages /\ \A m \in history' : m.at < next'
      /\ \A S, d : Backed(history, S, d) => Backed(history', S, d)
  BY <1>1, PutStep DEF Tools, Given
<1>3. TypeOK' /\ next' <= MaxMessages + notices'
  BY <1>2, ConstantsAssumption DEF IInv, TypeOK, Answer
<1>4. SessionOK' /\ PendingOK' /\ (~slipped' => Backed(history', seen', cwd'))
  BY <1>2 DEF IInv, SessionOK, PendingOK, Answer
<1> QED
  BY <1>2, <1>3, <1>4 DEF IInv, Answer

LEMMA NudgeStep ==
  ASSUME IInv, Discarded \/ GuardNudge
  PROVE  IInv'
<1>1. /\ Room /\ Put(history, Message("nudge", "none", NoFile, "none"))
      /\ pc' = "check" /\ UNCHANGED <<cwd, seen, notices, session, slipped>>
  BY DEF Discarded, GuardNudge, Say
<1>2. /\ WellFormed(history', next') /\ next' \in Nat /\ next' <= MaxMessages
      /\ history' \subseteq Messages /\ \A m \in history' : m.at < next'
      /\ \A S, d : Backed(history, S, d) => Backed(history', S, d)
  BY <1>1, PutStep DEF Tools, Given
<1>3. TypeOK' /\ next' <= MaxMessages + notices'
  BY <1>1, <1>2, ConstantsAssumption DEF IInv, TypeOK
<1>4. SessionOK' /\ PendingOK' /\ (~slipped' => Backed(history', seen', cwd'))
  BY <1>1, <1>2 DEF IInv, SessionOK, PendingOK
<1> QED
  BY <1>1, <1>2, <1>3, <1>4 DEF IInv

LEMMA CallStep ==
  ASSUME IInv, NEW tool \in Tools \ {"none"}, NEW name \in Names, Call(tool, name)
  PROVE  IInv'
<1> DEFINE text == IF tool = "write" THEN "whole" ELSE "none"
<1>1. <<cwd, name>> \in Files /\ text \in {"none", "whole"}
  BY DEF IInv, TypeOK, Files
<1>2. Room /\ Put(history, Message("call", tool, <<cwd, name>>, text))
  BY DEF Call
<1>3. /\ WellFormed(history', next') /\ next' \in Nat /\ next' <= MaxMessages
      /\ history' \subseteq Messages /\ \A m \in history' : m.at < next'
      /\ \A S, d : Backed(history, S, d) => Backed(history', S, d)
      /\ \A m \in history' : m.at = next' - 1 =>
                               m = Message("call", tool, <<cwd, name>>, text)
  <2> HIDE DEF text
  <2> QED  BY <1>1, <1>2, PutStep
<1>4. TypeOK' /\ next' <= MaxMessages + notices'
  BY <1>3, ConstantsAssumption DEF IInv, TypeOK, Call
<1>5. SessionOK' /\ (~slipped' => Backed(history', seen', cwd'))
  BY <1>3 DEF IInv, SessionOK, Call
<1>6. PendingOK'
  BY <1>3 DEF PendingOK, Pending, Message, Call, Given
<1> QED
  BY <1>3, <1>4, <1>5, <1>6 DEF IInv, Call

LEMMA NudgedStep ==
  ASSUME IInv, NEW kind \in {"claim", "essay", "reply"}, Nudged(kind)
  PROVE  IInv'
<1> DEFINE k == Message(kind, "none", NoFile, "none")
           j == [Message("nudge", "none", NoFile, "none") EXCEPT !.at = next + 1]
<1>1. /\ k \in Messages /\ k.at = next /\ k.kind = kind /\ k.text = "none"
      /\ j \in Messages /\ j.at = next + 1 /\ j.kind = "nudge" /\ j.text = "none"
  <2>1. next \in Nat /\ next + 1 \in Nat
    BY ConstantsAssumption DEF IInv, TypeOK
  <2>2. k \in Messages /\ k.at = next /\ k.kind = kind /\ k.text = "none"
    BY MessageIs DEF IInv, Kinds, Tools
  <2> DEFINE i == Message("nudge", "none", NoFile, "none")
  <2>3. i \in Messages /\ i.kind = "nudge" /\ i.text = "none"
    BY MessageIs DEF IInv, Kinds, Tools
  <2> HIDE DEF i
  <2>4. [i EXCEPT !.at = next + 1] \in Messages
    BY <2>1, <2>3 DEF Messages
  <2>5. j = [i EXCEPT !.at = next + 1]
    BY DEF i
  <2>6. j.at = next + 1 /\ j.kind = "nudge" /\ j.text = "none"
    BY <2>3, <2>5 DEF Messages
  <2> QED  BY <2>2, <2>4, <2>5, <2>6
<1>2. history' = (history \cup {k}) \cup {j} /\ next' = (next + 1) + 1
  BY DEF Nudged, IInv, TypeOK
<1>3. WellFormed(history, next) /\ next \in Nat /\ MaxMessages \in Nat
  BY ConstantsAssumption DEF IInv, WellFormed, Bounded
<1> HIDE DEF k, j
<1>4. WellFormed(history \cup {k}, next + 1)
  BY <1>1, <1>3, PutWellFormed DEF Given
<1>5. WellFormed(history', next')
  BY <1>1, <1>2, <1>4, PutWellFormed DEF Given
<1>6. \A S, d : Backed(history, S, d) => Backed(history \cup {k}, S, d)
  BY <1>1, <1>3, PutBacked
<1>7. \A S, d : Backed(history \cup {k}, S, d) => Backed(history', S, d)
  BY <1>1, <1>2, <1>4, PutBacked
<1>8. next' \in Nat /\ next' <= MaxMessages
  BY <1>2, <1>3 DEF Nudged
<1>9. TypeOK' /\ next' <= MaxMessages + notices'
  BY <1>5, <1>8, ConstantsAssumption DEF IInv, TypeOK, Nudged, WellFormed, Bounded
<1>10. SessionOK' /\ PendingOK' /\ (~slipped' => Backed(history', seen', cwd'))
  BY <1>6, <1>7 DEF IInv, SessionOK, PendingOK, Nudged
<1> QED
  BY <1>5, <1>9, <1>10 DEF IInv, Nudged

\* The pass, and the notice behind it.
LEMMA NoticeStep ==
  ASSUME IInv, NEW h, WellFormed(h, next), NoticeDue,
         Put(h, Message("nudge", "none", NoFile, "none"))
  PROVE  /\ WellFormed(history', next') /\ next' = next + 1
         /\ \A S, d : Backed(h, S, d) => Backed(history', S, d)
<1> DEFINE k == Message("nudge", "none", NoFile, "none")
<1>1. k \in Messages /\ k.at = next /\ k.kind = "nudge" /\ k.text = "none"
  BY MessageIs DEF IInv, Kinds, Tools
<1>2. history' = h \cup {k} /\ next' = next + 1
  BY DEF Put
<1> HIDE DEF k
<1>3. WellFormed(history', next')
  BY <1>1, <1>2, PutWellFormed DEF Given
<1>4. \A S, d : Backed(h, S, d) => Backed(history', S, d)
  BY <1>1, <1>2, PutBacked
<1> QED
  BY <1>2, <1>3, <1>4

LEMMA AutoCompactStep ==
  ASSUME IInv, AutoCompact
  PROVE  IInv'
<1> DEFINE h == Compact(history)
<1>1. WellFormed(h, next) /\ next \in Nat
  BY CompactWellFormed DEF IInv, WellFormed, Bounded
<1>2. ~slipped' => Backed(h, seen', cwd)
  <2> SUFFICES ASSUME ~slipped' PROVE Backed(h, seen', cwd)
    OBVIOUS
  <2>1. ~slipped /\ \A m \in history : Recent(history, m) => ~Gone(history, m)
    BY DEF AutoCompact
  <2>2. seen' = seen \cap Intact(h) /\ seen \subseteq Files
    BY DEF AutoCompact, IInv, TypeOK
  <2> QED  BY <2>1, <2>2, CompactBacked DEF IInv
<1>3. /\ WellFormed(history', next') /\ next' <= MaxMessages + notices'
      /\ notices' \in 0..MaxNotices
      /\ \A S, d : Backed(h, S, d) => Backed(history', S, d)
  <2>1. CASE NoticeDue
    <3>1. Put(h, Message("nudge", "none", NoFile, "none")) /\ notices' = notices + 1
      BY <2>1 DEF AutoCompact
    <3> HIDE DEF h
    <3> QED
      BY <1>1, <2>1, <3>1, NoticeStep, ConstantsAssumption DEF IInv, TypeOK, NoticeDue
  <2>2. CASE ~NoticeDue
    <3>1. history' = h /\ next' = next /\ notices' = notices
      BY <2>2 DEF AutoCompact
    <3> QED  BY <1>1, <3>1 DEF IInv, TypeOK
  <2> QED  BY <2>1, <2>2
<1>4. TypeOK'
  <2>1. next' \in 0..(MaxMessages + MaxNotices)
    <3>1. next' \in Nat
      BY <1>3 DEF WellFormed, Bounded
    <3> QED  BY <1>3, <3>1, Bounds
  <2>2. slipped' \in BOOLEAN /\ pc' \in {"idle", "reply"}
    BY DEF AutoCompact, AfterCheck, IInv, TypeOK
  <2> QED
    BY <1>3, <2>1, <2>2 DEF IInv, TypeOK, AutoCompact, WellFormed, Bounded
<1>5. SessionOK' /\ PendingOK' /\ pc' # "saving"
  BY DEF IInv, SessionOK, PendingOK, AutoCompact, AfterCheck
<1>6. ~slipped' => Backed(history', seen', cwd')
  BY <1>2, <1>3 DEF AutoCompact
<1> QED
  BY <1>3, <1>4, <1>5, <1>6 DEF IInv

\* A call gets its result.
LEMMA ResultStep ==
  ASSUME IInv, NEW c \in Pending, NEW text \in {"none", "part", "whole"}, Result(c, text)
  PROVE  /\ WellFormed(history', next') /\ next' \in Nat /\ next' <= MaxMessages
         /\ c \in history /\ c.at = next - 1 /\ c.file \in Files /\ c.file[1] = cwd
         /\ c.tool = "write" => c.text \in Given
         /\ \E k \in Messages : /\ history' = history \cup {k} /\ k.at = next
                                /\ k.kind = "result" /\ k.file = c.file /\ k.text = text
         /\ SessionOK' /\ PendingOK' /\ pc' = "check"
<1>1. /\ c \in history /\ c.at = next - 1 /\ c.kind = "call" /\ c \in Messages
      /\ c.file \in Files
  BY DEF Pending, IInv, WellFormed, Bounded
<1>2. c.file[1] = cwd /\ (c.tool = "write" => c.text \in Given)
  BY DEF Result, IInv, PendingOK
<1> DEFINE k == Message("result", c.tool, c.file, text)
<1>3. /\ k \in Messages /\ k.at = next /\ k.kind = "result" /\ k.file = c.file
      /\ k.text = text
  BY <1>1, MessageIs DEF IInv, Kinds, Messages
<1>4. history' = history \cup {k} /\ next' = next + 1 /\ pc' = "check" /\ Room
  BY DEF Result, Put
<1>5. WellFormed(history, next) /\ next \in Nat /\ MaxMessages \in Nat
  BY ConstantsAssumption DEF IInv, WellFormed, Bounded
<1> HIDE DEF k
<1>6. WellFormed(history', next')
  BY <1>3, <1>4, <1>5, PutWellFormed
<1>7. SessionOK' /\ PendingOK'
  BY <1>4 DEF IInv, SessionOK, PendingOK, Result
<1> QED
  BY <1>1, <1>2, <1>3, <1>4, <1>5, <1>6, <1>7 DEF Room

LEMMA ResultTypes ==
  ASSUME IInv, NEW c \in Pending, NEW text \in {"none", "part", "whole"}, Result(c, text),
         seen' \subseteq Files, slipped' \in BOOLEAN,
         ~slipped' => Backed(history', seen', cwd)
  PROVE  IInv'
<1>1. /\ WellFormed(history', next') /\ next' \in Nat /\ next' <= MaxMessages
      /\ SessionOK' /\ PendingOK' /\ pc' = "check"
  BY ResultStep
<1>2. TypeOK' /\ next' <= MaxMessages + notices'
  BY <1>1, ConstantsAssumption DEF IInv, TypeOK, Result, WellFormed, Bounded
<1> QED
  BY <1>1, <1>2 DEF IInv, Result

LEMMA ReadStep ==
  ASSUME IInv, NEW c \in Pending, NEW text \in Given, ReadFile(c, text)
  PROVE  IInv'
<1>0. text \in {"none", "part", "whole"}
  BY DEF Given
<1>1. Result(c, text) /\ seen' = seen \cup {c.file} /\ slipped' = slipped
  BY DEF ReadFile, Given
<1>2. c \in history /\ c.at = next - 1 /\ c.file \in Files /\ c.file[1] = cwd
  BY <1>0, <1>1, ResultStep
<1>3. PICK k \in Messages : /\ history' = history \cup {k} /\ k.at = next
                            /\ k.kind = "result" /\ k.file = c.file /\ k.text \in Given
  BY <1>0, <1>1, ResultStep
<1>4. Text(history', c.file, next - 1)
  BY <1>3 DEF Text, IInv, TypeOK
<1>5. ASSUME ~slipped' PROVE Backed(history', seen', cwd)
  <2>1. Backed(history, seen, cwd) /\ WellFormed(history, next)
    BY <1>1, <1>5 DEF IInv
  <2>2. \A f \in seen' : f[2] = c.file[2] => f = c.file
    BY <1>1, <1>2, <2>1 DEF Backed, Files, IInv, TypeOK
  <2>3. \A f \in seen' \ seen : f = c.file
    BY <1>1
  <2> QED  BY <1>1, <1>2, <1>3, <1>4, <2>1, <2>2, <2>3, ResultBacked, SMTT(30)
<1>6. seen' \subseteq Files /\ slipped' \in BOOLEAN
  BY <1>1, <1>2 DEF IInv, TypeOK
<1> QED
  BY <1>0, <1>1, <1>5, <1>6, ResultTypes

LEMMA WriteStep ==
  ASSUME IInv, NEW c \in Pending, WriteFile(c)
  PROVE  IInv'
<1>1. Result(c, "none") /\ seen' = seen \cup {c.file} /\ slipped' = slipped
      /\ c.tool = "write"
  BY DEF WriteFile
<1>2. /\ c \in history /\ c.at = next - 1 /\ c.file \in Files /\ c.file[1] = cwd
      /\ c.text \in Given
  BY <1>1, ResultStep
<1>3. PICK k \in Messages : /\ history' = history \cup {k} /\ k.at = next
                            /\ k.kind = "result"
  BY <1>1, ResultStep
<1>4. Text(history', c.file, next - 1)
  BY <1>2, <1>3 DEF Text, IInv, TypeOK
<1>5. ASSUME ~slipped' PROVE Backed(history', seen', cwd)
  <2>1. Backed(history, seen, cwd) /\ WellFormed(history, next)
    BY <1>1, <1>5 DEF IInv
  <2>2. \A f \in seen' \ seen : f = c.file
    BY <1>1
  <2> QED  BY <1>1, <1>2, <1>3, <1>4, <2>1, <2>2, ResultBacked
<1>6. seen' \subseteq Files /\ slipped' \in BOOLEAN
  BY <1>1, <1>2 DEF IInv, TypeOK
<1> QED
  BY <1>1, <1>5, <1>6, ResultTypes

LEMMA OtherResultStep ==
  ASSUME IInv, NEW c \in Pending, EditFile(c) \/ FailedCall(c)
  PROVE  IInv'
<1>1. /\ Result(c, "none") /\ seen' = seen /\ slipped' \in BOOLEAN
      /\ ~slipped' => ~slipped /\ ~(c.tool = "read" /\ c.file \in seen)
  BY DEF EditFile, FailedCall, IInv, TypeOK
<1>2. c \in history /\ c.at = next - 1 /\ c.file \in Files /\ c.file[1] = cwd
  BY <1>1, ResultStep
<1>3. PICK k \in Messages : /\ history' = history \cup {k} /\ k.at = next
                            /\ k.kind = "result"
  BY <1>1, ResultStep
<1>4. ASSUME ~slipped' PROVE Backed(history', seen', cwd)
  <2>1. Backed(history, seen, cwd) /\ WellFormed(history, next)
    BY <1>1, <1>4 DEF IInv
  <2>2. \A f \in seen : f[2] = c.file[2] => f = c.file
    BY <1>1, <1>2, <2>1 DEF Backed, Files, IInv, TypeOK
  <2> QED  BY <1>1, <1>2, <1>3, <1>4, <2>1, <2>2, ResultBacked
<1>5. seen' \subseteq Files
  BY <1>1 DEF IInv, TypeOK
<1> QED
  BY <1>1, <1>4, <1>5, ResultTypes

\* The commands between turns, and a restart.
LEMMA IdleStep ==
  ASSUME IInv,
         \/ CheckSize \/ Interrupt \/ Stopped \/ Clear \/ CompactCommand \/ SaveBegins
         \/ SaveEnds \/ SaveFails \/ Resume \/ Restart \/ \E d \in Dirs : ChangeDir(d)
  PROVE  IInv'
<1> USE DEF IInv
<1>1. CASE CheckSize
  BY <1>1 DEF CheckSize, AfterCheck, TypeOK, SessionOK, PendingOK
<1>2. CASE Interrupt
  BY <1>2 DEF Interrupt, TypeOK, SessionOK, PendingOK
<1>3. CASE Clear
  <2>1. 0 <= MaxMessages + notices
    BY Bounds DEF TypeOK
  <2>2. TypeOK'
    BY <1>3, Bounds DEF Clear, ForgetAll, TypeOK
  <2> QED
    BY <1>3, <2>1, <2>2, EmptyIsWellFormed, BackedEmpty, Bounds
       DEF Clear, ForgetAll, SessionOK, PendingOK
<1>4. CASE CompactCommand
  <2>1. WellFormed(history', next)
    BY <1>4, CompactWellFormed DEF CompactCommand
  <2> QED
    BY <1>4, <2>1, BackedEmpty DEF CompactCommand, ForgetAll, TypeOK, SessionOK, PendingOK,
       WellFormed, Bounded
<1>5. CASE \E d \in Dirs : ChangeDir(d)
  BY <1>5, BackedEmpty DEF ChangeDir, TypeOK, SessionOK, PendingOK
<1>6. CASE SaveBegins
  BY <1>6, EmptyIsWellFormed, ConstantsAssumption
     DEF SaveBegins, TornSession, NoSession, TypeOK, Sessions, SessionOK, PendingOK
<1>7. CASE SaveEnds
  BY <1>7 DEF SaveEnds, TypeOK, Sessions, SessionOK, PendingOK
<1>8. CASE SaveFails
  BY <1>8 DEF SaveFails, TypeOK, SessionOK, PendingOK
<1>9. CASE Resume
  <2>1. WellFormed(history', next') /\ next' <= MaxSaved /\ next' \in Nat /\ cwd' \in Dirs
    BY <1>9 DEF Resume, SessionOK, TypeOK, Sessions
  <2>2. TypeOK' /\ next' <= MaxMessages + notices'
    <3>1. next' <= MaxMessages
      BY <2>1, Bounds
    <3>2. notices' = notices /\ notices \in 0..MaxNotices
      BY <1>9 DEF Resume, TypeOK
    <3>3. next' <= MaxMessages + notices' /\ next' \in 0..(MaxMessages + MaxNotices)
      BY <2>1, <3>1, <3>2, Bounds
    <3> QED
      BY <1>9, <2>1, <3>3 DEF Resume, ForgetAll, TypeOK, WellFormed, Bounded
  <2> QED
    BY <1>9, <2>1, <2>2, BackedEmpty DEF Resume, ForgetAll, SessionOK, PendingOK
<1>10. CASE Restart
  <2>1. 0 <= MaxMessages + 0
    BY Bounds
  <2>2. next' \in 0..(MaxMessages + MaxNotices) /\ notices' \in 0..MaxNotices
    BY <1>10, Bounds DEF Restart
  <2>3. TypeOK'
    BY <1>10, <2>2, ConstantsAssumption DEF Restart, ForgetAll, TypeOK
  <2> QED
    BY <1>10, <2>1, <2>3, EmptyIsWellFormed, BackedEmpty
       DEF Restart, ForgetAll, SessionOK, PendingOK
<1>11. CASE Stopped
  BY <1>11 DEF Stopped, TypeOK, SessionOK, PendingOK
<1> QED
  BY <1>1, <1>2, <1>3, <1>4, <1>5, <1>6, <1>7, <1>8, <1>9, <1>10, <1>11

LEMMA NextIInv ==
  ASSUME IInv, [Next]_vars
  PROVE  IInv'
<1>1. CASE UNCHANGED vars
  BY <1>1 DEF IInv, vars, TypeOK, SessionOK, PendingOK, Pending
<1>2. CASE Next
  BY <1>2, AskStep, AnswerStep, CallStep, NudgedStep, NudgeStep, AutoCompactStep,
     ReadStep, WriteStep, OtherResultStep, IdleStep DEF Next
<1> QED
  BY <1>1, <1>2

\* The conversation stays well formed and backs the record of files read.
THEOREM InvariantHolds == Spec => []IInv
<1>1. IInv /\ [Next]_vars => IInv'
  BY NextIInv
<1> QED
  BY <1>1, InitIInv, PTL DEF Spec

---------------------------------------------------------------------------
\* The variables keep their types (loop.py, compact.py, session.py).
THEOREM TypeCorrect == Spec => []TypeOK
<1>1. IInv => TypeOK
  BY DEF IInv
<1> QED
  BY <1>1, InvariantHolds, PTL

\* Unless the record slipped, a file of ordinary size that an edit would be let through
\* to has text a read or a write gave in the conversation (_forget_seen).
THEOREM RecordHonest == Spec => []RecordIsHonest
<1>1. IInv => RecordIsHonest
  BY DEF IInv, Backed, Text, RecordIsHonest, HasText
<1> QED
  BY <1>1, InvariantHolds, PTL

\* A second pass of compact_history changes only long replies, and a fourth nothing.
THEOREM CompactionSettles == Spec => []CompactSettles
<1>1. IInv => CompactSettles
  BY PassesSettle DEF IInv, WellFormed, CompactSettles
<1> QED
  BY <1>1, InvariantHolds, PTL

\* A read that sits in the window keeps its file in the record when the check compacts.
THEOREM ReadsSurvive == Spec => RecentReadSurvives
<1> DEFINE Survives == \A c \in RecentReads : c.file \in seen => c.file \in seen'
<1>1. ASSUME IInv, AutoCompact PROVE Survives
  <2> SUFFICES ASSUME NEW c \in RecentReads, c.file \in seen
               PROVE  <<cwd, c.file[2]>> \in Intact(Compact(history)) /\ c.file = <<cwd, c.file[2]>>
    BY <1>1 DEF AutoCompact
  <2>1. /\ c \in history /\ c.kind = "call" /\ c.tool = "read" /\ c.file[1] = cwd
        /\ Recent(history, c) /\ Answered(history, c) /\ c \in Messages
    BY <1>1 DEF RecentReads, IInv, TypeOK
  <2>2. c.file = <<cwd, c.file[2]>>
    BY <1>1, <2>1 DEF IInv, TypeOK, Files
  <2>3. PICK r \in history : r.kind = "result" /\ r.at = c.at + 1
    BY <2>1 DEF Answered
  <2>4. r \in Messages
    BY <1>1 DEF IInv, TypeOK
  <2> DEFINE s == Squeezed(history, c)
             t == Squeezed(history, r)
  <2>5. /\ s \in Compact(history) /\ s.at = c.at /\ s.kind = "call" /\ s.tool = "read"
        /\ s.file = c.file
    BY <2>1, OthersStay, CompactImage, SqueezedKeeps
  <2>6. t \in Compact(history) /\ t.kind = "result" /\ t.at = c.at + 1
    BY <2>3, <2>4, OthersStay, CompactImage, SqueezedKeeps
  <2> HIDE DEF s, t
  <2>7. Recent(Compact(history), s)
    BY <1>1, <2>1, <2>5, CompactBounded, RecentMonotone DEF IInv, WellFormed
  <2>8. Answered(Compact(history), s)
    BY <2>5, <2>6 DEF Answered
  <2> QED  BY <2>2, <2>5, <2>7, <2>8 DEF Intact
<1>2. IInv /\ [Next]_vars => [AutoCompact => Survives]_vars
  BY <1>1
<1> QED
  BY <1>2, InvariantHolds, PTL DEF Spec, RecentReadSurvives

\* Only noise leaves the conversation inside a turn.
LEMMA CompactDropsNoise ==
  ASSUME NEW h, NEW n, WellFormed(h, n), NEW m \in h
  PROVE  \/ \E k \in Compact(h) : k.at = m.at /\ k.kind = m.kind /\ k.file = m.file
         \/ m.kind = "nudge"
         \/ /\ m.kind \in {"claim", "essay"}
            /\ \E k \in Compact(h) : k.kind = m.kind /\ k.at < m.at /\ k.again
<1>0. m \in Messages /\ \A k \in h : k \in Messages /\ k.at \in Nat
  BY DEF WellFormed, Bounded, Messages
<1>1. CASE ~Gone(h, m)
  BY <1>0, <1>1, CompactImage, SqueezedKeeps
<1>2. CASE Gone(h, m) /\ m.kind # "nudge"
  <2> DEFINE Same(j) == j.kind = m.kind /\ SaidAfter(h, j) = SaidAfter(h, m)
             T == {k.at : k \in {j \in h : Same(j)}}
  <2>1. PICK c \in h : c.at < m.at /\ m.kind \in {"claim", "essay"} /\ Same(c)
    BY <1>2 DEF Gone, Copies
  <2>2. T \subseteq Nat /\ c.at \in T
    BY <1>0, <2>1
  <2>3. PICK p \in T : \A q \in T : p <= q
    <3> HIDE DEF T
    <3> QED  BY <2>2, LeastPosition
  <2>4. PICK k \in h : Same(k) /\ k.at = p
    OBVIOUS
  <2>5. \A j \in h : Same(j) => k.at <= j.at
    BY <2>3, <2>4
  <2>6. k.at < m.at
    BY <1>0, <2>1, <2>4, <2>5
  <2>7. ~Gone(h, k)
    <3> SUFFICES ASSUME NEW j \in Copies(h, k), j.at < k.at PROVE FALSE
      BY <2>1, <2>4 DEF Gone
    <3>1. j \in h /\ Same(j)
      BY <2>4 DEF Copies
    <3> QED  BY <1>0, <2>5, <3>1
  <2>8. m \in Copies(h, k)
    BY <1>0, <2>1, <2>4, <2>6 DEF Copies
  <2>9. LET s == Squeezed(h, k) IN
          s \in Compact(h) /\ s.kind = m.kind /\ s.at = k.at /\ s.again
    BY <1>0, <2>4, <2>7, <2>8, CompactImage, SqueezedKeeps
  <2> QED  BY <2>1, <2>6, <2>9
<1> QED
  BY <1>1, <1>2

\* Inside a turn only nudges, and repeated claims and essays whose first copy stays, marked,
\* leave.
THEOREM NoiseOnly == Spec => OnlyNoiseGoes
<1> DEFINE Only == InTurn /\ next' >= next => \A m \in history : Leaves(m) => Noise(m)
<1>1. ASSUME IInv, Next, InTurn, next' >= next, NEW m \in history, Leaves(m)
      PROVE  Noise(m)
  <2>1. CASE AutoCompact
    <3>1. Compact(history) \subseteq history'
      BY <2>1 DEF AutoCompact, Put
    <3> QED  BY <1>1, <3>1, CompactDropsNoise DEF IInv, Leaves, Noise
  <2>2. CASE history \subseteq history'
    BY <1>1, <2>2 DEF Leaves
  <2>3. CASE Restart
    <3>1. next = 0 /\ m.at < next /\ m.at \in Nat
      BY <1>1, <2>3 DEF Restart, IInv, TypeOK, Messages
    <3> QED  BY <3>1
  <2>4. AutoCompact \/ Restart \/ history \subseteq history'
    BY <1>1 DEF Next, InTurn, Ask, CheckSize, Interrupt, Discarded, GuardNudge, Stopped, Call, Answer, Nudged,
       ReadFile, WriteFile, EditFile, FailedCall, Result, Put, Say, Clear, CompactCommand, ChangeDir,
       SaveBegins, SaveEnds, SaveFails, Resume
  <2> QED  BY <2>1, <2>2, <2>3, <2>4
<1>2. IInv /\ [Next]_vars => [Only]_vars
  BY <1>1
<1> QED
  BY <1>2, InvariantHolds, PTL DEF Spec, OnlyNoiseGoes
=============================================================================
