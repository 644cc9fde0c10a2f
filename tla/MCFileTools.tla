------------------------------ MODULE MCFileTools ------------------------------
\* A Python file in no place of note, one in the area, and one in a denied place.  The
\* texts are blocks of three kinds of line: one that opens a block, and two others which
\* are alike; the calls are one of each kind, over matches of each tier.
EXTENDS FileTools

L(indent, tok) == [indent |-> indent, tok |-> tok]
If == L(0, "if")
A(indent) == L(indent, "a")
B(indent) == L(indent, "b")

MCFiles == {"main", "box", "env"}
MCPython == {"main", "box"}
MCArea == [f \in MCFiles |->
  CASE f = "main" -> "plain" [] f = "box" -> "auto" [] f = "env" -> "deny"]
MCBase == [t \in Tools |-> IF t = "read_file" THEN "auto" ELSE "ask"]
MCToks == {"if", "a", "b", "c"}
MCOpeners == {"if"}
MCRatio(x, y) ==
  IF x = y THEN 100
  ELSE IF Len(x) = Len(y) /\ \A i \in DOMAIN x : x[i] = y[i] \/ {x[i], y[i]} = {"b", "c"}
         THEN 85 ELSE 0

Edit(old, new, all, nth) ==
  [tool |-> "edit_file", file |-> "main", old |-> old, new |-> new, all |-> all, nth |-> nth]
Replace(first, last, new) ==
  [tool |-> "replace_lines", file |-> "main", first |-> first, last |-> last, new |-> new]
Move(src, dst) == [tool |-> "move_file", src |-> src, dst |-> dst]
Write(tool, f, new) == [tool |-> tool, file |-> f, new |-> new]
MCCalls ==
  {[tool |-> "read_file", file |-> "main"],
   Edit(<<A(0)>>, <<If, B(1)>>, FALSE, 0), Edit(<<A(2)>>, <<If, B(1)>>, FALSE, 0),
   Edit(<<A(1)>>, <<B(0)>>, FALSE, 2), Edit(<<A(1)>>, <<B(1)>>, TRUE, 0),
   Edit(<<A(0), A(1)>>, <<B(0)>>, FALSE, 0), Edit(<<L(0, "c")>>, <<A(0)>>, FALSE, 0), Edit(<<A(0), B(0)>>, <<>>, FALSE, 0),
   Replace(2, 2, <<B(0)>>),
   Write("write_file", "main", <<A(0), B(0)>>), Write("append_file", "main", <<A(1)>>),
   Write("write_file", "env", <<A(0)>>),
   Move("box", "main"), Move("main", "env")}
MCSaves == {<<"main", <<If, A(1)>>>>, <<"main", <<A(0), B(0)>>>>, <<"box", <<A(0)>>>>}
=============================================================================
