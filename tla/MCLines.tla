------------------------------ MODULE MCLines ------------------------------
(***************************************************************************)
(* Small files for both front ends: every kind of word on lines the driver *)
(* claims and on lines it leaves to the grammar, over two axes, a block    *)
(* address, two numeric variables, a text and an array of two.             *)
(***************************************************************************)
EXTENDS LineParity

MCAxes       == {"X", "Y"}
MCBlocks     == {"I"}
MCVariables  == {"V", "Q", "S1", "TRUE", "R[0]", "R[1]"}
MCElements   == [r \in {"R"} |-> <<"R[0]", "R[1]">>]
MCVocabulary == [g \in {"G1", "SOFT", "ROT"} |->
                   CASE g = "G1" -> "motion" [] g = "SOFT" -> "acceleration" [] g = "ROT" -> "frame"]

-----------------------------------------------------------------------------
(* Constructors.                                                           *)
Num(op, n)      == Term(op, "number", Null, n)
Neg(op, n)      == [Num(op, n) EXCEPT !.neg = TRUE]
Var(op, v)      == Term(op, "variable", v, 1)
Times(v, n)     == [Term("+", "variable", v, n) EXCEPT !.paren = TRUE]
Paren(n)        == [Num("+", n) EXCEPT !.paren = TRUE]
Position(r, a)  == Term("+", r, a, 1)

W(tag, key)     == [NoWord EXCEPT !.tag = tag, !.key = key]
Address(a, n)   == [W("address", a) EXCEPT !.num = n]
Set(k, terms)   == [W("set", k) EXCEPT !.terms = terms]
IC(k, t)        == [Set(k, <<t>>) EXCEPT !.inc = TRUE]
Literal(t)      == [literal |-> t, name |-> Null]
Named(v)        == [literal |-> <<>>, name |-> v]
SetText(k, ts)  == [W("set", k) EXCEPT !.texts = ts]
Char(k, i, c)   == [W("char", k) EXCEPT !.num = i, !.texts = <<Literal(<<c>>)>>]
Array(tag, b, n, items) == [W(tag, b) EXCEPT !.num = n, !.items = items]
Value(terms)    == [W("value", Null) EXCEPT !.terms = terms]
Gap             == W("gap", Null)
Tool            == [W("tool", Null) EXCEPT !.texts = <<Literal(<<"d">>)>>]
Def(type, item) == [W("define", Null) EXCEPT !.kw = type, !.items = <<item>>]
FrameOp(k, is)  == [W("frame", k) EXCEPT !.items = is]
JumpIf(ts, kw, k) == [W("jump", k) EXCEPT !.kw = kw, !.terms = ts]

L(words)        == [NoLine EXCEPT !.words = words]
At(k, words)    == [L(words) EXCEPT !.label = k]
N10(words)      == [L(words) EXCEPT !.n = "10"]
C(words)        == [L(words) EXCEPT !.comment = "note"]
S(head)         == [NoLine EXCEPT !.head = head]
Jumping(l)      == [l EXCEPT !.goto = TRUE, !.head = "IF"]

-----------------------------------------------------------------------------
(* Lines.                                                                  *)
Moves ==
  {L(<<Address("X", 5), IC("Y", Times("V", 2))>>),
   C(<<IC("X", Paren(3)), W("g", "G1"), Address("I", 2), W("bare", "SOFT")>>),
   N10(<<Set("X", <<Times("V", 2)>>), IC("X", Paren(1)), W("bare", "HOME"), W("m", "M30")>>)}

Numbers ==
  {L(<<Set("V", <<Num("+", 7), Num("-", 3), Num("-", 2), Num("*", 2), Neg("*", 3)>>)>>),
   N10(<<Set("V", <<Times("Q", 2)>>), IC("V", Times("V", 2)), Set("I", <<Paren(4)>>)>>),
   L(<<Set("S1", <<Num("+", 3)>>)>>)}

Frames ==
  {L(<<FrameOp("TRANS", <<Set("X", <<Num("+", 10)>>), IC("X", Paren(1)), Set("Y", <<Position("$AA_IM", "X")>>)>>)>>),
   L(<<FrameOp("ATRANS", <<Set("X", <<Num("+", 1)>>)>>)>>),
   N10(<<FrameOp("ROT", <<>>)>>)}

Texts ==
  {L(<<Def("STRING", W("bare", "S1"))>>),
   L(<<SetText("S1", <<Literal(<<"a">>), Named("V")>>), Char("S1", 1, "b")>>),
   C(<<Set("Q", <<Var("+", "S1")>>)>>)}

Definitions ==
  {L(<<Def("REAL", Set("V", <<Num("+", 7), Num("DIV", 2)>>)), Def("REAL", W("bare", "Q"))>>),
   L(<<Def("REAL", Array("multi", "R", 1, <<Gap, Value(<<Num("+", 3)>>)>>))>>),
   At("L1", <<Def("REAL", Array("array", "R", 1, <<>>))>>)}

Jumps ==
  {Jumping(L(<<JumpIf(<<Var("+", "V"), Num("<", 3)>>, "GOTOB", "L1")>>)),
   L(<<JumpIf(<<Num("+", 1)>>, "GOTO", "10")>>),
   Jumping(L(<<JumpIf(<<Var("+", "Q")>>, "GOTOC", "L9"), JumpIf(<<Var("+", "V")>>, "GOTOF", "L1")>>))}

Others ==
  {At("L1", <<>>), L(<<>>), At("L1", <<Set("V", <<Var("+", "V"), Num("+", 1)>>)>>),
   L(<<W("m", "M1"), W("m", "M2"), W("m", "M3"), W("m", "M4"), W("m", "M5"), W("m", "M6")>>),
   L(<<W("g", "G99")>>), L(<<W("args", "CALL(1)"), Tool, W("bare", "ROT")>>),
   L(<<Address("Y", 1), Set("V", <<Position("$AA_IW", "Y")>>)>>)}

(* What the two front ends read differently.                               *)
Divergent ==
  {L(<<Set("V", <<Num("+", 0), Var("OR", "TRUE")>>)>>),
   [N10(<<Address("X", 5)>>) EXCEPT !.glued = TRUE],
   L(<<Set("X", <<Times("S1", 2)>>)>>)}

(* What stops with an error.                                               *)
Failing ==
  {L(<<Def("REAL", Set("X", <<Num("+", 1)>>))>>), L(<<Def("REAL", W("bare", "I"))>>),
   L(<<Def("INT", SetText("V", <<Literal(<<"a">>)>>))>>),
   L(<<Def("REAL", Array("multi", "R", 0, <<Value(<<Num("+", 1)>>), Gap>>))>>),
   L(<<Def("REAL", Array("multi", "R", 1, <<Value(<<Num("+", 1), Num("DIV", 0), Var("+", "Q")>>)>>))>>),
   L(<<Array("multi", "R", 0, <<Gap>>)>>),
   L(<<SetText("X", <<Named("S1")>>)>>),
   L(<<FrameOp("TRANS", <<SetText("S1", <<Literal(<<"a">>)>>)>>)>>),
   L(<<FrameOp("ATRANS", <<Set("X", <<Num("+", 1)>>), Set("V", <<Num("+", 1)>>)>>)>>),
   L(<<FrameOp("AROT", <<Set("X", <<Num("+", 1)>>)>>)>>),
   L(<<Set("V", <<Num("+", 1), Num("MOD", 2), Var("DIV", "V")>>)>>),
   L(<<Char("S1", 5, "b")>>)}

-----------------------------------------------------------------------------
(* Files.                                                                  *)
Claimable == Moves \cup Numbers \cup Divergent
Leading   == Frames \cup Texts \cup Definitions \cup Numbers
AllLines  == Claimable \cup Leading \cup Jumps \cup Others

Straight == {<<<<a, b, c>>>> : a \in Leading \cup Others, b \in Claimable \cup Frames \cup Texts, c \in Moves \cup Jumps \cup Texts \cup Others}
Initial  == {<<<<a>>, <<b, c>>>> : a \in Leading, b \in Claimable, c \in AllLines}
Longer   == {<<<<a, b, c, d>>>> : a \in Leading, b \in Claimable, c \in Jumps \cup Frames, d \in Moves \cup Texts}
Failures == {<<<<a, b, c>>>> : a \in Leading, b \in Failing, c \in Moves}

Heads      == {S(h) : h \in {"IF", "ELSE", "ENDIF", "WHILE", "ENDWHILE"}} \cup {Jumping(L(<<>>))}
Structures == {<<<<a, b, c, d, e>>>> : a, b, c, d, e \in Heads}

MCInputs == UNION {Straight, Initial, Longer, Failures, Structures}

(* Programs with a word operator behind a value (V=0 OR TRUE), alone.      *)
WordOperatorInputs == {<<<<a, b>>>> : a \in Numbers, b \in {L(<<Set("V", <<Num("+", 0), Var(op, "TRUE")>>)>>) : op \in {"OR", "XOR"}}}
=============================================================================
