----------------------------- MODULE ProgramKit -----------------------------
(***************************************************************************)
(* Small NC programs for model checking, spelled with one constructor per  *)
(* kind of block: the scopes "main", "body" and "inner", the variable R1,  *)
(* the axis X and the jump targets L1 and L2.                              *)
(***************************************************************************)
EXTENDS NcProgram

Plus(n)    == [var |-> "R1", plus |-> n]
Number(n)  == [var |-> NoVar, plus |-> n]
R1(rel, n) == [lhs |-> Plus(0), rel |-> rel, rhs |-> n]

Plain         == Nop
Assign(v, e)  == [Nop EXCEPT !.tag = "stmt", !.var = v, !.expr = e]
M30           == [Nop EXCEPT !.tag = "stmt", !.ends = TRUE]
Arm1(c, kw, key) == [cond |-> c, kw |-> kw, key |-> key]
Goto1(kw, key)   == [Nop EXCEPT !.tag = "jumps", !.arms = <<Arm1(Always, kw, key)>>]
IfGoto(c, kw, key) == [Nop EXCEPT !.tag = "jumps", !.arms = <<Arm1(c, kw, key)>>]
TwoGotos(a1, a2) == [Nop EXCEPT !.tag = "jumps", !.arms = <<a1, a2>>]
Case(a1, a2)     == [Nop EXCEPT !.tag = "case", !.arms = <<a1, a2>>]

If(c, s)        == [Nop EXCEPT !.tag = "if", !.cond = c, !.body = s]
IfElse(c, s, t) == [If(c, s) EXCEPT !.alt = t]
While(c, s)     == [Nop EXCEPT !.tag = "while", !.cond = c, !.body = s]
Loop(s)         == [Nop EXCEPT !.tag = "loop", !.body = s]
Repeat(s, c)    == [Nop EXCEPT !.tag = "repeat", !.cond = c, !.body = s]
For(v, a, b, s) == [Nop EXCEPT !.tag = "for", !.var = v, !.expr = a, !.to = b, !.body = s]

B(op)       == [keys |-> {}, op |-> op, comment |-> FALSE]
At(key, op) == [keys |-> {key}, op |-> op, comment |-> FALSE]
C(op)       == [keys |-> {}, op |-> op, comment |-> TRUE]

Text3(main, body, inner) ==
  [s \in {"main", "body", "inner"} |->
     CASE s = "main" -> main [] s = "body" -> body [] s = "inner" -> inner]

-----------------------------------------------------------------------------
(* Programs of three blocks  head, control, tail,  the control opening a   *)
(* body of two blocks  first, second,  which may open a third scope.       *)

KitScopes == {"main", "body", "inner"}
KitKeys   == {"L1", "L2"}
KitVars   == {"R1"}
KitAxes   == {"X"}

Heads    == {At("L1", Assign("R1", Number(0))), B(Assign("R1", Number(1))), B(Plain)}
Controls == {C(If(R1("<", 1), "body")), C(While(R1("<", 2), "body")), C(Loop("body")),
             C(Repeat("body", R1(">=", 2))), C(For("R1", Number(0), Plus(1), "body"))}
Branches == {C(IfElse(R1("==", 1), "body", "inner"))}
Tails    == {At("L2", Assign("X", Plus(0))), B(Goto1("GOTOB", "L1")), At("L1", M30),
             B(IfGoto(R1("<", 2), "GOTOC", "L2"))}

Jumps == {B(Goto1("GOTO", "L2")), B(Goto1("GOTOB", "L1")), C(IfGoto(R1("<", 2), "GOTOC", "L1")),
          B(TwoGotos(Arm1(R1("==", 1), "GOTOC", "L2"), Arm1(Always, "GOTOF", "L1"))),
          B(Case(Arm1(R1("==", 1), "GOTOC", "L2"), Arm1(Always, "GOTOF", "L1")))}
Steps == {At("L1", Assign("R1", Plus(1))), At("L2", Plain), C(M30)}
Nests == {C(If(R1("==", 1), "inner")), C(While(R1("<", 3), "inner"))}

Seconds   == {B(Assign("R1", Plus(1))), At("L2", Plain)} \cup Jumps
Innermost == {B(Assign("R1", Plus(1))), At("L1", M30)} \cup Jumps

(* <<first, second, third>>: a third scope is written where one is opened. *)
FlatBodies(firsts)  == {<<x, y, B(Plain)>> : x \in firsts, y \in Seconds}
DeepBodies(firsts)  == {<<x, y, z>> : x \in firsts, y \in Seconds, z \in Innermost}

Shape(h, c, t, b) == Text3(<<h, c, t>>, <<b[1], b[2]>>, <<b[3]>>)

Without(blocks) == {[b EXCEPT !.comment = FALSE] : b \in blocks}
=============================================================================
