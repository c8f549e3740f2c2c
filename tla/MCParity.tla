------------------------------ MODULE MCParity ------------------------------
(***************************************************************************)
(* Both drivers on programs that jump back inside loop bodies.             *)
(***************************************************************************)
EXTENDS CursorParity, ProgramKit

Backs == {B(IfGoto(R1("<", 2), "GOTOB", "L1")), C(Goto1("GOTO", "L1")), B(Goto1("GOTOB", "L2")),
          B(Case(Arm1(R1("==", 1), "GOTOC", "L1"), Arm1(R1("==", 3), "GOTO", "L2")))}

MCShapes ==
  {<<h, c, t, b>> : h \in Heads, c \in Without(Controls), t \in Tails,
     b \in {<<x, y, B(Plain)>> : x \in Steps, y \in Backs}
           \cup {<<x, y, z>> : x \in Without(Nests), y \in Backs, z \in Innermost}}

MCPrograms == {Shape(s[1], s[2], s[3], s[4]) : s \in MCShapes}

(* The assumption under which the drivers are proved to agree.             *)
ASSUME AlikeAssumption == Alike
=============================================================================
