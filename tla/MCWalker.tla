------------------------------ MODULE MCWalker ------------------------------
(***************************************************************************)
(* The walker on every program of the kit: one loop or IF, its body free   *)
(* to jump forward, backward, in place and out, to end the program and to  *)
(* nest once more.                                                         *)
(***************************************************************************)
EXTENDS BlockWalker, ProgramKit

MCTails == (Tails \ {B(Goto1("GOTOB", "L1"))}) \cup {At("L2", IfGoto(R1("<", 2), "GOTO", "L2"))}

(* A FOR over an axis word executes nothing.                               *)
AxisFor == {C(For("X", Number(0), Plus(1), "body"))}

MCShapes ==
  {<<h, c, t, b>> : h \in Heads, c \in Controls, t \in MCTails,
                    b \in FlatBodies(Steps \cup Jumps) \cup DeepBodies(Nests)}
  \cup {<<h, c, t, b>> : h \in Heads, c \in Branches, t \in MCTails, b \in DeepBodies(Steps)}
  \cup {<<h, c, t, b>> : h \in Heads, c \in AxisFor, t \in MCTails, b \in FlatBodies(Jumps)}

MCPrograms == {Shape(s[1], s[2], s[3], s[4]) : s \in MCShapes}
=============================================================================
