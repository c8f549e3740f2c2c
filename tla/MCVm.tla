-------------------------------- MODULE MCVm --------------------------------
(***************************************************************************)
(* The VM on the programs of the kit it mirrors step by step: no trailing  *)
(* comment on a control block, and no jump back to a block of a loop body  *)
(* from inside that body (jumps back to the top level are there, out of    *)
(* loops and IFs).                                                         *)
(***************************************************************************)
EXTENDS CursorVm, ProgramKit

MCFirsts == {B(Assign("R1", Plus(1))), C(M30)} \cup Jumps

MCShapes ==
  {<<h, c, t, b>> : h \in Heads, c \in Without(Controls), t \in Tails,
                    b \in FlatBodies(MCFirsts) \cup DeepBodies(Without(Nests))}
  \cup {<<h, c, t, b>> : h \in Heads, c \in Without(Branches), t \in Tails, b \in DeepBodies(MCFirsts)}

MCPrograms == {Shape(s[1], s[2], s[3], s[4]) : s \in MCShapes}

(* The assumption under which VmMirrorsWalker is proved, of these programs. *)
ASSUME MirrorableAssumption == Mirrorable
=============================================================================
