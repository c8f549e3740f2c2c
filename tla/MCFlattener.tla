---------------------------- MODULE MCFlattener ----------------------------
(***************************************************************************)
(* Programs of up to four blocks of lines, arcs, splines and motions that  *)
(* are not flattened.                                                      *)
(***************************************************************************)
EXTENDS Flattener

MCValues == {"x1", "x2", "f1"}
MCNames  == {"R1"}

Block(motion, x, f, address, cut) ==
  [EmptyRow EXCEPT !.cells["motion"] = motion, !.cells["X"] = x, !.cells["F"] = f,
                   !.cells["address"] = address, !.cut = cut]
Setting(row) == [row EXCEPT !.changes = <<<<"R1", "x1">>>>]

MCKinds ==
  {Block("G1", "x1", "f1", Null, 1), Block(Null, "x2", Null, Null, 2), Block("G2", "x1", "f1", "x2", 2),
   Setting(Block(Null, "x1", Null, "x2", 1)), Block("G2", Null, Null, "x1", 2), Block("CIP", "x2", Null, Null, 1), Block("G2", "x2", Null, Null, 1),
   Setting(Block("ASPLINE", "x1", Null, Null, 2)), Block("ASPLINE", "x2", "f1", "x1", 2),
   Block("BSPLINE", "x1", "f1", Null, 2), Setting(Block("BSPLINE", "x2", Null, "x1", 1)),
   Block(Null, Null, "f1", Null, 1), Setting(EmptyRow), Block("G1", Null, Null, Null, 1)}

(* The blocks of this model name a spline only together with a position.   *)
ASSUME SplinesMoveAssumption == SplinesMove
=============================================================================
