------------------------------- MODULE MCRows -------------------------------
(***************************************************************************)
(* nc_to_rows on programs of up to three blocks, behind a channel of one.  *)
(***************************************************************************)
EXTENDS RowStream, JobKit

Plain  == UNION {Text({Feed, Move, Setting, Twice, EmptyRow, Dwell}, n) : n \in 0..3}
Curved == Text({Spline, Move, Setting, Linear, Circle}, 3)

MCJobs ==
  {Call1(t, e, f, TRUE, v) : t \in Plain \ {<<>>}, e \in {"done"}, f \in {FALSE}, v \in BOOLEAN}
  \cup {Call1(t, "error", FALSE, TRUE, TRUE) : t \in Text({Feed, Setting}, 2)}
  \cup {Call1(t, "done", TRUE, TRUE, TRUE) : t \in Curved}
  \cup {Call1(<<>>, "done", FALSE, TRUE, FALSE), Misconfigured(TRUE, FALSE)}

(* nc_to_rows("G1 X10", axis_index_map={"Q": 1}).                          *)
Misnamed == {Misconfigured(TRUE, FALSE)}
=============================================================================
