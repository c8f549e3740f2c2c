------------------------------- MODULE JobKit -------------------------------
(***************************************************************************)
(* Small calls for model checking the streams.                             *)
(***************************************************************************)
EXTENDS NcFlatten

KitValues == {"x1", "x2", "f1"}
KitNames  == {"R1"}

Cell(c, v)   == [EmptyRow EXCEPT !.cells[c] = v]
And(r, c, v) == [r EXCEPT !.cells[c] = v]
Sets(r, v)   == [r EXCEPT !.changes = Append(@, <<"R1", v>>)]
Cuts(r, n)   == [r EXCEPT !.cut = n]

Feed     == And(Cell("X", "x1"), "F", "f1")
Write    == Sets(Feed, "x1")
Move     == Cell("X", "x2")
Setting  == Sets(EmptyRow, "x2")
Twice    == Sets(Sets(Cell("X", "x1"), "x1"), "x2")
Dwell    == And(Cell("wait", "G4"), "F", "f1")
Linear   == And(Cell("X", "x2"), "motion", "G1")
Spline   == Cuts(Sets(And(Cell("X", "x1"), "motion", "ASPLINE"), "x2"), 2)
Circle   == Cuts(And(And(Cell("X", "x2"), "motion", "G2"), "address", "x1"), 3)

(* Programs of n blocks of the given kinds.                                *)
Text(kinds, n) == {[i \in 1..n |-> [t[i] EXCEPT !.line = i]] : t \in [1..n -> kinds]}

Call1(blocks, ending, flatten, record, variables) ==
  [blocks |-> blocks, ending |-> ending, flatten |-> flatten, record |-> record, variables |-> variables]

(* A panic on an axis_index_map that names no axis.                        *)
Misconfigured(record, variables) == Call1(<<>>, "panic", FALSE, record, variables)
=============================================================================
