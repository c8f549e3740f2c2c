----------------------------- MODULE NcFlatten -----------------------------
(***************************************************************************)
(* The curve flattener between the interpreter and the row sink: arcs and  *)
(* splines come out as runs of G1 rows.  There is one geometric axis, X;   *)
(* where a curve passes between programmed points is not modelled, only    *)
(* how many rows it becomes and what they carry.  ASPLINE stands for the   *)
(* interpolating splines, CIP for motions that are not flattened.          *)
(***************************************************************************)
EXTENDS NcRows

CONSTANT Degree   (* degree of a B-spline                                  *)

ASSUME DegreeAssumption == Degree \in Nat \ {0}

Splines == {"ASPLINE", "BSPLINE"}

(* The motion in effect, the buffered rows of the active spline, the last  *)
(* known position and, for the active spline, the position it starts at.   *)
NewFlattener == [motion |-> "G1", buffer |-> <<>>, position |-> Null, start |-> Null]

Positioned(fl, row) == IF row.cells["X"] # Null THEN row.cells["X"] ELSE fl.position

(* Mutant: the feed counts as geometry.                                    *)
AuxWithoutFeed(row) == [c \in Columns \ {"X"} |->
               IF c = "motion" THEN "G1" ELSE IF c \in Addresses \cup {"F"} THEN Null ELSE row.cells[c]]

(* merge_aux_cells: everything but geometry and addresses rides on the     *)
(* first row of a run, which is a G1.                                      *)
Aux(row) == [c \in Columns \ {"X"} |->
               IF c = "motion" THEN "G1" ELSE IF c \in Addresses THEN Null ELSE row.cells[c]]

(* Mutant: every row of the run repeats the changes of the block.          *)
RunRepeating(row, n, point, mark) ==
  [k \in 1..n |->
     [line    |-> row.line,
      cells   |-> [c \in Columns |->
                     CASE c = "X"         -> IF k = n THEN point ELSE "sample"
                       [] c = "flattened" -> IF k = n THEN mark ELSE "yes"
                       [] OTHER           -> IF k = 1 THEN Aux(row)[c] ELSE Null],
      changes |-> row.changes,
      cut     |-> 1]]

(* n rows in place of one, the last of them at point.                      *)
Run(row, n, point, mark) ==
  [k \in 1..n |->
     [line    |-> row.line,
      cells   |-> [c \in Columns |->
                     CASE c = "X"         -> IF k = n THEN point ELSE "sample"
                       [] c = "flattened" -> IF k = n THEN mark ELSE "yes"
                       [] OTHER           -> IF k = 1 THEN Aux(row)[c] ELSE Null],
      changes |-> IF k = 1 THEN row.changes ELSE <<>>,
      cut     |-> 1]]

-----------------------------------------------------------------------------
(* flatten_arc.  A block that programs no geometry is no arc; one without  *)
(* a known start or a centre, of zero radius, or with a CR that does not   *)
(* fit its chord passes through with a warning.  An address is there when  *)
(* the centre can be found.                                                *)
IsArc(fl, row) ==
  /\ row.cells["address"] # Null
  /\ fl.position # Null

Arc(fl, row) ==
  IF IsArc(fl, row) THEN Run(row, row.cut, Positioned(fl, row), Null) ELSE <<row>>

-----------------------------------------------------------------------------
(* flush_spline.                                                           *)

IsPoint(row) == row.cells["X"] # Null

(* The points of the spline: its start, then one per row that programs X.  *)
PointRows(fl) == Picked(fl.buffer, {i \in DOMAIN fl.buffer : IsPoint(fl.buffer[i])})
Points(fl) ==
  LET xs == [i \in DOMAIN PointRows(fl) |-> PointRows(fl)[i].cells["X"]]
  IN  IF xs = <<>> THEN <<>> ELSE <<IF fl.start # Null THEN fl.start ELSE xs[1]>> \o xs

(* How many samples are attributed to the row of point n.  Coinciding      *)
(* points make no curve; the first points of a B-spline own no stretch of  *)
(* it.                                                                     *)
Samples(fl, row, n) ==
  LET pts == Points(fl)
      p   == IF Degree < Len(pts) - 1 THEN Degree ELSE Len(pts) - 1
  IN  CASE fl.motion = "BSPLINE" -> IF n < p THEN 0 ELSE row.cut
        [] fl.motion = "ASPLINE" /\ Cardinality(Range(pts)) = 1 -> 0
        [] OTHER -> IF pts[n + 1] = pts[n] THEN 1 ELSE row.cut

(* Mutant: the end of a run is marked as a sample, too.                    *)
PointRunMarked(fl, row, n) ==
  IF Samples(fl, row, n) = 0 THEN Run(row, 1, row.cells["X"], "yes")
  ELSE Run(row, Samples(fl, row, n), row.cells["X"], "yes")

(* The rows of point n.  An interpolating spline passes through it; a      *)
(* B-spline only ends at its last one.                                     *)
PointRun(fl, row, n) ==
  LET samples    == Samples(fl, row, n)
      programmed == fl.motion = "ASPLINE" \/ n = Len(PointRows(fl))
      x          == row.cells["X"]
  IN  CASE samples = 0 -> Run(row, 1, IF fl.motion = "ASPLINE" THEN x ELSE Null, Null)
        [] samples # 0 /\ programmed -> Run(row, samples, x, Null)
        [] OTHER -> Run(row, samples, "sample", "yes")

(* Mutant: no point restates the motion.                                   *)
StatedRunNever(fl, row, n) == [PointRun(fl, row, n) EXCEPT ![1].cells["motion"] = Null]

(* Only the first point restates the motion.                               *)
StatedRun(fl, row, n) ==
  IF n = 1 THEN PointRun(fl, row, n) ELSE [PointRun(fl, row, n) EXCEPT ![1].cells["motion"] = Null]

(* Rows without a point stay as they are.                                  *)
FlushedSpline(fl) ==
  LET flushed[i \in 0..Len(fl.buffer)] ==
        IF i = 0 THEN [points |-> 0, out |-> <<>>]
        ELSE LET before == flushed[i - 1]
                 row    == fl.buffer[i]
                 n      == before.points + 1
             IN  IF IsPoint(row) THEN [points |-> n, out |-> before.out \o StatedRun(fl, row, n)]
                 ELSE [points |-> before.points, out |-> Append(before.out, row)]
  IN  flushed[Len(fl.buffer)].out

-----------------------------------------------------------------------------
(* push and finish, each returning the flattener and the rows it lets out. *)

(* Mutant: only another spline deselects a spline.                         *)
DeselectsBySpline(fl, row) ==
  /\ fl.buffer # <<>>
  /\ row.cells["motion"] \in Splines
  /\ row.cells["motion"] # fl.motion

(* Another motion command deselects an active spline.                      *)
Deselects(fl, row) ==
  /\ fl.buffer # <<>>
  /\ row.cells["motion"] # Null
  /\ row.cells["motion"] # fl.motion

(* Mutant: a block without a motion command has no motion.                 *)
MotionOfRow(fl, row) == row.cells["motion"]

MotionAfter(fl, row) == IF row.cells["motion"] # Null THEN row.cells["motion"] ELSE fl.motion

Push(fl, row) ==
  LET before == IF Deselects(fl, row) THEN FlushedSpline(fl) ELSE <<>>
      rest   == IF Deselects(fl, row) THEN <<>> ELSE fl.buffer
      motion == MotionAfter(fl, row)
      moved  == [fl EXCEPT !.motion = motion, !.buffer = rest, !.position = Positioned(fl, row)]
  IN  CASE motion \in Splines ->
             [fl  |-> [moved EXCEPT !.buffer = Append(rest, row),
                                    !.start = IF rest = <<>> THEN fl.position ELSE fl.start],
              out |-> before]
        [] motion = "G2" -> [fl |-> moved, out |-> before \o Arc(fl, row)]
        [] OTHER         -> [fl |-> moved, out |-> Append(before, row)]

(* The buffered curve of a program that ends inside a spline.              *)
Rest(fl) == FlushedSpline(fl)
=============================================================================
