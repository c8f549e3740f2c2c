----------------------------- MODULE Flattener -----------------------------
(***************************************************************************)
(* The flattener as the output drives it: rows are pushed in program       *)
(* order, and finish comes once, after the last.                           *)
(***************************************************************************)
EXTENDS NcFlatten

CONSTANTS
  Kinds,     (* rows to push; their line is their place in the program     *)
  MaxRows    (* bound of the model                                         *)

(* A motion is a word of its group and a position a number, and no program *)
(* writes the mark.                                                        *)
ASSUME KindsAssumption ==
  /\ MaxRows \in Nat
  /\ \A kind \in Kinds :
       /\ kind \in Row
       /\ kind.cells["motion"] \in Words \cup {Null}
       /\ kind.cells["X"] \in Values \cup {Null}
       /\ kind.cells["flattened"] = Null

VARIABLES
  fed,       (* the rows pushed                                            *)
  fl,        (* the flattener                                              *)
  out,       (* the rows it let out                                        *)
  finished

vars == <<fed, fl, out, finished>>

Init == fed = <<>> /\ fl = NewFlattener /\ out = <<>> /\ finished = FALSE

PushRow(kind) ==
  /\ ~finished /\ Len(fed) < MaxRows
  /\ LET row == [kind EXCEPT !.line = Len(fed) + 1]
     IN  /\ fed' = Append(fed, row)
         /\ fl' = Push(fl, row).fl
         /\ out' = out \o Push(fl, row).out
  /\ UNCHANGED finished

Finish ==
  /\ ~finished
  /\ out' = out \o Rest(fl)
  /\ finished' = TRUE
  /\ UNCHANGED <<fed, fl>>

Next == (\E kind \in Kinds : PushRow(kind)) \/ Finish
Spec == Init /\ [][Next]_vars

-----------------------------------------------------------------------------
TypeOK ==
  /\ fed \in Seq(Row) /\ out \in Seq(Row)
  /\ fl.motion \in Words /\ fl.buffer \in Seq(Row)
  /\ {fl.position, fl.start} \subseteq Values \cup {Null}
  /\ finished \in BOOLEAN

(* Only an active spline holds rows back, in the order they came, and they *)
(* are the last rows pushed: everything earlier has been let out.          *)
HeldBack ==
  /\ fl.buffer # <<>> => fl.motion \in Splines
  /\ ~finished => IsSuffix(fl.buffer, fed)
  /\ ~finished => \A i \in 1..(Len(fed) - Len(fl.buffer)) : \E j \in DOMAIN out : out[j].line = i

(* The motion in effect at a row.                                          *)
MotionAt(rows, i) ==
  IF LastIn(rows, i, "motion") = Null THEN "G1" ELSE LastIn(rows, i, "motion")

(* Where each row programs a move to: an arc around a centre may end where *)
(* it starts without naming it.                                            *)
Targets(rows) ==
  [i \in DOMAIN rows |->
     IF rows[i].cells["X"] = Null /\ MotionAt(rows, i) = "G2" /\ rows[i].cells["address"] # Null
     THEN LastIn(rows, i, "X") ELSE rows[i].cells["X"]]

Programmed(rows) == Picked(Targets(rows), {i \in DOMAIN rows : Targets(rows)[i] # Null})

(* The positions of the rows that are not marked as samples.               *)
Positions(rows) == [i \in DOMAIN rows |-> rows[i].cells["X"]]
Marked(rows) ==
  Picked(Positions(rows), {i \in DOMAIN rows : rows[i].cells["flattened"] = Null /\ rows[i].cells["X"] # Null})

(* Filtering on the mark recovers the toolpath: leaving out the samples,   *)
(* the output moves to exactly the programmed points, in their order (a    *)
(* B-spline excepted, which does not pass through its control points).     *)
ToolpathRecovered ==
  finished /\ (\A i \in DOMAIN fed : MotionAt(fed, i) # "BSPLINE") => Marked(out) = Programmed(fed)

(* The other cells of a block ride on one row of its run, and nothing they *)
(* are filled into changes: feed and speed read the same at every row of   *)
(* the output as at the block it came from (merge_aux_cells).              *)
FeedUnchanged ==
  finished =>
    LET before == MeantTable(fed).rows
        after  == MeantTable(out).rows
    IN  \A j \in DOMAIN after : \A i \in DOMAIN before :
          before[i].line = after[j].line =>
            \A c \in {"F", "S"} : after[j].cells[c] = before[i].cells[c]

(* No variable change is lost, repeated or moved past another, and the     *)
(* rows of the output follow the program.                                  *)
NothingLost ==
  finished =>
    /\ ChangesOf(out) = ChangesOf(fed)
    /\ \A j, k \in DOMAIN out : j < k => out[j].line <= out[k].line

(* A block that names a spline programs a position: what the property      *)
(* below rests on, since a spline word on a row of its own stays modal.    *)
SplinesMove == \A kind \in Kinds : kind.cells["motion"] \in Splines => kind.cells["X"] # Null

(* Every move of the output reads as a linear one: the motion in effect at *)
(* a row with a position is never a spline, and an arc only where the arc  *)
(* could not be resolved.                                                  *)
MovesAreLinear ==
  \A j \in DOMAIN out :
    out[j].cells["X"] # Null =>
      /\ MotionAt(out, j) \notin Splines
      /\ out[j].cells["flattened"] # Null => MotionAt(out, j) = "G1"
=============================================================================
