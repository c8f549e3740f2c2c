------------------------------- MODULE NcRows -------------------------------
(***************************************************************************)
(* Output rows, and the tables made of them.  A cell holds a token or      *)
(* nothing; a column stands for every column treated like it.              *)
(***************************************************************************)
EXTENDS Integers, Sequences, FiniteSets, SequencesExt

CONSTANTS
  Null,     (* an absent cell                                              *)
  Values,   (* what an axis, feed or address cell can hold                 *)
  Names     (* variables                                                   *)

Words == {"G1", "G2", "ASPLINE", "BSPLINE", "CIP", "G4", "yes", "sample"}

ASSUME NullAssumption == Null \notin Values \cup Words

(* gg01_motion, an axis, feed and spindle; gg02_wait; the block addresses  *)
(* (I, J, K, CR, TURN, PW, SD, PL); the dwell time; the mark of a sample   *)
(* the flattener made up.                                                  *)
Columns   == {"motion", "X", "F", "S", "wait", "address", "dwell", "flattened"}
Addresses == {"address"}

(* is_forward_filled_column: value columns and modal G groups.             *)
ForwardFilled == {"motion", "X", "F", "S"}

Cells == [Columns -> Values \cup Words \cup {Null}]

(* cut belongs to the model: the number of chords the tolerance calls for  *)
(* on a curve that ends at this row.                                       *)
Row == [line : Nat, cells : Cells, changes : Seq(Names \X Values), cut : Nat \ {0}]

NoCells  == [c \in Columns |-> Null]
EmptyRow == [line |-> 0, cells |-> NoCells, changes |-> <<>>, cut |-> 1]

Bare(row)  == row.cells = NoCells
Empty(row) == Bare(row) /\ row.changes = <<>>

(* rekey_g4_dwell: on a G4 block F, or else S, is the dwell time, and      *)
(* neither is a feed or a speed.                                           *)
Rekeyed(row) ==
  IF row.cells["wait"] # "G4" THEN row
  ELSE [row EXCEPT !.cells["F"] = Null, !.cells["S"] = Null,
                   !.cells["dwell"] = IF row.cells["F"] # Null THEN row.cells["F"] ELSE row.cells["S"]]

(* Mutant: what the row had recorded stays.                                *)
ResetCells(row) == [row EXCEPT !.line = 0, !.cells = NoCells]

(* reset_for_reuse.                                                        *)
Reset(row) == [row EXCEPT !.line = 0, !.cells = NoCells, !.changes = <<>>, !.cut = 1]

(* A block writes its cells and changes on the row it was given.           *)
Written(base, block) ==
  [block EXCEPT !.cells = [c \in Columns |-> IF block.cells[c] # Null THEN block.cells[c] ELSE base.cells[c]],
                !.changes = base.changes \o block.changes]

-----------------------------------------------------------------------------
(* BatchBuilder: one table per call, carrying the columns seen and the     *)
(* last value of each filled column into the next call.                    *)

NewBuilder == [columns |-> {}, fill |-> NoCells]

(* The elements of seq at the given places, in order.                      *)
Picked(seq, places) ==
  LET picked[i \in 0..Len(seq)] ==
        IF i = 0 THEN <<>>
        ELSE LET before == picked[i - 1]
             IN  IF i \in places THEN Append(before, seq[i]) ELSE before
  IN  picked[Len(seq)]

Celled(rows)    == {i \in DOMAIN rows : ~Bare(rows[i])}
WithCells(rows) == Picked(rows, Celled(rows))
Present(rows)   == {c \in Columns : \E i \in DOMAIN rows : rows[i].cells[c] # Null}

(* forward_fill_seeded, one column.                                        *)
FilledColumn(rows, c, seed) ==
  LET filled[i \in 0..Len(rows)] ==
        IF i = 0 THEN seed
        ELSE IF rows[i].cells[c] # Null THEN rows[i].cells[c] ELSE filled[i - 1]
  IN filled

TableOf(builder, rows) ==
  LET kept == WithCells(rows)
      column == [c \in ForwardFilled |-> FilledColumn(kept, c, builder.fill[c])]
  IN  [columns |-> builder.columns \cup Present(kept),
       rows    |-> [i \in DOMAIN kept |->
                      [line  |-> kept[i].line,
                       cells |-> [c \in Columns |->
                                    IF c \in ForwardFilled THEN column[c][i] ELSE kept[i].cells[c]]]]]

(* Mutant: a column absent from a batch starts over.                       *)
BuiltPresent(builder, rows) ==
  LET kept == WithCells(rows)
  IN  [columns |-> Present(kept),
       fill    |-> [c \in Columns |-> IF c \in ForwardFilled
                                      THEN FilledColumn(kept, c, builder.fill[c])[Len(kept)] ELSE Null]]

(* Mutant: every batch starts with nothing to fill in.                     *)
BuiltUnfilled(builder, rows) ==
  [columns |-> builder.columns \cup Present(WithCells(rows)), fill |-> NoCells]

Built(builder, rows) ==
  LET kept == WithCells(rows)
  IN  [columns |-> builder.columns \cup Present(kept),
       fill    |-> [c \in Columns |-> IF c \in ForwardFilled
                                      THEN FilledColumn(kept, c, builder.fill[c])[Len(kept)] ELSE Null]]

FromRows(rows) == TableOf(NewBuilder, rows)

-----------------------------------------------------------------------------
(* What a table means: in a filled column the last value programmed up to  *)
(* the row, elsewhere the row's own.                                       *)
LastIn(rows, i, c) ==
  LET hits == {j \in 1..i : rows[j].cells[c] # Null}
  IN  IF hits = {} THEN Null ELSE rows[Max(hits)].cells[c]

Meant(rows) ==
  [i \in DOMAIN rows |->
     [line  |-> rows[i].line,
      cells |-> [c \in Columns |-> IF c \in ForwardFilled THEN LastIn(rows, i, c) ELSE rows[i].cells[c]]]]

MeantTable(rows) == [columns |-> Present(rows), rows |-> Picked(Meant(rows), Celled(rows))]

(* All changes of some rows, in order, and what replaying them leaves: the *)
(* last value each name was given.                                         *)
ChangesOf(rows) == FlattenSeq([i \in DOMAIN rows |-> rows[i].changes])

Replay(changes) ==
  [n \in Names |-> LET hits == {i \in DOMAIN changes : changes[i][1] = n}
                   IN IF hits = {} THEN Null ELSE changes[Max(hits)][2]]
=============================================================================
