------------------------------- MODULE NcJobs -------------------------------
(***************************************************************************)
(* Calls to nc_to_rows and nc_to_batches, and the rows of their programs.  *)
(***************************************************************************)
EXTENDS NcFlatten

(* A call, and what interpreting its program does: the rows its blocks     *)
(* write, in the order they execute, and how it ends - an error loses the  *)
(* row of its block; a panic comes before the first one, from the check of *)
(* axis_index_map.                                                         *)
Job == [blocks : Seq(Row), ending : {"done", "error", "panic"},
        flatten : BOOLEAN,     \* flatten_tolerance is given
        record : BOOLEAN,      \* OutputRows.record_variables
        variables : BOOLEAN]   \* include_variables

IsJob(j) ==
  /\ j \in Job
  /\ \A i \in DOMAIN j.blocks : j.blocks[i].line = i
  /\ j.ending = "error" => j.blocks # <<>>
  /\ j.ending = "panic" => j.blocks = <<>>
  /\ j.variables => j.record

(* Changes are recorded on demand.                                         *)
BlockRow(j, k) == IF j.record THEN j.blocks[k] ELSE [j.blocks[k] EXCEPT !.changes = <<>>]

(* The flattener, and the rows let out, after the first k blocks.          *)
Passed(j) ==
  LET passed[k \in 0..Len(j.blocks)] ==
        IF k = 0 THEN [fl |-> NewFlattener, out |-> <<>>]
        ELSE LET before == passed[k - 1]
                 row    == Rekeyed(BlockRow(j, k))
                 pushed == Push(before.fl, row)
             IN  CASE Empty(row) -> before
                   [] ~Empty(row) /\ j.flatten -> [fl |-> pushed.fl, out |-> before.out \o pushed.out]
                   [] OTHER -> [fl |-> before.fl, out |-> Append(before.out, row)]
  IN  passed

(* How many blocks leave their row.                                        *)
Left(j) == IF j.ending = "error" THEN Len(j.blocks) - 1 ELSE Len(j.blocks)

(* The rows of the whole program, one after the other.                     *)
Rows(j) ==
  LET all == Passed(j)[Left(j)]
  IN  IF j.flatten THEN all.out \o Rest(all.fl) ELSE all.out

(* The rows of its table.                                                  *)
Table(j) == MeantTable(Rows(j)).rows
=============================================================================
