----------------------------- MODULE RowStream -----------------------------
(***************************************************************************)
(* nc_to_rows: every row is a message, and the iterator forward-fills.     *)
(***************************************************************************)
EXTENDS StreamWorker

VARIABLE fill   (* NcRowIterator.fill                                      *)

vars == <<job, workerVars, pc, chan, result, iter, final, yielded, fill>>

Init == CommonInit /\ fill = NoCells

(* Mutant: the channel is not bounded.                                     *)
SendUnbounded ==
  /\ outbox # <<>> /\ ReceiverOpen
  /\ chan' = Append(chan, Head(outbox))
  /\ outbox' = Tail(outbox)
  /\ UNCHANGED <<job, next, current, spare, flat, pc, result, iter, final, yielded, fill>>

(* A send to a full channel blocks.                                        *)
Send ==
  /\ outbox # <<>> /\ ReceiverOpen /\ Len(chan) < ChannelCap
  /\ chan' = Append(chan, Head(outbox))
  /\ outbox' = Tail(outbox)
  /\ UNCHANGED <<job, next, current, spare, flat, pc, result, iter, final, yielded, fill>>

HangUp == outbox # <<>> /\ ~ReceiverOpen /\ Unwind /\ UNCHANGED fill

(* finish returns and drops the sender.                                    *)
Close ==
  /\ pc = "finish" /\ outbox = <<>>
  /\ pc' = "succeeded"
  /\ UNCHANGED <<job, workerVars, chan, result, iter, final, yielded, fill>>

Worker == Send \/ HangUp \/ Close \/ (WorkerEdge /\ UNCHANGED fill)

-----------------------------------------------------------------------------
Carried(row) ==
  [c \in Columns |-> IF c \in ForwardFilled /\ row.cells[c] # Null THEN row.cells[c] ELSE fill[c]]

(* What next() makes of a row with cells.                                  *)
RowDict(row) ==
  [c \in Columns |-> IF c \in ForwardFilled THEN Carried(row)[c] ELSE row.cells[c]]

(* A row without cells is a state event: it is passed over unless          *)
(* variables are asked for, and never filled into a duplicate.             *)
Take ==
  /\ iter = "receiving" /\ chan # <<>>
  /\ chan' = Tail(chan)
  /\ LET row == Head(chan) IN
       IF Bare(row)
       THEN /\ UNCHANGED fill
            /\ IF job.variables
               THEN /\ yielded' = Append(yielded, [line |-> row.line, cells |-> NoCells, changes |-> row.changes])
                    /\ iter' = "idle"
               ELSE UNCHANGED <<yielded, iter>>
       ELSE /\ fill' = Carried(row)
            /\ yielded' = Append(yielded, [line |-> row.line, cells |-> RowDict(row), changes |-> row.changes])
            /\ iter' = "idle"
  /\ UNCHANGED <<job, workerVars, pc, result, final>>

InCall == Take \/ (IterEdge("joining") /\ UNCHANGED fill)

Next ==
  \/ Worker
  \/ InCall
  \/ (Call /\ UNCHANGED fill)
  \/ (Drop /\ UNCHANGED fill)

Spec     == Init /\ [][Next]_vars
FairSpec == Spec /\ WF_vars(Worker) /\ WF_vars(InCall)

-----------------------------------------------------------------------------
TypeOK ==
  /\ CommonTypeOK
  /\ chan \in Seq(Row)
  /\ fill \in Cells

(* The rows with cells that next() returns are the program's table, row by *)
(* row and filled, and the iteration ends after the last of them only.     *)
Promise == INSTANCE Delivery WITH
  delivered <- [i \in DOMAIN WithCells(yielded) |->
                  [line |-> WithCells(yielded)[i].line, cells |-> WithCells(yielded)[i].cells]],
  ended <- Ended

KeepsPromise == Promise!Spec

(* With include_variables, accumulating the changes up to any row returned *)
(* gives the variables as they were after the block of that row: rows of   *)
(* blocks that write no cell are not lost, and flattened rows repeat none. *)
VariablesAtEveryRow ==
  job.variables =>
    \A k \in DOMAIN yielded :
      Replay(ChangesOf(SubSeq(yielded, 1, k)))
        = Replay(ChangesOf(SubSeq(job.blocks, 1, yielded[k].line)))
=============================================================================
