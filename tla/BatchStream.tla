---------------------------- MODULE BatchStream ----------------------------
(***************************************************************************)
(* nc_to_batches: the sink (BatchStreamSink) collects rows, builds a table *)
(* of every BatchSize of them on the worker thread and sends the tables;   *)
(* variable changes become one list of events, sent at the end.            *)
(***************************************************************************)
EXTENDS StreamWorker

CONSTANT BatchSize

ASSUME BatchSizeAssumption == BatchSize \in Nat \ {0}

VARIABLES
  buffer,    (* rows of the next batch                                     *)
  pool,      (* recycle: emptied rows                                      *)
  builder,   (* columns and fill of the BatchBuilder                       *)
  count,     (* output_row_count                                           *)
  log,       (* the events so far                                          *)
  mail,      (* the events channel                                         *)
  events     (* NcBatchIterator.variable_events                            *)

sinkVars  == <<buffer, pool, builder, count, log, mail>>
batchVars == <<sinkVars, events>>
vars == <<job, workerVars, pc, chan, result, iter, final, yielded, batchVars>>

Init ==
  /\ CommonInit
  /\ buffer = <<>> /\ pool = <<>> /\ builder = NewBuilder
  /\ count = 0 /\ log = <<>> /\ mail = <<>> /\ events = <<>>

-----------------------------------------------------------------------------
(* BatchStreamSink::accept of the first row of the outbox.                 *)

(* Changes are logged at the number of output rows before this one.        *)
Logged(row) ==
  IF ~job.variables THEN log
  ELSE log \o [i \in DOMAIN row.changes |-> [row |-> count, change |-> row.changes[i]]]

(* deliver keeps one row handed back; an earlier one of the same delivery  *)
(* goes to the pool (reclaim).  finish has no use for any.                 *)
HandBack(row, rest) ==
  IF pc = "finish" THEN spare' = spare /\ pool' = rest
  ELSE spare' = <<row>> /\ pool' = rest \o spare

(* Mutant: a batch is one row late.                                        *)
CompletesLate == Len(buffer) >= BatchSize

(* With the next row the batch is complete.                                *)
Completes == Len(buffer) + 1 >= BatchSize

Accept ==
  /\ outbox' = Tail(outbox)
  /\ log' = Logged(Head(outbox))
  /\ UNCHANGED <<job, next, current, flat, pc, result, iter, final, yielded, mail, events>>

AcceptVariables ==
  /\ outbox # <<>> /\ Bare(Head(outbox))
  /\ HandBack(Reset(Head(outbox)), pool)
  /\ Accept
  /\ UNCHANGED <<buffer, builder, count, chan>>

(* Mutant: no pooled row is handed back.                                   *)
AcceptRowFresh ==
  /\ outbox # <<>> /\ ~Bare(Head(outbox)) /\ ~Completes
  /\ buffer' = Append(buffer, Head(outbox))
  /\ count' = count + 1
  /\ UNCHANGED <<spare, pool>>
  /\ Accept
  /\ UNCHANGED <<builder, chan>>

AcceptRow ==
  /\ outbox # <<>> /\ ~Bare(Head(outbox)) /\ ~Completes
  /\ buffer' = Append(buffer, Head(outbox))
  /\ count' = count + 1
  /\ IF pool = <<>> THEN UNCHANGED <<spare, pool>> ELSE HandBack(Last(pool), Front(pool))
  /\ Accept
  /\ UNCHANGED <<builder, chan>>

(* emit: build the table, recycle its rows, send.                          *)
Emit(rows) ==
  /\ Len(chan) < ChannelCap /\ ReceiverOpen
  /\ chan' = Append(chan, TableOf(builder, rows))
  /\ builder' = Built(builder, rows)
  /\ buffer' = <<>>

Recycled(rows) == pool \o [i \in DOMAIN rows |-> Reset(rows[i])]

AcceptLast ==
  /\ outbox # <<>> /\ ~Bare(Head(outbox)) /\ Completes
  /\ LET rows == Append(buffer, Head(outbox))
     IN  /\ Emit(rows)
         /\ HandBack(Last(Recycled(rows)), Front(Recycled(rows)))
  /\ count' = count + 1
  /\ Accept

(* finish: the partial batch, then the events.                             *)
EmitTrailing ==
  /\ pc = "finish" /\ outbox = <<>>
  /\ IF buffer = <<>> THEN UNCHANGED <<chan, builder, buffer, pool>>
     ELSE Emit(buffer) /\ pool' = Recycled(buffer)
  /\ pc' = "events"
  /\ UNCHANGED <<job, workerVars, result, iter, final, yielded, count, log, mail, events>>

SendEvents ==
  /\ pc = "events"
  /\ mail' = IF job.variables THEN <<log>> ELSE <<>>
  /\ pc' = "succeeded"
  /\ UNCHANGED <<job, workerVars, chan, result, iter, final, yielded,
                 buffer, pool, builder, count, log, events>>

(* Only a batch that is sent finds out that the receiver is gone.          *)
HangUp ==
  /\ ~ReceiverOpen
  /\ \/ outbox # <<>> /\ ~Bare(Head(outbox)) /\ Completes
     \/ pc = "finish" /\ outbox = <<>> /\ buffer # <<>>
  /\ Unwind
  /\ UNCHANGED batchVars

Worker ==
  \/ AcceptVariables \/ AcceptRow \/ AcceptLast \/ EmitTrailing \/ SendEvents \/ HangUp
  \/ (WorkerEdge /\ UNCHANGED batchVars)

-----------------------------------------------------------------------------
Take ==
  /\ iter = "receiving" /\ chan # <<>>
  /\ chan' = Tail(chan)
  /\ yielded' = Append(yielded, Head(chan))
  /\ iter' = "idle"
  /\ UNCHANGED <<job, workerVars, pc, result, final, batchVars>>

(* Mutant: only the events themselves end the wait for them.               *)
TakeEventsSent ==
  /\ iter = "events" /\ mail # <<>>
  /\ events' = mail[1]
  /\ iter' = "joining"
  /\ UNCHANGED <<job, workerVars, pc, chan, result, final, yielded, sinkVars>>

(* finish, after the result: the events, if they were ever sent.           *)
TakeEvents ==
  /\ iter = "events" /\ (mail # <<>> \/ ~SenderAlive)
  /\ events' = IF mail # <<>> THEN mail[1] ELSE <<>>
  /\ iter' = "joining"
  /\ UNCHANGED <<job, workerVars, pc, chan, result, final, yielded, sinkVars>>

InCall == Take \/ TakeEvents \/ (IterEdge("events") /\ UNCHANGED batchVars)

Next ==
  \/ Worker
  \/ InCall
  \/ (Call /\ UNCHANGED batchVars)
  \/ (Drop /\ UNCHANGED batchVars)

Spec     == Init /\ [][Next]_vars
FairSpec == Spec /\ WF_vars(Worker) /\ WF_vars(InCall)

-----------------------------------------------------------------------------
TypeOK ==
  /\ CommonTypeOK
  /\ buffer \in Seq(Row) /\ Len(buffer) < BatchSize
  /\ pool \in Seq(Row)
  /\ builder.columns \subseteq Columns /\ builder.fill \in Cells
  /\ count \in Nat

(* Concatenating the batches reconstructs the whole-file table: the same   *)
(* rows, filled across batch boundaries.                                   *)
Promise == INSTANCE Delivery WITH
  delivered <- FlattenSeq([k \in DOMAIN yielded |-> yielded[k].rows]),
  ended <- Ended

KeepsPromise == Promise!Spec

(* A column, once emitted, stays in every later batch, and none appears    *)
(* before a row that has it: the columns of a batch are those of the       *)
(* table up to its last row.                                               *)
ColumnsAccumulate ==
  \A k \in DOMAIN yielded :
    LET rows == FlattenSeq([i \in 1..k |-> yielded[i].rows])
    IN  yielded[k].columns = Present(rows)

(* Replaying the events at or before row k gives the variables as of       *)
(* output row k (VariableEvents, output.rs).                               *)
EventsReplay ==
  iter = "over" /\ job.variables =>
    LET rows == FlattenSeq([k \in DOMAIN yielded |-> yielded[k].rows])
        UpTo(k) == Picked(events, {i \in DOMAIN events : events[i].row <= k - 1})
    IN  \A k \in DOMAIN rows :
          Replay([i \in DOMAIN UpTo(k) |-> UpTo(k)[i].change])
            = Replay(ChangesOf(SubSeq(job.blocks, 1, rows[k].line)))

(* Without flattening, the rows the sink keeps, in use or emptied, never   *)
(* exceed one batch.                                                       *)
PoolBounded == ~job.flatten => Len(pool) + Len(buffer) <= BatchSize

(* Memory stays bounded by the batch size (lib.rs, NcBatchIterator): at    *)
(* most one batch being filled and one of emptied rows.                    *)
MemoryBounded == Len(pool) + Len(buffer) <= 2 * BatchSize
=============================================================================
