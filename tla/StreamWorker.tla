---------------------------- MODULE StreamWorker ----------------------------
(***************************************************************************)
(* Streaming interpretation: a worker thread interprets the program, its   *)
(* output (OutputRows) hands finished rows to a sink, the sink sends over  *)
(* a bounded channel, and a Python iterator receives.  This module has     *)
(* what the row stream and the batch stream share; the sink and what       *)
(* next() does with an item are in RowStream and BatchStream.              *)
(***************************************************************************)
EXTENDS NcJobs

CONSTANTS
  Jobs,         (* calls                                                   *)
  ChannelCap    (* capacity of the channel                                 *)

ASSUME ChannelAssumption == ChannelCap \in Nat \ {0}

ASSUME JobsAssumption == \A j \in Jobs : IsJob(j)

VARIABLES
  job,       (* the call being served                                      *)
  next,      (* the block that starts next                                 *)
  current,   (* OutputRows.current                                         *)
  spare,     (* the emptied row the sink handed back, if any               *)
  flat,      (* the flattener                                              *)
  outbox,    (* rows of this flush the sink has not accepted yet           *)
  pc,        (* where the worker is                                        *)
  chan,      (* the channel                                                *)
  result,    (* the result channel                                         *)
  iter,      (* what the iterator is doing                                 *)
  final,     (* iterator.state has been set                                *)
  yielded    (* what next() has returned                                   *)

workerVars == <<next, current, spare, flat, outbox>>

WorkerAt == {"block", "fill", "flush", "finish", "events", "succeeded", "failed",
             "cancelled", "panicked", "exiting", "gone"}
IterAt   == {"idle", "receiving", "finishing", "events", "joining", "raising",
             "over", "raised", "dropped"}

(* The row sender lives as long as the output does.                        *)
SenderAlive  == pc \in {"block", "fill", "flush", "finish", "events"}

(* Mutant: dropping the iterator does not drop the receiver.               *)
ReceiverKept == iter \in {"idle", "receiving", "dropped"}
ReceiverOpen == iter \in {"idle", "receiving"}

CommonInit ==
  /\ job \in Jobs
  /\ next = 1 /\ current = EmptyRow /\ spare = <<>> /\ flat = NewFlattener /\ outbox = <<>>
  /\ pc = "block"
  /\ chan = <<>> /\ result = <<>>
  /\ iter = "idle" /\ final = FALSE /\ yielded = <<>>

-----------------------------------------------------------------------------
(* The worker up to the sink.                                              *)

(* Mutant: a block that wrote no cell leaves no row.                       *)
FlushedCells ==
  CASE Bare(current) -> [fl |-> flat, out |-> <<>>]
    [] ~Bare(current) /\ job.flatten -> Push(flat, Rekeyed(current))
    [] OTHER -> [fl |-> flat, out |-> <<Rekeyed(current)>>]

(* flush, up to the sink: what becomes of the current row.                 *)
Flushed ==
  CASE Empty(current) -> [fl |-> flat, out |-> <<>>]
    [] ~Empty(current) /\ job.flatten -> Push(flat, Rekeyed(current))
    [] OTHER -> [fl |-> flat, out |-> <<Rekeyed(current)>>]

(* The next block starts its row, which flushes the previous one.          *)
StartRow ==
  /\ pc = "block" /\ next <= Len(job.blocks)
  /\ flat' = Flushed.fl /\ outbox' = Flushed.out
  /\ current' = IF Empty(current) THEN current ELSE EmptyRow
  /\ pc' = "fill"
  /\ UNCHANGED <<job, next, spare, chan, result, iter, final, yielded>>

(* Once the sink has taken every row, the block writes on a recycled row   *)
(* if there is one.                                                        *)
Fill ==
  /\ pc = "fill" /\ outbox = <<>>
  /\ LET base == IF spare # <<>> THEN spare[1] ELSE current
     IN  current' = Written(base, BlockRow(job, next))
  /\ spare' = <<>>
  /\ next' = next + 1
  /\ pc' = "block"
  /\ UNCHANGED <<job, flat, outbox, chan, result, iter, final, yielded>>

(* finish flushes the last row, and then what the flattener still holds.   *)
EndBlocks ==
  /\ pc = "block" /\ next > Len(job.blocks) /\ job.ending = "done"
  /\ flat' = Flushed.fl /\ outbox' = Flushed.out
  /\ current' = EmptyRow
  /\ pc' = "flush"
  /\ UNCHANGED <<job, next, spare, chan, result, iter, final, yielded>>

FinishFlattener ==
  /\ pc = "flush" /\ outbox = <<>>
  /\ outbox' = IF job.flatten THEN Rest(flat) ELSE <<>>
  /\ flat' = NewFlattener
  /\ pc' = "finish"
  /\ UNCHANGED <<job, next, current, spare, chan, result, iter, final, yielded>>

(* An error or a panic drops the output with the row of its block.         *)
Fail ==
  /\ pc = "block" /\ next > Len(job.blocks) /\ job.ending # "done"
  /\ pc' = IF job.ending = "error" THEN "failed" ELSE "panicked"
  /\ UNCHANGED <<job, workerVars, chan, result, iter, final, yielded>>

(* A send after the receiver is gone is StreamClosed, which unwinds.       *)
Unwind ==
  /\ pc' = "cancelled"
  /\ outbox' = <<>>
  /\ UNCHANGED <<job, next, current, spare, flat, chan, result, iter, final, yielded>>

(* The end of the thread's closure: a result unless StreamClosed.          *)
Report ==
  /\ pc \in {"succeeded", "failed"}
  /\ result' = <<IF pc = "succeeded" THEN "state" ELSE "error">>
  /\ pc' = "exiting"
  /\ UNCHANGED <<job, workerVars, chan, iter, final, yielded>>

Exit ==
  /\ pc \in {"exiting", "cancelled", "panicked"}
  /\ pc' = "gone"
  /\ UNCHANGED <<job, workerVars, chan, result, iter, final, yielded>>

WorkerEdge == StartRow \/ Fill \/ EndBlocks \/ FinishFlattener \/ Fail \/ Report \/ Exit

-----------------------------------------------------------------------------
(* The iterator.                                                           *)

Call ==
  /\ iter = "idle"
  /\ iter' = "receiving"
  /\ UNCHANGED <<job, workerVars, pc, chan, result, final, yielded>>

(* Mutant: the sender's end is noticed before the channel is drained.      *)
DisconnectEarly ==
  /\ iter = "receiving" /\ ~SenderAlive
  /\ iter' = "finishing"
  /\ UNCHANGED <<job, workerVars, pc, chan, result, final, yielded>>

(* recv fails once the sender is gone and the channel is drained.          *)
Disconnect ==
  /\ iter = "receiving" /\ chan = <<>> /\ ~SenderAlive
  /\ iter' = "finishing"
  /\ UNCHANGED <<job, workerVars, pc, chan, result, final, yielded>>

(* finish: wait for the result; its sender is dropped when the thread      *)
(* ends without one.                                                       *)
TakeResult(after) ==
  /\ iter = "finishing" /\ result # <<>>
  /\ final' = (result[1] = "state")
  /\ iter' = IF result[1] = "error" THEN "raising" ELSE after
  /\ result' = <<>>
  /\ UNCHANGED <<job, workerVars, pc, chan, yielded>>

(* Mutant: the thread has ended, so its result is not looked for.          *)
NoResultHasty(after) ==
  /\ iter = "finishing" /\ pc = "gone"
  /\ iter' = after
  /\ UNCHANGED <<job, workerVars, pc, chan, result, final, yielded>>

NoResult(after) ==
  /\ iter = "finishing" /\ result = <<>> /\ pc = "gone"
  /\ iter' = after
  /\ UNCHANGED <<job, workerVars, pc, chan, result, final, yielded>>

Join ==
  /\ iter \in {"joining", "raising"} /\ pc = "gone"
  /\ iter' = IF iter = "raising" THEN "raised" ELSE "over"
  /\ UNCHANGED <<job, workerVars, pc, chan, result, final, yielded>>

(* The iterator is dropped between two calls.                              *)
Drop ==
  /\ iter = "idle"
  /\ iter' = "dropped" /\ chan' = <<>>
  /\ UNCHANGED <<job, workerVars, pc, result, final, yielded>>

IterEdge(after) == Disconnect \/ TakeResult(after) \/ NoResult(after) \/ Join

Ended ==
  CASE iter = "over"    -> "exhausted"
    [] iter = "raised"  -> "raised"
    [] iter = "dropped" -> "dropped"
    [] OTHER            -> "no"

-----------------------------------------------------------------------------
CommonTypeOK ==
  /\ job \in Jobs
  /\ next \in 1..Len(job.blocks) + 1
  /\ current \in Row
  /\ spare \in Seq(Row) /\ Len(spare) <= 1
  /\ flat.buffer \in Seq(Row)
  /\ outbox \in Seq(Row)
  /\ pc \in WorkerAt
  /\ Len(chan) <= ChannelCap
  /\ result \in {<<>>, <<"state">>, <<"error">>}
  /\ iter \in IterAt
  /\ final \in BOOLEAN

(* Every call of next() returns: it yields, ends or raises, however the    *)
(* worker ends (finished, failed, panicked) and whoever waits for whom.    *)
CallsReturn == iter = "receiving" ~> iter \in {"idle", "over", "raised"}

(* Dropping the iterator is the cancel contract: a worker parked on the    *)
(* full channel, or still interpreting, comes to its end.                  *)
DropStopsWorker == iter = "dropped" ~> pc = "gone"

(* The only way to the end of an iteration without the final state is a    *)
(* panic of the worker: a result once sent is never missed, also when the  *)
(* thread is gone before it is asked for, and no other way of ending the   *)
(* thread leaves the iterator without one.                                 *)
OutcomeReported == iter = "over" /\ job.ending # "panic" => final

(* An iterator that is exhausted has the final state of the interpreter    *)
(* ("available once the iterator is exhausted", lib.rs).                   *)
ExhaustedHasState == iter = "over" => final
=============================================================================
