------------------------- MODULE BatchStream_proofs -------------------------
(***************************************************************************)
(* nc_to_batches for every program, batch size and channel, whatever the   *)
(* iterator does meanwhile: the batches are the program's table cut into   *)
(* pieces, the events replay to its variables, and the rows kept for reuse *)
(* stay within one batch unless curves are flattened.                      *)
(***************************************************************************)
EXTENDS BatchStream, NcRows_proofs

-----------------------------------------------------------------------------
(* How the iteration ends.                                                 *)

(* Rows are on their way only before finish is done.                       *)
Delivering == outbox # <<>> => pc \in {"fill", "flush", "finish"}

(* The iterator asks for the result only when the sender is gone and the   *)
(* channel is drained, so a worker that finds the receiver closed was      *)
(* dropped.                                                                *)
Waiting ==
  /\ SenderAlive => iter \in {"idle", "receiving", "dropped"}
  /\ pc = "cancelled" => iter = "dropped"
  /\ iter \notin {"idle", "receiving"} => chan = <<>>

(* What the worker reports is how its program ended, and it leaves that    *)
(* report unless it panicked or nobody is there to ask for it.             *)
ResultLeft ==
  /\ pc \in {"flush", "finish", "events", "succeeded"} => job.ending = "done"
  /\ pc = "failed" => job.ending = "error"
  /\ pc = "panicked" => job.ending = "panic"
  /\ result \in {<<>>, <<"state">>, <<"error">>}
  /\ result = <<"state">> => job.ending = "done"
  /\ result = <<"error">> => job.ending = "error"
  /\ pc \in {"exiting", "gone"} /\ iter \in {"idle", "receiving", "finishing"} =>
       result # <<>> \/ job.ending = "panic"

(* finish leaves no row behind in the sink, and a program that panics      *)
(* never gave it one.                                                      *)
Drained ==
  /\ pc \in {"events", "succeeded", "exiting", "gone"} /\ job.ending = "done" /\ iter # "dropped" => buffer = <<>>
  /\ job.ending = "panic" => outbox = <<>> /\ buffer = <<>>

(* The events are sent before the result, and received after it.           *)
Mailed ==
  job.variables /\ job.ending = "done" =>
    /\ pc \in {"succeeded", "exiting", "gone"} /\ iter # "dropped" => mail = <<log>>
    /\ iter \in {"joining", "over"} => events = log

Control ==
  /\ job \in Jobs /\ pc \in WorkerAt /\ iter \in IterAt /\ final \in BOOLEAN
  /\ Delivering /\ Waiting /\ ResultLeft /\ Drained /\ Mailed
  /\ iter \in {"events", "joining", "over"} => job.ending # "error" /\ (final \/ job.ending = "panic")
  /\ iter \in {"raising", "raised"} => job.ending = "error"

LEMMA JobIs == \A j \in Jobs : IsJob(j) /\ j.blocks \in Seq(Row) /\ Len(j.blocks) \in Nat
BY JobsAssumption, LeftIs

(* A program that panics has no block.                                     *)
LEMMA PanicBlocks ==
  ASSUME Control, job.ending = "panic"
  PROVE  Len(job.blocks) = 0
BY JobIs, LeftIs DEF Control

LEMMA InitControl == Init => Control
<1>1. <<"state">> # <<>> /\ <<"error">> # <<>>
  OBVIOUS
<1> QED
  BY <1>1 DEF Init, CommonInit, Control, WorkerAt, IterAt, Delivering, Waiting, ResultLeft, SenderAlive,
              Drained, Mailed

LEMMA WorkerControl == Control /\ Worker /\ next \in Nat \ {0} => Control'
<1> SUFFICES ASSUME Control, Worker, next \in Nat \ {0} PROVE Control'
  OBVIOUS
<1>1. job' = job /\ iter' = iter /\ final' = final /\ events' = events
  BY DEF Worker, WorkerEdge, AcceptVariables, AcceptRow, AcceptLast, Accept, EmitTrailing, SendEvents,
         HangUp, Unwind, StartRow, Fill, EndBlocks, FinishFlattener, Fail, Report, Exit, batchVars, sinkVars
<1>2. pc' \in WorkerAt
  BY DEF Control, WorkerAt, Worker, WorkerEdge, AcceptVariables, AcceptRow, AcceptLast, Accept,
         EmitTrailing, SendEvents, HangUp, Unwind, StartRow, Fill, EndBlocks, FinishFlattener, Fail,
         Report, Exit
<1>3. job.ending \in {"done", "error", "panic"}
  BY JobsAssumption DEF Control, IsJob, Job
<1>4. CASE AcceptVariables \/ AcceptRow \/ AcceptLast
  <2>1. outbox # <<>> /\ pc' = pc /\ result' = result /\ pc \in {"fill", "flush", "finish"} /\ job.ending # "panic"
    BY <1>4 DEF AcceptVariables, AcceptRow, AcceptLast, Accept, Control, Delivering, Drained
  <2>2. chan' = chan \/ ReceiverOpen
    BY <1>4 DEF AcceptVariables, AcceptRow, AcceptLast, Emit
  <2>3. iter \in {"idle", "receiving", "dropped"}
    BY <2>1 DEF Control, Waiting, SenderAlive
  <2> QED
    BY <1>1, <1>2, <2>1, <2>2, <2>3
       DEF Control, Delivering, Waiting, ResultLeft, SenderAlive, Drained, Mailed, ReceiverOpen
<1>5. CASE HangUp
  <2>1. pc' = "cancelled" /\ outbox' = <<>> /\ result' = result /\ chan' = chan /\ buffer' = buffer
        /\ ~ReceiverOpen /\ (outbox # <<>> \/ pc = "finish")
    BY <1>5 DEF HangUp, Unwind, batchVars, sinkVars
  <2>2. iter = "dropped"
    BY <2>1 DEF Control, Delivering, Waiting, SenderAlive, ReceiverOpen
  <2> QED
    BY <1>1, <1>2, <2>1, <2>2 DEF Control, Delivering, Waiting, ResultLeft, SenderAlive, Drained, Mailed
<1>6. CASE (StartRow \/ Fill \/ EndBlocks \/ FinishFlattener) /\ UNCHANGED batchVars
  <2>1. /\ SenderAlive /\ result' = result /\ chan' = chan /\ buffer' = buffer
        /\ pc' \in {"block", "fill", "flush", "finish"}
        /\ outbox' # <<>> => pc' \in {"fill", "flush", "finish"}
        /\ pc' \in {"flush", "finish"} => job.ending = "done"
    BY <1>6 DEF StartRow, Fill, EndBlocks, FinishFlattener, SenderAlive, Control, ResultLeft, batchVars, sinkVars
  <2>2. job.ending = "panic" => outbox' = <<>>
    <3> SUFFICES ASSUME job.ending = "panic" PROVE outbox' = <<>>
      OBVIOUS
    <3>1. ~StartRow
      BY PanicBlocks DEF StartRow
    <3> QED
      BY <1>6, <3>1 DEF Fill, EndBlocks, FinishFlattener, Control, ResultLeft
  <2>3. iter \in {"idle", "receiving", "dropped"}
    BY <2>1 DEF Control, Waiting
  <2> QED
    BY <1>1, <1>2, <2>1, <2>2, <2>3 DEF Control, Delivering, Waiting, ResultLeft, SenderAlive, Drained, Mailed
<1>7. CASE EmitTrailing
  <2>1. /\ pc = "finish" /\ pc' = "events" /\ result' = result /\ outbox' = outbox /\ outbox = <<>>
        /\ buffer' = <<>> /\ (chan' = chan \/ ReceiverOpen)
    BY <1>7 DEF EmitTrailing, Emit, workerVars
  <2>2. iter \in {"idle", "receiving", "dropped"} /\ job.ending = "done"
    BY <2>1 DEF Control, Waiting, SenderAlive, ResultLeft
  <2> QED
    BY <1>1, <1>2, <2>1, <2>2
       DEF Control, Delivering, Waiting, ResultLeft, SenderAlive, Drained, Mailed, ReceiverOpen
<1>8. CASE SendEvents
  <2>1. /\ pc = "events" /\ pc' = "succeeded" /\ result' = result /\ chan' = chan /\ outbox' = outbox /\ outbox = <<>>
        /\ buffer' = buffer /\ log' = log /\ (job.variables => mail' = <<log>>)
    BY <1>8 DEF SendEvents, workerVars, Control, Delivering
  <2>2. job.ending = "done" /\ (iter # "dropped" => buffer = <<>>) /\ iter \in {"idle", "receiving", "dropped"}
    BY <2>1 DEF Control, ResultLeft, Drained, Waiting, SenderAlive
  <2> QED
    BY <1>1, <1>2, <2>1, <2>2 DEF Control, Delivering, Waiting, ResultLeft, SenderAlive, Drained, Mailed
<1>9. CASE Fail /\ UNCHANGED batchVars
  <2>1. /\ SenderAlive /\ result' = result /\ chan' = chan /\ outbox' = outbox /\ outbox = <<>>
        /\ buffer' = buffer /\ pc' \in {"failed", "panicked"}
        /\ pc' = "failed" => job.ending = "error"
        /\ pc' = "panicked" => job.ending = "panic"
    BY <1>3, <1>9 DEF Fail, SenderAlive, workerVars, Control, Delivering, batchVars, sinkVars
  <2>2. iter \in {"idle", "receiving", "dropped"}
    BY <2>1 DEF Control, Waiting
  <2> QED
    BY <1>1, <1>2, <2>1, <2>2 DEF Control, Delivering, Waiting, ResultLeft, SenderAlive, Drained, Mailed
<1>10. CASE Report /\ UNCHANGED batchVars
  <2>1. pc' = "exiting" /\ outbox' = outbox /\ chan' = chan /\ pc \in {"succeeded", "failed"}
        /\ UNCHANGED <<buffer, log, mail>>
        /\ \/ pc = "succeeded" /\ result' = <<"state">>
           \/ pc = "failed" /\ result' = <<"error">>
    BY <1>10 DEF Report, workerVars, batchVars, sinkVars
  <2>2. <<"state">> # <<"error">> /\ <<"state">> # <<>> /\ <<"error">> # <<>>
    OBVIOUS
  <2>3. pc = "failed" => job.ending # "done"
    BY DEF Control, ResultLeft
  <2> QED
    BY <1>1, <1>2, <2>1, <2>2, <2>3 DEF Control, Delivering, Waiting, ResultLeft, SenderAlive, Drained, Mailed
<1>11. CASE Exit /\ UNCHANGED batchVars
  <2>1. pc' = "gone" /\ result' = result /\ outbox' = outbox /\ chan' = chan
        /\ pc \in {"exiting", "cancelled", "panicked"} /\ UNCHANGED <<buffer, log, mail>>
    BY <1>11 DEF Exit, workerVars, batchVars, sinkVars
  <2>2. pc = "panicked" => job.ending # "done"
    BY DEF Control, ResultLeft
  <2> QED
    BY <1>1, <1>2, <2>1, <2>2 DEF Control, Delivering, Waiting, ResultLeft, SenderAlive, Drained, Mailed
<1> QED
  BY <1>4, <1>5, <1>6, <1>7, <1>8, <1>9, <1>10, <1>11 DEF Worker, WorkerEdge

LEMMA IteratorControl == Control /\ (InCall \/ ((Call \/ Drop) /\ UNCHANGED batchVars)) => Control'
<1> SUFFICES ASSUME Control, InCall \/ ((Call \/ Drop) /\ UNCHANGED batchVars) PROVE Control'
  OBVIOUS
<1>1. UNCHANGED <<job, outbox, pc, buffer, log, mail>>
  BY DEF InCall, Take, TakeEvents, IterEdge, Disconnect, TakeResult, NoResult, Join, Call, Drop,
         workerVars, batchVars, sinkVars
<1>2. CASE Take
  <2>1. iter = "receiving" /\ iter' = "idle" /\ UNCHANGED <<result, final, events>>
    BY <1>2 DEF Take, batchVars
  <2>2. iter' \in IterAt
    BY <2>1 DEF IterAt
  <2> QED
    BY <1>1, <2>1, <2>2 DEF Control, Delivering, Waiting, ResultLeft, SenderAlive, Drained, Mailed
<1>3. CASE (Call \/ Drop) /\ UNCHANGED batchVars
  <2>1. /\ iter = "idle" /\ UNCHANGED <<result, final, events>>
        /\ (iter' = "receiving" /\ chan' = chan) \/ (iter' = "dropped" /\ chan' = <<>>)
    BY <1>3 DEF Call, Drop, batchVars
  <2>2. iter' \in IterAt
    BY <2>1 DEF IterAt
  <2> QED
    BY <1>1, <2>1, <2>2 DEF Control, Delivering, Waiting, ResultLeft, SenderAlive, Drained, Mailed
<1>4. CASE Disconnect /\ UNCHANGED batchVars
  <2>1. /\ iter = "receiving" /\ chan = <<>> /\ ~SenderAlive /\ iter' = "finishing" /\ iter' \in IterAt
        /\ UNCHANGED <<result, final, events, chan>>
    BY <1>4 DEF Disconnect, batchVars, IterAt
  <2> QED
    BY <1>1, <2>1 DEF Control, Delivering, Waiting, ResultLeft, SenderAlive, Drained, Mailed
<1>5. CASE TakeResult("events") /\ UNCHANGED batchVars
  <2>1. /\ iter = "finishing" /\ result' = <<>> /\ ~SenderAlive /\ pc # "cancelled" /\ UNCHANGED <<chan, events>>
        /\ \/ result = <<"error">> /\ iter' = "raising" /\ final' = FALSE
           \/ result = <<"state">> /\ iter' = "events" /\ final' = TRUE
    <3>1. /\ iter = "finishing" /\ result # <<>> /\ result' = <<>> /\ UNCHANGED <<chan, events>>
          /\ final' = (result[1] = "state")
          /\ iter' = IF result[1] = "error" THEN "raising" ELSE "events"
      BY <1>5 DEF TakeResult, batchVars
    <3>2. result = <<"state">> \/ result = <<"error">>
      BY <3>1 DEF Control, ResultLeft
    <3>3. ~SenderAlive /\ pc # "cancelled"
      BY <3>1 DEF Control, Waiting
    <3>4. CASE result = <<"state">>
      <4>1. result[1] = "state" /\ result[1] # "error"
        BY <3>4
      <4> QED
        BY <3>1, <3>3, <3>4, <4>1
    <3>5. CASE result = <<"error">>
      <4>1. result[1] = "error" /\ result[1] # "state"
        BY <3>5
      <4> QED
        BY <3>1, <3>3, <3>5, <4>1
    <3> QED
      BY <3>2, <3>4, <3>5
  <2>2. <<"state">> # <<>> /\ <<"error">> # <<>> /\ iter' \in IterAt
    BY <2>1 DEF IterAt
  <2> QED
    BY <1>1, <2>1, <2>2 DEF Control, Delivering, Waiting, ResultLeft, SenderAlive, Drained, Mailed
<1>6. CASE NoResult("events") /\ UNCHANGED batchVars
  <2>1. /\ iter = "finishing" /\ result = <<>> /\ pc = "gone" /\ iter' = "events" /\ iter' \in IterAt
        /\ UNCHANGED <<result, final, events, chan>>
    BY <1>6 DEF NoResult, batchVars, IterAt
  <2>2. job.ending = "panic"
    BY <2>1 DEF Control, ResultLeft
  <2> QED
    BY <1>1, <2>1, <2>2 DEF Control, Delivering, Waiting, ResultLeft, SenderAlive, Drained, Mailed
<1>7. CASE TakeEvents
  <2>1. /\ iter = "events" /\ iter' = "joining" /\ iter' \in IterAt /\ UNCHANGED <<result, final, chan>>
        /\ events' = IF mail # <<>> THEN mail[1] ELSE <<>>
    BY <1>7 DEF TakeEvents, IterAt
  <2>2. job.variables /\ job.ending = "done" => events' = log
    <3> SUFFICES ASSUME job.variables, job.ending = "done" PROVE events' = log
      OBVIOUS
    <3>1. pc \in {"succeeded", "exiting", "gone"}
      BY <2>1 DEF Control, Waiting, SenderAlive, ResultLeft, WorkerAt
    <3>2. mail = <<log>>
      BY <2>1, <3>1 DEF Control, Mailed
    <3>3. <<log>> # <<>> /\ <<log>>[1] = log
      OBVIOUS
    <3> QED
      BY <2>1, <3>2, <3>3
  <2> QED
    BY <1>1, <2>1, <2>2 DEF Control, Delivering, Waiting, ResultLeft, SenderAlive, Drained, Mailed
<1>8. CASE Join /\ UNCHANGED batchVars
  <2>1. /\ pc = "gone" /\ UNCHANGED <<result, final, events, chan>> /\ iter' \in IterAt
        /\ (iter = "joining" /\ iter' = "over") \/ (iter = "raising" /\ iter' = "raised")
    BY <1>8 DEF Join, batchVars, IterAt
  <2> QED
    BY <1>1, <2>1 DEF Control, Delivering, Waiting, ResultLeft, SenderAlive, Drained, Mailed
<1> QED
  BY <1>2, <1>3, <1>4, <1>5, <1>6, <1>7, <1>8 DEF InCall, IterEdge

LEMMA NextControl == Control /\ next \in Nat \ {0} /\ [Next]_vars => Control'
<1> SUFFICES ASSUME Control, next \in Nat \ {0}, [Next]_vars PROVE Control'
  OBVIOUS
<1>1. CASE UNCHANGED vars
  BY <1>1 DEF vars, workerVars, batchVars, sinkVars, Control, Delivering, Waiting, ResultLeft,
              SenderAlive, Drained, Mailed
<1>2. CASE Worker
  BY <1>2, WorkerControl
<1>3. CASE InCall \/ ((Call \/ Drop) /\ UNCHANGED batchVars)
  BY <1>3, IteratorControl
<1> QED
  BY <1>1, <1>2, <1>3 DEF Next

-----------------------------------------------------------------------------
(* The types of what output and sink hold.                                 *)

(* Rows emptied for reuse.                                                 *)
Blank == {row \in Row : Empty(row)}

Held ==
  /\ job \in Jobs /\ next \in 1..Len(job.blocks) + 1
  /\ pc = "fill" => next \in 1..Len(job.blocks)
  /\ current \in Row /\ FlatOK(flat) /\ outbox \in Seq(Row)
  /\ spare \in Seq(Blank) /\ Len(spare) <= 1 /\ pool \in Seq(Blank)
  /\ buffer \in Seq(Solid) /\ Len(buffer) < BatchSize
  /\ chan \in Seq(Batch) /\ Len(chan) <= ChannelCap

LEMMA ResetBlank ==
  ASSUME NEW row \in Row
  PROVE  Reset(row) \in Blank
BY ResetType, EmptyIs DEF Blank

LEMMA LastFront ==
  ASSUME NEW S, NEW s \in Seq(S), s # <<>>
  PROVE  Last(s) \in S /\ Front(s) \in Seq(S) /\ Len(Front(s)) = Len(s) - 1
<1> DEFINE n == Len(s) - 1
<1>1. Len(s) \in Nat \ {0} /\ s[Len(s)] \in S
  BY LenNat, ElementOfSeq
<1>2. n \in Nat /\ n <= Len(s)
  BY <1>1
<1>3. \A i \in 1..n : s[i] \in S
  BY <1>1, ElementOfSeq
<1>4. Front(s) = [i \in 1..n |-> s[i]]
  BY <1>1, <1>2 DEF Front
<1> HIDE DEF n
<1>5. [i \in 1..n |-> s[i]] \in Seq(S) /\ Len([i \in 1..n |-> s[i]]) = n
  BY <1>2, <1>3, IsASeq
<1> QED
  BY <1>1, <1>4, <1>5 DEF Last, n

LEMMA RecycledType ==
  ASSUME NEW rows \in Seq(Row), pool \in Seq(Blank)
  PROVE  /\ Recycled(rows) \in Seq(Blank) /\ Len(Recycled(rows)) = Len(pool) + Len(rows)
         /\ Len(pool) \in Nat /\ Len(rows) \in Nat
<1> DEFINE emptied == [i \in DOMAIN rows |-> Reset(rows[i])]
<1>1. Len(rows) \in Nat /\ DOMAIN rows = 1..Len(rows) /\ \A i \in 1..Len(rows) : rows[i] \in Row
  BY LenProperties, ElementOfSeq
<1>2. \A i \in 1..Len(rows) : Reset(rows[i]) \in Blank
  BY <1>1, ResetBlank
<1>3. emptied \in Seq(Blank) /\ Len(emptied) = Len(rows)
  <2>1. emptied = [i \in 1..Len(rows) |-> Reset(rows[i])]
    BY <1>1
  <2> HIDE DEF emptied
  <2> QED
    BY <1>1, <1>2, <2>1, IsASeq, LenProperties
<1> HIDE DEF emptied
<1>4. pool \o emptied \in Seq(Blank) /\ Len(pool \o emptied) = Len(pool) + Len(emptied)
  BY <1>3, ConcatProperties
<1> QED
  BY <1>1, <1>3, <1>4, LenNat DEF Recycled, emptied

(* With the row it accepts the sink has some rows, all with cells.         *)
LEMMA Accepting ==
  ASSUME Held, outbox # <<>>
  PROVE  /\ Head(outbox) \in Row /\ Tail(outbox) \in Seq(Row)
         /\ Len(buffer) \in Nat /\ buffer \in Seq(Row) /\ (Completes <=> Len(buffer) + 1 = BatchSize)
         /\ ~Bare(Head(outbox)) =>
              /\ Head(outbox) \in Solid /\ Append(buffer, Head(outbox)) \in Seq(Solid)
              /\ Append(buffer, Head(outbox)) \in Seq(Row)
              /\ Len(Append(buffer, Head(outbox))) = Len(buffer) + 1
<1> DEFINE h == Head(outbox)
<1>1. Head(outbox) \in Row /\ Tail(outbox) \in Seq(Row)
  BY HeadTailProperties DEF Held
<1>2. Len(buffer) \in Nat /\ (Completes <=> Len(buffer) + 1 = BatchSize)
  BY LenNat, BatchSizeAssumption DEF Held, Completes
<1>3. ~Bare(Head(outbox)) => Head(outbox) \in Solid
  BY <1>1 DEF Solid
<1>4. buffer \in Seq(Solid) /\ buffer \in Seq(Row)
  BY SolidRows DEF Held
<1> HIDE DEF h
<1>5. h \in Solid => Append(buffer, h) \in Seq(Solid) /\ Len(Append(buffer, h)) = Len(buffer) + 1
  BY <1>4, Grown
<1>6. h \in Solid => Append(buffer, h) \in Seq(Row)
  BY <1>5, SolidRows
<1> QED
  BY <1>1, <1>2, <1>3, <1>4, <1>5, <1>6 DEF h

(* Flushing is a step of the program.                                      *)
LEMMA FlushedIs ==
  ASSUME current \in Row, FlatOK(flat)
  PROVE  /\ Flushed.out \in Seq(Row) /\ FlatOK(Flushed.fl)
         /\ \A due \in Seq(Row) :
              [fl |-> Flushed.fl, out |-> due \o Flushed.out]
                = PassStep(job, [fl |-> flat, out |-> due], current)
         /\ ~job.flatten => Len(Flushed.out) <= 1
<1> DEFINE r == Rekeyed(current)
           p == Push(flat, r)
           f == p.fl
           o == p.out
<1>1. r \in Row /\ Len(<<>>) = 0 /\ <<>> \in Seq(Row)
  BY RekeyedType, EmptySeq
<1>2. o \in Seq(Row) /\ FlatOK(f)
  BY <1>1, PushOut
<1>3. \/ Empty(current) /\ Flushed = [fl |-> flat, out |-> <<>>]
      \/ ~Empty(current) /\ job.flatten /\ Flushed = p
      \/ ~Empty(current) /\ ~job.flatten /\ Flushed = [fl |-> flat, out |-> <<r>>]
  BY DEF Flushed
<1>4. \A due : PassStep(job, [fl |-> flat, out |-> due], current) =
        IF Empty(current) THEN [fl |-> flat, out |-> due]
        ELSE IF job.flatten THEN [fl |-> f, out |-> due \o o] ELSE [fl |-> flat, out |-> Append(due, r)]
  BY DEF PassStep
<1>5. Flushed = p => Flushed.fl = f /\ Flushed.out = o
  OBVIOUS
<1>6. \A due \in Seq(Row) : due \o <<>> = due /\ Append(due, r) = due \o <<r>>
  BY <1>1, ConcatEmptySeq, AppendIsConcat
<1> HIDE DEF r, f, o, p
<1>7. <<r>> \in Seq(Row) /\ Len(<<r>>) = 1
  BY <1>1
<1>8. CASE Empty(current)
  <2>1. Flushed.fl = flat /\ Flushed.out = <<>>
    BY <1>3, <1>8
  <2> QED
    BY <1>1, <1>4, <1>6, <1>8, <2>1
<1>9. CASE ~Empty(current) /\ job.flatten
  <2>1. Flushed.fl = f /\ Flushed.out = o
    BY <1>3, <1>5, <1>9
  <2> QED
    BY <1>2, <1>4, <1>9, <2>1
<1>10. CASE ~Empty(current) /\ ~job.flatten
  <2>1. Flushed.fl = flat /\ Flushed.out = <<r>>
    BY <1>3, <1>10
  <2> QED
    BY <1>4, <1>6, <1>7, <1>10, <2>1, SMTT(20)
<1> QED
  BY <1>8, <1>9, <1>10

LEMMA InitHeld == Init => Held
<1> SUFFICES ASSUME Init PROVE Held
  OBVIOUS
<1>1. /\ <<>> \in Seq(Row) /\ <<>> \in Seq(Blank) /\ <<>> \in Seq(Solid) /\ <<>> \in Seq(Batch)
      /\ Len(<<>>) = 0 /\ EmptyRow \in Row /\ FlatOK(NewFlattener)
  BY EmptySeq, EmptyRowType, NewFlattenerOK
<1>2. job \in Jobs /\ 1 \in 1..Len(job.blocks) + 1
  BY JobIs DEF Init, CommonInit
<1> QED
  BY <1>1, <1>2, ChannelAssumption, BatchSizeAssumption DEF Init, CommonInit, Held

(* The step of the sink: what it hands back is empty, what it keeps has    *)
(* cells.                                                                  *)
LEMMA AcceptHeld ==
  ASSUME Held, Accept, outbox # <<>>,
         \/ spare' = spare /\ pool' = pool
         \/ \E row \in Blank, rest \in Seq(Blank) : HandBack(row, rest),
         buffer' \in Seq(Solid), Len(buffer') < BatchSize, chan' \in Seq(Batch), Len(chan') <= ChannelCap
  PROVE  Held'
<1>1. outbox' \in Seq(Row) /\ UNCHANGED <<job, next, current, flat, pc>>
  BY Accepting DEF Accept
<1>2. spare' \in Seq(Blank) /\ Len(spare') <= 1 /\ pool' \in Seq(Blank)
  <2>1. CASE spare' = spare /\ pool' = pool
    BY <2>1 DEF Held
  <2>2. CASE \E row \in Blank, rest \in Seq(Blank) : HandBack(row, rest)
    <3>1. PICK row \in Blank, rest \in Seq(Blank) : HandBack(row, rest)
      BY <2>2
    <3>2. <<row>> \in Seq(Blank) /\ Len(<<row>>) = 1
      BY <3>1
    <3>3. rest \o spare \in Seq(Blank)
      BY <3>1, ConcatProperties DEF Held
    <3> DEFINE one == <<row>>
    <3>4. (spare' = spare /\ pool' = rest) \/ (spare' = one /\ pool' = rest \o spare)
      BY <3>1 DEF HandBack
    <3>5. one \in Seq(Blank) /\ Len(one) <= 1
      BY <3>2
    <3> HIDE DEF one
    <3> QED
      BY <3>1, <3>3, <3>4, <3>5 DEF Held
  <2> QED
    BY <2>1, <2>2
<1> QED
  BY <1>1, <1>2 DEF Held

(* A batch that is sent.                                                   *)
LEMMA EmitHeld ==
  ASSUME Held, \E before \in Seq(Solid) : BuilderAt(builder, before), NEW rows \in Seq(Solid), Emit(rows)
  PROVE  /\ buffer' = <<>> /\ buffer' \in Seq(Solid) /\ Len(buffer') = 0 /\ Len(buffer') < BatchSize
         /\ chan' \in Seq(Batch) /\ Len(chan') <= ChannelCap
<1>1. TableOf(builder, rows) \in Batch
  BY BatchTable
<1>2. buffer' = <<>> /\ chan' = Append(chan, TableOf(builder, rows)) /\ Len(chan) < ChannelCap
  BY DEF Emit
<1> DEFINE b == TableOf(builder, rows)
<1> HIDE DEF b
<1>3. b \in Batch /\ chan' = Append(chan, b) /\ chan \in Seq(Batch)
  BY <1>1, <1>2 DEF b, Held
<1>4. chan' \in Seq(Batch) /\ Len(chan') = Len(chan) + 1 /\ Len(chan) \in Nat
  BY <1>3, Grown
<1>5. Len(<<>>) = 0 /\ <<>> \in Seq(Solid) /\ 0 < BatchSize
  BY EmptySeq, BatchSizeAssumption
<1> QED
  BY <1>2, <1>4, <1>5, ChannelAssumption

LEMMA SinkHeld ==
  ASSUME Held, \E before \in Seq(Solid) : BuilderAt(builder, before),
         AcceptVariables \/ AcceptRow \/ AcceptLast \/ EmitTrailing
  PROVE  Held'
<1>1. CASE AcceptVariables
  <2>1. /\ outbox # <<>> /\ Accept /\ UNCHANGED <<buffer, chan>>
        /\ HandBack(Reset(Head(outbox)), pool)
    BY <1>1 DEF AcceptVariables
  <2>2. Reset(Head(outbox)) \in Blank /\ pool \in Seq(Blank)
    BY <2>1, Accepting, ResetBlank DEF Held
  <2> QED
    BY <2>1, <2>2, AcceptHeld DEF Held
<1>2. CASE AcceptRow
  <2>1. /\ outbox # <<>> /\ Accept /\ chan' = chan /\ ~Bare(Head(outbox)) /\ ~Completes
        /\ buffer' = Append(buffer, Head(outbox))
        /\ IF pool = <<>> THEN UNCHANGED <<spare, pool>> ELSE HandBack(Last(pool), Front(pool))
    BY <1>2 DEF AcceptRow
  <2>2. buffer' \in Seq(Solid) /\ Len(buffer') < BatchSize
    <3>1. Len(buffer) + 1 # BatchSize /\ Len(buffer) < BatchSize /\ Len(buffer) \in Nat
      BY <2>1, Accepting DEF Held
    <3> QED
      BY <2>1, <3>1, Accepting, BatchSizeAssumption
  <2>3. \/ spare' = spare /\ pool' = pool
        \/ \E row \in Blank, rest \in Seq(Blank) : HandBack(row, rest)
    BY <2>1, LastFront DEF Held
  <2> QED
    BY <2>1, <2>2, <2>3, AcceptHeld DEF Held
<1>3. CASE AcceptLast
  <2> DEFINE rows == Append(buffer, Head(outbox))
  <2>1. /\ outbox # <<>> /\ Accept /\ ~Bare(Head(outbox)) /\ Emit(rows)
        /\ HandBack(Last(Recycled(rows)), Front(Recycled(rows)))
    BY <1>3 DEF AcceptLast
  <2>2. rows \in Seq(Solid) /\ rows \in Seq(Row) /\ Len(rows) = Len(buffer) + 1 /\ Len(buffer) \in Nat
    BY <2>1, Accepting
  <2> HIDE DEF rows
  <2>3. Recycled(rows) \in Seq(Blank) /\ Len(Recycled(rows)) # 0
    <3>1. Recycled(rows) \in Seq(Blank) /\ Len(Recycled(rows)) = Len(pool) + Len(rows) /\ Len(pool) \in Nat
      BY <2>2, RecycledType DEF Held
    <3> QED
      BY <2>2, <3>1
  <2>4. Last(Recycled(rows)) \in Blank /\ Front(Recycled(rows)) \in Seq(Blank)
    BY <2>3, LastFront, LenNat
  <2> QED
    BY <2>1, <2>2, <2>4, EmitHeld, AcceptHeld
<1>4. CASE EmitTrailing
  <2>1. /\ UNCHANGED <<job, next, current, spare, flat, outbox>> /\ pc' = "events"
        /\ IF buffer = <<>> THEN UNCHANGED <<chan, builder, buffer, pool>>
           ELSE Emit(buffer) /\ pool' = Recycled(buffer)
    BY <1>4 DEF EmitTrailing, workerVars
  <2>2. buffer \in Seq(Row) /\ buffer \in Seq(Solid)
    BY SolidRows DEF Held
  <2>3. CASE buffer = <<>>
    BY <2>1, <2>3 DEF Held
  <2>4. CASE buffer # <<>>
    <3>1. /\ buffer' \in Seq(Solid) /\ Len(buffer') < BatchSize /\ chan' \in Seq(Batch) /\ Len(chan') <= ChannelCap
      BY <2>1, <2>2, <2>4, EmitHeld
    <3>2. pool' \in Seq(Blank)
      BY <2>1, <2>2, <2>4, RecycledType DEF Held
    <3> QED
      BY <2>1, <3>1, <3>2 DEF Held
  <2> QED
    BY <2>3, <2>4
<1> QED
  BY <1>1, <1>2, <1>3, <1>4

(* The row a block is written on.                                          *)
LEMMA BaseIs ==
  ASSUME Held
  PROVE  /\ (IF spare # <<>> THEN spare[1] ELSE current) \in Row
         /\ Empty(current) => Empty(IF spare # <<>> THEN spare[1] ELSE current)
<1>1. spare # <<>> => spare[1] \in Blank
  BY LenNat, ElementOfSeq DEF Held
<1> QED
  BY <1>1 DEF Held, Blank

LEMMA OutputHeld ==
  ASSUME Held, StartRow \/ Fill \/ EndBlocks \/ FinishFlattener, UNCHANGED batchVars
  PROVE  Held'
<1>1. Len(job.blocks) \in Nat /\ IsJob(job) /\ next \in Nat /\ next # 0 /\ UNCHANGED <<job, buffer, pool>>
  BY JobIs DEF Held, StartRow, Fill, EndBlocks, FinishFlattener, batchVars, sinkVars
<1>2. EmptyRow \in Row /\ <<>> \in Seq(Row) /\ <<>> \in Seq(Blank) /\ Len(<<>>) = 0 /\ FlatOK(NewFlattener)
  BY EmptyRowType, EmptySeq, NewFlattenerOK
<1>3. CASE StartRow
  <2>1. Flushed.out \in Seq(Row) /\ FlatOK(Flushed.fl)
    BY FlushedIs DEF Held
  <2>2. UNCHANGED <<next, spare, chan>> /\ next <= Len(job.blocks) /\ outbox' = Flushed.out
        /\ flat' = Flushed.fl /\ current' \in {current, EmptyRow}
    BY <1>3 DEF StartRow
  <2> QED
    BY <1>1, <1>2, <2>1, <2>2 DEF Held
<1>4. CASE Fill
  <2> DEFINE base == IF spare # <<>> THEN spare[1] ELSE current
  <2>1. next \in 1..Len(job.blocks) /\ next' = next + 1 /\ pc' = "block" /\ spare' = <<>>
        /\ UNCHANGED <<flat, outbox, chan>> /\ current' = Written(base, BlockRow(job, next))
    BY <1>4 DEF Fill, Held
  <2>2. base \in Row
    BY BaseIs
  <2> HIDE DEF base
  <2>3. current' \in Row
    BY <1>1, <2>1, <2>2, BlockRowType, WrittenType
  <2>4. next' \in 1..Len(job.blocks) + 1
    BY <1>1, <2>1
  <2> QED
    BY <1>1, <1>2, <2>1, <2>3, <2>4 DEF Held
<1>5. CASE EndBlocks
  <2>1. Flushed.out \in Seq(Row) /\ FlatOK(Flushed.fl)
    BY FlushedIs DEF Held
  <2>2. UNCHANGED <<next, spare, chan>> /\ pc' = "flush" /\ outbox' = Flushed.out
        /\ flat' = Flushed.fl /\ current' = EmptyRow
    BY <1>5 DEF EndBlocks
  <2> QED
    BY <1>1, <1>2, <2>1, <2>2 DEF Held
<1>6. CASE FinishFlattener
  <2>1. Rest(flat) \in Seq(Row)
    BY BeforeType DEF Held, FlatOK, Rest
  <2>2. UNCHANGED <<next, spare, chan, current>> /\ pc' = "finish" /\ flat' = NewFlattener
        /\ outbox' \in {Rest(flat), <<>>}
    BY <1>6 DEF FinishFlattener
  <2> QED
    BY <1>1, <1>2, <2>1, <2>2 DEF Held
<1> QED
  BY <1>3, <1>4, <1>5, <1>6

LEMMA NextHeld ==
  ASSUME Held, \E before \in Seq(Solid) : BuilderAt(builder, before), [Next]_vars
  PROVE  Held'
<1>1. CASE AcceptVariables \/ AcceptRow \/ AcceptLast \/ EmitTrailing
  BY <1>1, SinkHeld
<1>2. CASE (StartRow \/ Fill \/ EndBlocks \/ FinishFlattener) /\ UNCHANGED batchVars
  BY <1>2, OutputHeld
<1>3. CASE Take
  <2>1. chan # <<>> /\ chan' = Tail(chan)
        /\ UNCHANGED <<job, next, current, spare, flat, outbox, pc, buffer, pool>>
    BY <1>3 DEF Take, workerVars, batchVars, sinkVars
  <2>2. Tail(chan) \in Seq(Batch) /\ Len(Tail(chan)) = Len(chan) - 1 /\ Len(chan) \in Nat
    BY <2>1, HeadTailProperties, LenNat DEF Held
  <2> QED
    BY <2>1, <2>2, ChannelAssumption DEF Held
<1>4. CASE \/ SendEvents \/ HangUp \/ TakeEvents \/ UNCHANGED vars
           \/ (Fail \/ Report \/ Exit \/ Disconnect \/ TakeResult("events") \/ NoResult("events")
                \/ Join \/ Call \/ Drop) /\ UNCHANGED batchVars
  <2>1. /\ UNCHANGED <<job, next, current, spare, flat, buffer, pool>> /\ (pc' = "fill" => pc = "fill")
        /\ outbox' \in {outbox, <<>>} /\ chan' \in {chan, <<>>}
    BY <1>4 DEF vars, workerVars, batchVars, sinkVars, SendEvents, HangUp, Unwind, TakeEvents, Fail, Report,
                Exit, Disconnect, TakeResult, NoResult, Join, Call, Drop
  <2>2. <<>> \in Seq(Row) /\ <<>> \in Seq(Batch) /\ Len(<<>>) = 0
    BY EmptySeq
  <2>3. outbox' \in Seq(Row)
    BY <2>1, <2>2 DEF Held
  <2>4. chan' \in Seq(Batch) /\ Len(chan') <= ChannelCap
    <3>1. CASE chan' = chan
      BY <3>1 DEF Held
    <3>2. CASE chan' = <<>>
      <4>1. Len(chan') = 0 /\ chan' \in Seq(Batch)
        BY <2>2, <3>2
      <4> QED
        BY <4>1, ChannelAssumption
    <3> QED
      BY <2>1, <3>1, <3>2
  <2> QED
    BY <2>1, <2>3, <2>4 DEF Held
<1> QED
  BY <1>1, <1>2, <1>3, <1>4 DEF Next, Worker, WorkerEdge, InCall, IterEdge

-----------------------------------------------------------------------------
(* What the sink has accepted, what it has sent, and what is due.          *)

(* Of the rows accepted the sink keeps those with cells: some it has made  *)
(* batches of, the others are in the buffer.                               *)
Collected(accepted, before) ==
  /\ accepted \in Seq(Row) /\ before \in Seq(Solid)
  /\ before \o buffer = WithCells(accepted)
  /\ BuilderAt(builder, before)
  /\ count = Len(before \o buffer)
  /\ job.variables => Logs(accepted, before \o buffer, log, count)

(* Nobody asks for the batches of an iterator that was dropped.            *)
Sent(accepted, before) ==
  iter # "dropped" =>
    /\ Owes(job, pc, next - 1, current, flat, accepted \o outbox)
    /\ Sound(yielded \o chan)
    /\ Joined(yielded \o chan) = Tabled(before)

Handed ==
  /\ yielded \in Seq(Batch) /\ Sound(yielded)
  /\ Begins(Joined(yielded), Tabled(Rows(job)))

Progress ==
  /\ Handed
  /\ \E accepted, before : Collected(accepted, before) /\ Sent(accepted, before)

LEMMA InitProgress == Init => Progress
<1> SUFFICES ASSUME Init PROVE Progress
  OBVIOUS
<1>1. /\ <<>> \in Seq(Row) /\ <<>> \in Seq(Solid) /\ <<>> \in Seq(Batch) /\ Len(<<>>) = 0
      /\ <<>> \o <<>> = <<>>
  BY EmptySeq, ConcatEmptySeq
<1>2. IsJob(job) /\ Rows(job) \in Seq(Row)
  BY JobIs, RowsStart DEF Init, CommonInit
<1>3. /\ yielded = <<>> /\ pc = "block" /\ chan = <<>> /\ outbox = <<>> /\ next - 1 = 0
      /\ flat = NewFlattener /\ current = EmptyRow /\ buffer = <<>> /\ builder = NewBuilder
      /\ count = 0 /\ log = <<>>
  BY DEF Init, CommonInit
<1>4. Handed
  <2>1. Tabled(Rows(job)) \in Seq(TableRow) /\ <<>> \in Seq(TableRow)
    BY <1>2, TabledType, EmptySeq
  <2>2. Begins(<<>>, Tabled(Rows(job)))
    <3> DEFINE t == Tabled(Rows(job))
    <3> HIDE DEF t
    <3>1. t \in Seq(TableRow)
      BY <2>1 DEF t
    <3>2. t = <<>> \o t
      BY <3>1, ConcatEmptySeq
    <3>3. Begins(<<>>, t)
      BY <3>1, <3>2 DEF Begins
    <3> QED
      BY <3>3 DEF t
  <2> QED
    BY <1>1, <1>3, <2>2, SoundEmpty, JoinedEmpty DEF Handed
<1>5. Collected(<<>>, <<>>)
  <2>1. WithCells(<<>>) = <<>>
    BY <1>1, WithCellsType
  <2> QED
    BY <1>1, <1>3, <2>1, BuilderStart, LogsStart DEF Collected
<1>6. Sent(<<>>, <<>>)
  BY <1>1, <1>2, <1>3, EmptyIs, OwesStart, SoundEmpty, JoinedEmpty, TabledEmpty DEF Sent
<1> QED
  BY <1>4, <1>5, <1>6 DEF Progress

(* The batch that is sent goes on where the last one ended.                *)
LEMMA Emitting ==
  ASSUME NEW before \in Seq(Solid), BuilderAt(builder, before), NEW rows \in Seq(Solid), Emit(rows),
         chan \in Seq(Batch), yielded \in Seq(Batch), yielded' = yielded
  PROVE  /\ before \o rows \in Seq(Solid) /\ BuilderAt(builder', before \o rows)
         /\ Sound(yielded \o chan) /\ Joined(yielded \o chan) = Tabled(before) =>
              /\ Sound((yielded \o chan)')
              /\ Joined((yielded \o chan)') = Tabled(before \o rows)
<1> DEFINE b   == TableOf(builder, rows)
           old == yielded \o chan
           all == before \o rows
<1>1. /\ b \in Batch /\ b.rows \in Seq(TableRow)
      /\ Tabled(all) = Tabled(before) \o b.rows
      /\ b.columns = Present(all)
      /\ BuilderAt(Built(builder, rows), all)
      /\ all \in Seq(Solid)
  BY BatchTable DEF Batch
<1>2. chan' = Append(chan, b) /\ builder' = Built(builder, rows)
  BY DEF Emit
<1>3. all \in Seq(Row)
  BY <1>1, SolidRows
<1> HIDE DEF b, all
<1>4. yielded \o chan' = Append(old, b) /\ old \in Seq(Batch)
  BY <1>1, <1>2, ConcatAppend
<1> HIDE DEF old
<1>5. ASSUME Sound(old), Joined(old) = Tabled(before)
      PROVE  Sound(Append(old, b)) /\ Joined(Append(old, b)) = Tabled(all)
  <2>1. Joined(Append(old, b)) = Joined(old) \o b.rows
    BY <1>1, <1>4, JoinedAppend
  <2>2. b.columns = Present(Joined(old) \o b.rows)
    BY <1>1, <1>3, <1>5, PresentTabled
  <2> QED
    BY <1>1, <1>5, <2>1, <2>2, SoundAppend
<1> QED
  BY <1>1, <1>2, <1>4, <1>5 DEF all, old

(* The row the sink accepts comes after those it has accepted.             *)
LEMMA AcceptStep ==
  ASSUME Held, NEW accepted, NEW before, Collected(accepted, before), outbox # <<>>, Accept
  PROVE  LET more == Append(accepted, Head(outbox))
         IN  /\ more \in Seq(Row) /\ more \o outbox' = accepted \o outbox
             /\ Bare(Head(outbox)) =>
                  /\ before \o buffer = WithCells(more)
                  /\ job.variables => Logs(more, before \o buffer, log', count)
             /\ ~Bare(Head(outbox)) =>
                  /\ before \o Append(buffer, Head(outbox)) = WithCells(more)
                  /\ count + 1 = Len(before \o Append(buffer, Head(outbox)))
                  /\ job.variables => Logs(more, before \o Append(buffer, Head(outbox)), log', count + 1)
<1> DEFINE h == Head(outbox)
           r == Tail(outbox)
           more == Append(accepted, h)
           kept == before \o buffer
<1>1. /\ accepted \in Seq(Row) /\ before \in Seq(Solid) /\ kept = WithCells(accepted) /\ count = Len(kept)
      /\ job.variables => Logs(accepted, kept, log, count)
  BY DEF Collected
<1>2. outbox' = r /\ (job.variables => log' = log \o Stamped(count, h.changes))
  BY DEF Accept, Logged, Stamped
<1>3. h \in Row /\ r \in Seq(Row) /\ buffer \in Seq(Solid) /\ outbox \in Seq(Row)
  BY Accepting DEF Held
<1>4. more \in Seq(Row) /\ more \o r = accepted \o outbox
  BY <1>1, <1>3, HandOver, SMTT(20)
<1> HIDE DEF h, r
<1>5. WithCells(more) = IF Bare(h) THEN kept ELSE Append(kept, h)
  BY <1>1, <1>3, WithCellsAppend
<1>6. kept \in Seq(Solid) /\ kept \in Seq(Row)
  <2>1. kept \in Seq(Solid)
    BY <1>1, <1>3, ConcatProperties
  <2> HIDE DEF kept
  <2> QED
    BY <2>1, SolidRows
<1>7. ~Bare(h) => before \o Append(buffer, h) = Append(kept, h)
  <2> SUFFICES ASSUME ~Bare(h) PROVE before \o Append(buffer, h) = Append(kept, h)
    OBVIOUS
  <2>1. h \in Solid
    BY <1>3 DEF Solid
  <2> QED
    BY <1>1, <1>3, <2>1, ConcatAppend
<1> HIDE DEF kept
<1>8. Len(Append(kept, h)) = Len(kept) + 1
  BY <1>3, <1>6, Grown
<1>9. job.variables =>
        /\ Bare(h) => Logs(more, kept, log', count)
        /\ Logs(more, Append(kept, h), log', count + 1)
  BY <1>1, <1>2, <1>3, <1>6, LogsRow
<1> QED
  BY <1>1, <1>2, <1>4, <1>5, <1>7, <1>8, <1>9 DEF h, r, kept

(* A step that hands nothing out leaves what was handed out as it was.     *)
LEMMA HandedStays == Handed /\ UNCHANGED <<job, yielded>> => Handed'
BY DEF Handed

LEMMA AcceptProgress ==
  ASSUME Held, Progress, AcceptVariables \/ AcceptRow
  PROVE  Progress'
<1>1. PICK accepted, before : Collected(accepted, before) /\ Sent(accepted, before)
  BY DEF Progress
<1> DEFINE h    == Head(outbox)
           more == Append(accepted, h)
<1>2. /\ outbox # <<>> /\ Accept /\ UNCHANGED <<builder, chan>>
      /\ \/ Bare(h) /\ buffer' = buffer /\ count' = count
         \/ ~Bare(h) /\ buffer' = Append(buffer, h) /\ count' = count + 1
  BY DEF AcceptVariables, AcceptRow
<1>3. /\ more \in Seq(Row) /\ more \o outbox' = accepted \o outbox
      /\ Bare(h) => /\ before \o buffer = WithCells(more)
                    /\ job.variables => Logs(more, before \o buffer, log', count)
      /\ ~Bare(h) => /\ before \o Append(buffer, h) = WithCells(more)
                     /\ count + 1 = Len(before \o Append(buffer, h))
                     /\ job.variables => Logs(more, before \o Append(buffer, h), log', count + 1)
  BY <1>1, <1>2, AcceptStep
<1>4. UNCHANGED <<job, yielded, next, current, flat, pc, iter>>
  BY <1>2 DEF Accept
<1> HIDE DEF more, h
<1>8. PICK got : got = more
  OBVIOUS
<1>5. Collected(got, before)'
  BY <1>1, <1>2, <1>3, <1>4, <1>8 DEF Collected
<1>6. Sent(got, before)'
  BY <1>1, <1>2, <1>3, <1>4, <1>8 DEF Sent
<1>7. Handed'
  BY <1>4, HandedStays DEF Progress
<1> QED
  BY <1>5, <1>6, <1>7 DEF Progress

LEMMA LastProgress ==
  ASSUME Held, Progress, AcceptLast
  PROVE  Progress'
<1>1. PICK accepted, before : Collected(accepted, before) /\ Sent(accepted, before)
  BY DEF Progress
<1> DEFINE h    == Head(outbox)
           more == Append(accepted, h)
           rows == Append(buffer, h)
           all  == before \o rows
<1>2. outbox # <<>> /\ Accept /\ ~Bare(h) /\ Emit(rows) /\ count' = count + 1 /\ buffer' = <<>>
  BY DEF AcceptLast, Emit
<1>3. /\ more \in Seq(Row) /\ more \o outbox' = accepted \o outbox
      /\ ~Bare(h) => /\ all = WithCells(more) /\ count + 1 = Len(all)
                     /\ job.variables => Logs(more, all, log', count + 1)
  BY <1>1, <1>2, AcceptStep
<1>4. UNCHANGED <<job, yielded, next, current, flat, pc, iter>>
  BY <1>2 DEF Accept
<1>5. rows \in Seq(Solid)
  BY <1>2, Accepting
<1>6. chan \in Seq(Batch) /\ yielded \in Seq(Batch)
  BY DEF Held, Progress, Handed
<1>7. before \in Seq(Solid) /\ BuilderAt(builder, before)
  BY <1>1 DEF Collected
<1> HIDE DEF rows, h
<1>8. /\ all \in Seq(Solid) /\ BuilderAt(builder', all)
      /\ Sound(yielded \o chan) /\ Joined(yielded \o chan) = Tabled(before) =>
           Sound((yielded \o chan)') /\ Joined((yielded \o chan)') = Tabled(all)
  BY <1>2, <1>4, <1>5, <1>6, <1>7, Emitting
<1> HIDE DEF more, all
<1>9. all \o buffer' = all
  BY <1>2, <1>8, ConcatEmptySeq
<1>13. PICK got, done : got = more /\ done = all
  OBVIOUS
<1>10. Collected(got, done)'
  BY <1>2, <1>3, <1>4, <1>8, <1>9, <1>13 DEF Collected
<1>11. Sent(got, done)'
  BY <1>1, <1>3, <1>4, <1>8, <1>13 DEF Sent
<1>12. Handed'
  BY <1>4, HandedStays DEF Progress
<1> QED
  BY <1>10, <1>11, <1>12 DEF Progress

LEMMA TrailingProgress ==
  ASSUME Held, Progress, EmitTrailing
  PROVE  Progress'
<1>1. PICK accepted, before : Collected(accepted, before) /\ Sent(accepted, before)
  BY DEF Progress
<1> DEFINE all == before \o buffer
<1>2. /\ pc = "finish" /\ pc' = "events" /\ UNCHANGED <<job, yielded, next, current, flat, outbox, iter, count, log>>
      /\ \/ buffer = <<>> /\ UNCHANGED <<chan, builder, buffer>>
         \/ Emit(buffer) /\ buffer' = <<>>
  BY DEF EmitTrailing, workerVars, Emit
<1>3. Handed'
  BY <1>2, HandedStays DEF Progress
<1>4. iter # "dropped" => Owes(job, "events", next - 1, current, flat, accepted \o outbox)
  <2> SUFFICES ASSUME iter # "dropped" PROVE Owes(job, "events", next - 1, current, flat, accepted \o outbox)
    OBVIOUS
  <2> DEFINE due == accepted \o outbox
             k   == next - 1
  <2>1. Owes(job, "finish", k, current, flat, due)
    BY <1>1, <1>2 DEF Sent
  <2> HIDE DEF due, k
  <2>2. Owes(job, "events", k, current, flat, due)
    BY <2>1, OwesOn
  <2> QED
    BY <2>2 DEF due, k
<1>5. CASE buffer = <<>> /\ UNCHANGED <<chan, builder, buffer>>
  <2>1. Collected(accepted, before)'
    BY <1>1, <1>2, <1>5 DEF Collected
  <2>2. Sent(accepted, before)'
    BY <1>1, <1>2, <1>4, <1>5 DEF Sent
  <2> QED
    BY <1>3, <2>1, <2>2 DEF Progress
<1>6. CASE Emit(buffer) /\ buffer' = <<>>
  <2>1. chan \in Seq(Batch) /\ yielded \in Seq(Batch) /\ buffer \in Seq(Solid)
    BY DEF Held, Progress, Handed
  <2>2. before \in Seq(Solid) /\ BuilderAt(builder, before)
    BY <1>1 DEF Collected
  <2>3. /\ all \in Seq(Solid) /\ BuilderAt(builder', all)
        /\ Sound(yielded \o chan) /\ Joined(yielded \o chan) = Tabled(before) =>
             Sound((yielded \o chan)') /\ Joined((yielded \o chan)') = Tabled(all)
    BY <1>2, <1>6, <2>1, <2>2, Emitting
  <2>4. /\ accepted \in Seq(Row) /\ all = WithCells(accepted) /\ count = Len(all)
        /\ job.variables => Logs(accepted, all, log, count)
    BY <1>1 DEF Collected
  <2> HIDE DEF all
  <2>5. all \o buffer' = all
    BY <1>6, <2>3, ConcatEmptySeq
  <2>8. PICK done : done = all
    OBVIOUS
  <2>6. Collected(accepted, done)'
    BY <1>2, <2>3, <2>4, <2>5, <2>8 DEF Collected
  <2>7. Sent(accepted, done)'
    BY <1>1, <1>2, <1>4, <2>3, <2>8 DEF Sent
  <2> QED
    BY <1>3, <2>6, <2>7 DEF Progress
<1> QED
  BY <1>2, <1>5, <1>6

(* next() takes a batch: what it hands out begins the program's table.     *)
LEMMA TakeProgress ==
  ASSUME Held, Progress, Take
  PROVE  Progress'
<1>1. PICK accepted, before : Collected(accepted, before) /\ Sent(accepted, before)
  BY DEF Progress
<1> DEFINE h   == Head(chan)
           r   == Tail(chan)
           new == Append(yielded, h)
<1>2. /\ UNCHANGED <<job, next, current, flat, outbox, pc, buffer, builder, count, log>>
      /\ chan # <<>> /\ chan' = r /\ yielded' = new /\ iter # "dropped"
  BY DEF Take, workerVars, batchVars, sinkVars
<1>3. chan \in Seq(Batch) /\ yielded \in Seq(Batch)
  BY DEF Held, Progress, Handed
<1>4. h \in Batch /\ r \in Seq(Batch) /\ new \in Seq(Batch) /\ new \o r = yielded \o chan
  BY <1>2, <1>3, HandOver
<1> HIDE DEF h, r, new
<1>5. /\ Sound(new \o r) /\ Joined(new \o r) = Tabled(before)
      /\ Owes(job, pc, next - 1, current, flat, accepted \o outbox)
  BY <1>1, <1>2, <1>4 DEF Sent
<1>6. Collected(accepted, before)'
  BY <1>1, <1>2 DEF Collected
<1>7. Sent(accepted, before)'
  BY <1>2, <1>5 DEF Sent
<1>8. Begins(Joined(new), Tabled(Rows(job)))
  <2>1. accepted \in Seq(Row) /\ before \in Seq(Solid) /\ before \o buffer = WithCells(accepted)
    BY <1>1 DEF Collected
  <2>2. Starts(accepted, Rows(job))
    <3> DEFINE due == accepted \o outbox
               k   == next - 1
    <3>1. Owes(job, pc, k, current, flat, due)
      BY <1>5
    <3>2. IsJob(job)
      BY JobIs DEF Held
    <3> HIDE DEF due, k
    <3>3. Starts(due, Rows(job))
      BY <3>1, <3>2, OwesStarts
    <3>4. Starts(accepted \o outbox, Rows(job)) /\ outbox \in Seq(Row)
      BY <3>3 DEF due, Held
    <3> QED
      BY <2>1, <3>4, StartsMore
  <2>3. Begins(Joined(new), Joined(new \o r))
    BY <1>4, JoinedBegins
  <2>4. Begins(Tabled(before), Tabled(before \o buffer))
    <3>1. before \in Seq(Row) /\ buffer \in Seq(Row)
      BY <2>1, SolidRows DEF Held
    <3>2. before \o buffer \in Seq(Row)
      BY <3>1, ConcatProperties
    <3>3. Starts(before, before \o buffer)
      BY <3>1 DEF Starts
    <3> QED
      BY <3>1, <3>3, TabledBegins
  <2>5. Tabled(before \o buffer) = Tabled(accepted)
    BY <2>1, KeptMeans
  <2>6. Begins(Tabled(accepted), Tabled(Rows(job)))
    BY <2>1, <2>2, TabledBegins
  <2>7. Joined(new) \in Seq(TableRow) /\ Tabled(before) \in Seq(TableRow)
    BY <1>4, <2>1, JoinedType, SolidRows, TabledType
  <2>8. Begins(Tabled(before), Tabled(Rows(job)))
    BY <2>4, <2>5, <2>6, <2>7, BeginsThrough
  <2> QED
    BY <1>5, <2>3, <2>7, <2>8, BeginsThrough
<1>9. Sound(new)
  BY <1>4, <1>5, SoundPrefix
<1>10. Handed'
  BY <1>2, <1>4, <1>8, <1>9 DEF Handed
<1> QED
  BY <1>6, <1>7, <1>10 DEF Progress

(* A step of the output, which leaves the sink as it was: what was due     *)
(* still is.                                                               *)
LEMMA OutputProgress ==
  ASSUME Progress, UNCHANGED <<job, yielded, chan, iter, batchVars>>,
         \A accepted \in Seq(Row) :
           Owes(job, pc, next - 1, current, flat, accepted \o outbox)
             => Owes(job, pc', next' - 1, current', flat', accepted \o outbox')
  PROVE  Progress'
<1>1. PICK accepted, before : Collected(accepted, before) /\ Sent(accepted, before)
  BY DEF Progress
<1>2. UNCHANGED <<buffer, builder, count, log>>
  BY DEF batchVars, sinkVars
<1>3. Handed'
  BY HandedStays DEF Progress
<1>4. Collected(accepted, before)'
  BY <1>1, <1>2 DEF Collected
<1>5. Sent(accepted, before)'
  BY <1>1 DEF Sent, Collected
<1> QED
  BY <1>3, <1>4, <1>5 DEF Progress

(* The worker turns its last row into rows for the sink.                   *)
LEMMA FlushProgress ==
  ASSUME Held, Control, Progress, StartRow \/ EndBlocks, UNCHANGED batchVars
  PROVE  Progress'
<1>1. /\ UNCHANGED <<job, next, chan, iter, yielded>> /\ pc = "block"
      /\ flat' = Flushed.fl /\ outbox' = Flushed.out
      /\ \/ pc' = "fill" /\ next <= Len(job.blocks) /\ current' = IF Empty(current) THEN current ELSE EmptyRow
         \/ pc' = "flush" /\ next > Len(job.blocks) /\ job.ending = "done" /\ current' = EmptyRow
  BY DEF StartRow, EndBlocks
<1>2. /\ IsJob(job) /\ current \in Row /\ FlatOK(flat) /\ outbox = <<>>
      /\ next \in 1..Len(job.blocks) + 1 /\ Len(job.blocks) \in Nat
  BY <1>1, JobIs DEF Held, Control, Delivering
<1>3. ASSUME NEW accepted \in Seq(Row), Owes(job, pc, next - 1, current, flat, accepted \o outbox)
      PROVE  Owes(job, pc', next' - 1, current', flat', accepted \o outbox')
  <2> DEFINE due2 == accepted \o Flushed.out
             f    == Flushed.fl
             k    == next - 1
  <2>1. accepted \o outbox = accepted
    BY <1>2, ConcatEmptySeq
  <2>2. Owes(job, "block", k, current, flat, accepted)
    BY <1>1, <1>3, <2>1
  <2>3. [fl |-> f, out |-> due2] = PassStep(job, [fl |-> flat, out |-> accepted], current)
    BY <1>2, FlushedIs
  <2>4. (next <= Len(job.blocks) => k < Len(job.blocks)) /\ (next > Len(job.blocks) => k = Len(job.blocks))
    BY <1>2
  <2>5. Empty(EmptyRow) /\ (pc' = "fill" => Empty(current'))
    BY <1>1, EmptyIs
  <2>6. next' - 1 = k /\ flat' = f /\ accepted \o outbox' = due2
    BY <1>1
  <2> HIDE DEF due2, f, k
  <2>7. CASE pc' = "fill"
    <3>1. Owes(job, "fill", k, current', f, due2)
      BY <1>1, <1>2, <2>2, <2>3, <2>4, <2>5, <2>7, OwesNextRow
    <3> QED
      BY <2>6, <2>7, <3>1
  <2>8. CASE pc' = "flush"
    <3>1. Owes(job, "flush", k, current', f, due2)
      BY <1>1, <1>2, <2>2, <2>3, <2>4, <2>8, OwesLastRow
    <3> QED
      BY <2>6, <2>8, <3>1
  <2> QED
    BY <1>1, <2>7, <2>8
<1> QED
  BY <1>1, <1>3, OutputProgress

LEMMA FillProgress ==
  ASSUME Held, Progress, Fill, UNCHANGED batchVars
  PROVE  Progress'
<1> DEFINE base == IF spare # <<>> THEN spare[1] ELSE current
<1>1. /\ UNCHANGED <<job, flat, chan, iter, yielded, outbox>> /\ pc = "fill" /\ pc' = "block"
      /\ next' = next + 1 /\ current' = Written(base, BlockRow(job, next))
  BY DEF Fill
<1>2. base \in Row /\ (Empty(current) => Empty(base))
  BY BaseIs
<1> HIDE DEF base
<1>3. IsJob(job) /\ next' - 1 = (next - 1) + 1 /\ (next - 1) + 1 = next
  <2>1. next \in Nat
    BY JobIs DEF Held
  <2> QED
    BY <1>1, <2>1, JobIs DEF Held
<1>4. ASSUME NEW accepted \in Seq(Row), Owes(job, pc, next - 1, current, flat, accepted \o outbox)
      PROVE  Owes(job, pc', next' - 1, current', flat', accepted \o outbox')
  <2> DEFINE due == accepted \o outbox
             k   == next - 1
  <2>1. Owes(job, "fill", k, current, flat, due)
    BY <1>1, <1>4
  <2>2. Empty(base)
    BY <1>2, <2>1 DEF Owes
  <2> HIDE DEF due, k
  <2>3. Owes(job, "block", k + 1, Written(base, BlockRow(job, k + 1)), flat, due)
    BY <1>2, <1>3, <2>1, <2>2, OwesBlock
  <2>4. k + 1 = next /\ next' - 1 = next
    BY <1>3 DEF k
  <2>5. accepted \o outbox' = due
    BY <1>1 DEF due
  <2> QED
    BY <1>1, <2>3, <2>4, <2>5
<1> QED
  BY <1>1, <1>4, OutputProgress

LEMMA FinishProgress ==
  ASSUME Held, Progress, FinishFlattener, UNCHANGED batchVars
  PROVE  Progress'
<1>1. /\ UNCHANGED <<job, next, current, chan, iter, yielded>> /\ pc = "flush" /\ pc' = "finish"
      /\ outbox = <<>> /\ outbox' = IF job.flatten THEN Rest(flat) ELSE <<>>
  BY DEF FinishFlattener
<1>2. ASSUME NEW accepted \in Seq(Row), Owes(job, pc, next - 1, current, flat, accepted \o outbox)
      PROVE  Owes(job, pc', next' - 1, current', flat', accepted \o outbox')
  <2> DEFINE rest == IF job.flatten THEN Rest(flat) ELSE <<>>
             k    == next - 1
             due  == accepted \o rest
  <2>1. IsJob(job) /\ accepted \o <<>> = accepted
    BY ConcatEmptySeq, JobIs DEF Held
  <2>2. Owes(job, "flush", k, current, flat, accepted)
    BY <1>1, <1>2, <2>1
  <2>3. Rest(flat) \in Seq(Row) /\ Settled(job, due)
    <3> HIDE DEF k
    <3> QED
      BY <2>1, <2>2, OwesRest
  <2>4. rest \in Seq(Row)
    BY <2>3, EmptySeq
  <2>5. accepted \o outbox' = due /\ next' - 1 = k
    BY <1>1
  <2>6. k \in 0..Len(job.blocks)
    BY <2>2 DEF Owes
  <2> HIDE DEF rest, k
  <2>7. due \in Seq(Row)
    BY <2>4, ConcatProperties
  <2> HIDE DEF due
  <2>8. Owes(job, "finish", k, current, flat', due)
    BY <2>3, <2>6, <2>7 DEF Owes
  <2> QED
    BY <1>1, <2>5, <2>8
<1> QED
  BY <1>1, <1>2, OutputProgress

LEMMA FailProgress ==
  ASSUME Held, Progress, Fail, UNCHANGED batchVars
  PROVE  Progress'
<1>1. /\ UNCHANGED <<job, next, current, flat, outbox, chan, iter, yielded>> /\ pc = "block"
      /\ pc' \in {"failed", "panicked"} /\ next > Len(job.blocks) /\ job.ending # "done"
  BY DEF Fail, workerVars
<1>2. ASSUME NEW accepted \in Seq(Row), Owes(job, pc, next - 1, current, flat, accepted \o outbox)
      PROVE  Owes(job, pc', next' - 1, current', flat', accepted \o outbox')
  <2> DEFINE due == accepted \o outbox
             k   == next - 1
  <2>1. Owes(job, "block", k, current, flat, due)
    BY <1>1, <1>2
  <2>2. k = Len(job.blocks) /\ IsJob(job) /\ current \in Row
    <3>1. next \in 1..Len(job.blocks) + 1 /\ Len(job.blocks) \in Nat /\ IsJob(job) /\ current \in Row
      BY JobIs DEF Held
    <3>2. k = Len(job.blocks)
      BY <1>1, <3>1
    <3> QED
      BY <3>1, <3>2
  <2> HIDE DEF due, k
  <2>3. due \in Seq(Row) /\ k \in 0..Len(job.blocks)
    BY <2>1 DEF Owes
  <2>4. Settled(job, due)
    BY <1>1, <2>1, <2>2, <2>3, OwesFail
  <2>5. Owes(job, pc', k, current, flat, due)
    BY <1>1, <2>3, <2>4 DEF Owes
  <2> QED
    BY <1>1, <2>5 DEF due, k
<1> QED
  BY <1>1, <1>2, OutputProgress

(* A worker that has handed all its rows to the sink owes nothing.         *)
LEMMA QuietProgress ==
  ASSUME Progress, UNCHANGED <<job, next, current, flat, outbox, chan, yielded, buffer, builder, count, log>>,
         iter # "dropped" \/ iter' = "dropped",
         pc' = pc \/ (pc \notin {"block", "fill", "flush"} /\ pc' \notin {"block", "fill", "flush"})
  PROVE  Progress'
<1>1. PICK accepted, before : Collected(accepted, before) /\ Sent(accepted, before)
  BY DEF Progress
<1>2. Handed' /\ Collected(accepted, before)'
  BY <1>1, HandedStays DEF Progress, Collected
<1>3. ASSUME iter # "dropped"
      PROVE  Owes(job, pc', next - 1, current, flat, accepted \o outbox)
  <2> DEFINE due == accepted \o outbox
             k   == next - 1
  <2>1. Owes(job, pc, k, current, flat, due)
    BY <1>1, <1>3 DEF Sent
  <2> HIDE DEF due, k
  <2>2. Owes(job, pc', k, current, flat, due)
    <3>1. CASE pc' = pc
      BY <2>1, <3>1
    <3>2. CASE pc \notin {"block", "fill", "flush"} /\ pc' \notin {"block", "fill", "flush"}
      BY <2>1, <3>2, OwesOn
    <3> QED
      BY <3>1, <3>2
  <2> QED
    BY <2>2 DEF due, k
<1>4. Sent(accepted, before)'
  BY <1>1, <1>3 DEF Sent
<1> QED
  BY <1>2, <1>4 DEF Progress

(* Once the iterator is dropped, only what it handed out counts.           *)
LEMMA DroppedProgress ==
  ASSUME Progress, UNCHANGED <<job, yielded, batchVars>>, iter' = "dropped"
  PROVE  Progress'
<1>1. PICK accepted, before : Collected(accepted, before) /\ Sent(accepted, before)
  BY DEF Progress
<1>2. Handed' /\ Collected(accepted, before)' /\ Sent(accepted, before)'
  BY <1>1, HandedStays DEF Progress, Collected, Sent, batchVars, sinkVars
<1> QED
  BY <1>2 DEF Progress

LEMMA NextProgress == Control /\ Held /\ Progress /\ [Next]_vars => Progress'
<1> SUFFICES ASSUME Control, Held, Progress, [Next]_vars PROVE Progress'
  OBVIOUS
<1>1. CASE AcceptVariables \/ AcceptRow
  BY <1>1, AcceptProgress
<1>2. CASE AcceptLast
  BY <1>2, LastProgress
<1>3. CASE EmitTrailing
  BY <1>3, TrailingProgress
<1>4. CASE Take
  BY <1>4, TakeProgress
<1>5. CASE (StartRow \/ EndBlocks) /\ UNCHANGED batchVars
  BY <1>5, FlushProgress
<1>6. CASE Fill /\ UNCHANGED batchVars
  BY <1>6, FillProgress
<1>7. CASE FinishFlattener /\ UNCHANGED batchVars
  BY <1>7, FinishProgress
<1>8. CASE Fail /\ UNCHANGED batchVars
  BY <1>8, FailProgress
<1>9. CASE HangUp
  <2>1. ~ReceiverOpen /\ (outbox # <<>> \/ pc = "finish") /\ UNCHANGED <<job, iter, yielded, batchVars>>
    BY <1>9 DEF HangUp, Unwind
  <2>2. iter = "dropped"
    BY <2>1 DEF Control, Delivering, Waiting, SenderAlive, ReceiverOpen
  <2> QED
    BY <2>1, <2>2, DroppedProgress
<1>10. CASE Drop /\ UNCHANGED batchVars
  BY <1>10, DroppedProgress DEF Drop
<1>11. CASE SendEvents \/ ((Report \/ Exit) /\ UNCHANGED batchVars)
  <2>1. UNCHANGED <<job, next, current, flat, outbox, chan, yielded, iter, buffer, builder, count, log>>
        /\ pc \notin {"block", "fill", "flush"} /\ pc' \notin {"block", "fill", "flush"}
    BY <1>11 DEF SendEvents, Report, Exit, workerVars, batchVars, sinkVars
  <2> QED
    BY <2>1, QuietProgress
<1>12. CASE \/ UNCHANGED vars \/ TakeEvents
            \/ (Disconnect \/ TakeResult("events") \/ NoResult("events") \/ Join \/ Call) /\ UNCHANGED batchVars
  <2>1. UNCHANGED <<job, next, current, flat, outbox, chan, yielded, buffer, builder, count, log, pc>>
        /\ (iter # "dropped" \/ iter' = "dropped")
    BY <1>12 DEF vars, workerVars, batchVars, sinkVars, TakeEvents, Disconnect, TakeResult, NoResult, Join, Call
  <2> QED
    BY <2>1, QuietProgress
<1> QED
  BY <1>1, <1>2, <1>3, <1>4, <1>5, <1>6, <1>7, <1>8, <1>9, <1>10, <1>11, <1>12
     DEF Next, Worker, WorkerEdge, InCall, IterEdge

-----------------------------------------------------------------------------
(* The inductive invariant.                                                *)

Inv == Control /\ Held /\ Progress

(* The worker, the channels, the puller and the engine keep the invariant. *)
THEOREM Inductive == Spec => []Inv
<1>1. Init => Inv
  BY InitControl, InitHeld, InitProgress DEF Inv
<1>2. Inv /\ [Next]_vars => Inv'
  <2> SUFFICES ASSUME Inv, [Next]_vars PROVE Inv'
    OBVIOUS
  <2>1. next \in Nat \ {0}
    BY JobIs DEF Inv, Held
  <2>2. \E before \in Seq(Solid) : BuilderAt(builder, before)
    BY DEF Inv, Progress, Collected
  <2> QED
    BY <2>1, <2>2, NextControl, NextHeld, NextProgress DEF Inv
<1> QED
  BY <1>1, <1>2, PTL DEF Spec

(* The states of worker, sink, channel and iterator are well typed, the    *)
(* buffer of the sink is never a whole batch, and the channel never holds  *)
(* more batches than its capacity.                                         *)
THEOREM Typed == Spec => []TypeOK
<1>1. Inv => TypeOK
  <2> SUFFICES ASSUME Inv PROVE TypeOK
    OBVIOUS
  <2>1. PICK accepted, before : Collected(accepted, before)
    BY DEF Inv, Progress
  <2>2. before \in Seq(Row) /\ before \in Seq(Solid) /\ buffer \in Seq(Row)
    BY <2>1, SolidRows DEF Inv, Held, Collected
  <2>3. builder.columns = Present(before) /\ builder.fill = Carry(before)
    BY <2>1 DEF Collected, BuilderAt
  <2>4. builder.columns \subseteq Columns /\ builder.fill \in Cells
    BY <2>2, <2>3, CarryType DEF Present
  <2>5. count \in Nat
    <3>1. before \o buffer \in Seq(Row)
      BY <2>2, ConcatProperties
    <3> QED
      BY <2>1, <3>1, LenNat DEF Collected
  <2>6. \A s \in Seq(Blank) : s \in Seq(Row)
    <3> SUFFICES ASSUME NEW s \in Seq(Blank) PROVE s \in Seq(Row)
      OBVIOUS
    <3>1. Len(s) \in Nat /\ s = [i \in 1..Len(s) |-> s[i]] /\ \A i \in 1..Len(s) : s[i] \in Blank
      BY LenProperties, ElementOfSeq
    <3>2. \A i \in 1..Len(s) : s[i] \in Row
      BY <3>1 DEF Blank
    <3> QED
      BY <3>1, <3>2, IsASeq
  <2>7. spare \in Seq(Row) /\ pool \in Seq(Row)
    BY <2>6 DEF Inv, Held
  <2>8. flat.buffer \in Seq(Row)
    BY FlatFields DEF Inv, Held, FlatOK
  <2> QED
    BY <2>2, <2>4, <2>5, <2>7, <2>8 DEF Inv, Control, Held, ResultLeft, TypeOK, CommonTypeOK
<1> QED
  BY <1>1, Inductive, PTL

-----------------------------------------------------------------------------
(* A call without flattening.  A block takes the emptied row that its      *)
(* predecessor's row was exchanged for, so at most one row is on its way   *)
(* between output and sink (InTransit), and only a row that stays in the   *)
(* batch is not exchanged.                                                 *)

InTransit ==
  /\ Len(outbox) + Len(spare) <= 1
  /\ outbox # <<>> => pc \in {"fill", "flush"}
  /\ pc = "block" => spare = <<>>

Bounded == ~job.flatten => InTransit /\ Len(pool) + Len(buffer) <= BatchSize

LEMMA InitBounded == Init => Bounded
<1> SUFFICES ASSUME Init PROVE Bounded
  OBVIOUS
<1>1. Len(<<>>) = 0
  BY EmptySeq
<1> QED
  BY <1>1, BatchSizeAssumption DEF Init, CommonInit, Bounded, InTransit

LEMMA Lengths ==
  ASSUME Held
  PROVE  /\ Len(outbox) \in Nat /\ (Len(outbox) = 0 <=> outbox = <<>>)
         /\ Len(spare) \in Nat /\ (Len(spare) = 0 <=> spare = <<>>)
         /\ Len(pool) \in Nat /\ (Len(pool) = 0 <=> pool = <<>>)
         /\ Len(buffer) \in Nat /\ (Len(buffer) = 0 <=> buffer = <<>>)
BY LenNat DEF Held

LEMMA AtMostOne ==
  ASSUME NEW m \in Nat, NEW n \in Nat, m # 0, m + n <= 1
  PROVE  m = 1 /\ n = 0
OBVIOUS

(* With a row in the outbox there is none in spare, and it is the only one. *)
LEMMA OneRow ==
  ASSUME Held, Bounded, ~job.flatten, outbox # <<>>
  PROVE  /\ spare = <<>> /\ Tail(outbox) = <<>>
         /\ pc \in {"fill", "flush"} /\ pc # "finish" /\ pc # "block"
<1>1. Len(outbox) = 1 /\ Len(spare) = 0
  <2>1. Len(outbox) \in Nat /\ Len(outbox) # 0 /\ Len(spare) \in Nat /\ Len(outbox) + Len(spare) <= 1
    BY Lengths DEF Bounded, InTransit
  <2> QED
    BY <2>1, AtMostOne
<1>2. Tail(outbox) \in Seq(Row) /\ Len(Tail(outbox)) = 0
  BY <1>1, HeadTailProperties DEF Held
<1> QED
  BY <1>1, <1>2, Lengths, LenNat DEF Bounded, InTransit

(* Handing back the last of some rows leaves the others in the pool.       *)
LEMMA HandBackBounded ==
  ASSUME Held, Bounded, ~job.flatten, outbox # <<>>, Accept,
         NEW row \in Blank, NEW rest \in Seq(Blank), HandBack(row, rest),
         Len(rest) + Len(buffer') <= BatchSize
  PROVE  Bounded'
<1>1. /\ spare = <<>> /\ outbox' = <<>> /\ pc' = pc /\ pc \in {"fill", "flush"} /\ job' = job
      /\ spare' = <<row>> /\ pool' = rest \o spare
  BY OneRow DEF Accept, HandBack
<1>2. Len(<<row>>) = 1 /\ Len(<<>>) = 0 /\ rest \o <<>> = rest
  BY EmptySeq, ConcatEmptySeq
<1>3. pool' = rest /\ Len(spare') = 1 /\ Len(outbox') = 0
  BY <1>1, <1>2
<1> QED
  BY <1>1, <1>3 DEF Bounded, InTransit

LEMMA SinkBounded ==
  ASSUME Held, Bounded, ~job.flatten, AcceptVariables \/ AcceptRow \/ AcceptLast \/ EmitTrailing
  PROVE  Bounded'
<1>1. Len(pool) + Len(buffer) <= BatchSize /\ Len(buffer) < BatchSize /\ pool \in Seq(Blank)
  BY DEF Held, Bounded
<1>2. Len(<<>>) = 0
  BY EmptySeq
<1>3. CASE AcceptVariables
  <2>1. outbox # <<>> /\ Accept /\ buffer' = buffer /\ HandBack(Reset(Head(outbox)), pool)
    BY <1>3 DEF AcceptVariables
  <2>2. Reset(Head(outbox)) \in Blank
    BY <2>1, Accepting, ResetBlank
  <2> QED
    BY <1>1, <2>1, <2>2, HandBackBounded
<1>4. CASE AcceptRow
  <2>1. /\ outbox # <<>> /\ Accept /\ ~Bare(Head(outbox)) /\ ~Completes
        /\ buffer' = Append(buffer, Head(outbox))
        /\ IF pool = <<>> THEN UNCHANGED <<spare, pool>> ELSE HandBack(Last(pool), Front(pool))
    BY <1>4 DEF AcceptRow
  <2>2. Len(buffer') = Len(buffer) + 1 /\ Len(buffer) \in Nat /\ Len(buffer) + 1 < BatchSize
    <3>1. Len(buffer') = Len(buffer) + 1 /\ Len(buffer) \in Nat /\ Len(buffer) + 1 # BatchSize
      BY <2>1, Accepting
    <3> QED
      BY <1>1, <3>1, BatchSizeAssumption
  <2>3. CASE pool = <<>>
    <3>1. /\ UNCHANGED <<spare, pool, job, pc>> /\ outbox' = <<>> /\ spare = <<>> /\ pc \in {"fill", "flush"}
          /\ Len(pool') = 0 /\ Len(outbox') = 0 /\ Len(spare') = 0
      BY <1>2, <2>1, <2>3, OneRow DEF Accept
    <3> QED
      BY <2>2, <3>1, BatchSizeAssumption DEF Bounded, InTransit
  <2>4. CASE pool # <<>>
    <3>1. Last(pool) \in Blank /\ Front(pool) \in Seq(Blank) /\ Len(Front(pool)) = Len(pool) - 1
      BY <1>1, <2>4, LastFront
    <3>2. Len(Front(pool)) + Len(buffer') <= BatchSize
      BY <1>1, <2>2, <3>1, Lengths, BatchSizeAssumption
    <3> QED
      BY <2>1, <2>4, <3>1, <3>2, HandBackBounded
  <2> QED
    BY <2>3, <2>4
<1>5. CASE AcceptLast
  <2> DEFINE rows == Append(buffer, Head(outbox))
             all  == Recycled(rows)
  <2>1. outbox # <<>> /\ Accept /\ ~Bare(Head(outbox)) /\ buffer' = <<>> /\ HandBack(Last(all), Front(all))
    BY <1>5 DEF AcceptLast, Emit
  <2>2. rows \in Seq(Row) /\ Len(rows) = Len(buffer) + 1 /\ Len(buffer) \in Nat
    BY <2>1, Accepting
  <2> HIDE DEF rows
  <2>3. all \in Seq(Blank) /\ Len(all) = Len(pool) + Len(buffer) + 1
    <3>1. all \in Seq(Blank) /\ Len(all) = Len(pool) + Len(rows) /\ Len(pool) \in Nat
      BY <1>1, <2>2, RecycledType
    <3> QED
      BY <2>2, <3>1
  <2> HIDE DEF all
  <2>4. Last(all) \in Blank /\ Front(all) \in Seq(Blank) /\ Len(Front(all)) = Len(pool) + Len(buffer)
    <3>1. Len(pool) \in Nat /\ all # <<>>
      BY <1>2, <2>2, <2>3, Lengths
    <3>2. Last(all) \in Blank /\ Front(all) \in Seq(Blank) /\ Len(Front(all)) = Len(all) - 1
      BY <2>3, <3>1, LastFront
    <3> QED
      BY <2>2, <2>3, <3>1, <3>2
  <2>5. Len(buffer') = 0 /\ Len(Front(all)) + 0 <= BatchSize
    BY <1>1, <1>2, <2>1, <2>2, <2>4, Lengths, BatchSizeAssumption
  <2> QED
    BY <2>1, <2>4, <2>5, HandBackBounded
<1>6. CASE EmitTrailing
  <2>1. /\ UNCHANGED <<job, spare, outbox>> /\ pc' = "events" /\ outbox = <<>>
        /\ \/ buffer = <<>> /\ UNCHANGED <<buffer, pool>>
           \/ buffer' = <<>> /\ pool' = Recycled(buffer)
    BY <1>6 DEF EmitTrailing, workerVars, Emit
  <2>2. InTransit'
    BY <2>1 DEF Bounded, InTransit
  <2>3. Len(pool') + Len(buffer') <= BatchSize
    <3>1. CASE buffer = <<>> /\ UNCHANGED <<buffer, pool>>
      BY <1>1, <3>1
    <3>2. CASE buffer' = <<>> /\ pool' = Recycled(buffer)
      <4>1. buffer \in Seq(Row)
        BY SolidRows DEF Held
      <4>2. Len(pool') = Len(pool) + Len(buffer) /\ Len(pool) \in Nat /\ Len(buffer) \in Nat
        BY <1>1, <3>2, <4>1, RecycledType
      <4>3. Len(buffer') = 0
        BY <1>2, <3>2
      <4> QED
        BY <1>1, <4>2, <4>3, BatchSizeAssumption
    <3> QED
      BY <2>1, <3>1, <3>2
  <2> QED
    BY <2>2, <2>3 DEF Bounded
<1> QED
  BY <1>3, <1>4, <1>5, <1>6

LEMMA NextBounded == Held /\ Bounded /\ [Next]_vars => Bounded'
<1> SUFFICES ASSUME Held, Bounded, [Next]_vars PROVE Bounded'
  OBVIOUS
<1>1. Len(<<>>) = 0
  BY EmptySeq
<1>2. job' = job
  BY DEF Next, vars, Worker, WorkerEdge, AcceptVariables, AcceptRow, AcceptLast, Accept, EmitTrailing,
         StartRow, Fill, EndBlocks, SendEvents, HangUp, Unwind, InCall, Take, TakeEvents, IterEdge,
         Disconnect, TakeResult, NoResult, Join, FinishFlattener, Fail, Report, Exit, Call, Drop
<1>3. CASE job.flatten
  BY <1>2, <1>3 DEF Bounded
<1>4. CASE ~job.flatten /\ (AcceptVariables \/ AcceptRow \/ AcceptLast \/ EmitTrailing)
  BY <1>4, SinkBounded
<1>5. CASE ~job.flatten /\ (StartRow \/ EndBlocks) /\ UNCHANGED batchVars
  <2>1. /\ UNCHANGED <<spare, buffer, pool>> /\ outbox' = Flushed.out /\ pc = "block" /\ pc' \in {"fill", "flush"}
    BY <1>5 DEF StartRow, EndBlocks, batchVars, sinkVars
  <2>2. Len(outbox') <= 1 /\ Len(outbox') \in Nat
    <3>1. Flushed.out \in Seq(Row) /\ Len(Flushed.out) <= 1
      BY <1>5, FlushedIs DEF Held
    <3>2. Len(Flushed.out) \in Nat
      BY <3>1, LenNat
    <3> QED
      BY <2>1, <3>1, <3>2
  <2>3. spare = <<>> /\ Len(spare') = 0
    BY <1>1, <1>5, <2>1 DEF Bounded, InTransit
  <2>4. InTransit'
    BY <2>1, <2>2, <2>3 DEF InTransit
  <2> QED
    BY <1>2, <1>5, <2>1, <2>4 DEF Bounded
<1>6. CASE ~job.flatten /\ Fill /\ UNCHANGED batchVars
  <2>1. /\ UNCHANGED <<buffer, pool>> /\ outbox' = <<>> /\ spare' = <<>> /\ pc' = "block"
        /\ Len(outbox') = 0 /\ Len(spare') = 0
    BY <1>1, <1>6 DEF Fill, batchVars, sinkVars
  <2> QED
    BY <1>2, <1>6, <2>1 DEF Bounded, InTransit
<1>7. CASE /\ ~job.flatten
           /\ \/ SendEvents \/ HangUp \/ InCall \/ UNCHANGED vars
              \/ (FinishFlattener \/ Fail \/ Report \/ Exit \/ Call \/ Drop) /\ UNCHANGED batchVars
  <2>1. UNCHANGED <<spare, buffer, pool>>
    BY <1>7 DEF SendEvents, HangUp, Unwind, InCall, Take, TakeEvents, IterEdge, Disconnect, TakeResult,
         NoResult, Join, FinishFlattener, Fail, Report, Exit, Call, Drop, vars, workerVars, batchVars, sinkVars
  <2>2. (outbox' = outbox /\ pc' = pc) \/ (outbox' = <<>> /\ pc' \notin {"block", "fill"})
    <3>1. outbox # <<>> => pc \in {"fill", "flush"}
      BY <1>7 DEF Bounded, InTransit
    <3> QED
      BY <1>7, <3>1 DEF SendEvents, HangUp, Unwind, InCall, Take, TakeEvents, IterEdge, Disconnect,
         TakeResult, NoResult, Join, FinishFlattener, Fail, Report, Exit, Call, Drop, vars, workerVars
  <2>3. InTransit
    BY <1>7 DEF Bounded
  <2>4. CASE outbox' = outbox /\ pc' = pc
    BY <1>2, <1>7, <2>1, <2>4 DEF Bounded, InTransit
  <2>5. CASE outbox' = <<>> /\ pc' \notin {"block", "fill"}
    <3>1. Len(outbox') = 0 /\ Len(outbox) \in Nat /\ Len(spare) \in Nat
      BY <1>1, <2>5, Lengths
    <3>2. Len(outbox') + Len(spare') <= 1
      BY <2>1, <2>3, <3>1 DEF InTransit
    <3>3. InTransit'
      BY <2>5, <3>2 DEF InTransit
    <3> QED
      BY <1>2, <1>7, <2>1, <3>3 DEF Bounded
  <2> QED
    BY <2>2, <2>4, <2>5
<1> QED
  BY <1>3, <1>4, <1>5, <1>6, <1>7 DEF Next, Worker, WorkerEdge

(* The rows the sink of nc_to_batches keeps for reuse (recycle,            *)
(* output.rs) and those of the batch being filled never exceed one batch,  *)
(* when no flattener makes rows of its own.                                *)
THEOREM PoolStaysBounded == Spec => []PoolBounded
<1>1. Inv => Held
  BY DEF Inv
<1>2. Bounded => PoolBounded
  BY DEF Bounded, PoolBounded
<1> QED
  BY <1>1, <1>2, Inductive, InitBounded, NextBounded, PTL DEF Spec

(* NcBatchIterator is exhausted without the final state of the interpreter *)
(* only if its worker panicked (finish, lib.rs).                           *)
THEOREM OutcomeAlwaysReported == Spec => []OutcomeReported
<1>1. Inv => OutcomeReported
  BY DEF Inv, Control, OutcomeReported
<1> QED
  BY <1>1, Inductive, PTL

(* Every batch has the columns of the table up to its last row.            *)
THEOREM ColumnsHold == Spec => []ColumnsAccumulate
<1>1. Inv => ColumnsAccumulate
  <2> SUFFICES ASSUME Inv, NEW k \in DOMAIN yielded
               PROVE  yielded[k].columns = Present(FlattenSeq([i \in 1..k |-> yielded[i].rows]))
    BY DEF ColumnsAccumulate
  <2>1. yielded \in Seq(Batch) /\ Sound(yielded)
    BY DEF Inv, Progress, Handed
  <2>2. k \in 1..Len(yielded) /\ Len(yielded) \in Nat /\ k \in 0..Len(yielded)
    BY <2>1, LenProperties
  <2> DEFINE s == SubSeq(yielded, 1, k)
  <2>3. s \in Seq(Batch) /\ Len(s) = k /\ \A i \in 1..k : s[i] = yielded[i]
    BY <2>1, <2>2, PrefixType
  <2>4. yielded[k].columns = Present(Joined(s))
    BY <2>1, <2>2 DEF Sound
  <2> HIDE DEF s
  <2>5. DOMAIN s = 1..k
    BY <2>3, LenProperties
  <2>6. [i \in DOMAIN s |-> s[i].rows] = [i \in 1..k |-> yielded[i].rows]
    BY <2>3, <2>5
  <2> QED
    BY <2>4, <2>6 DEF Joined
<1> QED
  BY <1>1, Inductive, PTL

-----------------------------------------------------------------------------
(* The promise.                                                            *)

(* With every row handed to the sink, sent and taken, the table is         *)
(* complete, and so is the log.                                            *)
LEMMA Complete ==
  ASSUME Inv, iter \in {"joining", "over"}
  PROVE  /\ Joined(yielded) = Tabled(Rows(job)) /\ Rows(job) \in Seq(Row)
         /\ WithCells(Rows(job)) \in Seq(Solid)
         /\ job.variables => Logs(Rows(job), WithCells(Rows(job)), log, count)
<1>1. PICK accepted, before : Collected(accepted, before) /\ Sent(accepted, before)
  BY DEF Inv, Progress
<1>2. /\ chan = <<>> /\ outbox = <<>> /\ pc \notin {"block", "fill", "flush"} /\ job.ending # "error"
      /\ buffer = <<>>
  <2>1. chan = <<>> /\ outbox = <<>> /\ ~SenderAlive /\ job.ending # "error" /\ pc # "cancelled"
    BY DEF Inv, Control, Waiting, Delivering, SenderAlive
  <2>2. job.ending \in {"done", "panic"}
    BY <2>1, JobIs DEF Inv, Control, IsJob, Job
  <2>3. job.ending = "done" => pc \in {"succeeded", "exiting", "gone"}
    BY <2>1 DEF Inv, Control, ResultLeft, SenderAlive, WorkerAt
  <2> QED
    BY <2>1, <2>2, <2>3 DEF Inv, Control, Drained, SenderAlive
<1>3. /\ accepted \in Seq(Row) /\ before \in Seq(Solid) /\ before \o buffer = WithCells(accepted)
      /\ job.variables => Logs(accepted, before \o buffer, log, count)
  BY <1>1 DEF Collected
<1>4. accepted \o <<>> = accepted /\ before \o <<>> = before
  BY <1>3, ConcatEmptySeq
<1>5. yielded \o <<>> = yielded
  BY ConcatEmptySeq DEF Inv, Progress, Handed
<1>6. Owes(job, pc, next - 1, current, flat, accepted) /\ Joined(yielded) = Tabled(before)
  BY <1>1, <1>2, <1>4, <1>5 DEF Sent
<1>7. accepted = Rows(job)
  BY <1>2, <1>6 DEF Owes, Settled
<1>8. before = WithCells(accepted)
  BY <1>2, <1>3, <1>4
<1>9. Tabled(WithCells(accepted)) = Tabled(accepted)
  BY <1>3, KeptMeans
<1> QED
  BY <1>2, <1>3, <1>4, <1>6, <1>7, <1>8, <1>9

(* What has been delivered is a prefix of the table.                       *)
Prefix ==
  /\ Tabled(Rows(job)) \in Seq(TableRow)
  /\ Len(Joined(yielded)) \in 0..Len(Tabled(Rows(job)))
  /\ Joined(yielded) = SubSeq(Tabled(Rows(job)), 1, Len(Joined(yielded)))

LEMMA BeginsIs ==
  ASSUME NEW s \in Seq(TableRow), NEW t \in Seq(TableRow), Begins(s, t)
  PROVE  Len(s) \in 0..Len(t) /\ s = SubSeq(t, 1, Len(s))
<1>1. PICK more \in Seq(TableRow) : t = s \o more
  BY DEF Begins
<1>2. /\ Len(s) \in Nat /\ Len(more) \in Nat /\ Len(t) = Len(s) + Len(more)
      /\ \A i \in 1..Len(s) : t[i] = s[i]
  BY <1>1, ConcatProperties, LenNat
<1>3. SubSeq(s, 1, Len(s)) = SubSeq(t, 1, Len(s))
  BY <1>2, PrefixSame
<1>4. SubSeq(s, 1, Len(s)) = s
  <2> DEFINE u == SubSeq(s, 1, Len(s))
  <2>1. u \in Seq(TableRow) /\ Len(u) = Len(s) /\ \A i \in 1..Len(s) : u[i] = s[i]
    BY <1>2, PrefixType
  <2> HIDE DEF u
  <2>2. u = s
    BY <2>1, SeqEqual
  <2> QED
    BY <2>2 DEF u
<1> QED
  BY <1>2, <1>3, <1>4

LEMMA DeliveredIs == Inv => Prefix
<1> SUFFICES ASSUME Inv PROVE Prefix
  OBVIOUS
<1>1. yielded \in Seq(Batch) /\ Begins(Joined(yielded), Tabled(Rows(job)))
  BY DEF Inv, Progress, Handed
<1>2. Rows(job) \in Seq(Row)
  BY JobIs, RowsStart DEF Inv, Held
<1>3. Joined(yielded) \in Seq(TableRow) /\ Tabled(Rows(job)) \in Seq(TableRow)
  BY <1>1, <1>2, JoinedType, TabledType
<1> QED
  BY <1>1, <1>3, BeginsIs DEF Prefix

(* A step hands out nothing or one more batch.                             *)
LEMMA YieldedStep ==
  ASSUME Inv, Inv', [Next]_vars
  PROVE  \/ yielded' = yielded
         \/ Ended = "no" /\ Ended' = "no" /\ Len(Joined(yielded')) >= Len(Joined(yielded))
<1>1. yielded' # yielded => Take
  BY DEF Next, vars, Worker, WorkerEdge, AcceptVariables, AcceptRow, AcceptLast, Accept, EmitTrailing,
         SendEvents, HangUp, Unwind, StartRow, Fill, EndBlocks, FinishFlattener, Fail, Report, Exit,
         InCall, TakeEvents, IterEdge, Disconnect, TakeResult, NoResult, Join, Call, Drop
<1>2. ASSUME Take
      PROVE  Ended = "no" /\ Ended' = "no" /\ Len(Joined(yielded')) >= Len(Joined(yielded))
  <2>1. Ended = "no" /\ Ended' = "no"
    BY <1>2 DEF Take, Ended
  <2> DEFINE h == Head(chan)
  <2>2. chan # <<>> /\ chan \in Seq(Batch) /\ yielded \in Seq(Batch) /\ yielded' = Append(yielded, h)
    BY <1>2 DEF Take, Inv, Held, Progress, Handed
  <2>3. h \in Batch
    BY <2>2, HeadTailProperties
  <2> HIDE DEF h
  <2>4. Joined(Append(yielded, h)) = Joined(yielded) \o h.rows
    BY <2>2, <2>3, JoinedAppend
  <2>5. Joined(yielded) \in Seq(TableRow) /\ h.rows \in Seq(TableRow)
    BY <2>2, <2>3, JoinedType DEF Batch
  <2>6. Len(Joined(yielded) \o h.rows) = Len(Joined(yielded)) + Len(h.rows)
        /\ Len(Joined(yielded)) \in Nat /\ Len(h.rows) \in Nat
    BY <2>5, ConcatProperties, LenNat
  <2> QED
    BY <2>1, <2>2, <2>4, <2>6
<1> QED
  BY <1>1, <1>2

(* How the iteration comes to its end.                                     *)
LEMMA EndedStep ==
  ASSUME Inv, [Next]_vars
  PROVE  /\ job' = job
         /\ \/ Ended' = Ended
            \/ Ended = "no" /\ yielded' = yielded
               /\ \/ Ended' = "exhausted" /\ iter = "joining"
                  \/ Ended' = "raised" /\ job.ending = "error"
                  \/ Ended' = "dropped"
<1>1. job' = job
  BY DEF Next, vars, Worker, WorkerEdge, AcceptVariables, AcceptRow, AcceptLast, Accept, EmitTrailing,
         SendEvents, HangUp, Unwind, StartRow, Fill, EndBlocks, FinishFlattener, Fail, Report, Exit,
         InCall, Take, TakeEvents, IterEdge, Disconnect, TakeResult, NoResult, Join, Call, Drop
<1>2. iter' # iter => \/ Take \/ TakeEvents \/ Disconnect \/ TakeResult("events") \/ NoResult("events")
                      \/ Join \/ Call \/ Drop
  BY DEF Next, vars, Worker, WorkerEdge, AcceptVariables, AcceptRow, AcceptLast, Accept, EmitTrailing,
         SendEvents, HangUp, Unwind, StartRow, Fill, EndBlocks, FinishFlattener, Fail, Report, Exit,
         InCall, IterEdge
<1>3. CASE Take \/ TakeEvents \/ Disconnect \/ TakeResult("events") \/ NoResult("events") \/ Call
  BY <1>1, <1>3 DEF Ended, Take, TakeEvents, Disconnect, TakeResult, NoResult, Call
<1>4. CASE Join
  <2>1. iter = "raising" => job.ending = "error"
    BY DEF Inv, Control
  <2> QED
    BY <1>1, <1>4, <2>1 DEF Ended, Join
<1>5. CASE Drop
  BY <1>1, <1>5 DEF Ended, Drop
<1>6. CASE iter' = iter
  BY <1>1, <1>6 DEF Ended
<1> QED
  BY <1>2, <1>3, <1>4, <1>5, <1>6

LEMMA PromiseStep ==
  ASSUME Inv, Inv', Prefix, Prefix', [Next]_vars
  PROVE  [Promise!Next]_<<job, Joined(yielded), Ended>>
<1> DEFINE all == Tabled(Rows(job))
           old == Joined(yielded)
           new == Joined(yielded')
<1>1. yielded' = yielded => new = old
  OBVIOUS
<1>2. job' = job /\ Promise!Complete = all
  BY EndedStep DEF Promise!Complete, Table, Tabled
<1>3. CASE Ended' = Ended /\ new = old
  BY <1>2, <1>3
<1>4. CASE Ended = "no" /\ Ended' = "no" /\ Len(new) >= Len(old) /\ new # old
  <2>1. /\ Len(old) \in 0..Len(all) /\ all \in Seq(TableRow) /\ old = SubSeq(all, 1, Len(old))
    BY DEF Prefix
  <2>2. Len(new) \in 0..Len(all) /\ new = SubSeq(all, 1, Len(new))
    <3>1. /\ Len(Joined(yielded')) \in 0..Len(Tabled(Rows(job')))
          /\ Joined(yielded') = SubSeq(Tabled(Rows(job')), 1, Len(Joined(yielded')))
      BY DEF Prefix
    <3> QED
      BY <1>2, <3>1
  <2> HIDE DEF all, old, new
  <2>3. Len(new) # Len(old)
    BY <1>4, <2>1, <2>2
  <2>4. Len(new) \in Len(old) + 1..Len(all)
    <3>1. Len(all) \in Nat
      BY <2>1, LenNat
    <3>2. Len(new) \in Nat /\ Len(old) \in Nat /\ Len(new) <= Len(all)
      BY <2>1, <2>2, <3>1
    <3> QED
      BY <1>4, <2>3, <3>1, <3>2
  <2>5. \E n \in Len(old) + 1..Len(all) : new = SubSeq(all, 1, n)
    BY <2>2, <2>4
  <2>6. Promise!Deliver
    BY <1>2, <1>4, <2>5 DEF Promise!Deliver, old, new, Joined
  <2> QED
    BY <2>6 DEF Promise!Next
<1>5. CASE Ended = "no" /\ yielded' = yielded /\ Ended' = "exhausted" /\ iter = "joining"
  <2>1. job.ending \in {"done", "panic"} /\ old = all
    <3>1. job.ending \in {"done", "error", "panic"} /\ job.ending # "error"
      BY <1>5, JobIs DEF Inv, Control, IsJob, Job
    <3> QED
      BY <1>5, <3>1, Complete
  <2>2. Promise!Exhaust
    BY <1>1, <1>2, <1>5, <2>1 DEF Promise!Exhaust, Joined
  <2> QED
    BY <2>2 DEF Promise!Next
<1>6. CASE Ended = "no" /\ yielded' = yielded /\ Ended' = "raised" /\ job.ending = "error"
  <2>1. Promise!Raise
    BY <1>1, <1>2, <1>6 DEF Promise!Raise, Joined
  <2> QED
    BY <2>1 DEF Promise!Next
<1>7. CASE Ended = "no" /\ yielded' = yielded /\ Ended' = "dropped"
  <2>1. Promise!Drop
    BY <1>1, <1>2, <1>7 DEF Promise!Drop, Joined
  <2> QED
    BY <2>1 DEF Promise!Next
<1> QED
  BY <1>1, <1>3, <1>4, <1>5, <1>6, <1>7, YieldedStep, EndedStep

(* The batches that next() of NcBatchIterator returns, one after the       *)
(* other, are the program's table, in order and filled across batches, and *)
(* it ends after the last of them only, whatever the worker does meanwhile.*)
THEOREM PromiseKept == Spec => KeepsPromise
<1>1. Init => Promise!Init
  <2> SUFFICES ASSUME Init PROVE Promise!Init
    OBVIOUS
  <2>1. job \in Jobs /\ yielded = <<>> /\ Ended = "no"
    BY DEF Init, CommonInit, Ended
  <2>2. Joined(yielded) = <<>>
    BY <2>1, JoinedEmpty
  <2> QED
    BY <2>1, <2>2 DEF Promise!Init, Joined
<1>2. Inv /\ Inv' /\ Prefix /\ Prefix' /\ [Next]_vars => [Promise!Next]_<<job, Joined(yielded), Ended>>
  BY PromiseStep
<1> QED
  BY <1>1, <1>2, DeliveredIs, Inductive, PTL DEF Spec, KeepsPromise, Promise!Spec, Joined

-----------------------------------------------------------------------------
(* Replaying the events nc_to_batches sent up to row k of the table gives  *)
(* the variables as of that row (VariableEvents, output.rs).               *)
THEOREM EventsMatch == Spec => []EventsReplay
<1>1. Inv => EventsReplay
  <2> DEFINE rows == FlattenSeq([k \in DOMAIN yielded |-> yielded[k].rows])
             kept == WithCells(Rows(job))
  <2> SUFFICES ASSUME Inv, iter = "over", job.variables, NEW k \in DOMAIN rows
               PROVE  Replay(Changed(events, k - 1))
                        = Replay(ChangesOf(SubSeq(job.blocks, 1, rows[k].line)))
    BY DEF EventsReplay, Changed, UpTo
  <2>1. /\ rows = Tabled(Rows(job)) /\ Rows(job) \in Seq(Row) /\ kept \in Seq(Solid)
        /\ Logs(Rows(job), kept, log, count)
    BY Complete DEF Joined
  <2>2. rows = Meant(kept)
    BY <2>1, KeptMeans, SolidTabled
  <2>3. DOMAIN rows = 1..count /\ \A i \in 1..count : rows[i].line = kept[i].line
    <3>1. DOMAIN kept = 1..count
      BY <2>1, LenProperties DEF Logs
    <3> HIDE DEF rows, kept
    <3> QED
      BY <2>2, <3>1 DEF Meant
  <2>4. PICK i \in 1..Len(Rows(job)) :
          Rows(job)[i].line = kept[k].line /\ Changed(log, k - 1) = ChangesOf(SubSeq(Rows(job), 1, i))
    BY <2>1, <2>3 DEF Logs
  <2>5. IsJob(job) /\ job.record
    BY JobIs DEF Inv, Held, IsJob
  <2>6. /\ Rows(job)[i].line \in 1..Len(job.blocks)
        /\ ChangesOf(SubSeq(Rows(job), 1, i)) = ChangesOf(SubSeq(job.blocks, 1, Rows(job)[i].line))
    BY <2>5, RowsReport DEF Reporting
  <2>7. job.ending = "done"
    <3>1. job.ending # "error" /\ (job.ending = "panic" => Len(job.blocks) = 0)
      BY PanicBlocks DEF Inv, Control
    <3>2. job.ending \in {"done", "error", "panic"} /\ Len(job.blocks) # 0
      BY <2>5, <2>6 DEF IsJob, Job
    <3> QED
      BY <3>1, <3>2
  <2>8. events = log
    BY <2>7 DEF Inv, Control, Mailed
  <2>9. rows[k].line = kept[k].line
    BY <2>3
  <2> QED
    BY <2>4, <2>6, <2>8, <2>9
<1> QED
  BY <1>1, Inductive, PTL
=============================================================================
