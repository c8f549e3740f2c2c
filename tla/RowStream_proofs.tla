-------------------------- MODULE RowStream_proofs --------------------------
(***************************************************************************)
(* nc_to_rows for every program and channel, whatever the iterator does    *)
(* meanwhile: next() hands out the rows of the program's table, filled and *)
(* in order, and the iteration ends after the last of them only.           *)
(***************************************************************************)
EXTENDS RowStream, NcRows_proofs

-----------------------------------------------------------------------------
(* How the iteration ends.                                                 *)

(* Rows are on their way only before finish is done.                       *)
Delivering == outbox # <<>> => pc \in {"fill", "flush", "finish"}

(* The iterator asks for the result only when the sender is gone and the   *)
(* channel is drained, so a worker that finds the receiver closed was      *)
(* dropped.                                                                *)
Waiting ==
  /\ SenderAlive => iter \in {"idle", "receiving", "dropped"}
  /\ pc = "cancelled" => iter = "dropped"
  /\ iter \notin {"idle", "receiving"} => chan = <<>>

(* What the worker reports is how its program ended, and it leaves that    *)
(* report unless it panicked or nobody is there to ask for it.             *)
ResultLeft ==
  /\ pc \in {"flush", "finish", "events", "succeeded"} => job.ending = "done"
  /\ pc = "failed" => job.ending = "error"
  /\ pc = "panicked" => job.ending = "panic"
  /\ result \in {<<>>, <<"state">>, <<"error">>}
  /\ result = <<"state">> => job.ending = "done"
  /\ result = <<"error">> => job.ending = "error"
  /\ pc \in {"exiting", "gone"} /\ iter \in {"idle", "receiving", "finishing"} =>
       result # <<>> \/ job.ending = "panic"

Control ==
  /\ job \in Jobs /\ pc \in WorkerAt /\ iter \in IterAt /\ final \in BOOLEAN
  /\ Delivering /\ Waiting /\ ResultLeft
  /\ iter \notin {"events"}
  /\ iter \in {"joining", "over"} => job.ending # "error" /\ (final \/ job.ending = "panic")
  /\ iter \in {"raising", "raised"} => job.ending = "error"

LEMMA InitControl == Init => Control
<1>1. <<"state">> # <<>> /\ <<"error">> # <<>>
  OBVIOUS
<1> QED
  BY <1>1 DEF Init, CommonInit, Control, WorkerAt, IterAt, Delivering, Waiting, ResultLeft, SenderAlive

LEMMA WorkerControl == Control /\ Worker => Control'
<1> SUFFICES ASSUME Control, Worker PROVE Control'
  OBVIOUS
<1>1. job' = job /\ iter' = iter /\ final' = final
  BY DEF Worker, WorkerEdge, Send, HangUp, Close, Unwind, StartRow, Fill, EndBlocks, FinishFlattener,
         Fail, Report, Exit
<1>2. pc' \in WorkerAt
  BY DEF Control, WorkerAt, Worker, WorkerEdge, Send, HangUp, Close, Unwind, StartRow, Fill, EndBlocks,
         FinishFlattener, Fail, Report, Exit
<1>3. job.ending \in {"done", "error", "panic"}
  BY JobsAssumption DEF Control, IsJob, Job
<1>4. CASE Send
  <2>1. outbox # <<>> /\ pc' = pc /\ result' = result /\ iter \in {"idle", "receiving"}
    BY <1>4 DEF Send, ReceiverOpen
  <2> QED
    BY <1>1, <1>2, <2>1 DEF Control, Delivering, Waiting, ResultLeft, SenderAlive
<1>5. CASE HangUp
  <2>1. pc' = "cancelled" /\ outbox' = <<>> /\ result' = result /\ chan' = chan /\ ~ReceiverOpen /\ outbox # <<>>
    BY <1>5 DEF HangUp, Unwind
  <2>2. iter = "dropped"
    BY <2>1 DEF Control, Delivering, Waiting, SenderAlive, ReceiverOpen
  <2> QED
    BY <1>1, <1>2, <2>1, <2>2 DEF Control, Delivering, Waiting, ResultLeft, SenderAlive
<1>6. CASE StartRow \/ Fill \/ EndBlocks \/ FinishFlattener
  <2>1. /\ SenderAlive /\ result' = result /\ chan' = chan
        /\ pc' \in {"block", "fill", "flush", "finish"}
        /\ outbox' # <<>> => pc' \in {"fill", "flush", "finish"}
        /\ pc' \in {"flush", "finish"} => job.ending = "done"
    BY <1>6 DEF StartRow, Fill, EndBlocks, FinishFlattener, SenderAlive, Control, ResultLeft
  <2> QED
    BY <1>1, <1>2, <2>1 DEF Control, Delivering, Waiting, ResultLeft, SenderAlive
<1>7. CASE Close \/ Fail
  <2>1. /\ SenderAlive /\ result' = result /\ chan' = chan /\ outbox' = outbox /\ outbox = <<>>
        /\ pc' \in {"succeeded", "failed", "panicked"}
        /\ pc' = "succeeded" => job.ending = "done"
        /\ pc' = "failed" => job.ending = "error"
        /\ pc' = "panicked" => job.ending = "panic"
    BY <1>3, <1>7 DEF Close, Fail, SenderAlive, workerVars, Control, ResultLeft, Delivering
  <2> QED
    BY <1>1, <1>2, <2>1 DEF Control, Delivering, Waiting, ResultLeft, SenderAlive
<1>8. CASE Report
  <2>1. pc' = "exiting" /\ outbox' = outbox /\ chan' = chan /\ pc \in {"succeeded", "failed"}
        /\ \/ pc = "succeeded" /\ result' = <<"state">>
           \/ pc = "failed" /\ result' = <<"error">>
    BY <1>8 DEF Report, workerVars
  <2>2. <<"state">> # <<"error">> /\ <<"state">> # <<>> /\ <<"error">> # <<>>
    OBVIOUS
  <2> QED
    BY <1>1, <1>2, <2>1, <2>2 DEF Control, Delivering, Waiting, ResultLeft, SenderAlive
<1>9. CASE Exit
  <2>1. pc' = "gone" /\ result' = result /\ outbox' = outbox /\ chan' = chan
        /\ pc \in {"exiting", "cancelled", "panicked"}
    BY <1>9 DEF Exit, workerVars
  <2> QED
    BY <1>1, <1>2, <2>1 DEF Control, Delivering, Waiting, ResultLeft, SenderAlive
<1> QED
  BY <1>4, <1>5, <1>6, <1>7, <1>8, <1>9 DEF Worker, WorkerEdge

LEMMA IteratorControl == Control /\ (InCall \/ Call \/ Drop) => Control'
<1> SUFFICES ASSUME Control, InCall \/ Call \/ Drop PROVE Control'
  OBVIOUS
<1>1. UNCHANGED <<job, outbox, pc>>
  BY DEF InCall, Take, IterEdge, Disconnect, TakeResult, NoResult, Join, Call, Drop, workerVars
<1>2. CASE Take
  <2>1. iter = "receiving" /\ iter' \in {"receiving", "idle"} /\ result' = result /\ final' = final
    BY <1>2 DEF Take
  <2>2. iter' \in IterAt
    BY <2>1 DEF IterAt
  <2> QED
    BY <1>1, <2>1, <2>2 DEF Control, Delivering, Waiting, ResultLeft, SenderAlive
<1>3. CASE Call \/ Drop
  <2>1. /\ iter = "idle" /\ result' = result /\ final' = final
        /\ (iter' = "receiving" /\ chan' = chan) \/ (iter' = "dropped" /\ chan' = <<>>)
    BY <1>3 DEF Call, Drop
  <2>2. iter' \in IterAt
    BY <2>1 DEF IterAt
  <2> QED
    BY <1>1, <2>1, <2>2 DEF Control, Delivering, Waiting, ResultLeft, SenderAlive
<1>4. CASE Disconnect
  BY <1>1, <1>4 DEF Disconnect, Control, IterAt, Delivering, Waiting, ResultLeft, SenderAlive
<1>5. CASE TakeResult("joining")
  <2>1. /\ iter = "finishing" /\ result' = <<>> /\ ~SenderAlive /\ pc # "cancelled" /\ chan' = chan
        /\ \/ result = <<"error">> /\ iter' = "raising" /\ final' = FALSE
           \/ result = <<"state">> /\ iter' = "joining" /\ final' = TRUE
    <3>1. /\ iter = "finishing" /\ result # <<>> /\ result' = <<>> /\ chan' = chan
          /\ final' = (result[1] = "state")
          /\ iter' = IF result[1] = "error" THEN "raising" ELSE "joining"
      BY <1>5 DEF TakeResult
    <3>2. result = <<"state">> \/ result = <<"error">>
      BY <3>1 DEF Control, ResultLeft
    <3>3. ~SenderAlive /\ pc # "cancelled"
      BY <3>1 DEF Control, Waiting
    <3>4. CASE result = <<"state">>
      <4>1. result[1] = "state" /\ result[1] # "error"
        BY <3>4
      <4> QED
        BY <3>1, <3>3, <3>4, <4>1
    <3>5. CASE result = <<"error">>
      <4>1. result[1] = "error" /\ result[1] # "state"
        BY <3>5
      <4> QED
        BY <3>1, <3>3, <3>5, <4>1
    <3> QED
      BY <3>2, <3>4, <3>5
  <2>2. <<"state">> # <<>> /\ <<"error">> # <<>>
    OBVIOUS
  <2> QED
    BY <1>1, <2>1, <2>2 DEF Control, IterAt, Delivering, Waiting, ResultLeft, SenderAlive
<1>6. CASE NoResult("joining")
  BY <1>1, <1>6 DEF NoResult, Control, IterAt, Delivering, Waiting, ResultLeft, SenderAlive
<1>7. CASE Join
  BY <1>1, <1>7 DEF Join, Control, IterAt, Delivering, Waiting, ResultLeft, SenderAlive
<1> QED
  BY <1>2, <1>3, <1>4, <1>5, <1>6, <1>7 DEF InCall, IterEdge

LEMMA NextControl == Control /\ [Next]_vars => Control'
<1> SUFFICES ASSUME Control, [Next]_vars PROVE Control'
  OBVIOUS
<1>1. CASE UNCHANGED vars
  BY <1>1 DEF vars, workerVars, Control, Delivering, Waiting, ResultLeft, SenderAlive
<1>2. CASE Next
  BY <1>2, WorkerControl, IteratorControl DEF Next
<1> QED
  BY <1>1, <1>2

(* NcRowIterator is exhausted without the final state of the interpreter   *)
(* only if its worker panicked (finish, lib.rs).                           *)
THEOREM OutcomeAlwaysReported == Spec => []OutcomeReported
<1>1. Control => OutcomeReported
  BY DEF Control, OutcomeReported
<1> QED
  BY <1>1, InitControl, NextControl, PTL DEF Spec

-----------------------------------------------------------------------------
(* The types of what the output holds.                                     *)

Held ==
  /\ job \in Jobs /\ next \in 1..Len(job.blocks) + 1
  /\ pc = "fill" => next \in 1..Len(job.blocks)
  /\ current \in Row /\ spare = <<>> /\ FlatOK(flat)
  /\ outbox \in Seq(Row) /\ chan \in Seq(Row) /\ Len(chan) <= ChannelCap

LEMMA JobIs == \A j \in Jobs : IsJob(j) /\ j.blocks \in Seq(Row) /\ Len(j.blocks) \in Nat
BY JobsAssumption, LeftIs

(* Flushing is a step of the program.                                      *)
LEMMA FlushedIs ==
  ASSUME current \in Row, FlatOK(flat)
  PROVE  /\ Flushed.out \in Seq(Row) /\ FlatOK(Flushed.fl)
         /\ \A due \in Seq(Row) :
              [fl |-> Flushed.fl, out |-> due \o Flushed.out]
                = PassStep(job, [fl |-> flat, out |-> due], current)
<1> DEFINE r == Rekeyed(current)
           p == Push(flat, r)
           f == p.fl
           o == p.out
<1>1. r \in Row /\ Len(<<>>) = 0 /\ <<>> \in Seq(Row)
  BY RekeyedType, EmptySeq
<1>2. o \in Seq(Row) /\ FlatOK(f)
  BY <1>1, PushOut
<1>3. \/ Empty(current) /\ Flushed = [fl |-> flat, out |-> <<>>]
      \/ ~Empty(current) /\ job.flatten /\ Flushed = p
      \/ ~Empty(current) /\ ~job.flatten /\ Flushed = [fl |-> flat, out |-> <<r>>]
  BY DEF Flushed
<1>4. \A due : PassStep(job, [fl |-> flat, out |-> due], current) =
        IF Empty(current) THEN [fl |-> flat, out |-> due]
        ELSE IF job.flatten THEN [fl |-> f, out |-> due \o o] ELSE [fl |-> flat, out |-> Append(due, r)]
  BY DEF PassStep
<1>5. Flushed = p => Flushed.fl = f /\ Flushed.out = o
  OBVIOUS
<1>6. \A due \in Seq(Row) : due \o <<>> = due /\ Append(due, r) = due \o <<r>>
  BY <1>1, ConcatEmptySeq, AppendIsConcat
<1> HIDE DEF r, f, o, p
<1>7. <<r>> \in Seq(Row)
  BY <1>1
<1>8. CASE Empty(current)
  <2>1. Flushed.fl = flat /\ Flushed.out = <<>>
    BY <1>3, <1>8
  <2> QED
    BY <1>1, <1>4, <1>6, <1>8, <2>1
<1>9. CASE ~Empty(current) /\ job.flatten
  <2>1. Flushed.fl = f /\ Flushed.out = o
    BY <1>3, <1>5, <1>9
  <2> QED
    BY <1>2, <1>4, <1>9, <2>1
<1>10. CASE ~Empty(current) /\ ~job.flatten
  <2>1. Flushed.fl = flat /\ Flushed.out = <<r>>
    BY <1>3, <1>10
  <2> QED
    BY <1>4, <1>6, <1>7, <1>10, <2>1
<1> QED
  BY <1>8, <1>9, <1>10

LEMMA InitHeld == Init => Held
<1> SUFFICES ASSUME Init PROVE Held
  OBVIOUS
<1>1. <<>> \in Seq(Row) /\ Len(<<>>) = 0 /\ EmptyRow \in Row /\ FlatOK(NewFlattener)
  BY EmptySeq, EmptyRowType, NewFlattenerOK
<1>2. job \in Jobs /\ 1 \in 1..Len(job.blocks) + 1
  BY JobIs DEF Init, CommonInit
<1> QED
  BY <1>1, <1>2, ChannelAssumption DEF Init, CommonInit, Held

LEMMA NextHeld == Held /\ Control /\ [Next]_vars => Held'
<1> SUFFICES ASSUME Held, Control, [Next]_vars PROVE Held'
  OBVIOUS
<1>1. job' = job
  BY DEF Next, vars, Worker, WorkerEdge, Send, HangUp, Close, Unwind, StartRow, Fill, EndBlocks,
         FinishFlattener, Fail, Report, Exit, InCall, Take, IterEdge, Disconnect, TakeResult, NoResult,
         Join, Call, Drop
<1>2. Len(job.blocks) \in Nat /\ IsJob(job) /\ next \in Nat /\ next # 0
  BY JobIs DEF Held
<1>3. EmptyRow \in Row /\ <<>> \in Seq(Row) /\ Len(<<>>) = 0 /\ FlatOK(NewFlattener)
  BY EmptyRowType, EmptySeq, NewFlattenerOK
<1>4. CASE StartRow /\ UNCHANGED fill
  <2>1. Flushed.out \in Seq(Row) /\ FlatOK(Flushed.fl)
    BY FlushedIs DEF Held
  <2>2. UNCHANGED <<next, spare, chan>> /\ next <= Len(job.blocks) /\ outbox' = Flushed.out
        /\ flat' = Flushed.fl /\ current' \in {current, EmptyRow}
    BY <1>4 DEF StartRow
  <2> QED
    BY <1>1, <1>2, <1>3, <2>1, <2>2 DEF Held
<1>5. CASE Fill /\ UNCHANGED fill
  <2>1. next \in 1..Len(job.blocks) /\ next' = next + 1 /\ pc' = "block" /\ spare' = <<>>
        /\ UNCHANGED <<flat, outbox, chan>> /\ current' = Written(current, BlockRow(job, next))
    BY <1>5 DEF Fill, Held
  <2>2. current' \in Row
    BY <1>2, <2>1, BlockRowType, WrittenType DEF Held
  <2>3. next' \in 1..Len(job.blocks) + 1
    BY <1>2, <2>1
  <2> QED
    BY <1>1, <2>1, <2>2, <2>3 DEF Held
<1>6. CASE EndBlocks /\ UNCHANGED fill
  <2>1. Flushed.out \in Seq(Row) /\ FlatOK(Flushed.fl)
    BY FlushedIs DEF Held
  <2>2. UNCHANGED <<next, spare, chan>> /\ pc' = "flush" /\ outbox' = Flushed.out
        /\ flat' = Flushed.fl /\ current' = EmptyRow
    BY <1>6 DEF EndBlocks
  <2> QED
    BY <1>1, <1>3, <2>1, <2>2 DEF Held
<1>7. CASE FinishFlattener /\ UNCHANGED fill
  <2>1. Rest(flat) \in Seq(Row)
    BY BeforeType DEF Held, FlatOK, Rest
  <2>2. UNCHANGED <<next, spare, chan, current>> /\ pc' = "finish" /\ flat' = NewFlattener
        /\ outbox' \in {Rest(flat), <<>>}
    BY <1>7 DEF FinishFlattener
  <2> QED
    BY <1>1, <1>3, <2>1, <2>2 DEF Held
<1>8. CASE Send
  <2>1. outbox # <<>> /\ Len(chan) < ChannelCap /\ chan' = Append(chan, Head(outbox)) /\ outbox' = Tail(outbox)
        /\ UNCHANGED <<next, current, spare, flat, pc>>
    BY <1>8 DEF Send
  <2>2. Head(outbox) \in Row /\ Tail(outbox) \in Seq(Row)
    BY <2>1, HeadTailProperties DEF Held
  <2>3. chan' \in Seq(Row) /\ Len(chan') = Len(chan) + 1 /\ Len(chan) \in Nat
    <3> DEFINE h == Head(outbox)
    <3> HIDE DEF h
    <3>1. h \in Row /\ chan \in Seq(Row) /\ chan' = Append(chan, h)
      BY <2>1, <2>2 DEF h, Held
    <3> QED
      BY <3>1, Grown
  <2> QED
    BY <1>1, <2>1, <2>2, <2>3, ChannelAssumption DEF Held
<1>9. CASE HangUp
  BY <1>1, <1>3, <1>9 DEF HangUp, Unwind, Held
<1>10. CASE Take
  <2>1. chan # <<>> /\ chan' = Tail(chan) /\ UNCHANGED <<next, current, spare, flat, outbox, pc>>
    BY <1>10 DEF Take, workerVars
  <2>2. Tail(chan) \in Seq(Row) /\ Len(Tail(chan)) = Len(chan) - 1 /\ Len(chan) \in Nat
    BY <2>1, HeadTailProperties, LenNat DEF Held
  <2> QED
    BY <1>1, <2>1, <2>2, ChannelAssumption DEF Held
<1>11. CASE Drop /\ UNCHANGED fill
  BY <1>1, <1>3, <1>11, ChannelAssumption DEF Drop, workerVars, Held
<1>12. CASE \/ Close \/ UNCHANGED vars
            \/ Fail \/ Report \/ Exit \/ Disconnect \/ TakeResult("joining") \/ NoResult("joining")
            \/ Join \/ Call
  <2>1. UNCHANGED <<next, current, spare, flat, outbox, chan>> /\ (pc' = "fill" => pc = "fill")
    BY <1>12 DEF vars, workerVars, Close, Fail, Report, Exit, Disconnect, TakeResult, NoResult, Join, Call
  <2> QED
    BY <1>1, <2>1 DEF Held
<1> QED
  BY <1>4, <1>5, <1>6, <1>7, <1>8, <1>9, <1>10, <1>11, <1>12 DEF Next, Worker, WorkerEdge, InCall, IterEdge

-----------------------------------------------------------------------------
(* What has been handed out, and what is due.                              *)

(* The rows taken from the channel, as next() showed them.                 *)
Handed(taken) ==
  /\ taken \in Seq(Row) /\ yielded \in Seq(ShownRecord)
  /\ Shown(yielded) = Tabled(taken) /\ fill = Carry(taken)
  /\ Starts(taken, Rows(job))
  /\ job.variables =>
       /\ Len(yielded) = Len(taken)
       /\ \A k \in 1..Len(taken) : yielded[k].line = taken[k].line /\ yielded[k].changes = taken[k].changes

(* Nobody asks for the rows of an iterator that was dropped.               *)
Owing(taken) ==
  iter # "dropped" => Owes(job, pc, next - 1, current, flat, (taken \o chan) \o outbox)

Progress == \E taken \in Seq(Row) : Handed(taken) /\ Owing(taken)

LEMMA InitProgress == Init => Progress
<1> SUFFICES ASSUME Init PROVE Progress
  OBVIOUS
<1>1. <<>> \in Seq(Row) /\ <<>> \in Seq(ShownRecord) /\ Len(<<>>) = 0 /\ <<>> \o <<>> = <<>>
  BY EmptySeq, ConcatEmptySeq
<1>2. \A k \in 1..Len(<<>>) : FALSE
  BY <1>1
<1>3. IsJob(job) /\ Rows(job) \in Seq(Row)
  BY JobIs, RowsStart DEF Init, CommonInit
<1>4. Starts(<<>>, Rows(job))
  <2>1. Rows(job) = <<>> \o Rows(job)
    BY <1>3, ConcatEmptySeq
  <2> QED
    BY <1>3, <2>1 DEF Starts
<1>5. yielded = <<>> /\ fill = NoCells /\ pc = "block" /\ chan = <<>> /\ outbox = <<>> /\ next - 1 = 0
      /\ flat = NewFlattener /\ current = EmptyRow
  BY DEF Init, CommonInit
<1>6. Handed(<<>>)
  BY <1>1, <1>2, <1>4, <1>5, ShownEmpty, TabledEmpty, CarryEmpty DEF Handed
<1>7. Owes(job, pc, next - 1, current, flat, (<<>> \o chan) \o outbox)
  BY <1>1, <1>3, <1>5, EmptyIs, OwesStart
<1> QED
  BY <1>1, <1>6, <1>7 DEF Progress, Owing

(* A step that hands nothing out leaves what was handed out as it was.     *)
LEMMA HandedStays ==
  ASSUME NEW taken, Handed(taken), UNCHANGED <<job, yielded, fill>>
  PROVE  Handed(taken)'
BY DEF Handed

(* The worker turns its last row into rows for the sink.                   *)
LEMMA FlushProgress ==
  ASSUME Held, Control, Progress, (StartRow \/ EndBlocks) /\ UNCHANGED fill
  PROVE  Progress'
<1>1. PICK taken \in Seq(Row) : Handed(taken) /\ Owing(taken)
  BY DEF Progress
<1>2. /\ UNCHANGED <<job, next, chan, iter, yielded, fill>> /\ pc = "block"
      /\ flat' = Flushed.fl /\ outbox' = Flushed.out
      /\ \/ pc' = "fill" /\ next <= Len(job.blocks) /\ current' = IF Empty(current) THEN current ELSE EmptyRow
         \/ pc' = "flush" /\ next > Len(job.blocks) /\ job.ending = "done" /\ current' = EmptyRow
  BY DEF StartRow, EndBlocks
<1>3. Handed(taken)'
  BY <1>1, <1>2, HandedStays
<1>4. ASSUME iter # "dropped"
      PROVE  Owes(job, pc', next - 1, current', flat', (taken \o chan) \o outbox')
  <2> DEFINE due  == (taken \o chan) \o outbox
             due2 == (taken \o chan) \o Flushed.out
             sent == taken \o chan
             f    == Flushed.fl
             o    == Flushed.out
             k    == next - 1
  <2>1. Owes(job, "block", k, current, flat, due)
    BY <1>1, <1>2, <1>4 DEF Owing
  <2>2. /\ IsJob(job) /\ current \in Row /\ FlatOK(flat) /\ outbox \in Seq(Row) /\ sent \in Seq(Row)
        /\ next \in 1..Len(job.blocks) + 1 /\ Len(job.blocks) \in Nat
    <3>1. taken \in Seq(Row) /\ chan \in Seq(Row)
      BY <1>1 DEF Held
    <3>2. sent \in Seq(Row)
      BY <3>1, ConcatProperties
    <3> QED
      BY <3>2, JobIs DEF Held
  <2>3. outbox = <<>>
    BY <1>2 DEF Control, Delivering
  <2>4. due = sent
    BY <2>2, <2>3, ConcatEmptySeq
  <2> HIDE DEF sent
  <2>5. [fl |-> f, out |-> due2] = PassStep(job, [fl |-> flat, out |-> sent], current)
    BY <2>2, FlushedIs DEF sent
  <2>6. (next <= Len(job.blocks) => k < Len(job.blocks)) /\ (next > Len(job.blocks) => k = Len(job.blocks))
    BY <2>2
  <2>7. Empty(EmptyRow) /\ (pc' = "fill" => Empty(current'))
    BY <1>2, EmptyIs
  <2> HIDE DEF due, due2, f, o, k
  <2>8. CASE pc' = "fill"
    <3>1. Owes(job, "fill", k, current', f, due2)
      BY <1>2, <2>1, <2>2, <2>4, <2>5, <2>6, <2>7, <2>8, OwesNextRow
    <3> QED
      BY <1>2, <2>8, <3>1 DEF due2, f, k
  <2>9. CASE pc' = "flush"
    <3>1. Owes(job, "flush", k, current', f, due2)
      BY <1>2, <2>1, <2>2, <2>4, <2>5, <2>6, <2>9, OwesLastRow
    <3> QED
      BY <1>2, <2>9, <3>1 DEF due2, f, k
  <2> QED
    BY <1>2, <2>8, <2>9
<1>5. Owing(taken)'
  BY <1>2, <1>4 DEF Owing
<1> QED
  BY <1>3, <1>5 DEF Progress

LEMMA FillProgress ==
  ASSUME Held, Progress, Fill /\ UNCHANGED fill
  PROVE  Progress'
<1>1. PICK taken \in Seq(Row) : Handed(taken) /\ Owing(taken)
  BY DEF Progress
<1>2. /\ UNCHANGED <<job, flat, chan, iter, yielded, fill, outbox>> /\ pc = "fill" /\ pc' = "block"
      /\ next' = next + 1 /\ current' = Written(current, BlockRow(job, next))
  BY DEF Fill, Held
<1>3. Handed(taken)'
  BY <1>1, <1>2, HandedStays
<1>4. IsJob(job) /\ next \in Nat /\ current \in Row /\ next' - 1 = (next - 1) + 1 /\ (next - 1) + 1 = next
  <2>1. next \in Nat
    BY JobIs DEF Held
  <2> QED
    BY <1>2, <2>1, JobIs DEF Held
<1>5. ASSUME iter # "dropped"
      PROVE  Owes(job, pc', next' - 1, current', flat, (taken \o chan) \o outbox)
  <2> DEFINE due == (taken \o chan) \o outbox
             k   == next - 1
  <2>1. Owes(job, "fill", k, current, flat, due)
    BY <1>1, <1>2, <1>5 DEF Owing
  <2>2. Empty(current)
    BY <2>1 DEF Owes
  <2> HIDE DEF due, k
  <2>3. Owes(job, "block", k + 1, Written(current, BlockRow(job, k + 1)), flat, due)
    BY <1>4, <2>1, <2>2, OwesBlock
  <2>4. k + 1 = next
    BY <1>4 DEF k
  <2>5. next' - 1 = next
    BY <1>4
  <2> QED
    BY <1>2, <2>3, <2>4, <2>5 DEF due
<1>6. Owing(taken)'
  BY <1>2, <1>5 DEF Owing
<1> QED
  BY <1>3, <1>6 DEF Progress

LEMMA FinishProgress ==
  ASSUME Held, Progress, FinishFlattener /\ UNCHANGED fill
  PROVE  Progress'
<1>1. PICK taken \in Seq(Row) : Handed(taken) /\ Owing(taken)
  BY DEF Progress
<1>2. /\ UNCHANGED <<job, next, current, chan, iter, yielded, fill>> /\ pc = "flush" /\ pc' = "finish"
      /\ outbox = <<>> /\ outbox' = IF job.flatten THEN Rest(flat) ELSE <<>>
  BY DEF FinishFlattener
<1>3. Handed(taken)'
  BY <1>1, <1>2, HandedStays
<1>4. ASSUME iter # "dropped"
      PROVE  Owes(job, "finish", next - 1, current, flat', (taken \o chan) \o outbox')
  <2> DEFINE sent == taken \o chan
             rest == IF job.flatten THEN Rest(flat) ELSE <<>>
             k    == next - 1
  <2>1. IsJob(job) /\ sent \in Seq(Row)
    <3>1. taken \in Seq(Row) /\ chan \in Seq(Row)
      BY <1>1 DEF Held
    <3> QED
      BY <3>1, ConcatProperties, JobIs DEF Held
  <2>2. sent \o <<>> = sent
    BY <2>1, ConcatEmptySeq
  <2>3. Owes(job, "flush", k, current, flat, sent)
    BY <1>1, <1>2, <1>4, <2>2 DEF Owing
  <2>4. Rest(flat) \in Seq(Row) /\ Settled(job, sent \o (IF job.flatten THEN Rest(flat) ELSE <<>>))
    <3> HIDE DEF sent, k
    <3> QED
      BY <2>1, <2>3, OwesRest
  <2>5. rest \in Seq(Row) /\ Settled(job, sent \o rest)
    BY <2>4, EmptySeq
  <2> HIDE DEF rest
  <2>6. sent \o rest \in Seq(Row)
    <3> HIDE DEF sent
    <3> QED
      BY <2>1, <2>5, ConcatProperties
  <2>7. k \in 0..Len(job.blocks)
    BY <2>3 DEF Owes
  <2>8. Owes(job, "finish", k, current, flat', sent \o rest)
    <3> HIDE DEF sent, k
    <3> QED
      BY <2>5, <2>6, <2>7 DEF Owes
  <2> QED
    BY <1>2, <2>8 DEF rest
<1>5. Owing(taken)'
  BY <1>2, <1>4 DEF Owing
<1> QED
  BY <1>3, <1>5 DEF Progress

LEMMA FailProgress ==
  ASSUME Held, Progress, Fail /\ UNCHANGED fill
  PROVE  Progress'
<1>1. PICK taken \in Seq(Row) : Handed(taken) /\ Owing(taken)
  BY DEF Progress
<1>2. /\ UNCHANGED <<job, next, current, flat, outbox, chan, iter, yielded, fill>> /\ pc = "block"
      /\ pc' \in {"failed", "panicked"} /\ next > Len(job.blocks) /\ job.ending # "done"
  BY DEF Fail, workerVars
<1>3. Handed(taken)'
  BY <1>1, <1>2, HandedStays
<1>4. ASSUME iter # "dropped"
      PROVE  Owes(job, pc', next - 1, current, flat, (taken \o chan) \o outbox)
  <2> DEFINE due == (taken \o chan) \o outbox
             k   == next - 1
  <2>1. Owes(job, "block", k, current, flat, due)
    BY <1>1, <1>2, <1>4 DEF Owing
  <2>2. k = Len(job.blocks) /\ IsJob(job) /\ current \in Row
    <3>1. next \in 1..Len(job.blocks) + 1 /\ Len(job.blocks) \in Nat
      BY JobIs DEF Held
    <3> QED
      BY <1>2, <3>1, JobIs DEF Held
  <2> HIDE DEF due, k
  <2>3. Settled(job, due) /\ due \in Seq(Row) /\ k \in 0..Len(job.blocks)
    <3>1. due \in Seq(Row) /\ k \in 0..Len(job.blocks)
      BY <2>1 DEF Owes
    <3> QED
      BY <1>2, <2>1, <2>2, <3>1, OwesFail
  <2>4. Owes(job, pc', k, current, flat, due)
    BY <1>2, <2>3 DEF Owes
  <2> QED
    BY <2>4 DEF due, k
<1>5. Owing(taken)'
  BY <1>2, <1>4 DEF Owing
<1> QED
  BY <1>3, <1>5 DEF Progress

(* The sink sends a row: it is still due.                                  *)
LEMMA SendProgress ==
  ASSUME Held, Progress, Send
  PROVE  Progress'
<1>1. PICK taken \in Seq(Row) : Handed(taken) /\ Owing(taken)
  BY DEF Progress
<1>2. /\ UNCHANGED <<job, next, current, flat, pc, iter, yielded, fill>>
      /\ outbox # <<>> /\ chan' = Append(chan, Head(outbox)) /\ outbox' = Tail(outbox)
  BY DEF Send
<1>3. Handed(taken)'
  BY <1>1, <1>2, HandedStays
<1>4. (taken \o chan') \o outbox' = (taken \o chan) \o outbox
  <2> DEFINE h == Head(outbox)
             r == Tail(outbox)
  <2>1. chan \in Seq(Row) /\ outbox \in Seq(Row)
    BY DEF Held
  <2>2. \A s \in Seq(Row) : Append(s, h) \o r = s \o outbox /\ h \in Row
    BY <1>2, <2>1, HandOver
  <2> HIDE DEF h, r
  <2>3. h \in Row
    BY <2>1, <2>2
  <2>4. taken \o Append(chan, h) = Append(taken \o chan, h) /\ taken \o chan \in Seq(Row)
    BY <2>1, <2>3, ConcatAppend
  <2>5. Append(taken \o chan, h) \o r = (taken \o chan) \o outbox
    BY <2>2, <2>4
  <2>6. chan' = Append(chan, h) /\ outbox' = r
    BY <1>2 DEF h, r
  <2> QED
    BY <2>4, <2>5, <2>6
<1>5. Owing(taken)'
  BY <1>1, <1>2, <1>4 DEF Owing
<1> QED
  BY <1>3, <1>5 DEF Progress

(* What next() makes of a row is the row of the table it becomes.          *)
LEMMA Filled ==
  ASSUME NEW taken \in Seq(Row), fill = Carry(taken), NEW row \in Row
  PROVE  /\ Carried(row) = Carry(Append(taken, row))
         /\ [line |-> row.line, cells |-> RowDict(row)] = MeantRow(taken, row)
         /\ RowDict(row) \in Cells
         /\ ~Bare(row) => RowDict(row) # NoCells
         /\ Bare(row) => fill = Carry(Append(taken, row))
<1> DEFINE new == Carry(Append(taken, row))
           old == Carry(taken)
           d   == RowDict(row)
<1>1. /\ new = [c \in Columns |-> IF c \in ForwardFilled /\ row.cells[c] # Null THEN row.cells[c] ELSE old[c]]
      /\ Bare(row) => new = old
  BY CarryAppend
<1>2. Carried(row) = new
  BY <1>1 DEF Carried
<1>3. \A c \in ForwardFilled : old[c] = LastIn(taken, Len(taken), c) /\ c \in Columns
  BY DEF Carry, ForwardFilled, Columns
<1>4. \A c \in Columns : d[c] = IF c \in ForwardFilled THEN new[c] ELSE row.cells[c]
  BY <1>2 DEF RowDict
<1>5. MeantRow(taken, row).cells =
        [c \in Columns |->
           IF c \in ForwardFilled
           THEN IF row.cells[c] # Null THEN row.cells[c] ELSE LastIn(taken, Len(taken), c)
           ELSE row.cells[c]]
  BY DEF MeantRow
<1>6. d = [c \in Columns |-> d[c]]
  BY DEF RowDict
<1> HIDE DEF new, old, d
<1>7. \A c \in Columns :
        d[c] = IF c \in ForwardFilled
               THEN IF row.cells[c] # Null THEN row.cells[c] ELSE LastIn(taken, Len(taken), c)
               ELSE row.cells[c]
  BY <1>1, <1>3, <1>4
<1>8. d = MeantRow(taken, row).cells
  BY <1>5, <1>6, <1>7
<1>9. [line |-> row.line, cells |-> d] = MeantRow(taken, row)
  BY <1>5, <1>8 DEF MeantRow
<1>10. d \in Cells
  BY <1>8, MeantRowType DEF TableRow
<1>11. ~Bare(row) => d # NoCells
  <2> SUFFICES ASSUME ~Bare(row) PROVE d # NoCells
    OBVIOUS
  <2>1. PICK c \in Columns : row.cells[c] # Null
    BY RowFields, BareCells
  <2>2. d[c] # Null
    BY <1>7, <2>1
  <2> QED
    BY <2>1, <2>2 DEF NoCells
<1> QED
  BY <1>1, <1>2, <1>9, <1>10, <1>11 DEF new, old, d

(* next() takes a row: it has been handed out.                             *)
LEMMA TakeProgress ==
  ASSUME Held, Progress, Take
  PROVE  Progress'
<1>1. PICK taken \in Seq(Row) : Handed(taken) /\ Owing(taken)
  BY DEF Progress
<1> DEFINE row   == Head(chan)
           rest  == Tail(chan)
           full  == [line |-> row.line, cells |-> RowDict(row), changes |-> row.changes]
           bare  == [line |-> row.line, cells |-> NoCells, changes |-> row.changes]
<1>2. /\ UNCHANGED <<job, next, current, flat, outbox, pc>> /\ chan # <<>> /\ chan' = rest
      /\ iter = "receiving" /\ iter' \in {"receiving", "idle"}
      /\ \/ Bare(row) /\ fill' = fill /\ job.variables /\ yielded' = Append(yielded, bare)
         \/ Bare(row) /\ fill' = fill /\ ~job.variables /\ yielded' = yielded
         \/ ~Bare(row) /\ fill' = Carried(row) /\ yielded' = Append(yielded, full)
  BY DEF Take, workerVars
<1>3. row \in Row /\ rest \in Seq(Row) /\ chan \in Seq(Row) /\ outbox \in Seq(Row)
      /\ Append(taken, row) \in Seq(Row) /\ Append(taken, row) \o rest = taken \o chan
  <2>1. chan \in Seq(Row) /\ outbox \in Seq(Row)
    BY DEF Held
  <2> QED
    BY <1>2, <2>1, HandOver
<1> HIDE DEF row, rest
<1>16. PICK more \in Seq(Row) : more = Append(taken, row)
  BY <1>3
<1>17. more \o rest = taken \o chan
  BY <1>3, <1>16
<1>4. (more \o chan') \o outbox' = (taken \o chan) \o outbox
  BY <1>2, <1>17
<1>5. Owing(more)'
  BY <1>1, <1>2, <1>4 DEF Owing
<1>6. fill = Carry(taken) /\ yielded \in Seq(ShownRecord) /\ Shown(yielded) = Tabled(taken)
  BY <1>1 DEF Handed
<1>7. /\ Carried(row) = Carry(more)
      /\ [line |-> row.line, cells |-> RowDict(row)] = MeantRow(taken, row)
      /\ RowDict(row) \in Cells
      /\ ~Bare(row) => RowDict(row) # NoCells
      /\ Bare(row) => fill = Carry(more)
  BY <1>3, <1>6, <1>16, Filled
<1>8. fill' = Carry(more)
  BY <1>2, <1>7
<1>9. Tabled(more) = IF Bare(row) THEN Tabled(taken) ELSE Append(Tabled(taken), MeantRow(taken, row))
  BY <1>3, <1>16, TabledAppend
<1>10. Starts(more, Rows(job))
  <2>1. Starts((taken \o chan) \o outbox, Rows(job))
    <3> DEFINE due == (taken \o chan) \o outbox
               k   == next - 1
    <3>1. Owes(job, pc, k, current, flat, due)
      BY <1>1, <1>2 DEF Owing
    <3>2. IsJob(job)
      BY JobIs DEF Held
    <3> HIDE DEF due, k
    <3>3. Starts(due, Rows(job))
      BY <3>1, <3>2, OwesStarts
    <3> QED
      BY <3>3 DEF due
  <2>2. Starts((more \o rest) \o outbox, Rows(job)) /\ more \o rest \in Seq(Row)
    <3>1. more \o rest \in Seq(Row)
      BY <1>3, ConcatProperties
    <3> QED
      BY <1>17, <2>1, <3>1
  <2>3. Starts(more \o rest, Rows(job))
    BY <1>3, <2>2, StartsMore
  <2> QED
    BY <1>3, <2>3, StartsMore
<1>11. bare \in ShownRecord /\ full \in ShownRecord
  <2>1. NoCells \in Cells
    BY EmptyRowType DEF Row, EmptyRow
  <2> QED
    BY <1>3, <1>7, <2>1, RowFields DEF ShownRecord
<1>12. Bare(bare) /\ (~Bare(row) => ~Bare(full))
  BY <1>7 DEF Bare
<1>13. yielded' \in Seq(ShownRecord) /\ Shown(yielded') = Tabled(more)
  <2>1. CASE ~Bare(row) /\ yielded' = Append(yielded, full)
    <3>1. Shown(Append(yielded, full)) = Append(Shown(yielded), [line |-> full.line, cells |-> full.cells])
      <4> HIDE DEF full
      <4> QED
        BY <1>6, <1>11, <1>12, <2>1, ShownAppend
    <3>2. [line |-> full.line, cells |-> full.cells] = MeantRow(taken, row)
      BY <1>7
    <3> HIDE DEF full
    <3> QED
      BY <1>6, <1>9, <1>11, <2>1, <3>1, <3>2, Grown
  <2>2. CASE Bare(row) /\ yielded' = Append(yielded, bare)
    <3> HIDE DEF bare
    <3>1. Shown(Append(yielded, bare)) = Shown(yielded)
      BY <1>6, <1>11, <1>12, ShownAppend
    <3> QED
      BY <1>6, <1>9, <1>11, <2>2, <3>1, Grown
  <2>3. CASE Bare(row) /\ yielded' = yielded
    BY <1>6, <1>9, <2>3
  <2> QED
    BY <1>2, <2>1, <2>2, <2>3
<1>14. job.variables =>
         /\ Len(yielded') = Len(more)
         /\ \A k \in 1..Len(more) : yielded'[k].line = more[k].line /\ yielded'[k].changes = more[k].changes
  <2> SUFFICES ASSUME job.variables
               PROVE  /\ Len(yielded') = Len(more)
                      /\ \A k \in 1..Len(more) :
                           yielded'[k].line = more[k].line /\ yielded'[k].changes = more[k].changes
    OBVIOUS
  <2>1. PICK new \in ShownRecord : new.line = row.line /\ new.changes = row.changes /\ yielded' = Append(yielded, new)
    BY <1>2, <1>11
  <2>2. /\ Len(yielded') = Len(yielded) + 1 /\ yielded'[Len(yielded) + 1] = new
        /\ \A i \in 1..Len(yielded) : yielded'[i] = yielded[i]
    BY <1>6, <2>1, Grown
  <2>3. /\ Len(taken) \in Nat /\ Len(more) = Len(taken) + 1 /\ more[Len(taken) + 1] = row
        /\ \A i \in 1..Len(taken) : more[i] = taken[i]
    BY <1>3, <1>16, Grown
  <2>4. /\ Len(yielded) = Len(taken)
        /\ \A k \in 1..Len(taken) : yielded[k].line = taken[k].line /\ yielded[k].changes = taken[k].changes
    BY <1>1 DEF Handed
  <2>5. \A k \in 1..Len(more) : k = Len(taken) + 1 \/ k \in 1..Len(taken)
    BY <2>3
  <2> QED
    BY <2>1, <2>2, <2>3, <2>4, <2>5
<1>15. Handed(more)'
  BY <1>2, <1>8, <1>10, <1>13, <1>14 DEF Handed
<1> QED
  BY <1>3, <1>5, <1>15 DEF Progress

(* A worker that has handed all its rows to the sink owes nothing.         *)
LEMMA QuietProgress ==
  ASSUME Progress, UNCHANGED <<job, next, current, flat, outbox, chan, yielded, fill>>,
         iter # "dropped" \/ iter' = "dropped",
         pc' = pc \/ (pc \notin {"block", "fill", "flush"} /\ pc' \notin {"block", "fill", "flush"})
  PROVE  Progress'
<1>1. PICK taken \in Seq(Row) : Handed(taken) /\ Owing(taken)
  BY DEF Progress
<1>2. Handed(taken)'
  BY <1>1, HandedStays
<1>3. ASSUME iter # "dropped"
      PROVE  Owes(job, pc', next - 1, current, flat, (taken \o chan) \o outbox)
  <2> DEFINE due == (taken \o chan) \o outbox
             k   == next - 1
  <2>1. Owes(job, pc, k, current, flat, due)
    BY <1>1, <1>3 DEF Owing
  <2> HIDE DEF due, k
  <2>2. Owes(job, pc', k, current, flat, due)
    <3>1. CASE pc' = pc
      BY <2>1, <3>1
    <3>2. CASE pc \notin {"block", "fill", "flush"} /\ pc' \notin {"block", "fill", "flush"}
      BY <2>1, <3>2, OwesOn
    <3> QED
      BY <3>1, <3>2
  <2> QED
    BY <2>2 DEF due, k
<1>4. Owing(taken)'
  BY <1>3 DEF Owing
<1> QED
  BY <1>2, <1>4 DEF Progress

(* Once the iterator is dropped, only what it handed out counts.           *)
LEMMA DroppedProgress ==
  ASSUME Progress, UNCHANGED <<job, yielded, fill>>, iter' = "dropped"
  PROVE  Progress'
<1>1. PICK taken \in Seq(Row) : Handed(taken) /\ Owing(taken)
  BY DEF Progress
<1>2. Handed(taken)' /\ Owing(taken)'
  BY <1>1, HandedStays DEF Owing
<1> QED
  BY <1>2 DEF Progress

LEMMA NextProgress == Control /\ Held /\ Progress /\ [Next]_vars => Progress'
<1> SUFFICES ASSUME Control, Held, Progress, [Next]_vars PROVE Progress'
  OBVIOUS
<1>1. CASE (StartRow \/ EndBlocks) /\ UNCHANGED fill
  BY <1>1, FlushProgress
<1>2. CASE Fill /\ UNCHANGED fill
  BY <1>2, FillProgress
<1>3. CASE FinishFlattener /\ UNCHANGED fill
  BY <1>3, FinishProgress
<1>4. CASE Fail /\ UNCHANGED fill
  BY <1>4, FailProgress
<1>5. CASE Send
  BY <1>5, SendProgress
<1>6. CASE Take
  BY <1>6, TakeProgress
<1>7. CASE HangUp
  <2>1. ~ReceiverOpen /\ outbox # <<>> /\ UNCHANGED <<job, iter, yielded, fill>>
    BY <1>7 DEF HangUp, Unwind
  <2>2. iter = "dropped"
    BY <2>1 DEF Control, Delivering, Waiting, SenderAlive, ReceiverOpen
  <2> QED
    BY <2>1, <2>2, DroppedProgress
<1>8. CASE Drop /\ UNCHANGED fill
  BY <1>8, DroppedProgress DEF Drop
<1>9. CASE (Close \/ Report \/ Exit) /\ UNCHANGED fill
  <2>1. UNCHANGED <<job, next, current, flat, outbox, chan, yielded, fill, iter>>
        /\ pc \notin {"block", "fill", "flush"} /\ pc' \notin {"block", "fill", "flush"}
    BY <1>9 DEF Close, Report, Exit, workerVars
  <2> QED
    BY <2>1, QuietProgress
<1>10. CASE \/ UNCHANGED vars
            \/ (Disconnect \/ TakeResult("joining") \/ NoResult("joining") \/ Join \/ Call) /\ UNCHANGED fill
  <2>1. UNCHANGED <<job, next, current, flat, outbox, chan, yielded, fill, pc>>
        /\ (iter # "dropped" \/ iter' = "dropped")
    BY <1>10 DEF vars, workerVars, Disconnect, TakeResult, NoResult, Join, Call
  <2> QED
    BY <2>1, QuietProgress
<1>11. Close => UNCHANGED fill
  BY DEF Close
<1> QED
  BY <1>1, <1>2, <1>3, <1>4, <1>5, <1>6, <1>7, <1>8, <1>9, <1>10, <1>11
     DEF Next, Worker, WorkerEdge, InCall, IterEdge

-----------------------------------------------------------------------------
(* The inductive invariant.                                                *)

Inv == Control /\ Held /\ Progress

(* The worker, the channel, the puller and the engine keep the invariant.  *)
THEOREM Inductive == Spec => []Inv
<1>1. Init => Inv
  BY InitControl, InitHeld, InitProgress DEF Inv
<1>2. Inv /\ [Next]_vars => Inv'
  BY NextControl, NextHeld, NextProgress DEF Inv
<1> QED
  BY <1>1, <1>2, PTL DEF Spec

(* The states of worker, channel and iterator are well typed, and the      *)
(* channel of nc_to_rows never holds more than its capacity.               *)
THEOREM Typed == Spec => []TypeOK
<1>1. Inv => TypeOK
  <2> SUFFICES ASSUME Inv PROVE TypeOK
    OBVIOUS
  <2>1. fill \in Cells
    BY CarryType DEF Inv, Progress, Handed
  <2>2. <<>> \in Seq(Row) /\ Len(<<>>) <= 1
    BY EmptySeq
  <2>3. flat.buffer \in Seq(Row)
    BY FlatFields DEF Inv, Held, FlatOK
  <2> QED
    BY <2>1, <2>2, <2>3 DEF Inv, Control, Held, ResultLeft, TypeOK, CommonTypeOK
<1> QED
  BY <1>1, Inductive, PTL

(* With include_variables, the changes that came with the rows up to any   *)
(* row next() returned are those of the blocks up to that row's.           *)
THEOREM VariablesHold == Spec => []VariablesAtEveryRow
<1>1. Inv => VariablesAtEveryRow
  <2> SUFFICES ASSUME Inv, job.variables, NEW k \in DOMAIN yielded
               PROVE  Replay(ChangesOf(SubSeq(yielded, 1, k)))
                        = Replay(ChangesOf(SubSeq(job.blocks, 1, yielded[k].line)))
    BY DEF VariablesAtEveryRow
  <2>1. PICK taken \in Seq(Row) : Handed(taken) /\ Owing(taken)
    BY DEF Inv, Progress
  <2>2. /\ yielded \in Seq(ShownRecord) /\ Len(yielded) = Len(taken) /\ Len(taken) \in Nat
        /\ \A i \in 1..Len(taken) : yielded[i].line = taken[i].line /\ yielded[i].changes = taken[i].changes
    BY <2>1, LenNat DEF Handed
  <2>3. k \in 1..Len(taken)
    BY <2>2, LenProperties
  <2>4. IsJob(job) /\ job.record
    BY JobIs DEF Inv, Held, IsJob
  <2>5. Reporting(job, taken)
    BY <2>1, <2>4, RowsReport, ReportingStart DEF Handed
  <2>6. ChangesOf(SubSeq(taken, 1, k)) = ChangesOf(SubSeq(job.blocks, 1, yielded[k].line))
    BY <2>2, <2>3, <2>5 DEF Reporting
  <2>7. ChangesOf(SubSeq(yielded, 1, k)) = ChangesOf(SubSeq(taken, 1, k))
    <3> DEFINE s == SubSeq(yielded, 1, k)
               t == SubSeq(taken, 1, k)
    <3>1. /\ s \in Seq(ShownRecord) /\ Len(s) = k /\ \A i \in 1..k : s[i] = yielded[i]
          /\ t \in Seq(Row) /\ Len(t) = k /\ \A i \in 1..k : t[i] = taken[i]
      BY <2>2, <2>3, PrefixType
    <3> HIDE DEF s, t
    <3>2. DOMAIN s = 1..k /\ DOMAIN t = 1..k
      BY <3>1, LenProperties
    <3>3. \A i \in 1..k : s[i].changes = t[i].changes
      BY <2>2, <2>3, <3>1
    <3>4. [i \in DOMAIN s |-> s[i].changes] = [i \in DOMAIN t |-> t[i].changes]
      BY <3>2, <3>3
    <3>5. ChangesOf(s) = ChangesOf(t)
      BY <3>4 DEF ChangesOf
    <3> QED
      BY <3>5 DEF s, t
  <2> QED
    BY <2>6, <2>7
<1> QED
  BY <1>1, Inductive, PTL

-----------------------------------------------------------------------------
(* The promise.                                                            *)

(* What has been delivered is a prefix of the table.                       *)
Prefix ==
  /\ Tabled(Rows(job)) \in Seq(TableRow)
  /\ Len(Shown(yielded)) \in 0..Len(Tabled(Rows(job)))
  /\ Shown(yielded) = SubSeq(Tabled(Rows(job)), 1, Len(Shown(yielded)))

LEMMA DeliveredIs == Inv => Prefix
<1> SUFFICES ASSUME Inv PROVE Prefix
  OBVIOUS
<1>1. PICK taken \in Seq(Row) : Handed(taken)
  BY DEF Inv, Progress
<1>2. IsJob(job) /\ Rows(job) \in Seq(Row)
  BY JobIs, RowsStart DEF Inv, Held
<1>3. Starts(taken, Rows(job)) /\ Shown(yielded) = Tabled(taken)
  BY <1>1 DEF Handed
<1> QED
  BY <1>2, <1>3, TabledStarts, TabledType DEF Prefix

(* With every row handed to the sink and taken, the table is complete.     *)
LEMMA AllDelivered ==
  ASSUME Inv, iter = "joining", job.ending # "error"
  PROVE  Shown(yielded) = Tabled(Rows(job))
<1>1. PICK taken \in Seq(Row) : Handed(taken) /\ Owing(taken)
  BY DEF Inv, Progress
<1>2. chan = <<>> /\ outbox = <<>> /\ pc \notin {"block", "fill", "flush"}
  BY DEF Inv, Control, Waiting, Delivering, SenderAlive
<1>3. taken \o <<>> = taken
  BY ConcatEmptySeq
<1>4. Owes(job, pc, next - 1, current, flat, taken)
  BY <1>1, <1>2, <1>3 DEF Owing
<1>5. taken = Rows(job)
  BY <1>2, <1>4 DEF Owes, Settled
<1> QED
  BY <1>1, <1>5 DEF Handed

(* A step hands out nothing or one more row.                               *)
LEMMA YieldedStep ==
  ASSUME Inv, Inv', [Next]_vars
  PROVE  \/ yielded' = yielded
         \/ Ended = "no" /\ Ended' = "no" /\ Shown(yielded)' = Shown(yielded)
         \/ Ended = "no" /\ Ended' = "no" /\ Len(Shown(yielded)') = Len(Shown(yielded)) + 1
<1>1. yielded' # yielded => Take
  BY DEF Next, vars, Worker, WorkerEdge, Send, HangUp, Close, Unwind, StartRow, Fill, EndBlocks,
         FinishFlattener, Fail, Report, Exit, InCall, IterEdge, Disconnect, TakeResult, NoResult,
         Join, Call, Drop
<1>2. ASSUME Take, yielded' # yielded
      PROVE  /\ Ended = "no" /\ Ended' = "no"
             /\ Shown(yielded)' = Shown(yielded) \/ Len(Shown(yielded)') = Len(Shown(yielded)) + 1
  <2>1. Ended = "no" /\ Ended' = "no"
    BY <1>2 DEF Take, Ended
  <2>2. PICK record : yielded' = Append(yielded, record)
    BY <1>2 DEF Take
  <2>3. yielded \in Seq(ShownRecord) /\ yielded' \in Seq(ShownRecord)
    <3>1. yielded \in Seq(ShownRecord)
      BY DEF Inv, Progress, Handed
    <3>2. (\E taken \in Seq(Row) : Handed(taken) /\ Owing(taken))'
      BY DEF Inv, Progress
    <3> QED
      BY <3>1, <3>2 DEF Handed
  <2>4. record \in ShownRecord
    <3>1. Len(yielded) \in Nat /\ Len(yielded') = Len(yielded) + 1 /\ yielded'[Len(yielded) + 1] = record
      BY <2>2, <2>3, LenNat
    <3>2. Len(yielded) + 1 \in 1..Len(yielded')
      BY <3>1
    <3> QED
      BY <2>3, <3>1, <3>2, ElementOfSeq
  <2> DEFINE new == [line |-> record.line, cells |-> record.cells]
             all == Shown(Append(yielded, record))
             old == Shown(yielded)
  <2>5. all = IF Bare(record) THEN old ELSE Append(old, new)
    BY <2>3, <2>4, ShownAppend
  <2>6. new \in TableRow /\ old \in Seq(TableRow)
    BY <2>3, <2>4, ShownType DEF ShownRecord, TableRow
  <2>7. Shown(yielded)' = all
    BY <2>2 DEF Shown
  <2> HIDE DEF new, all, old
  <2>8. all = old \/ Len(all) = Len(old) + 1
    BY <2>5, <2>6, Grown
  <2> QED
    BY <2>1, <2>7, <2>8 DEF old
<1> QED
  BY <1>1, <1>2

(* How the iteration comes to its end.                                     *)
LEMMA EndedStep ==
  ASSUME Inv, [Next]_vars
  PROVE  /\ job' = job
         /\ \/ Ended' = Ended
            \/ /\ Ended = "no" /\ yielded' = yielded
               /\ \/ Ended' = "exhausted" /\ iter = "joining"
                  \/ Ended' = "raised" /\ job.ending = "error"
                  \/ Ended' = "dropped"
<1>1. job' = job /\ (iter' = iter => Ended' = Ended)
  BY DEF Ended, Next, vars, Worker, WorkerEdge, Send, HangUp, Close, Unwind, StartRow, Fill, EndBlocks,
         FinishFlattener, Fail, Report, Exit, InCall, Take, IterEdge, Disconnect, TakeResult, NoResult,
         Join, Call, Drop
<1>2. iter' # iter => Take \/ Disconnect \/ TakeResult("joining") \/ NoResult("joining") \/ Join \/ Call \/ Drop
  BY DEF Next, vars, Worker, WorkerEdge, Send, HangUp, Close, Unwind, StartRow, Fill, EndBlocks,
         FinishFlattener, Fail, Report, Exit, InCall, IterEdge
<1>3. CASE Take \/ Disconnect \/ TakeResult("joining") \/ NoResult("joining") \/ Call
  BY <1>1, <1>3 DEF Ended, Take, Disconnect, TakeResult, NoResult, Call
<1>4. CASE Join
  <2>1. iter = "raising" => job.ending = "error"
    BY DEF Inv, Control
  <2> QED
    BY <1>1, <1>4, <2>1 DEF Ended, Join
<1>5. CASE Drop
  BY <1>1, <1>5 DEF Ended, Drop
<1> QED
  BY <1>1, <1>2, <1>3, <1>4, <1>5

LEMMA PromiseStep ==
  ASSUME Inv, Inv', Prefix', [Next]_vars
  PROVE  [Promise!Next]_<<job, Shown(yielded), Ended>>
<1> DEFINE all == Tabled(Rows(job))
           old == Shown(yielded)
           new == Shown(yielded)'
<1>1. yielded' = yielded => new = old
  BY DEF Shown
<1>2. job' = job /\ Promise!Complete = all
  BY EndedStep DEF Promise!Complete, Table, Tabled
<1>3. CASE Ended' = Ended /\ new = old
  BY <1>2, <1>3
<1>4. CASE Ended = "no" /\ Ended' = "no" /\ Len(new) = Len(old) + 1
  <2>1. /\ Len(old) \in 0..Len(all) /\ all \in Seq(TableRow)
    BY DeliveredIs DEF Prefix
  <2>2. Len(new) \in 0..Len(all) /\ new = SubSeq(all, 1, Len(new))
    <3>1. /\ Len(Shown(yielded)') \in 0..Len(Tabled(Rows(job')))
          /\ Shown(yielded)' = SubSeq(Tabled(Rows(job')), 1, Len(Shown(yielded)'))
      BY DEF Prefix
    <3> QED
      BY <1>2, <3>1
  <2> HIDE DEF all, old, new
  <2>3. Len(new) \in Len(old) + 1..Len(all)
    BY <1>4, <2>1, <2>2
  <2>4. \E n \in Len(old) + 1..Len(all) : new = SubSeq(all, 1, n)
    BY <2>2, <2>3
  <2>5. Promise!Deliver
    BY <1>2, <1>4, <2>4 DEF Promise!Deliver, old, new, Shown
  <2> QED
    BY <2>5 DEF Promise!Next
<1>5. CASE Ended = "no" /\ yielded' = yielded /\ Ended' = "exhausted" /\ iter = "joining"
  <2>1. job.ending \in {"done", "panic"} /\ old = all
    <3>1. job.ending \in {"done", "error", "panic"} /\ job.ending # "error"
      BY <1>5, JobIs DEF Inv, Control, IsJob, Job
    <3> QED
      BY <1>5, <3>1, AllDelivered
  <2>2. Promise!Exhaust
    BY <1>1, <1>2, <1>5, <2>1 DEF Promise!Exhaust, Shown
  <2> QED
    BY <2>2 DEF Promise!Next
<1>6. CASE Ended = "no" /\ yielded' = yielded /\ Ended' = "raised" /\ job.ending = "error"
  <2>1. Promise!Raise
    BY <1>1, <1>2, <1>6 DEF Promise!Raise, Shown
  <2> QED
    BY <2>1 DEF Promise!Next
<1>7. CASE Ended = "no" /\ yielded' = yielded /\ Ended' = "dropped"
  <2>1. Promise!Drop
    BY <1>1, <1>2, <1>7 DEF Promise!Drop, Shown
  <2> QED
    BY <2>1 DEF Promise!Next
<1> QED
  BY <1>1, <1>3, <1>4, <1>5, <1>6, <1>7, YieldedStep, EndedStep

(* The rows with cells that next() of NcRowIterator returns are those of   *)
(* the program's table, in order, filled, and it ends after the last of    *)
(* them only, whatever the worker is doing meanwhile.                      *)
THEOREM PromiseKept == Spec => KeepsPromise
<1>1. Init => Promise!Init
  <2> SUFFICES ASSUME Init PROVE Promise!Init
    OBVIOUS
  <2>1. job \in Jobs /\ yielded = <<>> /\ Ended = "no"
    BY DEF Init, CommonInit, Ended
  <2>2. Shown(yielded) = <<>>
    BY <2>1, ShownEmpty
  <2> QED
    BY <2>1, <2>2 DEF Promise!Init, Shown
<1>2. Inv /\ Inv' /\ Prefix' /\ [Next]_vars => [Promise!Next]_<<job, Shown(yielded), Ended>>
  BY PromiseStep
<1> QED
  BY <1>1, <1>2, DeliveredIs, Inductive, PTL DEF Spec, KeepsPromise, Promise!Spec, Shown
=============================================================================
