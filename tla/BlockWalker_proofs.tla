------------------------- MODULE BlockWalker_proofs -------------------------
(***************************************************************************)
(* What holds of every run of the walker, whatever the program, the limit  *)
(* and the options: its type, the nesting and the visible targets; the     *)
(* limits, the jumps, the ways out of loops and the recorded changes; that *)
(* it implements the control-flow graph of the program text; and that the  *)
(* VM beside it (CursorParity) does what it does.                          *)
(***************************************************************************)
EXTENDS CursorParity, NcBlocks_proofs

-----------------------------------------------------------------------------
(* Entering a body, skipping one, going round, going back.                 *)

LEMMA DescendStep ==
  ASSUME Core, AtBlock, Kept, NEW calls \in Seq(OutputCall),
         NEW s \in Bodies(HereOp), NEW c \in Nat, NEW e \in Int,
         HereOp.tag = "for" => HereOp.var \in Vars /\ env'[HereOp.var] \in Int,
         Descend(NewFrame(s, HereOp, c, e), calls)
  PROVE  Core'
<1> DEFINE f == NewFrame(s, HereOp, c, e)
<1>1. s \in Scopes /\ HereOp \in Op /\ status = "running"
  BY AtBlockFacts
<1>2. f \in Frame /\ f.scope = s /\ f.op = HereOp
  BY <1>1, NewFrameType
<1>3. Enter(f) /\ out' \in Seq(OutputCall)
  BY <1>1, RowHere DEF Descend
<1> HIDE DEF f
<1> QED
  BY <1>2, <1>3, EnterStep

(* The bodies of the other operations have no bound.                       *)
LEMMA DescendUnbounded ==
  ASSUME Core, AtBlock, Kept, HereOp.tag # "for",
         NEW s \in Bodies(HereOp), NEW c \in Nat, Descend(NewFrame(s, HereOp, c, 0), <<>>)
  PROVE  Core'
<1>1. <<>> \in Seq(OutputCall) /\ 0 \in Int
  BY EmptySeq
<1>2. HereOp.tag = "for" => HereOp.var \in Vars /\ env'[HereOp.var] \in Int
  OBVIOUS
<1> QED
  BY <1>1, <1>2, DescendStep

LEMMA SkipStep ==
  ASSUME Core, AtBlock, Kept, NEW calls \in Seq(OutputCall), Skip(calls)
  PROVE  Core'
<1>1. status = "running"
  BY AtBlockFacts
<1> QED
  BY <1>1, RowHere, AdvanceStep DEF Skip, Finish

LEMMA IterateStep ==
  ASSUME Core, status = "running", Kept, out' \in Seq(OutputCall), NEW c \in Nat, Iterate(c)
  PROVE  Core'
<1> DEFINE f == NewFrame(Top.scope, Top.op, c, Top.end)
<1>1. Top.scope \in Scopes /\ Top.op \in Op /\ Top.end \in Int
  BY AtCursor, FrameFields
<1>2. f \in Frame /\ f.scope = Top.scope /\ f.op = Top.op
  BY <1>1, NewFrameType
<1>3. stack' = [stack EXCEPT ![Len(stack)] = f] /\ flow' \in Flow
  BY DEF Iterate, Core
<1> HIDE DEF f
<1> QED
  BY <1>2, <1>3, ReplaceStep DEF Iterate

(* The bottom frame opens no body: a frame of an operation has a caller.   *)
LEMMA CallerFacts ==
  ASSUME Core, status = "running", Top.op.tag # "none"
  PROVE  Len(stack) # 1 /\ Caller \in Scopes \X Nat
<1>1. stack # <<>> /\ stack \in Seq(Frame) /\ Top = stack[Len(stack)]
  BY AtCursor DEF Core, Scoped
<1>2. Len(stack) # 1
  BY <1>1 DEF Core, Scoped, NestedIn, Nop
<1>3. Len(stack) \in Nat \ {0}
  BY <1>1, EmptySeq
<1>4. Len(stack) - 1 \in 1..Len(stack)
  <2>1. \A n \in Nat \ {0} : n # 1 => n - 1 \in 1..n
    OBVIOUS
  <2> QED
    BY <1>2, <1>3, <2>1
<1>5. stack[Len(stack) - 1] \in Frame
  BY <1>1, <1>4, ElementOfSeq
<1> QED
  BY <1>2, <1>5, FrameFields DEF Caller

LEMMA ReturnFromBody ==
  ASSUME Core, status = "running", Top.op.tag # "none", Kept,
         NEW calls \in Seq(OutputCall), Return(calls)
  PROVE  Core'
<1>1. Len(stack) # 1 /\ out' \in Seq(OutputCall)
  BY CallerFacts, RowType DEF Return, Core
<1> QED
  BY <1>1, ReturnStep DEF Return

LEMMA FailStep ==
  ASSUME Core, Kept, out' \in Seq(OutputCall), NEW e \in Endings, Fail(e)
  PROVE  Core'
BY StayStep DEF Fail, Core
-----------------------------------------------------------------------------
(* The actions that enter a body.                                          *)

LEMMA EnterIfStep ==
  ASSUME Core, EnterIf
  PROVE  Core'
<1>1. AtBlock /\ status = "running" /\ HereOp \in Op /\ HereOp.tag = "if"
  BY AtBlockFacts DEF EnterIf
<1>2. CASE ~CanRead(HereOp.cond.lhs, env)
  BY <1>1, <1>2, SameKeeps, EmptySeq, FailReadingStep DEF EnterIf
<1>3. CASE CanRead(HereOp.cond.lhs, env)
  <2> DEFINE taken == IF Holds(HereOp.cond, env) THEN HereOp.body ELSE HereOp.alt
  <2>1. /\ env' = AfterReading({HereOp.cond.lhs.var}, env)
        /\ IF taken = NoScope THEN Skip(<<>>) ELSE Descend(NewFrame(taken, HereOp, 0, 0), <<>>)
    BY <1>3 DEF EnterIf
  <2>2. Kept
    BY <2>1, ReadingKeeps
  <2>3. CASE taken = NoScope
    BY <1>1, <2>1, <2>2, <2>3, EmptySeq, SkipStep
  <2>4. CASE taken # NoScope
    <3>1. taken \in Bodies(HereOp)
      BY <1>1, <2>4 DEF Bodies, Loops
    <3> HIDE DEF taken
    <3> QED
      BY <1>1, <2>1, <2>2, <2>4, <3>1, DescendUnbounded
  <2> QED
    BY <2>3, <2>4
<1> QED
  BY <1>2, <1>3

LEMMA EnterWhileStep ==
  ASSUME Core, EnterWhile
  PROVE  Core'
<1>1. AtBlock /\ status = "running" /\ HereOp \in Op /\ HereOp.tag = "while"
  BY AtBlockFacts DEF EnterWhile
<1>2. CASE ~CanRead(HereOp.cond.lhs, env)
  BY <1>1, <1>2, SameKeeps, EmptySeq, FailReadingStep DEF EnterWhile
<1>3. CASE CanRead(HereOp.cond.lhs, env)
  <2>1. Kept
    BY <1>3, ReadingKeeps DEF EnterWhile
  <2>2. CASE Limit = 0
    <3>1. Fail("LoopLimit") /\ out' = Emitted(<<StartRow(Here)>>)
      BY <1>3, <2>2 DEF EnterWhile
    <3>2. "LoopLimit" \in Endings /\ out' \in Seq(OutputCall)
      BY <1>1, <3>1, EmptySeq, RowHere DEF Endings
    <3> QED
      BY <2>1, <3>1, <3>2, FailStep
  <2>3. CASE Limit # 0 /\ Holds(HereOp.cond, env)
    <3>1. Descend(NewFrame(HereOp.body, HereOp, 1, 0), <<>>)
      BY <1>3, <2>3, LimitAssumption DEF EnterWhile
    <3>2. HereOp.body \in Bodies(HereOp)
      BY <1>1 DEF Bodies, Loops
    <3> QED
      BY <1>1, <2>1, <3>1, <3>2, DescendUnbounded
  <2>4. CASE Limit # 0 /\ ~Holds(HereOp.cond, env)
    <3>1. Skip(<<>>)
      BY <1>3, <2>4, LimitAssumption DEF EnterWhile
    <3> QED
      BY <1>1, <2>1, <3>1, EmptySeq, SkipStep
  <2> QED
    BY <2>2, <2>3, <2>4
<1> QED
  BY <1>2, <1>3

LEMMA EnterLoopStep ==
  ASSUME Core, EnterLoop
  PROVE  Core'
<1>1. AtBlock /\ HereOp.tag \in {"loop", "repeat"} /\ Kept
  BY SameKeeps DEF EnterLoop
<1>2. HereOp.body \in Bodies(HereOp)
  BY <1>1 DEF Bodies, Loops
<1>3. Descend(NewFrame(HereOp.body, HereOp, 0, 0), <<>>)
  BY DEF EnterLoop
<1> QED
  BY <1>1, <1>2, <1>3, DescendUnbounded

LEMMA EnterForStep ==
  ASSUME Core, EnterFor
  PROVE  Core'
<1> DEFINE env1  == AfterReading({HereOp.expr.var}, env)
           env2  == Assigned(HereOp, env1)
           env3  == AfterReading({HereOp.to.var}, env2)
           calls == <<Change(HereOp.var, ValueOf(HereOp.expr, env1))>>
           end   == ValueOf(HereOp.to, env2)
<1>1. /\ AtBlock /\ status = "running" /\ HereOp \in Op /\ HereOp.tag = "for"
      /\ HereOp.var \in Vars \cup Axes
  BY AtBlockFacts DEF EnterFor
<1>2. CASE ~CanRead(HereOp.expr, env)
  BY <1>1, <1>2, SameKeeps, EmptySeq, FailReadingStep DEF EnterFor
<1>3. CASE CanRead(HereOp.expr, env)
  <2>1. IF ~CanRead(HereOp.to, env2)
        THEN FailReading(calls) /\ env' = env2
        ELSE /\ env' = env3
             /\ IF HereOp.var \in Vars /\ env2[HereOp.var] <= end
                THEN Descend(NewFrame(HereOp.body, HereOp, 0, end), calls)
                ELSE Skip(calls)
    BY <1>3 DEF EnterFor
  <2>2. env1 \in Env /\ \A v \in Vars : env[v] \in Int => env1[v] \in Int
    BY Reading DEF Core
  <2>3. calls \in Seq(OutputCall)
    <3>1. ValueOf(HereOp.expr, env1) \in Int
      BY <1>1, <2>2, ValueType, OpFields
    <3> QED
      BY <1>1, <3>1, ValueCalls
  <2> HIDE DEF env1, calls
  <2>4. /\ env2 \in Env /\ \A v \in Vars : env[v] \in Int => env2[v] \in Int
        /\ HereOp.var \in Vars => env2[HereOp.var] \in Int
    BY <1>1, <2>2, Assigning
  <2> HIDE DEF env2
  <2>5. /\ env3 \in Env /\ \A v \in Vars : env[v] \in Int => env3[v] \in Int
        /\ HereOp.var \in Vars => env3[HereOp.var] \in Int
    BY <2>4, Reading
  <2>6. end \in Int
    BY <1>1, <2>4, ValueType, OpFields
  <2> HIDE DEF env3, end
  <2>7. CASE ~CanRead(HereOp.to, env2)
    BY <1>1, <2>1, <2>3, <2>4, <2>7, FailReadingStep DEF Kept
  <2>8. CASE CanRead(HereOp.to, env2) /\ HereOp.var \in Vars /\ env2[HereOp.var] <= end
    <3>1. HereOp.body \in Bodies(HereOp)
      BY <1>1 DEF Bodies, Loops
    <3>2. Kept /\ env'[HereOp.var] \in Int /\ HereOp.var \in Vars
      BY <2>1, <2>5, <2>8 DEF Kept
    <3>3. Descend(NewFrame(HereOp.body, HereOp, 0, end), calls)
      BY <2>1, <2>8
    <3> QED
      BY <1>1, <2>3, <2>6, <3>1, <3>2, <3>3, DescendStep
  <2>9. CASE CanRead(HereOp.to, env2) /\ ~(HereOp.var \in Vars /\ env2[HereOp.var] <= end)
    <3>1. Kept /\ Skip(calls)
      BY <2>1, <2>5, <2>9 DEF Kept
    <3> QED
      BY <1>1, <2>3, <3>1, SkipStep
  <2> QED
    BY <2>7, <2>8, <2>9
<1> QED
  BY <1>2, <1>3

-----------------------------------------------------------------------------
(* The actions at the end of a body.                                       *)

LEMMA EndProgramTextStep ==
  ASSUME Core, EndProgramText
  PROVE  Core'
<1>1. status = "running" /\ Len(stack) = 1 /\ Kept /\ out' \in Seq(OutputCall)
  BY SameKeeps DEF EndProgramText, AtScopeEnd, Running, Core
<1>2. stack \in Seq(Frame) /\ jumpScopes = [k \in 1..1 |-> ScanTargets(prog, stack[k].scope)]
  BY <1>1, LenProperties DEF Core, Scoped
<1>3. Len(jumpScopes) = 1 /\ jumpScopes \in Seq({jumpScopes[1]})
  BY <1>2
<1>4. Front(stack) = <<>> /\ Front(jumpScopes) = <<>>
  BY <1>1, <1>2, <1>3 DEF Front
<1>5. status' \in Endings
  BY DEF EndProgramText, Endings
<1> QED
  BY <1>1, <1>4, <1>5, PopStep DEF EndProgramText

LEMMA EndIfStep ==
  ASSUME Core, EndIf
  PROVE  Core'
<1>1. status = "running" /\ Top.op.tag # "none" /\ Kept
  BY SameKeeps DEF EndIf, AtScopeEnd, Running
<1> QED
  BY <1>1, EmptySeq, ReturnFromBody DEF EndIf

LEMMA EndWhileStep ==
  ASSUME Core, EndWhile
  PROVE  Core'
<1>1. /\ status = "running" /\ Top.op.tag # "none" /\ Kept
      /\ Top.count \in Nat /\ "LoopLimit" \in Endings
  BY SameKeeps, AtCursor, FrameFields DEF EndWhile, AtScopeEnd, Running, Endings
<1>2. CASE Top.count >= Limit
  <2>1. Fail("LoopLimit") /\ out' \in Seq(OutputCall)
    BY <1>1, <1>2, LimitAssumption DEF EndWhile, Core
  <2> QED
    BY <1>1, <2>1, FailStep
<1>3. CASE Top.count < Limit /\ Holds(Top.op.cond, env)
  <2>1. Iterate(Top.count + 1) /\ out' \in Seq(OutputCall)
    BY <1>1, <1>3, LimitAssumption DEF EndWhile, Core
  <2>2. Top.count + 1 \in Nat
    BY <1>1
  <2> QED
    BY <1>1, <2>1, <2>2, IterateStep
<1>4. CASE Top.count < Limit /\ ~Holds(Top.op.cond, env)
  <2>1. Return(<<>>)
    BY <1>1, <1>4, LimitAssumption DEF EndWhile
  <2> QED
    BY <1>1, <2>1, EmptySeq, ReturnFromBody
<1> QED
  BY <1>1, <1>2, <1>3, <1>4, LimitAssumption

LEMMA EndLoopStep ==
  ASSUME Core, EndLoop
  PROVE  Core'
<1>1. /\ status = "running" /\ Kept /\ out' \in Seq(OutputCall)
      /\ Top.count + 1 \in Nat /\ "LoopLimit" \in Endings
  BY SameKeeps, AtCursor, FrameFields DEF EndLoop, AtScopeEnd, Running, Endings, Core
<1>2. Fail("LoopLimit") \/ Iterate(Top.count + 1)
  BY DEF EndLoop
<1> QED
  BY <1>1, <1>2, FailStep, IterateStep

LEMMA EndRepeatStep ==
  ASSUME Core, EndRepeat
  PROVE  Core'
<1>1. /\ status = "running" /\ Top.op.tag # "none" /\ Top.count + 1 \in Nat
      /\ "LoopLimit" \in Endings /\ "Undefined" \in Endings
  BY AtCursor, FrameFields DEF EndRepeat, AtScopeEnd, Running, Endings
<1>2. \/ (Fail("LoopLimit") \/ Fail("Undefined")) /\ UNCHANGED <<env, out>>
      \/ /\ env' = AfterReading({Top.op.cond.lhs.var}, env)
         /\ Return(<<>>) \/ (Iterate(Top.count + 1) /\ UNCHANGED out)
  BY <1>1, LimitAssumption DEF EndRepeat
<1>3. CASE (Fail("LoopLimit") \/ Fail("Undefined")) /\ UNCHANGED <<env, out>>
  <2>1. Kept /\ out' \in Seq(OutputCall)
    BY <1>3, SameKeeps DEF Core
  <2> QED
    BY <1>1, <1>3, <2>1, FailStep
<1>4. CASE /\ env' = AfterReading({Top.op.cond.lhs.var}, env)
           /\ Return(<<>>) \/ (Iterate(Top.count + 1) /\ UNCHANGED out)
  <2>1. Kept
    BY <1>4, ReadingKeeps
  <2>2. CASE Return(<<>>)
    BY <1>1, <2>1, <2>2, EmptySeq, ReturnFromBody
  <2>3. CASE Iterate(Top.count + 1) /\ UNCHANGED out
    <3>1. out' \in Seq(OutputCall)
      BY <2>3 DEF Core
    <3> QED
      BY <1>1, <2>1, <2>3, <3>1, IterateStep
  <2> QED
    BY <1>4, <2>2, <2>3
<1> QED
  BY <1>2, <1>3, <1>4

(* The counter of the loop that comes round is in the symbol table.        *)
LEMMA EndForStep ==
  ASSUME Core, EndFor
  PROVE  Core'
<1> DEFINE v    == Top.op.var
           call == <<Change(v, env[v] + 1)>>
<1>1. /\ status = "running" /\ Top.op.tag = "for" /\ Top.op.tag # "none"
      /\ Top = stack[Len(stack)] /\ Top.count \in Nat
  BY AtCursor, FrameFields DEF EndFor, AtScopeEnd, Running
<1>2. v \in Vars /\ env[v] \in Int /\ env[v] + 1 \in Int
  <2>1. Len(stack) \in DOMAIN stack
    BY <1>1, AtCursor, LenProperties, EmptySeq DEF Core, Scoped
  <2> QED
    BY <1>1, <2>1 DEF Core, Counting
<1>3. /\ env' = [env EXCEPT ![v] = env[v] + 1]
      /\ Return(call) \/ (Iterate(Top.count) /\ out' = Emitted(call))
  BY DEF EndFor
<1>4. Kept
  BY <1>2, <1>3 DEF Kept, Core, Env
<1>5. call \in Seq(OutputCall)
  BY <1>2, ValueCalls
<1> HIDE DEF call
<1>6. CASE Return(call)
  BY <1>1, <1>4, <1>5, <1>6, ReturnFromBody
<1>7. CASE Iterate(Top.count) /\ out' = Emitted(call)
  <2>1. out' \in Seq(OutputCall)
    BY <1>5, <1>7, EmittedType DEF Core
  <2> QED
    BY <1>1, <1>4, <1>7, <2>1, IterateStep
<1> QED
  BY <1>3, <1>6, <1>7

-----------------------------------------------------------------------------
(* Unwinding.                                                              *)

LEMMA LeaveScopeStep ==
  ASSUME Core, status = "running", NEW ending \in Endings, LeaveScope(ending)
  PROVE  Core'
<1>1. Kept
  BY SameKeeps DEF LeaveScope
<1>2. CASE Len(stack) = 1
  <2>1. out' \in Seq(OutputCall) /\ status' \in Endings
    BY <1>2 DEF LeaveScope, Core
  <2> QED
    BY <1>1, <1>2, <2>1, PopStep DEF LeaveScope
<1>3. CASE Len(stack) # 1
  <2>1. out' = Emitted(CommentAt(Caller)) /\ status' = status
    BY <1>3 DEF LeaveScope
  <2>2. stack # <<>> /\ stack \in Seq(Frame)
    BY AtCursor DEF Core, Scoped
  <2>3. Len(stack) - 1 \in 1..Len(stack)
    <3>1. Len(stack) \in Nat \ {0}
      BY <2>2, EmptySeq
    <3>2. \A n \in Nat \ {0} : n # 1 => n - 1 \in 1..n
      OBVIOUS
    <3> QED
      BY <1>3, <3>1, <3>2
  <2>4. Caller \in Scopes \X Nat
    <3>1. stack[Len(stack) - 1] \in Frame
      BY <2>2, <2>3, ElementOfSeq
    <3> QED
      BY <3>1, FrameFields DEF Caller
  <2>5. out' \in Seq(OutputCall)
    BY <2>1, <2>4, LineCalls, EmittedType DEF Core
  <2> QED
    BY <1>1, <1>3, <2>1, <2>5, PopStep DEF LeaveScope
<1> QED
  BY <1>2, <1>3

-----------------------------------------------------------------------------
(* Every step keeps the invariant.                                         *)

LEMMA NextCore == Core /\ [Next]_vars => Core'
<1> SUFFICES ASSUME Core, [Next]_vars PROVE Core'
  OBVIOUS
<1>1. CASE ExecLeaf
  BY <1>1, PlainStep, StatementStep, JumpsStep DEF ExecLeaf
<1>2. CASE EnterBody
  BY <1>2, EnterIfStep, EnterWhileStep, EnterLoopStep, EnterForStep DEF EnterBody
<1>3. CASE EndOfBody
  BY <1>3, EndIfStep, EndWhileStep, EndLoopStep, EndRepeatStep, EndForStep DEF EndOfBody
<1>4. CASE EndProgramText
  BY <1>4, EndProgramTextStep
<1>5. CASE TakeJump
  BY <1>5, TakeJumpStep
<1>6. CASE Propagate
  <2>1. status = "running" /\ LeaveScope(JumpFailure) /\ JumpFailure \in Endings
    BY <1>6 DEF Propagate, JumpFailure, Endings
  <2> QED
    BY <2>1, LeaveScopeStep
<1>7. CASE UnwindEnd
  <2>1. status = "running" /\ LeaveScope("done") /\ "done" \in Endings
    BY <1>7 DEF UnwindEnd, Endings
  <2> QED
    BY <2>1, LeaveScopeStep
<1>8. CASE UNCHANGED vars
  <2>1. Kept /\ out' \in Seq(OutputCall) /\ flow' \in Flow
    BY <1>8, SameKeeps DEF vars, Core
  <2> QED
    BY <1>8, <2>1, StayStep DEF vars
<1> QED
  BY <1>1, <1>2, <1>3, <1>4, <1>5, <1>6, <1>7, <1>8 DEF Next

LEMMA CoreHolds == Spec => []Core
BY InitCore, NextCore, PTL DEF Spec

-----------------------------------------------------------------------------
(* Every run keeps its types.                                              *)
THEOREM TypeCorrect == Spec => []TypeOK
BY CoreHolds, CoreImplies, PTL

(* The recursion of interpret_blocks nests as the program text does: no    *)
(* jump, loop or end leaves a scope behind or tears one out of its place,  *)
(* and a run that has not ended has a scope to go on in.                   *)
THEOREM NestingCorrect == Spec => []Nested
BY CoreHolds, CoreImplies, PTL

(* state.jump_scopes lists, at every step, the targets of exactly the      *)
(* active scopes: what GOTOC sees is what unwinding will search.           *)
THEOREM VisibleTargets == Spec => []ScopesMirrorStack
BY CoreHolds, CoreImplies, PTL

(* The expect("Variable should exist") of a FOR's increment never fails in *)
(* the walker, whatever the body of the loop does.                         *)
THEOREM CountersNeverMissing == Spec => []CountersExist
BY CoreHolds, CoreImplies, PTL

-----------------------------------------------------------------------------
(* The limit: what each way of changing the stack does to its counters.    *)

Bounded(f) ==
  LET bound == IF f.op.tag = "while" THEN Limit + 1 ELSE Limit
  IN  /\ f.jumps = 0 \/ f.jumps < Limit
      /\ f.count = 0 \/ f.count < bound

AllBounded(st) == \A k \in DOMAIN st : Bounded(st[k])

LEMMA BoundedSame ==
  ASSUME NEW f, NEW g, Bounded(f), g.op = f.op, g.jumps = f.jumps, g.count = f.count
  PROVE  Bounded(g)
BY DEF Bounded

LEMMA BoundedTop ==
  ASSUME NEW st \in Seq(Frame), st # <<>>, AllBounded(st), NEW f \in Frame, Bounded(f)
  PROVE  AllBounded([st EXCEPT ![Len(st)] = f])
<1> DEFINE st1 == [st EXCEPT ![Len(st)] = f]
<1>1. Len(st) \in Nat \ {0}
  BY FrontProps
<1>2. DOMAIN st1 = DOMAIN st /\ \A k \in DOMAIN st : st1[k] = IF k = Len(st) THEN f ELSE st[k]
  BY <1>1, LenProperties
<1> QED
  BY <1>2 DEF AllBounded

LEMMA BoundedAdvanced ==
  ASSUME NEW st \in Seq(Frame), st # <<>>, AllBounded(st)
  PROVE  AllBounded(Advanced(st))
<1> DEFINE t == st[Len(st)]
           f == [t EXCEPT !.index = t.index + 1]
<1>1. t \in Frame /\ Len(st) \in DOMAIN st
  BY FrontProps, LenProperties
<1>2. t.index + 1 \in Nat \ {0}
  BY <1>1, FrameFields
<1>3. f \in Frame /\ f.op = t.op
  BY <1>1, <1>2, FrameIndex
<1>4. f.jumps = t.jumps /\ f.count = t.count
  BY <1>1 DEF Frame
<1>5. Bounded(f)
  BY <1>1, <1>3, <1>4, BoundedSame DEF AllBounded
<1>6. Advanced(st) = [st EXCEPT ![Len(st)] = f]
  BY DEF Advanced
<1> HIDE DEF f
<1> QED
  BY <1>3, <1>5, <1>6, BoundedTop

LEMMA BoundedFront ==
  ASSUME NEW st \in Seq(Frame), st # <<>>, AllBounded(st)
  PROVE  Front(st) \in Seq(Frame) /\ AllBounded(Front(st))
<1>1. /\ Front(st) \in Seq(Frame) /\ Len(st) \in Nat \ {0} /\ Len(Front(st)) = Len(st) - 1
      /\ \A i \in 1..(Len(st) - 1) : Front(st)[i] = st[i]
  BY FrontProps
<1>2. DOMAIN Front(st) = 1..(Len(st) - 1) /\ DOMAIN st = 1..Len(st)
  BY <1>1, LenProperties
<1>3. \A i \in 1..(Len(st) - 1) : i \in 1..Len(st)
  BY <1>1
<1> QED
  BY <1>1, <1>2, <1>3 DEF AllBounded

LEMMA BoundedAppend ==
  ASSUME NEW st \in Seq(Frame), AllBounded(st), NEW f \in Frame, Bounded(f)
  PROVE  AllBounded(Append(st, f))
<1>1. /\ DOMAIN Append(st, f) = 1..(Len(st) + 1) /\ DOMAIN st = 1..Len(st) /\ Len(st) \in Nat
      /\ \A i \in 1..(Len(st) + 1) : Append(st, f)[i] = IF i = Len(st) + 1 THEN f ELSE st[i]
  BY AppendProperties, LenProperties
<1>2. \A i \in 1..(Len(st) + 1) : i # Len(st) + 1 => i \in 1..Len(st)
  BY <1>1
<1> QED
  BY <1>1, <1>2 DEF AllBounded

(* A new frame has taken no jump.                                          *)
LEMMA BoundedNew ==
  ASSUME NEW s \in Scopes, NEW op \in Op, NEW c \in Nat, NEW e \in Int,
         c = 0 \/ c < IF op.tag = "while" THEN Limit + 1 ELSE Limit
  PROVE  NewFrame(s, op, c, e) \in Frame /\ Bounded(NewFrame(s, op, c, e))
BY NewFrameType DEF NewFrame, Bounded

-----------------------------------------------------------------------------
LEMMA WithinMeaning == WithinLimit <=> (status = "running" => AllBounded(stack))
BY DEF WithinLimit, AllBounded, Bounded

(* A run that goes on has only made one of these moves.                    *)
Moves ==
  \/ stack' = stack
  \/ stack' = Advanced(stack)
  \/ stack' = Front(stack)
  \/ Len(stack) # 1 /\ stack' = Advanced(Front(stack))
  \/ \E f \in Frame : Bounded(f) /\ stack' = Append(stack, f)
  \/ \E f \in Frame : Bounded(f) /\ stack' = [stack EXCEPT ![Len(stack)] = f]

LEMMA MovesKeep ==
  ASSUME Core, status = "running", AllBounded(stack), Moves
  PROVE  AllBounded(stack')
<1>1. stack \in Seq(Frame) /\ stack # <<>>
  BY DEF Core, Scoped
<1>2. Front(stack) \in Seq(Frame) /\ AllBounded(Front(stack)) /\ (Len(stack) # 1 => Front(stack) # <<>>)
  BY <1>1, BoundedFront, Popped DEF Core
<1> QED
  BY <1>1, <1>2, BoundedAdvanced, BoundedAppend, BoundedTop DEF Moves

-----------------------------------------------------------------------------
LEMMA LeafMoves ==
  ASSUME ExecLeaf
  PROVE  Moves
BY DEF ExecLeaf, ExecPlain, ExecStatement, ExecJumps, FailReading, Fail, Finish, Moves

LEMMA EnterMoves ==
  ASSUME Core, EnterBody
  PROVE  Moves
<1>1. AtBlock /\ HereOp \in Op /\ Bodies(HereOp) \subseteq Scopes
  BY AtBlockFacts DEF EnterBody, EnterIf, EnterWhile, EnterLoop, EnterFor
<1>2. ASSUME NEW calls, Skip(calls) PROVE Moves
  BY <1>2 DEF Skip, Finish, Moves
<1>3. ASSUME NEW calls, FailReading(calls) PROVE Moves
  BY <1>3 DEF FailReading, Fail, Moves
<1>4. ASSUME NEW s \in Bodies(HereOp), NEW c \in Nat, NEW e \in Int, NEW calls,
             c = 0 \/ c < IF HereOp.tag = "while" THEN Limit + 1 ELSE Limit,
             Descend(NewFrame(s, HereOp, c, e), calls)
      PROVE  Moves
  <2> DEFINE f == NewFrame(s, HereOp, c, e)
  <2>1. f \in Frame /\ Bounded(f)
    BY <1>1, <1>4, BoundedNew
  <2>2. stack' = Append(stack, f)
    BY <1>4 DEF Descend, Enter
  <2> HIDE DEF f
  <2> QED
    BY <2>1, <2>2 DEF Moves
<1>5. CASE EnterIf
  <2> DEFINE taken == IF Holds(HereOp.cond, env) THEN HereOp.body ELSE HereOp.alt
  <2>1. HereOp.tag = "if"
    BY <1>5 DEF EnterIf
  <2>2. taken # NoScope => taken \in Bodies(HereOp)
    BY <2>1 DEF Bodies, Loops
  <2>3. \/ FailReading(<<>>)
        \/ IF taken = NoScope THEN Skip(<<>>) ELSE Descend(NewFrame(taken, HereOp, 0, 0), <<>>)
    BY <1>5 DEF EnterIf
  <2> HIDE DEF taken
  <2> QED
    BY <1>2, <1>3, <1>4, <2>2, <2>3
<1>6. CASE EnterWhile
  <2>1. HereOp.tag = "while" /\ HereOp.body \in Bodies(HereOp)
    BY <1>6 DEF EnterWhile, Bodies, Loops
  <2>2. CASE FailReading(<<>>)
    BY <1>3, <2>2
  <2>3. CASE Fail("LoopLimit")
    BY <2>3 DEF Fail, Moves
  <2>4. CASE Skip(<<>>)
    BY <1>2, <2>4
  <2>5. CASE Limit > 0 /\ Descend(NewFrame(HereOp.body, HereOp, 1, 0), <<>>)
    <3>1. 1 < Limit + 1
      BY <2>5, LimitAssumption
    <3> QED
      BY <1>4, <2>1, <2>5, <3>1
  <2> QED
    BY <1>6, <2>2, <2>3, <2>4, <2>5, LimitAssumption DEF EnterWhile
<1>7. CASE EnterLoop
  <2>1. HereOp.body \in Bodies(HereOp)
    BY <1>7 DEF EnterLoop, Bodies, Loops
  <2> QED
    BY <1>4, <1>7, <2>1 DEF EnterLoop
<1>8. CASE EnterFor
  <2> DEFINE env1  == AfterReading({HereOp.expr.var}, env)
             env2  == Assigned(HereOp, env1)
             calls == <<Change(HereOp.var, ValueOf(HereOp.expr, env1))>>
             end   == ValueOf(HereOp.to, env2)
  <2>1. HereOp.tag = "for" /\ HereOp.body \in Bodies(HereOp)
    BY <1>8 DEF EnterFor, Bodies, Loops
  <2>2. FailReading(<<>>) \/ FailReading(calls) \/ Skip(calls)
          \/ Descend(NewFrame(HereOp.body, HereOp, 0, end), calls)
    BY <1>8 DEF EnterFor
  <2>3. end \in Int
    <3>1. env1 \in Env
      BY Reading DEF Core
    <3>2. env2 \in Env
      BY <1>1, <3>1, Assigning
    <3> QED
      BY <1>1, <3>2, ValueType, OpFields
  <2> HIDE DEF calls, end
  <2> QED
    BY <1>2, <1>3, <1>4, <2>1, <2>2, <2>3
<1> QED
  BY <1>5, <1>6, <1>7, <1>8 DEF EnterBody

LEMMA EndMoves ==
  ASSUME Core, AllBounded(stack), EndOfBody
  PROVE  Moves
<1>1. status = "running"
  BY DEF EndOfBody, EndIf, EndWhile, EndLoop, EndRepeat, EndFor, AtScopeEnd, Running
<1>2. /\ Top \in Frame /\ Top.scope \in Scopes /\ Top.op \in Op /\ Top.count \in Nat
      /\ Top.end \in Int /\ Bounded(Top)
  <2>1. stack \in Seq(Frame) /\ stack # <<>> /\ Top = stack[Len(stack)] /\ Top \in Frame
    BY <1>1, AtCursor DEF Core, Scoped
  <2>2. Len(stack) \in DOMAIN stack
    BY <2>1, FrontProps, LenProperties
  <2> QED
    BY <2>1, <2>2, FrameFields DEF AllBounded
<1>3. ASSUME NEW calls, Return(calls) PROVE Moves
  <2>1. Top.op.tag # "none"
    BY DEF EndOfBody, EndIf, EndWhile, EndLoop, EndRepeat, EndFor
  <2>2. Len(stack) # 1
    BY <1>1, <2>1, CallerFacts
  <2> QED
    BY <1>3, <2>2 DEF Return, Moves
<1>4. ASSUME NEW ending, Fail(ending) PROVE Moves
  BY <1>4 DEF Fail, Moves
<1>5. ASSUME NEW c \in Nat, Iterate(c),
             c = 0 \/ c < IF Top.op.tag = "while" THEN Limit + 1 ELSE Limit
      PROVE  Moves
  <2> DEFINE f == NewFrame(Top.scope, Top.op, c, Top.end)
  <2>1. f \in Frame /\ Bounded(f)
    BY <1>2, <1>5, BoundedNew
  <2>2. stack' = [stack EXCEPT ![Len(stack)] = f]
    BY <1>5 DEF Iterate
  <2> HIDE DEF f
  <2> QED
    BY <2>1, <2>2 DEF Moves
<1>6. CASE EndIf
  BY <1>3, <1>6 DEF EndIf
<1>7. CASE EndWhile
  <2>1. Top.op.tag = "while" /\ Top.count + 1 \in Nat
    BY <1>2, <1>7 DEF EndWhile
  <2>2. CASE Top.count < Limit /\ Iterate(Top.count + 1)
    <3>1. Top.count + 1 < Limit + 1
      BY <1>2, <2>2, LimitAssumption
    <3> QED
      BY <1>5, <2>1, <2>2, <3>1
  <2> QED
    BY <1>3, <1>4, <1>7, <2>2 DEF EndWhile
<1>8. CASE EndLoop
  <2>1. Top.op.tag = "loop" /\ Top.count + 1 \in Nat
    BY <1>2, <1>8 DEF EndLoop
  <2>2. Fail("LoopLimit") \/ (Top.count + 1 < Limit /\ Iterate(Top.count + 1))
    BY <1>8, <2>1, LimitAssumption DEF EndLoop
  <2> QED
    BY <1>4, <1>5, <2>1, <2>2
<1>9. CASE EndRepeat
  <2>1. Top.op.tag = "repeat" /\ Top.count + 1 \in Nat
    BY <1>2, <1>9 DEF EndRepeat
  <2>2. \/ Fail("LoopLimit") \/ Fail("Undefined") \/ Return(<<>>)
        \/ Top.count + 1 < Limit /\ Iterate(Top.count + 1)
    BY <1>9, <2>1, LimitAssumption DEF EndRepeat
  <2> QED
    BY <1>3, <1>4, <1>5, <2>1, <2>2
<1>10. CASE EndFor
  <2>1. Top.op.tag = "for"
    BY <1>10 DEF EndFor
  <2>2. (\E calls : Return(calls)) \/ Iterate(Top.count)
    BY <1>10 DEF EndFor
  <2>3. Top.count = 0 \/ Top.count < IF Top.op.tag = "while" THEN Limit + 1 ELSE Limit
    BY <1>2 DEF Bounded
  <2> QED
    BY <1>2, <1>3, <1>5, <2>2, <2>3
<1> QED
  BY <1>6, <1>7, <1>8, <1>9, <1>10 DEF EndOfBody

LEMMA JumpMoves ==
  ASSUME Core, AllBounded(stack), TakeJump
  PROVE  Moves
<1> DEFINE d     == Destination
           taken == IF d <= Top.index THEN Top.jumps + 1 ELSE Top.jumps
<1>1. status = "running" /\ flow.tag = "jump" /\ d # 0
  BY DEF TakeJump
<1>2. CASE Fail("LoopLimit")
  BY <1>2 DEF Fail, Moves
<1>3. CASE ~(d <= Top.index /\ taken >= Limit) /\ stack' = TopAt(d, taken)
  <2>1. /\ Top \in Frame /\ Top = stack[Len(stack)] /\ Top.scope \in Scopes
        /\ Top.index \in Nat /\ Top.jumps \in Nat /\ Top.op \in Op
    BY <1>1, AtCursor, FrameFields
  <2>2. Bounded(Top)
    <3>1. stack \in Seq(Frame) /\ stack # <<>>
      BY <1>1, AtCursor DEF Core, Scoped
    <3> QED
      BY <2>1, <3>1, FrontProps, LenProperties DEF AllBounded
  <2>3. d \in Nat \ {0}
    <3>1. flow.arm \in Arm
      BY <1>1 DEF Core, Flow
    <3>2. Len(prog[Top.scope]) \in Nat
      BY <2>1, LenProperties DEF Core, IsProgram
    <3> QED
      BY <1>1, <2>1, <3>1, <3>2, ResolveJumpProps DEF Destination, Core
  <2>4. taken \in Nat /\ (taken < Limit \/ taken = Top.jumps)
    BY <1>3, <2>1, LimitAssumption
  <2> DEFINE g == [Top EXCEPT !.index = d]
             f == [g EXCEPT !.jumps = taken]
  <2>5. g \in Frame /\ g.op = Top.op
    BY <2>1, <2>3, FrameIndex
  <2>6. f \in Frame /\ f.op = Top.op
    <3> HIDE DEF g, taken
    <3> QED
      BY <2>4, <2>5, FrameJumps
  <2>7. f.jumps = taken /\ f.count = Top.count
    <3> HIDE DEF taken, d
    <3> QED
      BY <2>1 DEF Frame
  <2>8. Bounded(f)
    BY <2>2, <2>4, <2>6, <2>7 DEF Bounded
  <2>9. stack' = [stack EXCEPT ![Len(stack)] = f]
    BY <1>3, <2>1 DEF TopAt
  <2> HIDE DEF f
  <2> QED
    BY <2>6, <2>8, <2>9 DEF Moves
<1> QED
  BY <1>2, <1>3 DEF TakeJump

LEMMA NextWithin == Core /\ WithinLimit /\ [Next]_vars => WithinLimit'
<1> SUFFICES ASSUME Core, WithinLimit, [Next]_vars, status' = "running"
             PROVE  AllBounded(stack')
  BY DEF WithinLimit, AllBounded, Bounded
<1>1. CASE UNCHANGED vars
  BY <1>1, WithinMeaning DEF vars
<1>2. CASE Next
  <2>1. status = "running" /\ AllBounded(stack)
    <3>1. status = "running"
      BY <1>2 DEF Next, ExecLeaf, ExecPlain, ExecStatement, ExecJumps, EnterBody, EnterIf, EnterWhile,
                  EnterLoop, EnterFor, EndOfBody, EndIf, EndWhile, EndLoop, EndRepeat, EndFor,
                  EndProgramText, TakeJump, Propagate, UnwindEnd, AtBlock, AtScopeEnd, Running
    <3> QED
      BY <3>1, WithinMeaning
  <2>2. Moves
    <3>1. CASE EndProgramText
      BY <3>1 DEF EndProgramText
    <3>2. CASE Propagate \/ UnwindEnd
      BY <3>2 DEF Propagate, UnwindEnd, LeaveScope, Moves
    <3> QED
      BY <1>2, <2>1, <3>1, <3>2, LeafMoves, EnterMoves, EndMoves, JumpMoves DEF Next
  <2> QED
    BY <2>1, <2>2, MovesKeep
<1> QED
  BY <1>1, <1>2

LEMMA InitWithin == Init => WithinLimit
<1> SUFFICES ASSUME Init PROVE AllBounded(stack)
  BY WithinMeaning
<1>1. Bounded(NewFrame(Root, Nop, 0, 0))
  BY DEF Bounded, NewFrame
<1> QED
  BY <1>1 DEF Init, AllBounded

(* No loop and no cycle of jumps that is still running has used up its     *)
(* limit, however bodies are left, re-entered and nested.                  *)
THEOREM LimitsHold == Spec => []WithinLimit
<1>1. Core /\ WithinLimit /\ [Next]_vars => (Core /\ WithinLimit)'
  BY NextCore, NextWithin
<1> QED
  BY <1>1, InitCore, InitWithin, PTL DEF Spec

-----------------------------------------------------------------------------
(* GOTOC.                                                                  *)

(* A GOTOC that unwinds still has its target in an active scope: it was    *)
(* visible when the block was decided, and a scope is only left when it    *)
(* does not have it.                                                       *)
Reachable ==
  (status = "running" /\ flow.tag = "jump" /\ flow.arm.kw = "GOTOC") =>
    \E k \in DOMAIN stack : flow.arm.key \in ScanTargets(prog, stack[k].scope)

LEMMA FoundWhereScanned ==
  ASSUME NEW p, IsProgram(p), NEW s \in Scopes, NEW current \in Nat, NEW arm \in Arm,
         arm.kw = "GOTOC", arm.key \in ScanTargets(p, s)
  PROVE  ResolveJump(p, s, current, arm) # 0
<1> DEFINE n      == Len(p[s])
           ahead  == {i \in Targets(p, s, arm.key) : i > current}
           behind == {i \in Targets(p, s, arm.key) : i <= current}
<1>1. n \in Nat
  BY LenProperties DEF IsProgram
<1>2. PICK i \in 1..n : arm.key \in p[s][i].keys
  BY DEF ScanTargets
<1>3. i \in Targets(p, s, arm.key) /\ i \in Nat
  BY <1>1, <1>2 DEF Targets
<1>4. Targets(p, s, arm.key) \subseteq 1..n
  BY DEF Targets
<1>5. ahead # {} \/ behind # {}
  BY <1>3
<1>6. ahead \subseteq 1..n /\ behind \subseteq 1..n
  BY <1>4
<1>7. 1..n \subseteq Nat \ {0} /\ 1..n \subseteq 0..n
  BY <1>1
<1> HIDE DEF ahead, behind
<1>8. CASE ahead # {}
  <2>1. Min(ahead) \in ahead
    BY <1>6, <1>7, <1>8, MinInSet
  <2>2. ResolveJump(p, s, current, arm) = Min(ahead)
    BY <1>8 DEF ResolveJump, ahead
  <2> QED
    BY <1>6, <1>7, <2>1, <2>2
<1>9. CASE ahead = {}
  <2>1. Max(behind) \in behind
    BY <1>1, <1>5, <1>6, <1>7, <1>9, MaxInSet
  <2>2. ResolveJump(p, s, current, arm) = Max(behind)
    BY <1>5, <1>9 DEF ResolveJump, ahead, behind
  <2> QED
    BY <1>6, <1>7, <2>1, <2>2
<1> QED
  BY <1>8, <1>9

(* A block that decides for a GOTOC sees its target.                       *)
LEMMA JumpsReachable ==
  ASSUME Core, ExecJumps, flow'.tag = "jump", flow'.arm.kw = "GOTOC"
  PROVE  \E k \in DOMAIN stack : flow'.arm.key \in ScanTargets(prog, stack[k].scope)
<1> DEFINE arm == HereOp.arms[DecidingArm(HereOp)]
<1>1. flow' = flow \/ (flow' = Jump(arm) /\ ~Suppressed(arm))
  BY DEF ExecJumps, FailReading, Fail
<1>2. flow.tag # "jump"
  BY DEF ExecJumps, AtBlock, Running
<1>3. flow'.arm = arm /\ arm.kw = "GOTOC" /\ ~Suppressed(arm)
  BY <1>1, <1>2 DEF Jump
<1>4. PICK k \in DOMAIN jumpScopes : arm.key \in jumpScopes[k]
  BY <1>3 DEF Suppressed, JumpTargetVisible
<1>5. jumpScopes = [j \in DOMAIN stack |-> ScanTargets(prog, stack[j].scope)]
  BY DEF Core, Scoped
<1> QED
  BY <1>3, <1>4, <1>5

(* Unwinding a jump: the scope that is left does not have the target.      *)
LEMMA PropagateReachable ==
  ASSUME Core, Reachable, Propagate
  PROVE  Reachable' /\ GotocNeverAlarms'
<1>1. status = "running" /\ flow.tag = "jump" /\ Destination = 0 /\ flow' = flow /\ prog' = prog
  BY DEF Propagate, LeaveScope
<1>2. /\ stack \in Seq(Frame) /\ stack # <<>> /\ Top = stack[Len(stack)]
      /\ Top.scope \in Scopes /\ Top.index \in Nat /\ flow.arm \in Arm
  BY <1>1, AtCursor DEF Core, Scoped, Flow
<1>3. /\ Len(stack) \in Nat \ {0} /\ DOMAIN stack = 1..Len(stack)
      /\ Front(stack) \in Seq(Frame) /\ DOMAIN Front(stack) = 1..(Len(stack) - 1)
      /\ \A i \in 1..(Len(stack) - 1) : Front(stack)[i] = stack[i]
  BY <1>2, FrontProps, LenProperties
<1>4. ASSUME flow.arm.kw = "GOTOC"
      PROVE  Len(stack) # 1 /\ \E k \in DOMAIN Front(stack) :
                                 flow.arm.key \in ScanTargets(prog, Front(stack)[k].scope)
  <2>1. flow.arm.key \notin ScanTargets(prog, Top.scope)
    BY <1>1, <1>2, <1>4, FoundWhereScanned DEF Destination, Core
  <2>2. PICK k \in DOMAIN stack : flow.arm.key \in ScanTargets(prog, stack[k].scope)
    BY <1>1, <1>4 DEF Reachable
  <2>3. k # Len(stack)
    BY <1>2, <2>1, <2>2
  <2>4. k \in 1..(Len(stack) - 1)
    BY <1>3, <2>2, <2>3
  <2> QED
    BY <1>3, <2>2, <2>4
<1>5. stack' = Front(stack) /\ (Len(stack) # 1 => status' = status)
  BY DEF Propagate, LeaveScope
<1>6. Reachable'
  BY <1>1, <1>4, <1>5 DEF Reachable
<1>7. GotocNeverAlarms'
  BY <1>1, <1>4, <1>5 DEF GotocNeverAlarms
<1> QED
  BY <1>6, <1>7

LEMMA NextReachable ==
  Core /\ Reachable /\ GotocNeverAlarms /\ [Next]_vars => Reachable' /\ GotocNeverAlarms'
<1> SUFFICES ASSUME Core, Reachable, GotocNeverAlarms, [Next]_vars
             PROVE  Reachable' /\ GotocNeverAlarms'
  OBVIOUS
<1>1. CASE UNCHANGED vars
  BY <1>1 DEF vars, Reachable, GotocNeverAlarms
<1>2. CASE ExecJumps
  <2>1. prog' = prog /\ (stack' = stack \/ flow' = flow) /\ flow.tag = "continue"
    BY <1>2 DEF ExecJumps, FailReading, Fail, AtBlock, Running
  <2>2. status' = status \/ status' = "Undefined"
    BY <1>2 DEF ExecJumps, FailReading, Fail
  <2>3. status = "running"
    BY <1>2 DEF ExecJumps, AtBlock, Running
  <2> QED
    BY <1>2, <2>1, <2>2, <2>3, JumpsReachable DEF Reachable, GotocNeverAlarms
<1>3. CASE Propagate
  BY <1>3, PropagateReachable
<1>4. CASE Next /\ ~ExecJumps /\ ~Propagate
  <2>1. flow'.tag # "jump" \/ status' = "LoopLimit"
    <3>1. CASE ExecLeaf
      BY <1>4, <3>1 DEF ExecLeaf, ExecPlain, ExecStatement, FailReading, Fail, AtBlock, Running, Continue, EndFlow
    <3>2. CASE EnterBody
      BY <3>2 DEF EnterBody, EnterIf, EnterWhile, EnterLoop, EnterFor, Descend, Enter, Skip, FailReading, Fail,
                  AtBlock, Running, Continue
    <3>3. CASE EndOfBody
      BY <3>3 DEF EndOfBody, EndIf, EndWhile, EndLoop, EndRepeat, EndFor, Return, Iterate, FailReading, Fail,
                  LeaveScope, AtScopeEnd, Running, Continue
    <3>4. CASE EndProgramText \/ TakeJump \/ UnwindEnd
      BY <3>4 DEF EndProgramText, TakeJump, UnwindEnd, Fail, LeaveScope, AtScopeEnd, Running, Continue, EndFlow
    <3> QED
      BY <1>4, <3>1, <3>2, <3>3, <3>4 DEF Next
  <2>2. status' \notin {"NotFound", "NotHere"}
    BY <1>4 DEF Next, ExecLeaf, ExecPlain, ExecStatement, FailReading, Fail, EnterBody, EnterIf,
                EnterWhile, EnterLoop, EnterFor, Descend, Enter, Skip, EndOfBody, EndIf, EndWhile,
                EndLoop, EndRepeat, EndFor, Return, Iterate, EndProgramText, TakeJump, UnwindEnd,
                LeaveScope, AtBlock, AtScopeEnd, Running
  <2> QED
    BY <2>1, <2>2 DEF Reachable, GotocNeverAlarms
<1> QED
  BY <1>1, <1>2, <1>3, <1>4

LEMMA InitReachable == Init => Reachable /\ GotocNeverAlarms
BY DEF Init, Reachable, GotocNeverAlarms, Continue

(* A GOTOC never raises the alarm it is there to suppress: the test of     *)
(* interpret_goto and the search of resolve_jump agree in every nesting.   *)
THEOREM GotocIsSilent == Spec => []GotocNeverAlarms
<1>1. Core /\ Reachable /\ GotocNeverAlarms /\ [Next]_vars => (Core /\ Reachable /\ GotocNeverAlarms)'
  BY NextCore, NextReachable
<1> QED
  BY <1>1, InitCore, InitReachable, PTL DEF Spec

-----------------------------------------------------------------------------
(* The ways out of a loop.                                                 *)

(* A condition that has been read holds as before.                         *)
LEMMA HoldsAfterReading ==
  ASSUME NEW t \in Env, NEW c \in Cond
  PROVE  Holds(c, AfterReading({c.lhs.var}, t)) <=> Holds(c, t)
<1> DEFINE vs == {c.lhs.var}
           t1 == AfterReading(vs, t)
<1>1. AfterReading(vs, t1) = t1
  BY ProgramsAssumption DEF AfterReading, Env
<1>2. ValueOf(c.lhs, t1) = ValueOf(c.lhs, t)
  BY <1>1 DEF ValueOf
<1> QED
  BY <1>2 DEF Holds

(* What leaving the body of a loop through its end says.                   *)
Exit(op, end) ==
  CASE op.tag = "while"  -> ~Holds(op.cond, env')
    [] op.tag = "repeat" -> Holds(op.cond, env')
    [] op.tag = "for"    -> env'[op.var] > end
    [] op.tag = "loop"   -> FALSE
    [] OTHER             -> TRUE

LEMMA EndOfBodyExits ==
  ASSUME Core, EndOfBody, stack' # stack, Len(stack') # Len(stack), status' = "running"
  PROVE  Exit(Top.op, Top.end)
<1>1. /\ status = "running" /\ stack \in Seq(Frame) /\ stack # <<>> /\ Top = stack[Len(stack)]
      /\ Top.op \in Op /\ Top.count \in Nat
  BY AtCursor, FrameFields
     DEF EndOfBody, EndIf, EndWhile, EndLoop, EndRepeat, EndFor, AtScopeEnd, Running, Core, Scoped
<1>2. ASSUME NEW c, Iterate(c) PROVE FALSE
  BY <1>1, <1>2, ExceptSeq, FrontProps DEF Iterate
<1>3. ASSUME NEW e, Fail(e) PROVE FALSE
  BY <1>3 DEF Fail
<1>4. CASE EndIf
  BY <1>4 DEF EndIf, Exit
<1>5. CASE EndWhile
  <2>1. ~Holds(Top.op.cond, env) /\ env' = env /\ Top.op.tag = "while"
    BY <1>1, <1>2, <1>3, <1>5, LimitAssumption DEF EndWhile
  <2> QED
    BY <2>1 DEF Exit
<1>6. CASE EndLoop
  BY <1>2, <1>3, <1>6 DEF EndLoop
<1>7. CASE EndRepeat
  <2>1. /\ Holds(Top.op.cond, env) /\ env' = AfterReading({Top.op.cond.lhs.var}, env)
        /\ Top.op.tag = "repeat"
    BY <1>1, <1>2, <1>3, <1>7, LimitAssumption DEF EndRepeat
  <2>2. Holds(Top.op.cond, env')
    BY <1>1, <2>1, HoldsAfterReading, OpFields DEF Core
  <2> QED
    BY <2>1, <2>2 DEF Exit
<1>8. CASE EndFor
  <2> DEFINE v == Top.op.var
  <2>1. /\ env' = [env EXCEPT ![v] = env[v] + 1] /\ Top.op.tag = "for"
        /\ env[v] + 1 > Top.end
    BY <1>2, <1>8 DEF EndFor
  <2>2. v \in Vars /\ Len(stack) \in DOMAIN stack
    BY <1>1, <2>1, FrontProps, LenProperties DEF Core, Counting
  <2>3. env'[v] = env[v] + 1
    BY <2>1, <2>2 DEF Core, Env
  <2> QED
    BY <2>1, <2>3 DEF Exit
<1> QED
  BY <1>4, <1>5, <1>6, <1>7, <1>8 DEF EndOfBody

(* Nothing but the end of a body shortens the stack of a run that goes on  *)
(* and is not unwinding.                                                   *)
LEMMA OthersKeepDepth ==
  ASSUME Core, Next, ~EndOfBody, flow = Continue, status' = "running"
  PROVE  Len(stack') = Len(stack) \/ Len(stack') = Len(stack) + 1
<1>1. stack \in Seq(Frame) /\ stack # <<>>
  BY AtCursor
     DEF Core, Scoped, Next, ExecLeaf, ExecPlain, ExecStatement, ExecJumps, EnterBody, EnterIf,
         EnterWhile, EnterLoop, EnterFor, EndProgramText, TakeJump, Propagate, UnwindEnd,
         AtBlock, AtScopeEnd, Running
<1>2. Len(Advanced(stack)) = Len(stack)
  BY <1>1, AdvancedProps
<1>3. \A f \in Frame : Len(Append(stack, f)) = Len(stack) + 1
  BY <1>1, AppendProperties
<1>4. CASE ExecLeaf
  BY <1>2, <1>4 DEF ExecLeaf, ExecPlain, ExecStatement, ExecJumps, FailReading, Fail, Finish
<1>5. CASE EnterBody
  <2>1. \E f : stack' = stack \/ stack' = Advanced(stack) \/ stack' = Append(stack, f)
    BY <1>5 DEF EnterBody, EnterIf, EnterWhile, EnterLoop, EnterFor, Skip, Finish, Descend, Enter,
                FailReading, Fail
  <2>2. \A f : Len(Append(stack, f)) = Len(stack) + 1
    BY <1>1
  <2> QED
    BY <1>2, <2>1, <2>2
<1>6. CASE EndProgramText
  BY <1>6 DEF EndProgramText
<1>7. CASE TakeJump \/ Propagate \/ UnwindEnd
  BY <1>7 DEF TakeJump, Propagate, UnwindEnd, Continue
<1> QED
  BY <1>4, <1>5, <1>6, <1>7 DEF Next

(* A loop left through its end has met its exit condition: running out of  *)
(* iterations is an error, never a way out.                                *)
THEOREM LoopsExitOnCondition == Spec => LoopExit
<1>1. ASSUME Core, [Next]_vars
      PROVE  [ \A k \in DOMAIN stack :
                 (k = Len(stack) /\ Len(stack') = k - 1 /\ flow = Continue /\ status' = "running")
                   => Exit(stack[k].op, stack[k].end) ]_vars
  <2> SUFFICES ASSUME Next, NEW k \in DOMAIN stack, k = Len(stack), Len(stack') = k - 1,
                      flow = Continue, status' = "running"
               PROVE  Exit(stack[k].op, stack[k].end)
    BY <1>1
  <2>1. stack \in Seq(Frame) /\ stack # <<>>
    BY <1>1, EmptySeq DEF Core, Scoped
  <2>2. Len(stack) \in Nat \ {0} /\ Top = stack[k]
    BY <2>1, FrontProps DEF Top
  <2>3. EndOfBody
    BY <1>1, <2>2, OthersKeepDepth
  <2> QED
    BY <1>1, <2>2, <2>3, EndOfBodyExits
<1>2. [][ \A k \in DOMAIN stack :
            (k = Len(stack) /\ Len(stack') = k - 1 /\ flow = Continue /\ status' = "running")
              => Exit(stack[k].op, stack[k].end) ]_vars => LoopExit
  BY DEF LoopExit, Exit
<1> QED
  BY <1>1, <1>2, CoreHolds, PTL DEF Spec

-----------------------------------------------------------------------------
(* The recorded changes: what each call to the output tells a reader who   *)
(* replays the changes.                                                    *)

Hits(o, v) == {i \in DOMAIN o : o[i][1] = "change" /\ o[i][2] = v}

LEMMA ReplayedHits ==
  ASSUME NEW o
  PROVE  Replayed(o) = [v \in Vars |-> IF Hits(o, v) = {} THEN Unset ELSE o[Max(Hits(o, v))][3]]
BY DEF Replayed, Hits

LEMMA LastHit ==
  ASSUME NEW o \in Seq(OutputCall), NEW v, Hits(o, v) # {}
  PROVE  Max(Hits(o, v)) \in 1..Len(o) /\ Max(Hits(o, v)) \in Hits(o, v)
<1>1. Len(o) \in Nat /\ DOMAIN o = 1..Len(o)
  BY LenProperties
<1>2. Hits(o, v) \subseteq 0..Len(o)
  BY <1>1 DEF Hits
<1> QED
  BY <1>1, <1>2, MaxInSet DEF Hits

LEMMA OneMore ==
  ASSUME NEW o \in Seq(OutputCall), NEW c \in OutputCall
  PROVE  /\ Len(o) \in Nat /\ DOMAIN o = 1..Len(o)
         /\ DOMAIN (o \o <<c>>) = 1..(Len(o) + 1)
         /\ \A i \in 1..Len(o) : (o \o <<c>>)[i] = o[i]
         /\ (o \o <<c>>)[Len(o) + 1] = c
         /\ o \o <<c>> \in Seq(OutputCall)
<1>1. <<c>> \in Seq(OutputCall) /\ Len(<<c>>) = 1 /\ <<c>>[1] = c
  OBVIOUS
<1>2. Len(o) \in Nat /\ DOMAIN o = 1..Len(o)
  BY LenProperties
<1>3. /\ o \o <<c>> \in Seq(OutputCall) /\ Len(o \o <<c>>) = Len(o) + 1
      /\ \A i \in 1..(Len(o) + 1) : (o \o <<c>>)[i] = IF i <= Len(o) THEN o[i] ELSE <<c>>[i - Len(o)]
  BY <1>1, ConcatProperties
<1>4. /\ \A i \in 1..Len(o) : i \in 1..(Len(o) + 1) /\ i <= Len(o)
      /\ Len(o) + 1 \in 1..(Len(o) + 1) /\ ~(Len(o) + 1 <= Len(o)) /\ (Len(o) + 1) - Len(o) = 1
  BY <1>2
<1>5. DOMAIN (o \o <<c>>) = 1..(Len(o) + 1)
  BY <1>3, LenProperties
<1> QED
  BY <1>1, <1>2, <1>3, <1>4, <1>5

(* What has no change of v in its last call was last changed before it.    *)
LEMMA HitsBefore ==
  ASSUME NEW o \in Seq(OutputCall), NEW c \in OutputCall, NEW v, ~(c[1] = "change" /\ c[2] = v)
  PROVE  /\ Hits(o \o <<c>>, v) = Hits(o, v)
         /\ Hits(o, v) # {} => (o \o <<c>>)[Max(Hits(o, v))] = o[Max(Hits(o, v))]
<1>1. \A i : i \in 1..(Len(o) + 1) <=> i \in 1..Len(o) \/ i = Len(o) + 1
  BY OneMore
<1>2. Hits(o \o <<c>>, v) = Hits(o, v)
  BY <1>1, OneMore DEF Hits
<1> QED
  BY <1>2, LastHit, OneMore

LEMMA HitsLast ==
  ASSUME NEW o \in Seq(OutputCall), NEW c \in OutputCall, NEW v, c[1] = "change" /\ c[2] = v
  PROVE  Hits(o \o <<c>>, v) # {} /\ (o \o <<c>>)[Max(Hits(o \o <<c>>, v))] = c
<1> DEFINE n == Len(o) + 1
           H == Hits(o \o <<c>>, v)
<1>1. n \in Nat /\ n \in H /\ H \subseteq 1..n /\ (o \o <<c>>)[n] = c
  BY OneMore DEF Hits
<1> HIDE DEF n, H
<1>2. H \subseteq 0..n /\ H # {}
  BY <1>1
<1>3. Max(H) \in H /\ Max(H) >= n
  BY <1>1, <1>2, MaxInSet
<1>4. Max(H) = n
  <2>1. Max(H) \in 1..n /\ Max(H) >= n
    BY <1>1, <1>3
  <2>2. \A m \in 1..n : m >= n => m = n
    BY <1>1
  <2> QED
    BY <2>1, <2>2
<1> QED
  BY <1>1, <1>2, <1>4 DEF H

(* The calls take a table that replaying rebuilt to the table u.           *)
Records(calls, t, u) ==
  /\ calls \in Seq(OutputCall)
  /\ \A o \in Seq(OutputCall) : Replayed(o) = t => Replayed(o \o calls) = u

LEMMA RecordsNothing ==
  ASSUME NEW t
  PROVE  Records(<<>>, t, t)
BY EmptySeq, ConcatEmptySeq DEF Records

LEMMA RecordsBoth ==
  ASSUME NEW a, NEW b, NEW t, NEW u, NEW w, Records(a, t, u), Records(b, u, w)
  PROVE  Records(a \o b, t, w)
<1>1. a \in Seq(OutputCall) /\ b \in Seq(OutputCall) /\ a \o b \in Seq(OutputCall)
  BY ConcatProperties DEF Records
<1>2. ASSUME NEW o \in Seq(OutputCall), Replayed(o) = t
      PROVE  Replayed(o \o (a \o b)) = w
  <2>1. o \o a \in Seq(OutputCall) /\ Replayed(o \o a) = u
    BY <1>1, <1>2, ConcatProperties DEF Records
  <2>2. Replayed((o \o a) \o b) = w
    BY <2>1 DEF Records
  <2>3. (o \o a) \o b = o \o (a \o b)
    BY <1>1, ConcatAssociative
  <2> QED
    BY <2>2, <2>3
<1> QED
  BY <1>1, <1>2 DEF Records

LEMMA RecordsSilent ==
  ASSUME NEW c \in OutputCall, c[1] = "change" => c[2] \notin Vars, NEW t
  PROVE  Records(<<c>>, t, t)
<1>1. ASSUME NEW o \in Seq(OutputCall)
      PROVE  Replayed(o \o <<c>>) = Replayed(o)
  <2>1. \A v \in Vars : /\ Hits(o \o <<c>>, v) = Hits(o, v)
                        /\ Hits(o, v) # {} => (o \o <<c>>)[Max(Hits(o, v))] = o[Max(Hits(o, v))]
    BY HitsBefore
  <2> QED
    BY <2>1, ReplayedHits
<1> QED
  BY <1>1 DEF Records

LEMMA RecordsChange ==
  ASSUME NEW v \in Vars, NEW x \in Int, NEW t \in Env
  PROVE  Records(<<Change(v, x)>>, t, [t EXCEPT ![v] = x])
<1> DEFINE c == Change(v, x)
<1>1. c \in OutputCall /\ c[1] = "change" /\ c[2] = v /\ c[3] = x
  BY ValueCalls DEF Change
<1> HIDE DEF c
<1>2. ASSUME NEW o \in Seq(OutputCall), Replayed(o) = t
      PROVE  Replayed(o \o <<c>>) = [t EXCEPT ![v] = x]
  <2>1. Hits(o \o <<c>>, v) # {} /\ (o \o <<c>>)[Max(Hits(o \o <<c>>, v))][3] = x
    BY <1>1, HitsLast, ZenonT(30)
  <2>2. \A w \in Vars \ {v} :
          /\ Hits(o \o <<c>>, w) = Hits(o, w)
          /\ Hits(o, w) # {} => (o \o <<c>>)[Max(Hits(o, w))] = o[Max(Hits(o, w))]
    BY <1>1, HitsBefore
  <2>3. t = [w \in Vars |-> IF Hits(o, w) = {} THEN Unset ELSE o[Max(Hits(o, w))][3]]
    BY <1>2, ReplayedHits
  <2>4. Replayed(o \o <<c>>)
          = [w \in Vars |-> IF Hits(o \o <<c>>, w) = {} THEN Unset
                            ELSE (o \o <<c>>)[Max(Hits(o \o <<c>>, w))][3]]
    BY ReplayedHits
  <2> DEFINE r == Replayed(o \o <<c>>)
  <2>5. r = [w \in Vars |-> r[w]]
    BY <2>4
  <2>6. r[v] = x
    BY <2>1, <2>4
  <2>7. \A w \in Vars \ {v} : r[w] = t[w]
    BY <2>2, <2>3, <2>4
  <2> HIDE DEF r
  <2>8. r = [t EXCEPT ![v] = x]
    BY <2>5, <2>6, <2>7 DEF Env
  <2> QED
    BY <2>8 DEF r
<1>3. <<c>> \in Seq(OutputCall)
  BY <1>1
<1>4. Records(<<c>>, t, [t EXCEPT ![v] = x])
  BY <1>2, <1>3 DEF Records
<1> QED
  BY <1>4 DEF c

(* Rows, comments, cells and changes of axis words tell nothing.           *)
LEMMA RecordsLine ==
  ASSUME NEW line \in Scopes \X Nat, NEW t
  PROVE  Records(<<StartRow(line)>>, t, t) /\ Records(CommentAt(line), t, t)
<1>1. /\ StartRow(line) \in OutputCall /\ StartRow(line)[1] # "change"
      /\ Comment(line) \in OutputCall /\ Comment(line)[1] # "change"
  BY DEF StartRow, Comment, OutputCall
<1> QED
  BY <1>1, RecordsSilent, RecordsNothing DEF CommentAt

LEMMA RecordsOther ==
  ASSUME NEW name \in Axes, NEW x \in Int, NEW t
  PROVE  Records(<<Cell(name, x)>>, t, t) /\ Records(<<Change(name, x)>>, t, t)
<1>1. /\ Cell(name, x) \in OutputCall /\ Cell(name, x)[1] # "change"
      /\ Change(name, x) \in OutputCall /\ Change(name, x)[2] \notin Vars
  BY ValueCalls, ProgramsAssumption DEF Cell, Change
<1> QED
  BY <1>1, RecordsSilent

(* The block at line, around what it records itself.                       *)
LEMMA RecordsRow ==
  ASSUME NEW line \in Scopes \X Nat, NEW calls, NEW t, NEW u, Records(calls, t, u)
  PROVE  /\ Records(<<StartRow(line)>> \o calls, t, u)
         /\ Records(<<StartRow(line)>> \o calls \o CommentAt(line), t, u)
         /\ Records(calls \o CommentAt(line), t, u)
         /\ Records(<<StartRow(line)>> \o CommentAt(line), t, t)
BY RecordsLine, RecordsBoth

-----------------------------------------------------------------------------
(* Every step records what it does to the symbol table.                    *)

Told == \E calls : Records(calls, env, env') /\ out' = Emitted(calls)

LEMMA ToldKeeps ==
  ASSUME Core, Told, ChangesRebuildEnv
  PROVE  ChangesRebuildEnv'
<1>1. PICK calls : Records(calls, env, env') /\ out' = Emitted(calls)
  BY DEF Told
<1>2. CASE Len(out) < LogCap
  BY <1>1, <1>2 DEF Core, ChangesRebuildEnv, Records, Emitted
<1>3. CASE ~(Len(out) < LogCap)
  BY <1>1, <1>3 DEF ChangesRebuildEnv, Emitted
<1> QED
  BY <1>2, <1>3

LEMMA ToldNothing ==
  ASSUME Core, env' = env, out' = out
  PROVE  Told
<1>1. out' = Emitted(<<>>)
  BY ConcatEmptySeq DEF Core, Emitted
<1> QED
  BY <1>1, RecordsNothing DEF Told

LEMMA ToldHere ==
  ASSUME Core, AtBlock, NEW calls, Records(calls, env, env'),
         \/ out' = Emitted(<<StartRow(Here)>> \o calls)
         \/ out' = Emitted(<<StartRow(Here)>> \o calls \o CommentAt(Here))
  PROVE  Told
<1>1. Here \in Scopes \X Nat
  BY AtCursor DEF AtBlock, Running
<1> QED
  BY <1>1, RecordsRow DEF Told

LEMMA ToldQuietly ==
  ASSUME Core, AtBlock, env' = env,
         \/ out' = Emitted(<<StartRow(Here)>> \o <<>>)
         \/ out' = Emitted(<<StartRow(Here)>>)
         \/ out' = Emitted(<<StartRow(Here)>> \o <<>> \o CommentAt(Here))
         \/ out' = Emitted(<<StartRow(Here)>> \o CommentAt(Here))
  PROVE  Told
<1>1. Here \in Scopes \X Nat
  BY AtCursor DEF AtBlock, Running
<1> QED
  BY <1>1, RecordsNothing, RecordsLine, RecordsRow DEF Told

(* Without undefined variables reading leaves the symbol table alone.      *)
LEMMA ReadingSame ==
  ASSUME NEW t \in Env, NEW vs, \A v \in vs \cap Vars : t[v] # Unset
  PROVE  AfterReading(vs, t) = t
BY DEF AfterReading, Env

LEMMA ReadingOne ==
  ASSUME ~AllowUndefined, NEW t \in Env, NEW e, CanRead(e, t)
  PROVE  AfterReading({e.var}, t) = t
<1>1. \A v \in {e.var} \cap Vars : t[v] # Unset
  BY ProgramsAssumption DEF CanRead
<1> QED
  BY <1>1, ReadingSame

LEMMA ToldStatement ==
  ASSUME Core, ~AllowUndefined, ExecStatement
  PROVE  Told
<1>1. AtBlock /\ HereOp \in Op /\ env \in Env
  BY AtBlockFacts DEF ExecStatement, Core
<1>2. CASE ~CanRead(HereOp.expr, env)
  <2>1. env' = env /\ out' = Emitted(<<StartRow(Here)>> \o <<>>)
    BY <1>2 DEF ExecStatement, FailReading
  <2> QED
    BY <1>1, <2>1, ToldQuietly
<1>3. CASE CanRead(HereOp.expr, env)
  <2> DEFINE x == ValueOf(HereOp.expr, env)
             calls == AssignmentCalls(HereOp, env)
  <2>1. /\ env' = Assigned(HereOp, env)
        /\ out' = Emitted(<<StartRow(Here)>> \o calls \o CommentAt(Here))
    BY <1>1, <1>3, ReadingOne DEF ExecStatement
  <2>2. x \in Int /\ HereOp.var \in Vars \cup Axes \cup {NoVar}
    BY <1>1, ValueType, OpFields
  <2>3. CASE HereOp.var \in Vars
    <3>1. calls = <<Change(HereOp.var, x)>> /\ env' = [env EXCEPT ![HereOp.var] = x]
      BY <2>1, <2>3, ProgramsAssumption DEF AssignmentCalls, Assigned
    <3> HIDE DEF x, calls
    <3>2. Records(calls, env, env')
      BY <1>1, <2>2, <2>3, <3>1, RecordsChange
    <3> QED
      BY <1>1, <2>1, <3>2, ToldHere
  <2>4. CASE HereOp.var \in Axes
    <3>1. HereOp.var \notin Vars
      BY <2>4, ProgramsAssumption
    <3>2. calls = <<Cell(HereOp.var, x)>> /\ env' = env
      BY <2>1, <2>4, <3>1 DEF AssignmentCalls, Assigned
    <3> QED
      BY <1>1, <2>1, <2>2, <2>4, <3>2, RecordsOther, ToldHere
  <2>5. CASE HereOp.var = NoVar
    <3>1. HereOp.var \notin Vars /\ HereOp.var \notin Axes
      BY <2>5, ProgramsAssumption
    <3>2. calls = <<>> /\ env' = env
      BY <2>1, <3>1 DEF AssignmentCalls, Assigned
    <3> QED
      BY <1>1, <2>1, <3>2, ToldQuietly
  <2> QED
    BY <2>2, <2>3, <2>4, <2>5
<1> QED
  BY <1>2, <1>3

LEMMA ToldJumps ==
  ASSUME Core, ~AllowUndefined, ExecJumps
  PROVE  Told
<1>1. AtBlock /\ env \in Env
  BY DEF ExecJumps, Core
<1> DEFINE lhs == {HereOp.arms[i].cond.lhs : i \in Evaluated(HereOp)}
<1>2. CASE \A e \in lhs : CanRead(e, env)
  <2>1. /\ env' = AfterReading({e.var : e \in lhs}, env)
        /\ out' = Emitted(<<StartRow(Here)>> \o CommentAt(Here))
    BY <1>2 DEF ExecJumps
  <2> HIDE DEF lhs
  <2>2. \A v \in {e.var : e \in lhs} \cap Vars : env[v] # Unset
    BY <1>2, ProgramsAssumption DEF CanRead
  <2> QED
    BY <1>1, <2>1, <2>2, ReadingSame, ToldQuietly
<1>3. CASE ~(\A e \in lhs : CanRead(e, env))
  <2>1. FailReading(<<>>) /\ env' = env
    BY <1>3 DEF ExecJumps
  <2> QED
    BY <1>1, <2>1, ToldQuietly DEF FailReading
<1> QED
  BY <1>2, <1>3

LEMMA ToldFor ==
  ASSUME Core, ~AllowUndefined, EnterFor
  PROVE  Told
<1>1. AtBlock /\ HereOp \in Op /\ env \in Env /\ HereOp.var \in Vars \cup Axes
  BY AtBlockFacts DEF EnterFor, Core
<1>2. CASE ~CanRead(HereOp.expr, env)
  <2>1. FailReading(<<>>) /\ env' = env
    BY <1>2 DEF EnterFor
  <2> QED
    BY <1>1, <2>1, ToldQuietly DEF FailReading
<1>3. CASE CanRead(HereOp.expr, env)
  <2> DEFINE x == ValueOf(HereOp.expr, env)
             calls == <<Change(HereOp.var, x)>>
             env2 == Assigned(HereOp, env)
  <2>1. env2 \in Env /\ x \in Int
    BY <1>1, Assigning, ValueType, OpFields
  <2>2. /\ env' = env2
        /\ \/ out' = Emitted(<<StartRow(Here)>> \o calls)
           \/ out' = Emitted(<<StartRow(Here)>> \o calls \o CommentAt(Here))
    <3>1. AfterReading({HereOp.expr.var}, env) = env
      BY <1>1, <1>3, ReadingOne
    <3>2. IF ~CanRead(HereOp.to, env2)
          THEN FailReading(calls) /\ env' = env2
          ELSE /\ env' = AfterReading({HereOp.to.var}, env2)
               /\ \/ \E f : Descend(f, calls)
                  \/ Skip(calls)
      BY <1>3, <3>1 DEF EnterFor
    <3>3. CanRead(HereOp.to, env2) => AfterReading({HereOp.to.var}, env2) = env2
      BY <2>1, ReadingOne
    <3> HIDE DEF env2, calls
    <3> QED
      BY <3>2, <3>3 DEF FailReading, Descend, Skip, Finish
  <2>3. Records(calls, env, env2)
    <3>1. CASE HereOp.var \in Vars
      BY <1>1, <2>1, <3>1, RecordsChange DEF Assigned
    <3>2. CASE HereOp.var \notin Vars
      BY <1>1, <2>1, <3>2, RecordsOther DEF Assigned
    <3> QED
      BY <3>1, <3>2
  <2> HIDE DEF calls, env2
  <2> QED
    BY <1>1, <2>2, <2>3, ToldHere
<1> QED
  BY <1>2, <1>3

LEMMA ToldEnter ==
  ASSUME Core, ~AllowUndefined, EnterIf \/ EnterWhile \/ EnterLoop
  PROVE  Told
<1>1. AtBlock /\ env \in Env
  BY DEF EnterIf, EnterWhile, EnterLoop, Core
<1>2. env' = env
  BY <1>1, ReadingOne DEF EnterIf, EnterWhile, EnterLoop
<1>3. \/ out' = Emitted(<<StartRow(Here)>> \o <<>>)
      \/ out' = Emitted(<<StartRow(Here)>>)
      \/ out' = Emitted(<<StartRow(Here)>> \o <<>> \o CommentAt(Here))
  <2>1. FailReading(<<>>) \/ Skip(<<>>) \/ (\E f : Descend(f, <<>>)) \/ out' = Emitted(<<StartRow(Here)>>)
    BY DEF EnterIf, EnterWhile, EnterLoop
  <2> QED
    BY <2>1 DEF FailReading, Skip, Finish, Descend
<1> QED
  BY <1>1, <1>2, <1>3, ToldQuietly

(* A return from a body processes the comment behind its statement.        *)
LEMMA ToldReturn ==
  ASSUME Core, status = "running", Top.op.tag # "none", NEW calls, Records(calls, env, env'), Return(calls)
  PROVE  Told
<1>1. Caller \in Scopes \X Nat
  BY CallerFacts
<1> QED
  BY <1>1, RecordsRow DEF Return, Told

LEMMA ToldEndOfBody ==
  ASSUME Core, ~AllowUndefined, EndIf \/ EndWhile \/ EndLoop \/ EndRepeat
  PROVE  Told
<1>1. status = "running" /\ Top.op.tag # "none" /\ env \in Env
  BY DEF EndIf, EndWhile, EndLoop, EndRepeat, AtScopeEnd, Running, Core
<1>2. env' = env
  <2>1. CASE EndIf \/ EndWhile \/ EndLoop
    BY <2>1 DEF EndIf, EndWhile, EndLoop
  <2>2. CASE EndRepeat
    <3>1. Top.count + 1 \in Nat
      BY <1>1, AtCursor, FrameFields
    <3>2. \/ env' = env
          \/ CanRead(Top.op.cond.lhs, env) /\ env' = AfterReading({Top.op.cond.lhs.var}, env)
      BY <2>2, <3>1, LimitAssumption DEF EndRepeat
    <3> QED
      BY <1>1, <3>2, ReadingOne
  <2> QED
    BY <2>1, <2>2
<1>3. Return(<<>>) \/ out' = out
  BY DEF EndIf, EndWhile, EndLoop, EndRepeat
<1> QED
  BY <1>1, <1>2, <1>3, RecordsNothing, ToldReturn, ToldNothing

LEMMA ToldEndFor ==
  ASSUME Core, EndFor
  PROVE  Told
<1> DEFINE v == Top.op.var
           x == env[v] + 1
<1>1. status = "running" /\ Top.op.tag = "for" /\ Top.op.tag # "none" /\ Top = stack[Len(stack)]
  BY AtCursor DEF EndFor, AtScopeEnd, Running
<1>2. v \in Vars /\ x \in Int /\ env \in Env
  <2>1. Len(stack) \in DOMAIN stack
    BY <1>1, AtCursor, LenProperties, EmptySeq DEF Core, Scoped
  <2> QED
    BY <1>1, <2>1 DEF Core, Counting
<1>3. /\ env' = [env EXCEPT ![v] = x]
      /\ Return(<<Change(v, x)>>) \/ out' = Emitted(<<Change(v, x)>>)
  BY DEF EndFor
<1> HIDE DEF v, x
<1>4. Records(<<Change(v, x)>>, env, env')
  BY <1>2, <1>3, RecordsChange
<1> QED
  BY <1>1, <1>3, <1>4, ToldReturn DEF Told

LEMMA CallerAbove ==
  ASSUME Core, status = "running", Len(stack) # 1
  PROVE  Caller \in Scopes \X Nat
<1>1. stack # <<>> /\ stack \in Seq(Frame)
  BY AtCursor DEF Core, Scoped
<1>2. Len(stack) \in Nat \ {0}
  BY <1>1, EmptySeq
<1>3. \A n \in Nat \ {0} : n # 1 => n - 1 \in 1..n
  OBVIOUS
<1>4. stack[Len(stack) - 1] \in Frame
  BY <1>1, <1>2, <1>3, ElementOfSeq
<1> QED
  BY <1>4, FrameFields DEF Caller

LEMMA ToldUnwinding ==
  ASSUME Core, Propagate \/ UnwindEnd
  PROVE  Told
<1>1. status = "running" /\ env' = env
  BY DEF Propagate, UnwindEnd, LeaveScope
<1>2. out' = out \/ (Len(stack) # 1 /\ out' = Emitted(CommentAt(Caller)))
  BY DEF Propagate, UnwindEnd, LeaveScope
<1>3. CASE out' = out
  BY <1>1, <1>3, ToldNothing
<1>4. CASE Len(stack) # 1 /\ out' = Emitted(CommentAt(Caller))
  <2>1. Caller \in Scopes \X Nat
    BY <1>1, <1>4, CallerAbove
  <2> QED
    BY <1>1, <1>4, <2>1, RecordsLine DEF Told
<1> QED
  BY <1>2, <1>3, <1>4

(* The changes recorded with the rows rebuild the symbol table at every    *)
(* moment (record_variable_change in interpret_statement and in the FOR    *)
(* increment), unless undefined variables may be read.                     *)
THEOREM ChangesAreEnough == ~AllowUndefined => (Spec => []ChangesRebuildEnv)
<1> SUFFICES ASSUME ~AllowUndefined PROVE Spec => []ChangesRebuildEnv
  OBVIOUS
<1>1. Init => ChangesRebuildEnv
  <2>1. \A v : Hits(<<>>, v) = {}
    BY DEF Hits
  <2> QED
    BY <2>1, ReplayedHits DEF Init, ChangesRebuildEnv
<1>2. Core /\ ChangesRebuildEnv /\ [Next]_vars => ChangesRebuildEnv'
  <2> SUFFICES ASSUME Core, ChangesRebuildEnv, [Next]_vars PROVE ChangesRebuildEnv'
    OBVIOUS
  <2>1. CASE UNCHANGED vars
    BY <2>1, ToldNothing, ToldKeeps DEF vars
  <2>2. CASE ExecPlain
    BY <2>2, ToldQuietly, ToldKeeps DEF ExecPlain, Finish
  <2>3. CASE EndProgramText \/ TakeJump
    BY <2>3, ToldNothing, ToldKeeps DEF EndProgramText, TakeJump
  <2>4. CASE ExecStatement \/ ExecJumps
    BY <2>4, ToldStatement, ToldJumps, ToldKeeps
  <2>5. CASE EnterBody
    BY <2>5, ToldFor, ToldEnter, ToldKeeps DEF EnterBody
  <2>6. CASE EndOfBody
    BY <2>6, ToldEndOfBody, ToldEndFor, ToldKeeps DEF EndOfBody
  <2>7. CASE Propagate \/ UnwindEnd
    BY <2>7, ToldUnwinding, ToldKeeps
  <2> QED
    BY <2>1, <2>2, <2>3, <2>4, <2>5, <2>6, <2>7 DEF Next, ExecLeaf
<1> QED
  BY <1>1, <1>2, CoreHolds, PTL DEF Spec

-----------------------------------------------------------------------------
(* The graph reads programs as the walker does.                            *)

LEMMA TextPrograms ==
  /\ \A p, pos : Text!BlockAt(p, pos) = BlockAt(p, pos)
  /\ \A op : Text!Bodies(op) = Bodies(op)
  /\ \A p, s : Text!Owner(p, s) = Owner(p, s)
  /\ Text!Loops = Loops
BY DEF Text!BlockAt, BlockAt, Text!Bodies, Bodies, Text!Loops, Loops, Text!Owner, Owner,
       Text!Positions, Positions

LEMMA TextIsProgram ==
  ASSUME NEW p, IsProgram(p)
  PROVE  Text!IsProgram(p)
BY DEF Text!IsProgram, IsProgram, Text!Block, Block, Text!Op, Op, Text!Arm, Arm, Text!Cond, Cond,
       Text!Expr, Expr, Text!Keyword, Keyword, Text!Tags, Tags, Text!Leaf, Leaf, Text!Loops, Loops,
       Text!WellNested, WellNested, Text!HeadsAssign, HeadsAssign, Text!BranchesExist, BranchesExist,
       Text!Positions, Positions, Text!Bodies, Bodies, Text!BlockAt, BlockAt

LEMMA TextResolves ==
  ASSUME NEW p, NEW s, NEW current, NEW arm
  PROVE  Text!ResolveJump(p, s, current, arm) = ResolveJump(p, s, current, arm)
BY DEF Text!ResolveJump, ResolveJump, Text!Targets, Targets, Text!Min, Min, Text!Max, Max

-----------------------------------------------------------------------------
(* Where the graph and the stack meet.                                     *)

(* A body belongs to one block.                                            *)
LEMMA OwnerUnique ==
  ASSUME NEW p, IsProgram(p), NEW pos \in Positions(p), NEW s \in Bodies(BlockAt(p, pos).op)
  PROVE  Owner(p, s) = pos /\ s # Root
<1>1. \A q \in Positions(p) : s \in Bodies(BlockAt(p, q).op) => q = pos
  BY DEF IsProgram, WellNested
<1>2. s # Root
  BY DEF IsProgram, WellNested
<1> QED
  BY <1>1, <1>2 DEF Owner

(* The scope around the top one stands on the block that owns it.          *)
LEMMA CallerOwns ==
  ASSUME Core, status = "running", Len(stack) # 1
  PROVE  /\ Owner(prog, Top.scope) = Caller /\ Top.scope # Root
         /\ BlockAt(prog, Caller).op = Top.op
         /\ Caller \in Positions(prog) /\ Top.scope \in Bodies(Top.op)
<1> DEFINE n == Len(stack)
           f == stack[n - 1]
<1>1. stack \in Seq(Frame) /\ stack # <<>> /\ Top = stack[n]
  BY AtCursor DEF Core, Scoped
<1>2. n \in Nat \ {0} /\ n # 1
  BY <1>1, FrontProps
<1>3. n \in 2..n /\ n - 1 \in 1..n
  <2>1. \A m \in Nat \ {0} : m # 1 => m \in 2..m /\ m - 1 \in 1..m
    OBVIOUS
  <2> QED
    BY <1>2, <2>1
<1>4. /\ f.index <= Len(prog[f.scope])
      /\ stack[n].op = prog[f.scope][f.index].op
      /\ stack[n].scope \in Bodies(stack[n].op)
  BY <1>1, <1>3 DEF Core, Scoped, NestedIn
<1>5. f \in Frame
  BY <1>1, <1>3, ElementOfSeq
<1>6. f.scope \in Scopes /\ f.index \in Nat \ {0} /\ Len(prog[f.scope]) \in Nat
  BY <1>5, FrameFields, LenProperties DEF Core, IsProgram
<1>7. f.index \in 1..Len(prog[f.scope])
  BY <1>4, <1>6
<1>8. Caller = <<f.scope, f.index>> /\ Caller \in Positions(prog)
  BY <1>6, <1>7 DEF Caller, Positions
<1>9. BlockAt(prog, Caller).op = Top.op
  BY <1>1, <1>4, <1>8 DEF BlockAt
<1> QED
  BY <1>1, <1>4, <1>8, <1>9, OwnerUnique DEF Core

(* The bottom scope is the program.                                        *)
LEMMA BottomIsRoot ==
  ASSUME Core, status = "running", Len(stack) = 1
  PROVE  Top.scope = Root /\ Top.op = Nop /\ Front(stack) = <<>>
<1>1. stack \in Seq(Frame) /\ stack # <<>> /\ Top = stack[1]
  BY AtCursor DEF Core, Scoped
<1>2. Front(stack) = <<>>
  BY <1>1, FrontProps, EmptySeq
<1> QED
  BY <1>1, <1>2 DEF Core, Scoped, NestedIn

(* The place after each change of the stack.                               *)
LEMMA AdvancedPlace ==
  ASSUME NEW st \in Seq(Frame), st # <<>>
  PROVE  LET f == st[Len(st)]
             g == Last(Advanced(st))
         IN  /\ Last(st) = f /\ Advanced(st) # <<>>
             /\ g.scope = f.scope /\ g.index = f.index + 1
<1> DEFINE f == st[Len(st)]
           g == [f EXCEPT !.index = f.index + 1]
<1>1. f \in Frame /\ Last(st) = f /\ Len(st) \in Nat \ {0}
  BY FrontProps
<1>2. f.index + 1 \in Nat \ {0}
  BY <1>1, FrameFields
<1>3. g.scope = f.scope /\ g.index = f.index + 1
  BY <1>1, <1>2, FrameIndex
<1>4. /\ Advanced(st) \in Seq(Frame) /\ Len(Advanced(st)) = Len(st)
      /\ Advanced(st)[Len(st)] = g
  BY AdvancedProps
<1> HIDE DEF g
<1>5. Advanced(st) # <<>> /\ Last(Advanced(st)) = g
  BY <1>1, <1>4, FrontProps, EmptySeq
<1> QED
  BY <1>1, <1>3, <1>5

LEMMA ReplacedPlace ==
  ASSUME NEW st \in Seq(Frame), st # <<>>, NEW f \in Frame
  PROVE  [st EXCEPT ![Len(st)] = f] # <<>> /\ Last([st EXCEPT ![Len(st)] = f]) = f
<1> DEFINE st1 == [st EXCEPT ![Len(st)] = f]
<1>1. Len(st) \in Nat \ {0}
  BY FrontProps
<1>2. st1 \in Seq(Frame) /\ Len(st1) = Len(st) /\ st1[Len(st)] = f
  BY <1>1, ExceptSeq, LenProperties
<1> HIDE DEF st1
<1>3. st1 # <<>>
  BY <1>1, <1>2, EmptySeq
<1>4. Last(st1) = f
  BY <1>2, <1>3, FrontProps
<1> QED
  BY <1>3, <1>4 DEF st1

LEMMA AppendedPlace ==
  ASSUME NEW st \in Seq(Frame), NEW f \in Frame
  PROVE  Append(st, f) # <<>> /\ Last(Append(st, f)) = f
<1>1. Append(st, f) \in Seq(Frame) /\ Len(Append(st, f)) = Len(st) + 1 /\ Len(st) \in Nat
  BY AppendProperties, LenProperties
<1>2. Append(st, f)[Len(st) + 1] = f
  BY AppendProperties
<1>3. Append(st, f) # <<>>
  BY <1>1, EmptySeq
<1> QED
  BY <1>1, <1>2, <1>3, FrontProps

LEMMA FrontPlace ==
  ASSUME Core, status = "running", Len(stack) # 1
  PROVE  /\ Front(stack) \in Seq(Frame) /\ Front(stack) # <<>>
         /\ <<Last(Front(stack)).scope, Last(Front(stack)).index>> = Caller
         /\ Front(stack)[Len(Front(stack))] = stack[Len(stack) - 1]
<1>1. /\ stack \in Seq(Frame) /\ stack # <<>>
  BY DEF Core, Scoped
<1>2. /\ Front(stack) \in Seq(Frame) /\ Len(stack) \in Nat \ {0} /\ Len(Front(stack)) = Len(stack) - 1
      /\ \A i \in 1..(Len(stack) - 1) : Front(stack)[i] = stack[i]
  BY <1>1, FrontProps
<1>3. Front(stack) # <<>>
  BY <1>2, EmptySeq
<1>4. Len(stack) - 1 \in 1..(Len(stack) - 1)
  BY <1>2
<1>5. Last(Front(stack)) = stack[Len(stack) - 1] /\ Front(stack)[Len(Front(stack))] = stack[Len(stack) - 1]
  BY <1>2, <1>3, <1>4, FrontProps
<1> QED
  BY <1>2, <1>3, <1>5 DEF Caller

-----------------------------------------------------------------------------
(* The moves of the walker as edges of the graph.                          *)

LEMMA TextPassOn ==
  ASSUME Core, AtBlock, HereOp.tag \notin {"loop", "repeat"}, HereOp.tag = "stmt" => ~HereOp.ends,
         stack' = Advanced(stack), UNCHANGED <<prog, flow, status>>
  PROVE  Text!PassOn
<1>1. /\ status = "running" /\ flow.tag = "continue" /\ stack # <<>> /\ stack \in Seq(Frame)
      /\ Top = stack[Len(stack)] /\ Top.index <= Len(prog[Top.scope])
      /\ Top.index \in Nat /\ Len(prog[Top.scope]) \in Nat
  BY AtCursor, LenProperties DEF AtBlock, Running, Core, Scoped, IsProgram
<1>2. stack' # <<>> /\ Here' = <<Top.scope, Top.index + 1>>
  BY <1>1, AdvancedPlace DEF Here, Top
<1>3. Here = <<Top.scope, Top.index>>
  BY DEF Here
<1> QED
  BY <1>1, <1>2, <1>3, TextPrograms
     DEF Text!PassOn, Text!Executing, Text!Goto, Text!PastEnd, Text!Scope, Text!After, Text!Op_, HereOp

LEMMA TextGoInside ==
  ASSUME Core, AtBlock, NEW s \in Bodies(HereOp), NEW c \in Nat, NEW e \in Int, NEW calls,
         Descend(NewFrame(s, HereOp, c, e), calls)
  PROVE  Text!GoInside
<1> DEFINE f == NewFrame(s, HereOp, c, e)
<1>1. /\ status = "running" /\ flow.tag = "continue" /\ stack # <<>> /\ stack \in Seq(Frame)
      /\ Top.index <= Len(prog[Top.scope])
      /\ Top.index \in Nat /\ Len(prog[Top.scope]) \in Nat
  BY AtCursor, LenProperties DEF AtBlock, Running, Core, Scoped, IsProgram
<1>2. f \in Frame /\ f.scope = s /\ f.index = 1
  BY AtBlockFacts, NewFrameType DEF NewFrame
<1>3. stack' = Append(stack, f) /\ UNCHANGED <<prog, flow, status>>
  BY DEF Descend, Enter
<1> HIDE DEF f
<1>4. stack' # <<>> /\ Here' = <<s, 1>>
  BY <1>1, <1>2, <1>3, AppendedPlace DEF Here, Top
<1>5. Here = <<Top.scope, Top.index>>
  BY DEF Here
<1> QED
  BY <1>1, <1>3, <1>4, <1>5, TextPrograms
     DEF Text!GoInside, Text!Executing, Text!Goto, Text!PastEnd, Text!Scope, Text!Op_, HereOp

LEMMA TextAbort ==
  ASSUME status = "running", NEW e \in Endings, Fail(e)
  PROVE  Text!Abort
<1>1. e # "running"
  BY DEF Endings
<1> QED
  BY <1>1 DEF Fail, Text!Abort, Here, Top

LEMMA TextGoAround ==
  ASSUME Core, AtScopeEnd, Top.op.tag \in Loops, NEW c \in Nat, Iterate(c)
  PROVE  Text!GoAround
<1> DEFINE f == NewFrame(Top.scope, Top.op, c, Top.end)
<1>1. /\ status = "running" /\ flow.tag = "continue" /\ stack # <<>> /\ stack \in Seq(Frame)
      /\ Top \in Frame /\ Top.index > Len(prog[Top.scope]) /\ Top.op.tag # "none"
  BY AtCursor DEF AtScopeEnd, Running, Core, Scoped, Loops
<1>2. f \in Frame /\ f.scope = Top.scope /\ f.index = 1
  BY <1>1, FrameFields, NewFrameType DEF NewFrame
<1>3. stack' = [stack EXCEPT ![Len(stack)] = f] /\ UNCHANGED <<prog, flow, status>>
  BY DEF Iterate
<1> HIDE DEF f
<1>4. stack' # <<>> /\ Here' = <<Top.scope, 1>>
  BY <1>1, <1>2, <1>3, ReplacedPlace DEF Here, Top
<1>5. Owner(prog, Top.scope) = Caller /\ Top.scope # Root /\ BlockAt(prog, Caller).op = Top.op
  BY <1>1, CallerFacts, CallerOwns
<1>6. Here = <<Top.scope, Top.index>>
  BY DEF Here
<1> QED
  BY <1>1, <1>3, <1>4, <1>5, <1>6, TextPrograms
     DEF Text!GoAround, Text!AtEnd, Text!Goto, Text!PastEnd, Text!Scope, Text!OwnerHere, Text!OwnerOp

LEMMA TextGoOn ==
  ASSUME Core, AtScopeEnd, Top.op.tag \notin {"none", "loop"}, NEW calls, Return(calls)
  PROVE  Text!GoOn
<1> DEFINE st == Front(stack)
<1>1. /\ status = "running" /\ flow.tag = "continue" /\ stack # <<>> /\ Len(stack) # 1
      /\ Top.index > Len(prog[Top.scope])
  BY AtCursor, CallerFacts DEF AtScopeEnd, Running
<1>2. Owner(prog, Top.scope) = Caller /\ Top.scope # Root /\ BlockAt(prog, Caller).op = Top.op
  BY <1>1, CallerOwns
<1>3. st \in Seq(Frame) /\ st # <<>> /\ st[Len(st)] = stack[Len(stack) - 1]
  BY <1>1, FrontPlace
<1>4. stack' = Advanced(st) /\ UNCHANGED <<prog, flow, status>>
  BY DEF Return
<1> HIDE DEF st
<1>5. stack' # <<>> /\ Here' = <<Caller[1], Caller[2] + 1>>
  BY <1>3, <1>4, AdvancedPlace DEF Here, Top, Caller
<1>6. Here = <<Top.scope, Top.index>>
  BY DEF Here
<1> QED
  BY <1>1, <1>2, <1>4, <1>5, <1>6, TextPrograms
     DEF Text!GoOn, Text!AtEnd, Text!Goto, Text!PastEnd, Text!Scope, Text!OwnerHere, Text!OwnerOp,
         Text!After

LEMMA TextStop ==
  ASSUME Core, EndProgramText
  PROVE  Text!Stop
<1>1. /\ status = "running" /\ flow.tag = "continue" /\ stack # <<>> /\ Top.scope = Root
      /\ Top.index > Len(prog[Top.scope])
  BY AtCursor, BottomIsRoot DEF EndProgramText, AtScopeEnd, Running
<1>2. stack' = <<>> /\ status' = "done" /\ UNCHANGED <<prog, flow>>
  BY DEF EndProgramText
<1>3. Here = <<Top.scope, Top.index>>
  BY DEF Here
<1> QED
  BY <1>1, <1>2, <1>3 DEF Text!Stop, Text!Scope, Text!PastEnd, Text!Halt

LEMMA TextLand ==
  ASSUME Core, TakeJump
  PROVE  Text!Land \/ Text!Abort
<1> DEFINE d     == Destination
           taken == IF d <= Top.index THEN Top.jumps + 1 ELSE Top.jumps
<1>1. status = "running" /\ flow.tag = "jump" /\ d # 0
  BY DEF TakeJump
<1>2. CASE Fail("LoopLimit")
  BY <1>1, <1>2, TextAbort DEF Endings
<1>3. CASE stack' = TopAt(d, taken) /\ flow' = Continue /\ UNCHANGED <<prog, status>>
  <2>1. /\ Top \in Frame /\ Top = stack[Len(stack)] /\ Top.scope \in Scopes
        /\ Top.index \in Nat /\ Top.jumps \in Nat /\ stack \in Seq(Frame) /\ stack # <<>>
    BY <1>1, AtCursor, FrameFields DEF Core, Scoped
  <2>2. d \in Nat \ {0}
    <3>1. flow.arm \in Arm
      BY <1>1 DEF Core, Flow
    <3>2. Len(prog[Top.scope]) \in Nat
      BY <2>1, LenProperties DEF Core, IsProgram
    <3> QED
      BY <1>1, <2>1, <3>1, <3>2, ResolveJumpProps DEF Destination, Core
  <2>3. taken \in Nat
    BY <2>1
  <2> DEFINE g == [Top EXCEPT !.index = d]
             f == [g EXCEPT !.jumps = taken]
  <2>4. g \in Frame /\ g.scope = Top.scope /\ g.index = d
    BY <2>1, <2>2, FrameIndex
  <2>5. f \in Frame /\ f.scope = Top.scope /\ f.index = d
    <3> HIDE DEF g, taken, d
    <3> QED
      BY <2>3, <2>4, FrameJumps
  <2>6. stack' = [stack EXCEPT ![Len(stack)] = f]
    BY <1>3, <2>1 DEF TopAt
  <2> HIDE DEF f
  <2>7. stack' # <<>> /\ Here' = <<Top.scope, d>>
    BY <2>1, <2>5, <2>6, ReplacedPlace DEF Here, Top
  <2>8. Here = <<Top.scope, Top.index>>
    BY DEF Here
  <2> QED
    BY <1>1, <1>3, <2>1, <2>7, <2>8, TextResolves DEF Text!Land, Text!Found, Text!Scope, Destination, Continue
<1> QED
  BY <1>2, <1>3 DEF TakeJump

LEMMA TextLeave ==
  ASSUME Core, status = "running", NEW ending \in Endings, LeaveScope(ending),
         flow.tag = "end" \/ (flow.tag = "jump" /\ Destination = 0)
  PROVE  Text!GoOutside \/ Text!Stop
<1>1. stack # <<>> /\ UNCHANGED <<prog, flow>> /\ stack' = Front(stack) /\ ending # "running"
  BY AtCursor DEF LeaveScope, Endings
<1>2. Here = <<Top.scope, Top.index>>
  BY DEF Here
<1>3. CASE Len(stack) = 1
  <2>1. Top.scope = Root /\ stack' = <<>> /\ status' = ending
    BY <1>1, <1>3, BottomIsRoot DEF LeaveScope
  <2> QED
    BY <1>1, <1>2, <2>1, TextResolves DEF Text!Stop, Text!Scope, Text!Found, Text!Halt, Destination
<1>4. CASE Len(stack) # 1
  <2>1. Owner(prog, Top.scope) = Caller /\ Top.scope # Root
    BY <1>4, CallerOwns
  <2>2. stack' # <<>> /\ Here' = Caller /\ status' = status
    BY <1>1, <1>4, FrontPlace DEF Here, Top, LeaveScope
  <2> QED
    BY <1>1, <1>2, <2>1, <2>2, TextPrograms, TextResolves
       DEF Text!GoOutside, Text!Scope, Text!Found, Text!Goto, Text!OwnerHere, Destination
<1> QED
  BY <1>3, <1>4

(* The deciding arm is one of the arms.                                    *)
LEMMA DecidingArmIndex ==
  ASSUME NEW op \in Op, DecidingArm(op) # 0
  PROVE  DecidingArm(op) \in DOMAIN op.arms
<1> DEFINE hits == {i \in DOMAIN op.arms :
                     Holds(op.arms[i].cond, env) /\ (op.tag = "case" \/ ~Suppressed(op.arms[i]))}
<1>1. DecidingArm(op) = Min(hits) /\ hits # {}
  BY DEF DecidingArm
<1>2. hits \subseteq DOMAIN op.arms /\ DOMAIN op.arms \subseteq Nat
  BY OpFields, LenProperties
<1>3. hits \subseteq Nat
  BY <1>2
<1> HIDE DEF hits
<1>4. Min(hits) \in hits
  BY <1>1, <1>3, MinInSet
<1> QED
  BY <1>1, <1>2, <1>4

-----------------------------------------------------------------------------
(* The actions.                                                            *)

LEMMA LeafFollows ==
  ASSUME Core, ExecLeaf
  PROVE  Text!Next
<1>1. AtBlock /\ status = "running" /\ HereOp \in Op
  BY AtBlockFacts DEF ExecLeaf, ExecPlain, ExecStatement, ExecJumps
<1>2. ASSUME NEW calls, FailReading(calls) PROVE Text!Next
  BY <1>1, <1>2, TextAbort DEF FailReading, Endings, Text!Next
<1>3. /\ status = "running" /\ flow.tag = "continue" /\ stack # <<>>
      /\ Top.index <= Len(prog[Top.scope]) /\ Here = <<Top.scope, Top.index>>
      /\ Top.index \in Nat /\ Len(prog[Top.scope]) \in Nat
  BY <1>1, AtCursor, LenProperties DEF AtBlock, Running, Core, IsProgram, Here
<1>4. CASE ExecPlain
  BY <1>1, <1>4, TextPassOn DEF ExecPlain, Finish, Text!Next
<1>5. CASE ExecStatement
  <2>1. \/ FailReading(<<>>)
        \/ HereOp.ends /\ flow' = EndFlow /\ UNCHANGED <<prog, stack, status>>
        \/ ~HereOp.ends /\ stack' = Advanced(stack) /\ UNCHANGED <<prog, flow, status>>
    BY <1>5 DEF ExecStatement
  <2>2. HereOp.tag = "stmt"
    BY <1>5 DEF ExecStatement
  <2>3. CASE HereOp.ends /\ flow' = EndFlow /\ UNCHANGED <<prog, stack, status>>
    <3>1. Here' = Here
      BY <2>3 DEF Here, Top
    <3>2. Text!BeginEnd
      BY <1>3, <2>2, <2>3, <3>1, TextPrograms
         DEF Text!BeginEnd, Text!Executing, Text!PastEnd, Text!Scope, Text!Op_, HereOp, EndFlow
    <3> QED
      BY <3>2 DEF Text!Next
  <2> QED
    BY <1>1, <1>2, <2>1, <2>2, <2>3, TextPassOn DEF Text!Next
<1>6. CASE ExecJumps
  <2> DEFINE k == DecidingArm(HereOp)
  <2>1. \/ FailReading(<<>>)
        \/ k # 0 /\ flow' = Jump(HereOp.arms[k]) /\ UNCHANGED <<prog, stack, status>>
        \/ stack' = Advanced(stack) /\ UNCHANGED <<prog, flow, status>>
    BY <1>6 DEF ExecJumps
  <2>2. HereOp.tag \in {"jumps", "case"}
    BY <1>6 DEF ExecJumps
  <2>3. CASE k # 0 /\ flow' = Jump(HereOp.arms[k]) /\ UNCHANGED <<prog, stack, status>>
    <3>1. Here' = Here
      BY <2>3 DEF Here, Top
    <3>2. k \in DOMAIN HereOp.arms
      BY <1>1, <2>3, DecidingArmIndex
    <3>3. Text!BeginJump
      BY <1>3, <2>2, <2>3, <3>1, <3>2, TextPrograms
         DEF Text!BeginJump, Text!Executing, Text!PastEnd, Text!Scope, Text!Op_, HereOp, Jump
    <3> QED
      BY <3>3 DEF Text!Next
  <2> QED
    BY <1>1, <1>2, <2>1, <2>2, <2>3, TextPassOn DEF Text!Next
<1> QED
  BY <1>4, <1>5, <1>6 DEF ExecLeaf

LEMMA EnterFollows ==
  ASSUME Core, EnterBody
  PROVE  Text!Next
<1>1. AtBlock /\ status = "running" /\ HereOp \in Op /\ Bodies(HereOp) \subseteq Scopes
  BY AtBlockFacts DEF EnterBody, EnterIf, EnterWhile, EnterLoop, EnterFor
<1>2. ASSUME NEW calls, FailReading(calls) PROVE Text!Next
  BY <1>1, <1>2, TextAbort DEF FailReading, Endings, Text!Next
<1>3. ASSUME NEW calls, Skip(calls), HereOp.tag \in {"if", "while", "for"} PROVE Text!Next
  BY <1>1, <1>3, TextPassOn DEF Skip, Finish, Text!Next
<1>4. ASSUME NEW s \in Bodies(HereOp), NEW c \in Nat, NEW e \in Int, NEW calls,
             Descend(NewFrame(s, HereOp, c, e), calls)
      PROVE  Text!Next
  BY <1>1, <1>4, TextGoInside DEF Text!Next
<1>5. CASE EnterIf
  <2> DEFINE taken == IF Holds(HereOp.cond, env) THEN HereOp.body ELSE HereOp.alt
  <2>1. HereOp.tag = "if"
    BY <1>5 DEF EnterIf
  <2>2. taken # NoScope => taken \in Bodies(HereOp)
    BY <2>1 DEF Bodies, Loops
  <2>3. \/ FailReading(<<>>)
        \/ IF taken = NoScope THEN Skip(<<>>) ELSE Descend(NewFrame(taken, HereOp, 0, 0), <<>>)
    BY <1>5 DEF EnterIf
  <2> HIDE DEF taken
  <2> QED
    BY <1>2, <1>3, <1>4, <2>1, <2>2, <2>3
<1>6. CASE EnterWhile
  <2>1. HereOp.tag = "while" /\ HereOp.body \in Bodies(HereOp)
    BY <1>6 DEF EnterWhile, Bodies, Loops
  <2>2. \/ FailReading(<<>>) \/ Fail("LoopLimit") \/ Skip(<<>>)
        \/ Descend(NewFrame(HereOp.body, HereOp, 1, 0), <<>>)
    BY <1>6, LimitAssumption DEF EnterWhile
  <2>3. CASE Fail("LoopLimit")
    BY <1>1, <2>3, TextAbort DEF Endings, Text!Next
  <2> QED
    BY <1>2, <1>3, <1>4, <2>1, <2>2, <2>3
<1>7. CASE EnterLoop
  <2>1. HereOp.body \in Bodies(HereOp)
    BY <1>7 DEF EnterLoop, Bodies, Loops
  <2> QED
    BY <1>4, <1>7, <2>1 DEF EnterLoop
<1>8. CASE EnterFor
  <2> DEFINE env1  == AfterReading({HereOp.expr.var}, env)
             env2  == Assigned(HereOp, env1)
             calls == <<Change(HereOp.var, ValueOf(HereOp.expr, env1))>>
             end   == ValueOf(HereOp.to, env2)
  <2>1. HereOp.tag = "for" /\ HereOp.body \in Bodies(HereOp)
    BY <1>8 DEF EnterFor, Bodies, Loops
  <2>2. FailReading(<<>>) \/ FailReading(calls) \/ Skip(calls)
          \/ Descend(NewFrame(HereOp.body, HereOp, 0, end), calls)
    BY <1>8 DEF EnterFor
  <2>3. end \in Int
    <3>1. env1 \in Env
      BY Reading DEF Core
    <3>2. env2 \in Env
      BY <1>1, <3>1, Assigning
    <3> QED
      BY <1>1, <3>2, ValueType, OpFields
  <2> HIDE DEF calls, end
  <2> QED
    BY <1>2, <1>3, <1>4, <2>1, <2>2, <2>3
<1> QED
  BY <1>5, <1>6, <1>7, <1>8 DEF EnterBody

LEMMA EndFollows ==
  ASSUME Core, EndOfBody
  PROVE  Text!Next
<1>1. AtScopeEnd /\ status = "running"
  BY DEF EndOfBody, EndIf, EndWhile, EndLoop, EndRepeat, EndFor, AtScopeEnd, Running
<1>2. Top.count \in Nat /\ Top.count + 1 \in Nat
  BY <1>1, AtCursor, FrameFields
<1>3. ASSUME NEW calls, Return(calls), Top.op.tag \in {"if", "while", "repeat", "for"}
      PROVE  Text!Next
  BY <1>1, <1>3, TextGoOn DEF Text!Next
<1>4. ASSUME NEW c \in Nat, Iterate(c), Top.op.tag \in {"while", "loop", "repeat", "for"}
      PROVE  Text!Next
  BY <1>1, <1>4, TextGoAround DEF Text!Next, Loops
<1>5. ASSUME NEW e \in {"LoopLimit", "Undefined"}, Fail(e) PROVE Text!Next
  BY <1>1, <1>5, TextAbort DEF Text!Next, Endings
<1>6. CASE EndIf
  BY <1>3, <1>6 DEF EndIf
<1>7. CASE EndWhile
  <2>1. Top.op.tag = "while"
    BY <1>7 DEF EndWhile
  <2>2. Fail("LoopLimit") \/ Iterate(Top.count + 1) \/ Return(<<>>)
    BY <1>2, <1>7, LimitAssumption DEF EndWhile
  <2> QED
    BY <1>2, <1>3, <1>4, <1>5, <2>1, <2>2
<1>8. CASE EndLoop
  BY <1>2, <1>4, <1>5, <1>8 DEF EndLoop
<1>9. CASE EndRepeat
  <2>1. Top.op.tag = "repeat"
    BY <1>9 DEF EndRepeat
  <2>2. Fail("LoopLimit") \/ Fail("Undefined") \/ Iterate(Top.count + 1) \/ Return(<<>>)
    BY <1>2, <1>9, LimitAssumption DEF EndRepeat
  <2> QED
    BY <1>2, <1>3, <1>4, <1>5, <2>1, <2>2
<1>10. CASE EndFor
  <2>1. Top.op.tag = "for"
    BY <1>10 DEF EndFor
  <2>2. (\E calls : Return(calls)) \/ Iterate(Top.count)
    BY <1>10 DEF EndFor
  <2> QED
    BY <1>2, <1>3, <1>4, <2>1, <2>2
<1> QED
  BY <1>6, <1>7, <1>8, <1>9, <1>10 DEF EndOfBody

-----------------------------------------------------------------------------
LEMMA NextFollows == Core /\ [Next]_vars => [Text!Next]_(Text!vars)
<1> SUFFICES ASSUME Core, [Next]_vars PROVE Text!Next \/ UNCHANGED Text!vars
  OBVIOUS
<1>1. CASE UNCHANGED vars
  BY <1>1 DEF vars, Text!vars, Here, Top
<1>2. CASE ExecLeaf \/ EnterBody \/ EndOfBody
  BY <1>2, LeafFollows, EnterFollows, EndFollows
<1>3. CASE EndProgramText
  BY <1>3, TextStop DEF Text!Next
<1>4. CASE TakeJump
  BY <1>4, TextLand DEF Text!Next
<1>5. CASE Propagate
  <2>1. status = "running" /\ LeaveScope(JumpFailure) /\ JumpFailure \in Endings
    BY <1>5 DEF Propagate, JumpFailure, Endings
  <2> QED
    BY <1>5, <2>1, TextLeave DEF Propagate, Text!Next
<1>6. CASE UnwindEnd
  <2>1. status = "running" /\ LeaveScope("done") /\ "done" \in Endings
    BY <1>6 DEF UnwindEnd, Endings
  <2> QED
    BY <1>6, <2>1, TextLeave DEF UnwindEnd, Text!Next
<1> QED
  BY <1>1, <1>2, <1>3, <1>4, <1>5, <1>6 DEF Next

LEMMA InitFollows == Init => Text!Init
<1> SUFFICES ASSUME Init PROVE Text!Init
  OBVIOUS
<1>1. IsProgram(prog)
  BY ProgramsAssumption DEF Init
<1>2. stack # <<>> /\ Here = <<Root, 1>>
  BY DEF Init, Here, Top, Last, NewFrame
<1> QED
  BY <1>1, <1>2, TextIsProgram DEF Init, Text!Init, Continue

(* The walk follows the text of the program: a body is entered at its      *)
(* first block and from the block that owns it, left to the block after it *)
(* or by a jump to a target of the innermost scope that has one.           *)
THEOREM WalkFollowsText == Spec => FollowsText
<1>1. Core /\ [Next]_vars => [Text!Next]_(Text!vars)
  BY NextFollows
<1> QED
  BY <1>1, CoreHolds, InitFollows, PTL DEF Spec, FollowsText, Text!Spec

-----------------------------------------------------------------------------
(* The VM beside the walker.  Its frames differ from the walker's in one   *)
(* field: it counts on the backward jumps of earlier iterations.           *)

Matches(f, g) ==
  /\ f \in Frame /\ g.jumps <= f.jumps
  /\ f.scope = g.scope /\ f.index = g.index /\ f.op = g.op /\ f.count = g.count /\ f.end = g.end

AheadOf(vm, st) ==
  vm \in Seq(Frame) /\ Len(vm) = Len(st) /\ \A k \in 1..Len(st) : Matches(vm[k], st[k])

Agreed ==
  /\ vmFlow = flow /\ vmEnv = env /\ vmScopes = jumpScopes
  /\ vmSeen = seen /\ vmOut = out /\ vmStatus = status

Abreast == AheadOf(vmStack, stack) /\ Agreed

StoppedEarly == vmStatus = "LoopLimit" /\ vmOut \in Seq(OutputCall) /\ IsPrefix(vmOut, out)

InStep ==
  /\ Core /\ prog \in Programs
  /\ Abreast \/ StoppedEarly
  /\ saved # <<>> => vmStatus = "running" /\ vmFlow = Continue /\ saved = <<Snapshot>>

(* The operators of the VM are those of the walker.                        *)
LEMMA VmReading ==
  /\ \A p, pos : Vm!BlockAt(p, pos) = BlockAt(p, pos)
  /\ \A p, s : Vm!ScanTargets(p, s) = ScanTargets(p, s)
  /\ \A e, t : Vm!CanRead(e, t) = CanRead(e, t)
  /\ \A vs, t : Vm!AfterReading(vs, t) = AfterReading(vs, t)
  /\ \A e, t : Vm!ValueOf(e, t) = ValueOf(e, t)
  /\ \A c, t : Vm!Holds(c, t) = Holds(c, t)
  /\ \A op, t : Vm!Assigned(op, t) = Assigned(op, t)
BY DEF Vm!BlockAt, BlockAt, Vm!ScanTargets, ScanTargets, Vm!CanRead, CanRead,
       Vm!AfterReading, AfterReading, Vm!ValueOf, ValueOf, Vm!Holds, Holds,
       Vm!Assigned, Assigned

LEMMA VmNames ==
  /\ Vm!Continue = Continue /\ Vm!EndFlow = EndFlow /\ \A arm : Vm!Jump(arm) = Jump(arm)
  /\ \A line : Vm!StartRow(line) = StartRow(line)
  /\ \A n, v : Vm!Change(n, v) = Change(n, v)
  /\ \A op, t : Vm!AssignmentCalls(op, t) = AssignmentCalls(op, t)
  /\ \A line : Vm!CommentAt(line) = CommentAt(line)
  /\ \A s : Vm!Advanced(s) = Advanced(s)
  /\ \A s : Vm!Front(s) = Front(s)
  /\ \A s, op, c, e : Vm!NewFrame(s, op, c, e) = NewFrame(s, op, c, e)
BY DEF Vm!Continue, Continue, Vm!EndFlow, EndFlow, Vm!Jump, Jump, Vm!StartRow, StartRow,
       Vm!Change, Change, Vm!AssignmentCalls, AssignmentCalls, Vm!Cell, Cell, Vm!CommentAt, CommentAt,
       Vm!Comment, Comment, Vm!BlockAt, BlockAt, Vm!Advanced, Advanced, Vm!Front, Front,
       Vm!NewFrame, NewFrame, Vm!ValueOf, ValueOf, Vm!AfterReading, AfterReading

(* Where the two runs are abreast, they stand on the same block.           *)
LEMMA VmCursor ==
  ASSUME Core, Abreast, status = "running"
  PROVE  /\ Vm!Top = vmStack[Len(vmStack)] /\ vmStack # <<>> /\ Matches(Vm!Top, Top)
         /\ Len(vmStack) = Len(stack)
         /\ Vm!Here = Here /\ Vm!HereOp = HereOp
         /\ Vm!AtBlock = AtBlock /\ Vm!AtScopeEnd = AtScopeEnd
         /\ \A calls : Vm!Emitted(calls) = Emitted(calls)
<1>1. /\ stack # <<>> /\ Top = stack[Len(stack)] /\ stack \in Seq(Frame) /\ Len(stack) \in Nat \ {0}
  BY AtCursor, FrontProps DEF Core, Scoped
<1>2. vmStack \in Seq(Frame) /\ Len(vmStack) = Len(stack) /\ vmStack # <<>>
  BY <1>1, EmptySeq DEF Abreast, AheadOf
<1>3. Vm!Top = vmStack[Len(vmStack)]
  BY DEF Vm!Top, Vm!Last
<1>4. Len(stack) \in 1..Len(stack)
  BY <1>1
<1>5. Matches(Vm!Top, Top)
  BY <1>1, <1>2, <1>3, <1>4 DEF Abreast, AheadOf
<1>6. Vm!Here = Here
  BY <1>5 DEF Matches, Vm!Here, Here
<1>7. Vm!HereOp = HereOp
  BY <1>6, VmReading DEF Vm!HereOp, HereOp
<1>8. Vm!AtBlock = AtBlock /\ Vm!AtScopeEnd = AtScopeEnd
  BY <1>5 DEF Matches, Abreast, Agreed, Vm!AtBlock, AtBlock, Vm!AtScopeEnd, AtScopeEnd, Vm!Running, Running
<1>9. \A calls : Vm!Emitted(calls) = Emitted(calls)
  BY DEF Abreast, Agreed, Vm!Emitted, Emitted
<1> QED
  BY <1>1, <1>2, <1>3, <1>5, <1>6, <1>7, <1>8, <1>9

LEMMA AheadSet ==
  ASSUME NEW vm, NEW st \in Seq(Frame), AheadOf(vm, st), st # <<>>, NEW f, NEW g, Matches(f, g)
  PROVE  AheadOf([vm EXCEPT ![Len(vm)] = f], [st EXCEPT ![Len(st)] = g])
<1> DEFINE n   == Len(st)
           vm1 == [vm EXCEPT ![Len(vm)] = f]
           st1 == [st EXCEPT ![n] = g]
<1>1. n \in Nat \ {0} /\ vm \in Seq(Frame) /\ Len(vm) = n /\ f \in Frame
  BY FrontProps DEF AheadOf, Matches
<1>2. vm1 \in Seq(Frame) /\ Len(vm1) = n /\ \A k \in 1..n : vm1[k] = IF k = n THEN f ELSE vm[k]
  BY <1>1, ExceptSeq
<1>3. DOMAIN st = 1..n /\ st1 = [k \in 1..n |-> IF k = n THEN g ELSE st[k]]
  BY <1>1, LenProperties
<1>4. Len(st1) = n
  BY <1>1, <1>3
<1> HIDE DEF vm1, st1
<1> QED
  BY <1>2, <1>3, <1>4 DEF AheadOf, st1, vm1

LEMMA FrameIndexKeeps ==
  ASSUME NEW g \in Frame, NEW i \in Nat \ {0}
  PROVE  /\ [g EXCEPT !.index = i] \in Frame /\ [g EXCEPT !.index = i].index = i
         /\ [g EXCEPT !.index = i].scope = g.scope /\ [g EXCEPT !.index = i].op = g.op
         /\ [g EXCEPT !.index = i].jumps = g.jumps /\ [g EXCEPT !.index = i].count = g.count
         /\ [g EXCEPT !.index = i].end = g.end
BY DEF Frame

LEMMA AheadAdvanced ==
  ASSUME NEW vm, NEW st \in Seq(Frame), AheadOf(vm, st), st # <<>>
  PROVE  AheadOf(Advanced(vm), Advanced(st))
<1> DEFINE n == Len(st)
           f == [vm[n] EXCEPT !.index = vm[n].index + 1]
           g == [st[n] EXCEPT !.index = st[n].index + 1]
<1>1. n \in Nat \ {0} /\ Len(vm) = n /\ st[n] \in Frame
  BY FrontProps DEF AheadOf
<1>2. Matches(vm[n], st[n])
  BY <1>1 DEF AheadOf
<1>3. vm[n] \in Frame /\ vm[n].index + 1 \in Nat \ {0}
  BY <1>2, FrameFields DEF Matches
<1>4. f \in Frame
  BY <1>3, FrameIndex
<1>5. Matches(f, g)
  <2>1. st[n].index + 1 \in Nat \ {0}
    BY <1>1, FrameFields
  <2>2. vm[n].index + 1 = st[n].index + 1
    BY <1>2 DEF Matches
  <2>3. /\ f.index = vm[n].index + 1 /\ f.scope = vm[n].scope /\ f.op = vm[n].op
        /\ f.jumps = vm[n].jumps /\ f.count = vm[n].count /\ f.end = vm[n].end
    BY <1>3, FrameIndexKeeps
  <2>4. /\ g.index = st[n].index + 1 /\ g.scope = st[n].scope /\ g.op = st[n].op
        /\ g.jumps = st[n].jumps /\ g.count = st[n].count /\ g.end = st[n].end
    BY <1>1, <2>1, FrameIndexKeeps
  <2> HIDE DEF f, g
  <2> QED
    BY <1>2, <1>4, <2>2, <2>3, <2>4 DEF Matches
<1>6. Advanced(vm) = [vm EXCEPT ![Len(vm)] = f] /\ Advanced(st) = [st EXCEPT ![Len(st)] = g]
  BY <1>1, Zenon DEF Advanced
<1> HIDE DEF f, g
<1>7. AheadOf([vm EXCEPT ![Len(vm)] = f], [st EXCEPT ![Len(st)] = g])
  BY <1>5, AheadSet
<1> QED
  BY <1>6, <1>7

LEMMA AheadFront ==
  ASSUME NEW vm, NEW st \in Seq(Frame), AheadOf(vm, st), st # <<>>
  PROVE  AheadOf(Front(vm), Front(st))
<1>1. Len(st) \in Nat \ {0} /\ vm \in Seq(Frame) /\ Len(vm) = Len(st) /\ vm # <<>>
  BY FrontProps, EmptySeq DEF AheadOf
<1>2. /\ Front(vm) \in Seq(Frame) /\ Len(Front(vm)) = Len(st) - 1 /\ Len(Front(st)) = Len(st) - 1
      /\ \A i \in 1..(Len(st) - 1) : Front(vm)[i] = vm[i] /\ Front(st)[i] = st[i]
  BY <1>1, FrontProps
<1>3. \A i \in 1..(Len(st) - 1) : i \in 1..Len(st)
  BY <1>1
<1> QED
  BY <1>2, <1>3 DEF AheadOf

LEMMA AheadAppend ==
  ASSUME NEW vm, NEW st \in Seq(Frame), AheadOf(vm, st), NEW f \in Frame
  PROVE  AheadOf(Append(vm, f), Append(st, f))
<1> DEFINE n == Len(st)
<1>1. n \in Nat /\ vm \in Seq(Frame) /\ Len(vm) = n
  BY LenProperties DEF AheadOf
<1>2. /\ Append(vm, f) \in Seq(Frame) /\ Len(Append(vm, f)) = n + 1 /\ Len(Append(st, f)) = n + 1
      /\ \A i \in 1..n : Append(vm, f)[i] = vm[i] /\ Append(st, f)[i] = st[i]
      /\ Append(vm, f)[n + 1] = f /\ Append(st, f)[n + 1] = f
  BY <1>1, AppendProperties
<1>3. Matches(f, f)
  BY FrameFields DEF Matches
<1>4. \A i \in 1..(n + 1) : i = n + 1 \/ i \in 1..n
  BY <1>1
<1> HIDE DEF n
<1> QED
  BY <1>2, <1>3, <1>4 DEF AheadOf, n

-----------------------------------------------------------------------------
(* The walker's step, told by where it stands.                             *)

LEMMA WalkerAtBlock ==
  ASSUME Core, Next, AtBlock
  PROVE  /\ HereOp.tag = "none" => ExecPlain
         /\ HereOp.tag = "stmt" => ExecStatement
         /\ HereOp.tag \in {"jumps", "case"} => ExecJumps
         /\ HereOp.tag = "if" => EnterIf
         /\ HereOp.tag = "while" => EnterWhile
         /\ HereOp.tag \in {"loop", "repeat"} => EnterLoop
         /\ HereOp.tag = "for" => EnterFor
<1>1. ~AtScopeEnd
  <2>1. Top.index \in Nat /\ Top.scope \in Scopes
    BY AtBlockFacts, AtCursor
  <2>2. Len(prog[Top.scope]) \in Nat
    BY <2>1, LenProperties DEF Core, IsProgram
  <2> QED
    BY <2>1, <2>2 DEF AtBlock, AtScopeEnd
<1>2. flow.tag = "continue"
  BY DEF AtBlock, Running
<1>3. ExecLeaf \/ EnterBody
  BY <1>1, <1>2 DEF Next, EndOfBody, EndIf, EndWhile, EndLoop, EndRepeat, EndFor, EndProgramText,
                    TakeJump, Propagate, UnwindEnd
<1> QED
  BY <1>3 DEF ExecLeaf, ExecPlain, ExecStatement, ExecJumps, EnterBody, EnterIf, EnterWhile, EnterLoop, EnterFor

LEMMA WalkerAtEnd ==
  ASSUME Core, Next, AtScopeEnd
  PROVE  /\ Top.op.tag = "none" => EndProgramText
         /\ Top.op.tag = "if" => EndIf
         /\ Top.op.tag = "while" => EndWhile
         /\ Top.op.tag = "loop" => EndLoop
         /\ Top.op.tag = "repeat" => EndRepeat
         /\ Top.op.tag = "for" => EndFor
<1>1. status = "running" /\ flow.tag = "continue"
  BY DEF AtScopeEnd, Running
<1>2. ~AtBlock
  <2>1. Top.index \in Nat /\ Top.scope \in Scopes
    BY <1>1, AtCursor
  <2>2. Len(prog[Top.scope]) \in Nat
    BY <2>1, LenProperties DEF Core, IsProgram
  <2> QED
    BY <2>1, <2>2 DEF AtBlock, AtScopeEnd
<1>3. EndOfBody \/ EndProgramText
  BY <1>1, <1>2 DEF Next, ExecLeaf, ExecPlain, ExecStatement, ExecJumps, EnterBody, EnterIf, EnterWhile,
                    EnterLoop, EnterFor, TakeJump, Propagate, UnwindEnd
<1>4. EndProgramText => Top.op.tag = "none"
  BY <1>1, BottomIsRoot DEF EndProgramText, Nop
<1> QED
  BY <1>3, <1>4 DEF EndOfBody, EndIf, EndWhile, EndLoop, EndRepeat, EndFor

LEMMA WalkerUnwinding ==
  ASSUME Core, Next, flow.tag \in {"jump", "end"}
  PROVE  /\ flow.tag = "jump" /\ Destination # 0 => TakeJump
         /\ flow.tag = "jump" /\ Destination = 0 => Propagate
         /\ flow.tag = "end" => UnwindEnd
<1>1. TakeJump \/ Propagate \/ UnwindEnd
  BY DEF Next, ExecLeaf, ExecPlain, ExecStatement, ExecJumps, EnterBody, EnterIf, EnterWhile, EnterLoop,
         EnterFor, EndOfBody, EndIf, EndWhile, EndLoop, EndRepeat, EndFor, EndProgramText, AtBlock,
         AtScopeEnd, Running
<1> QED
  BY <1>1 DEF TakeJump, Propagate, UnwindEnd

-----------------------------------------------------------------------------
(* Blocks without a body.                                                  *)

LEMMA AbreastAdvanced ==
  ASSUME Core, Abreast, status = "running", stack' = Advanced(stack), vmStack' = Advanced(vmStack), Agreed'
  PROVE  Abreast'
<1>1. stack \in Seq(Frame) /\ stack # <<>>
  BY AtCursor DEF Core, Scoped
<1> QED
  BY <1>1, AheadAdvanced DEF Abreast

LEMMA AbreastStay ==
  ASSUME Abreast, stack' = stack, vmStack' = vmStack, Agreed'
  PROVE  Abreast'
BY DEF Abreast

LEMMA AbreastPlain ==
  ASSUME Core, Abreast, Next, Vm!ExecPlain
  PROVE  Abreast'
<1>1. status = "running" /\ AtBlock /\ HereOp.tag = "none"
  BY VmCursor DEF Vm!ExecPlain, Vm!AtBlock, Vm!Running, Abreast, Agreed
<1>2. ExecPlain
  BY <1>1, WalkerAtBlock
<1>3. Agreed' /\ vmStack' = Advanced(vmStack)
  BY <1>1, <1>2, VmCursor, VmNames
     DEF ExecPlain, Finish, Vm!ExecPlain, Vm!Finish, Abreast, Agreed
<1> QED
  BY <1>1, <1>2, <1>3, AbreastAdvanced DEF ExecPlain, Finish

(* An expression that cannot be read stops both.                           *)
LEMMA AbreastFailReading ==
  ASSUME Core, Abreast, status = "running", NEW calls, FailReading(calls), Vm!FailReading(calls), vmEnv' = env'
  PROVE  Abreast'
<1>1. Agreed' /\ vmStack' = vmStack /\ stack' = stack
  BY VmCursor, VmNames DEF FailReading, Fail, Vm!FailReading, Vm!Fail, Abreast, Agreed
<1> QED
  BY <1>1, AbreastStay

LEMMA AbreastStatement ==
  ASSUME Core, Abreast, Next, Vm!ExecStatement
  PROVE  Abreast'
<1>1. status = "running" /\ AtBlock /\ HereOp.tag = "stmt"
  BY VmCursor DEF Vm!ExecStatement, Vm!AtBlock, Vm!Running, Abreast, Agreed
<1>2. ExecStatement
  BY <1>1, WalkerAtBlock
<1>3. CASE ~CanRead(HereOp.expr, env)
  <2>1. FailReading(<<>>) /\ Vm!FailReading(<<>>) /\ vmEnv' = env'
    BY <1>1, <1>2, <1>3, VmCursor, VmReading DEF ExecStatement, Vm!ExecStatement, Abreast, Agreed
  <2> QED
    BY <1>1, <2>1, AbreastFailReading
<1>4. CASE CanRead(HereOp.expr, env)
  <2> DEFINE env1 == AfterReading({HereOp.expr.var}, env)
             o    == Emitted(<<StartRow(Here)>> \o AssignmentCalls(HereOp, env1) \o CommentAt(Here))
             e    == Assigned(HereOp, env1)
  <2>1. /\ env' = e /\ out' = o /\ UNCHANGED <<jumpScopes, seen, status>>
        /\ IF HereOp.ends THEN flow' = EndFlow /\ UNCHANGED stack
           ELSE stack' = Advanced(stack) /\ UNCHANGED flow
    BY <1>2, <1>4 DEF ExecStatement
  <2>2. /\ vmEnv' = e /\ vmOut' = o /\ UNCHANGED <<vmScopes, vmSeen, vmStatus>>
        /\ IF HereOp.ends THEN vmFlow' = EndFlow /\ UNCHANGED vmStack
           ELSE vmStack' = Advanced(vmStack) /\ UNCHANGED vmFlow
    BY <1>1, <1>4, VmCursor, VmReading, VmNames DEF Vm!ExecStatement, Abreast, Agreed
  <2> HIDE DEF o, e
  <2>3. Agreed'
    BY <2>1, <2>2 DEF Abreast, Agreed
  <2> QED
    BY <1>1, <2>1, <2>2, <2>3, AbreastAdvanced, AbreastStay
<1> QED
  BY <1>3, <1>4

LEMMA VmJumpReading ==
  ASSUME Abreast
  PROVE  /\ \A arm : Vm!Suppressed(arm) = Suppressed(arm)
         /\ \A op : Vm!DecidingArm(op) = DecidingArm(op) /\ Vm!Evaluated(op) = Evaluated(op)
<1>1. \A arm : Vm!Suppressed(arm) = Suppressed(arm)
  BY DEF Abreast, Agreed, Vm!Suppressed, Suppressed, Vm!JumpTargetVisible, JumpTargetVisible
<1>2. ASSUME NEW op PROVE Vm!DecidingArm(op) = DecidingArm(op)
  <2> DEFINE hits   == {i \in DOMAIN op.arms :
                          Holds(op.arms[i].cond, env) /\ (op.tag = "case" \/ ~Suppressed(op.arms[i]))}
             vmHits == {i \in DOMAIN op.arms :
                          Vm!Holds(op.arms[i].cond, vmEnv) /\ (op.tag = "case" \/ ~Vm!Suppressed(op.arms[i]))}
  <2>1. vmHits = hits
    BY <1>1, VmReading DEF Abreast, Agreed
  <2>2. DecidingArm(op) = IF hits = {} THEN 0 ELSE Min(hits)
    BY DEF DecidingArm
  <2>3. Vm!DecidingArm(op) = IF vmHits = {} THEN 0 ELSE Vm!Min(vmHits)
    BY DEF Vm!DecidingArm
  <2>4. \A S : Vm!Min(S) = Min(S)
    BY DEF Vm!Min, Min
  <2> HIDE DEF hits, vmHits
  <2> QED
    BY <2>1, <2>2, <2>3, <2>4
<1> QED
  BY <1>1, <1>2 DEF Vm!Evaluated, Evaluated

LEMMA AbreastJumps ==
  ASSUME Core, Abreast, Next, Vm!ExecJumps
  PROVE  Abreast'
<1> DEFINE k    == DecidingArm(HereOp)
           lhs  == {HereOp.arms[i].cond.lhs : i \in Evaluated(HereOp)}
           e    == AfterReading({x.var : x \in lhs}, env)
           o    == Emitted(<<StartRow(Here)>> \o CommentAt(Here))
           J    == k # 0 /\ ~Suppressed(HereOp.arms[k])
<1>1. status = "running" /\ AtBlock /\ HereOp.tag \in {"jumps", "case"}
  BY VmCursor DEF Vm!ExecJumps, Vm!AtBlock, Vm!Running, Abreast, Agreed
<1>2. ExecJumps
  BY <1>1, WalkerAtBlock
<1>3. CASE ~(\A x \in lhs : CanRead(x, env))
  <2>1. FailReading(<<>>) /\ env' = env
    BY <1>2, <1>3 DEF ExecJumps
  <2>2. Vm!FailReading(<<>>) /\ vmEnv' = vmEnv
    BY <1>1, <1>3, VmCursor, VmReading, VmJumpReading DEF Vm!ExecJumps, Abreast, Agreed
  <2>3. vmEnv' = env'
    BY <2>1, <2>2 DEF Abreast, Agreed
  <2> QED
    BY <1>1, <2>1, <2>2, <2>3, AbreastFailReading
<1>4. CASE \A x \in lhs : CanRead(x, env)
  <2>1. /\ env' = e /\ out' = o /\ UNCHANGED <<jumpScopes, seen, status>>
        /\ IF J THEN flow' = Jump(HereOp.arms[k]) /\ UNCHANGED stack
           ELSE stack' = Advanced(stack) /\ UNCHANGED flow
    BY <1>2, <1>4 DEF ExecJumps
  <2>2. /\ vmEnv' = e /\ vmOut' = o /\ UNCHANGED <<vmScopes, vmSeen, vmStatus>>
        /\ IF J THEN vmFlow' = Jump(HereOp.arms[k]) /\ UNCHANGED vmStack
           ELSE vmStack' = Advanced(vmStack) /\ UNCHANGED vmFlow
    BY <1>1, <1>4, VmCursor, VmReading, VmNames, VmJumpReading DEF Vm!ExecJumps, Abreast, Agreed
  <2> HIDE DEF o, e, k, J
  <2>3. Agreed'
    BY <2>1, <2>2 DEF Abreast, Agreed
  <2> QED
    BY <1>1, <2>1, <2>2, <2>3, AbreastAdvanced, AbreastStay
<1> QED
  BY <1>3, <1>4

-----------------------------------------------------------------------------
(* Entering bodies.                                                        *)

LEMMA AbreastSkip ==
  ASSUME Core, Abreast, status = "running", NEW calls, Skip(calls), Vm!Skip(calls), vmEnv' = env'
  PROVE  Abreast'
<1>1. Agreed' /\ vmStack' = Advanced(vmStack) /\ stack' = Advanced(stack)
  BY VmCursor, VmNames DEF Skip, Finish, Vm!Skip, Vm!Finish, Abreast, Agreed
<1> QED
  BY <1>1, AbreastAdvanced

LEMMA AbreastEnter ==
  ASSUME Core, Abreast, AtBlock, NEW s \in Bodies(HereOp), NEW c \in Nat, NEW e \in Int, NEW calls,
         Descend(NewFrame(s, HereOp, c, e), calls), Vm!Push(NewFrame(s, HereOp, c, e), calls), vmEnv' = env'
  PROVE  Abreast'
<1> DEFINE f == NewFrame(s, HereOp, c, e)
<1>1. status = "running" /\ s \in Scopes /\ HereOp \in Op /\ stack \in Seq(Frame)
  BY AtBlockFacts DEF Core, Scoped
<1>2. f \in Frame
  BY <1>1, NewFrameType
<1> HIDE DEF f
<1>3. Agreed' /\ vmStack' = Append(vmStack, f) /\ stack' = Append(stack, f)
  BY <1>1, VmCursor, VmNames, VmReading
     DEF Descend, Enter, Vm!Push, Vm!Enter, Abreast, Agreed, f
<1> QED
  BY <1>1, <1>2, <1>3, AheadAppend DEF Abreast

LEMMA AbreastIf ==
  ASSUME Core, Abreast, Next, Vm!EnterIf
  PROVE  Abreast'
<1> DEFINE c == HereOp.cond
<1>1. /\ status = "running" /\ AtBlock /\ HereOp.tag = "if" /\ HereOp.body # NoScope
  BY VmCursor, AtBlockFacts DEF Vm!EnterIf, Vm!AtBlock, Vm!Running, Abreast, Agreed
<1>2. EnterIf
  BY <1>1, WalkerAtBlock
<1>3. CASE ~CanRead(c.lhs, env)
  <2>1. FailReading(<<>>) /\ Vm!FailReading(<<>>) /\ vmEnv' = env'
    BY <1>1, <1>2, <1>3, VmCursor, VmReading DEF EnterIf, Vm!EnterIf, Abreast, Agreed
  <2> QED
    BY <1>1, <2>1, AbreastFailReading
<1>4. CASE CanRead(c.lhs, env)
  <2> DEFINE taken == IF Holds(c, env) THEN HereOp.body ELSE HereOp.alt
  <2>1. /\ env' = AfterReading({c.lhs.var}, env)
        /\ IF taken = NoScope THEN Skip(<<>>) ELSE Descend(NewFrame(taken, HereOp, 0, 0), <<>>)
    BY <1>2, <1>4 DEF EnterIf
  <2>2. /\ vmEnv' = AfterReading({c.lhs.var}, env)
        /\ CASE Holds(c, env) -> Vm!Push(NewFrame(HereOp.body, HereOp, 0, 0), <<>>)
             [] ~Holds(c, env) /\ HereOp.alt # NoScope -> Vm!Push(NewFrame(HereOp.alt, HereOp, 0, 0), <<>>)
             [] OTHER -> Vm!Skip(<<>>)
    BY <1>1, <1>4, VmCursor, VmReading, VmNames DEF Vm!EnterIf, Abreast, Agreed
  <2>3. IF taken = NoScope THEN Vm!Skip(<<>>) ELSE Vm!Push(NewFrame(taken, HereOp, 0, 0), <<>>)
    BY <1>1, <2>2
  <2>4. CASE taken = NoScope
    BY <1>1, <2>1, <2>2, <2>3, <2>4, AbreastSkip
  <2>5. CASE taken # NoScope
    <3>1. taken \in Bodies(HereOp)
      BY <1>1, <2>5 DEF Bodies, Loops
    <3>2. Descend(NewFrame(taken, HereOp, 0, 0), <<>>) /\ Vm!Push(NewFrame(taken, HereOp, 0, 0), <<>>)
      BY <2>1, <2>3, <2>5
    <3>3. vmEnv' = env' /\ 0 \in Nat /\ 0 \in Int
      BY <2>1, <2>2
    <3> HIDE DEF taken
    <3> QED
      BY <1>1, <3>1, <3>2, <3>3, AbreastEnter
  <2> QED
    BY <2>4, <2>5
<1> QED
  BY <1>3, <1>4

LEMMA AbreastWhile ==
  ASSUME Core, Abreast, Next, Limit > 0, Vm!EnterWhile
  PROVE  Abreast'
<1> DEFINE c == HereOp.cond
<1>1. /\ status = "running" /\ AtBlock /\ HereOp.tag = "while"
  BY VmCursor, AtBlockFacts DEF Vm!EnterWhile, Vm!AtBlock, Vm!Running, Abreast, Agreed
<1>2. EnterWhile /\ Limit # 0
  BY <1>1, WalkerAtBlock, LimitAssumption
<1>3. CASE ~CanRead(c.lhs, env)
  <2>1. FailReading(<<>>) /\ Vm!FailReading(<<>>) /\ vmEnv' = env'
    BY <1>1, <1>2, <1>3, VmCursor, VmReading DEF EnterWhile, Vm!EnterWhile, Abreast, Agreed
  <2> QED
    BY <1>1, <2>1, AbreastFailReading
<1>4. CASE CanRead(c.lhs, env)
  <2>1. /\ env' = AfterReading({c.lhs.var}, env)
        /\ IF Holds(c, env) THEN Descend(NewFrame(HereOp.body, HereOp, 1, 0), <<>>) ELSE Skip(<<>>)
    BY <1>2, <1>4 DEF EnterWhile
  <2>2. /\ vmEnv' = AfterReading({c.lhs.var}, env)
        /\ IF Holds(c, env) THEN Vm!Push(NewFrame(HereOp.body, HereOp, 1, 0), <<>>) ELSE Vm!Skip(<<>>)
    BY <1>1, <1>4, VmCursor, VmReading, VmNames DEF Vm!EnterWhile, Abreast, Agreed
  <2>3. HereOp.body \in Bodies(HereOp)
    BY <1>1 DEF Bodies, Loops
  <2> QED
    BY <1>1, <2>1, <2>2, <2>3, AbreastSkip, AbreastEnter
<1> QED
  BY <1>3, <1>4

LEMMA AbreastLoop ==
  ASSUME Core, Abreast, Next, Vm!EnterLoop
  PROVE  Abreast'
<1>1. /\ status = "running" /\ AtBlock /\ HereOp.tag \in {"loop", "repeat"}
  BY VmCursor, AtBlockFacts DEF Vm!EnterLoop, Vm!AtBlock, Vm!Running, Abreast, Agreed
<1>2. EnterLoop
  BY <1>1, WalkerAtBlock
<1>3. /\ Descend(NewFrame(HereOp.body, HereOp, 0, 0), <<>>) /\ vmEnv' = env'
      /\ Vm!Push(NewFrame(HereOp.body, HereOp, 0, 0), <<>>)
  BY <1>1, <1>2, VmCursor, VmNames DEF EnterLoop, Vm!EnterLoop, Abreast, Agreed
<1>4. HereOp.body \in Bodies(HereOp)
  BY <1>1 DEF Bodies, Loops
<1> QED
  BY <1>1, <1>3, <1>4, AbreastEnter

LEMMA AbreastFor ==
  ASSUME Core, Abreast, Next, Alike, prog \in Programs, Vm!EnterFor
  PROVE  Abreast'
<1> DEFINE env1  == AfterReading({HereOp.expr.var}, env)
           env2  == Assigned(HereOp, env1)
           env3  == AfterReading({HereOp.to.var}, env2)
           calls == <<Change(HereOp.var, ValueOf(HereOp.expr, env1))>>
           end   == ValueOf(HereOp.to, env2)
<1>1. /\ status = "running" /\ AtBlock /\ HereOp.tag = "for" /\ HereOp \in Op /\ Here \in Positions(prog)
  BY VmCursor, AtBlockFacts DEF Vm!EnterFor, Vm!AtBlock, Vm!Running, Abreast, Agreed
<1>2. EnterFor /\ HereOp.var \in Vars
  BY <1>1, WalkerAtBlock DEF Alike, HereOp
<1>3. CASE ~CanRead(HereOp.expr, env)
  <2>1. FailReading(<<>>) /\ Vm!FailReading(<<>>) /\ vmEnv' = env'
    BY <1>1, <1>2, <1>3, VmCursor, VmReading DEF EnterFor, Vm!EnterFor, Abreast, Agreed
  <2> QED
    BY <1>1, <2>1, AbreastFailReading
<1>4. CASE CanRead(HereOp.expr, env)
  <2>1. IF ~CanRead(HereOp.to, env2)
        THEN FailReading(calls) /\ env' = env2
        ELSE /\ env' = env3
             /\ IF env2[HereOp.var] <= end THEN Descend(NewFrame(HereOp.body, HereOp, 0, end), calls)
                ELSE Skip(calls)
    BY <1>2, <1>4 DEF EnterFor
  <2>2. IF ~CanRead(HereOp.to, env2)
        THEN Vm!FailReading(calls) /\ vmEnv' = env2
        ELSE /\ vmEnv' = env3
             /\ IF env2[HereOp.var] <= end THEN Vm!Push(NewFrame(HereOp.body, HereOp, 0, end), calls)
                ELSE Vm!Skip(calls)
    BY <1>1, <1>2, <1>4, VmCursor, VmReading, VmNames DEF Vm!EnterFor, Abreast, Agreed
  <2>3. HereOp.body \in Bodies(HereOp)
    BY <1>1 DEF Bodies, Loops
  <2>4. end \in Int
    <3>1. env1 \in Env
      BY Reading DEF Core
    <3> HIDE DEF env1
    <3>2. env2 \in Env
      BY <1>1, <3>1, Assigning
    <3> HIDE DEF env2
    <3> QED
      BY <1>1, <3>2, ValueType, OpFields
  <2> HIDE DEF env1, env2, env3, calls, end
  <2> QED
    BY <1>1, <2>1, <2>2, <2>3, <2>4, AbreastFailReading, AbreastSkip, AbreastEnter
<1> QED
  BY <1>3, <1>4

-----------------------------------------------------------------------------
(* The ends of bodies.                                                     *)

(* No comment waits behind the block that is resumed.                      *)
LEMMA NothingBehind ==
  ASSUME Core, Alike, prog \in Programs, status = "running", Len(stack) # 1
  PROVE  CommentAt(Caller) = <<>>
<1>1. /\ Caller \in Positions(prog) /\ BlockAt(prog, Caller).op = Top.op
      /\ Top.scope \in Bodies(Top.op)
  BY CallerOwns
<1>2. ~BlockAt(prog, Caller).comment
  BY <1>1 DEF Alike
<1> QED
  BY <1>2 DEF CommentAt

LEMMA EmittedNothing ==
  ASSUME Core
  PROVE  Emitted(<<>>) = out /\ \A calls \in Seq(OutputCall) : calls \o <<>> = calls
BY EmptySeq DEF Core, Emitted

LEMMA FrameCountKeeps ==
  ASSUME NEW g \in Frame, NEW c \in Nat
  PROVE  /\ [g EXCEPT !.count = c] \in Frame
         /\ [g EXCEPT !.count = c].scope = g.scope /\ [g EXCEPT !.count = c].op = g.op
         /\ [g EXCEPT !.count = c].index = g.index /\ [g EXCEPT !.count = c].jumps = g.jumps
         /\ [g EXCEPT !.count = c].end = g.end /\ [g EXCEPT !.count = c].count = c
BY DEF Frame

LEMMA AbreastFail ==
  ASSUME Abreast, NEW e, Fail(e), Vm!Fail(e), vmEnv' = env', vmOut' = out'
  PROVE  Abreast'
<1>1. Agreed' /\ vmStack' = vmStack /\ stack' = stack
  BY DEF Fail, Vm!Fail, Abreast, Agreed
<1> QED
  BY <1>1, AbreastStay

LEMMA AbreastReturn ==
  ASSUME Core, Abreast, Alike, prog \in Programs, status = "running", Top.op.tag # "none",
         NEW calls \in Seq(OutputCall), Return(calls), Vm!PopAndGoOn,
         vmOut' = Emitted(calls), vmEnv' = env'
  PROVE  Abreast'
<1>1. Len(stack) # 1 /\ stack \in Seq(Frame) /\ stack # <<>> /\ vmStack # <<>> /\ Len(vmStack) = Len(stack)
  BY CallerFacts, VmCursor, AtCursor DEF Core, Scoped
<1>2. out' = Emitted(calls)
  BY <1>1, NothingBehind, EmittedNothing DEF Return
<1>3. Agreed'
  BY <1>2, VmNames DEF Return, Vm!PopAndGoOn, Vm!PopAndAdvance, Abreast, Agreed
<1>4. stack' = Advanced(Front(stack)) /\ vmStack' = Advanced(Front(vmStack))
  BY <1>1, VmNames DEF Return, Vm!PopAndGoOn, Vm!PopAndAdvance
<1>5. Front(stack) \in Seq(Frame) /\ Front(stack) # <<>>
  <2>1. Len(stack) \in Nat \ {0} /\ Front(stack) \in Seq(Frame) /\ Len(Front(stack)) = Len(stack) - 1
    BY <1>1, FrontProps
  <2>2. Len(Front(stack)) # 0
    BY <1>1, <2>1
  <2> QED
    BY <2>1, <2>2, EmptySeq
<1>6. AheadOf(Front(vmStack), Front(stack))
  BY <1>1, AheadFront DEF Abreast
<1>7. AheadOf(vmStack', stack')
  BY <1>4, <1>5, <1>6, AheadAdvanced
<1> QED
  BY <1>3, <1>7 DEF Abreast

(* Going round, the VM keeps its count of backward jumps; the walker       *)
(* starts a new one.                                                       *)
LEMMA AbreastIterate ==
  ASSUME Core, Abreast, status = "running", NEW c \in Nat, Iterate(c), Vm!Iterate(c),
         vmOut' = out', vmEnv' = env'
  PROVE  Abreast'
<1> DEFINE n  == Len(vmStack)
           f0 == [vmStack[n] EXCEPT !.index = 1]
           f  == [f0 EXCEPT !.count = c]
           g  == NewFrame(Top.scope, Top.op, c, Top.end)
<1>1. /\ stack # <<>> /\ stack \in Seq(Frame) /\ Top \in Frame
      /\ vmStack \in Seq(Frame) /\ vmStack # <<>> /\ Matches(vmStack[n], Top)
  BY AtCursor, VmCursor DEF Core, Scoped, Abreast, AheadOf
<1>2. vmStack[n] \in Frame /\ Top.jumps \in Nat /\ vmStack[n].jumps \in Nat
  BY <1>1, FrameFields DEF Matches
<1>3. /\ f0 \in Frame /\ f0.index = 1 /\ f0.scope = vmStack[n].scope /\ f0.op = vmStack[n].op
      /\ f0.jumps = vmStack[n].jumps /\ f0.end = vmStack[n].end
  <2>1. 1 \in Nat \ {0}
    OBVIOUS
  <2> QED
    BY <1>2, <2>1, FrameIndexKeeps
<1> HIDE DEF f0
<1>4. /\ f \in Frame /\ f.index = 1 /\ f.scope = vmStack[n].scope /\ f.op = vmStack[n].op
      /\ f.jumps = vmStack[n].jumps /\ f.end = vmStack[n].end /\ f.count = c
  BY <1>3, FrameCountKeeps
<1>5. /\ g.scope = Top.scope /\ g.index = 1 /\ g.jumps = 0 /\ g.op = Top.op /\ g.count = c
      /\ g.end = Top.end
  BY DEF NewFrame
<1>6. stack' = [stack EXCEPT ![Len(stack)] = g] /\ vmStack' = [vmStack EXCEPT ![n] = f]
  BY DEF Iterate, Vm!Iterate, f0
<1> HIDE DEF f, g
<1>7. Matches(f, g)
  BY <1>1, <1>2, <1>4, <1>5 DEF Matches
<1>8. AheadOf(vmStack', stack')
  <2>1. AheadOf([vmStack EXCEPT ![n] = f], [stack EXCEPT ![Len(stack)] = g])
    BY <1>1, <1>7, AheadSet DEF Abreast
  <2> QED
    BY <1>6, <2>1
<1>9. Agreed'
  BY DEF Iterate, Vm!Iterate, Abreast, Agreed
<1> QED
  BY <1>8, <1>9 DEF Abreast

LEMMA AbreastEndStraight ==
  ASSUME Core, Abreast, Next, Alike, prog \in Programs, Vm!EndStraight
  PROVE  Abreast'
<1>1. /\ status = "running" /\ AtScopeEnd /\ Vm!Top.op = Top.op /\ Top.op.tag \in {"none", "if"}
      /\ Len(vmStack) = Len(stack) /\ stack # <<>> /\ stack \in Seq(Frame)
  BY VmCursor, AtCursor DEF Vm!EndStraight, Vm!AtScopeEnd, Vm!Running, Abreast, Agreed, Matches, Core, Scoped
<1>2. CASE Top.op.tag = "none"
  <2>1. EndProgramText /\ Len(stack) = 1
    BY <1>1, <1>2, WalkerAtEnd DEF EndProgramText
  <2>2. vmStack' = <<>> /\ stack' = <<>>
    BY <1>1, <2>1 DEF EndProgramText, Vm!EndStraight, Vm!PopAndAdvance
  <2>3. Front(jumpScopes) = <<>>
    <3>1. jumpScopes = [k \in 1..1 |-> ScanTargets(prog, stack[k].scope)]
      BY <1>1, <2>1, LenProperties DEF Core, Scoped
    <3>2. Len(jumpScopes) = 1
      BY <3>1
    <3> QED
      BY <3>2 DEF Front
  <2>4. Agreed'
    BY <1>1, <2>1, <2>3, VmNames DEF EndProgramText, Vm!EndStraight, Vm!PopAndAdvance, Abreast, Agreed
  <2>5. AheadOf(<<>>, <<>>)
    BY EmptySeq DEF AheadOf
  <2> QED
    BY <2>2, <2>4, <2>5 DEF Abreast
<1>3. CASE Top.op.tag = "if"
  <2>1. Return(<<>>) /\ env' = env
    BY <1>1, <1>3, WalkerAtEnd DEF EndIf
  <2>2. Len(vmStack) # 1
    BY <1>1, <1>3, CallerFacts
  <2>3. Vm!PopAndGoOn /\ vmEnv' = env'
    BY <2>1, <2>2 DEF Vm!EndStraight, Vm!PopAndGoOn, Abreast, Agreed
  <2>4. vmOut' = Emitted(<<>>) /\ <<>> \in Seq(OutputCall)
    BY EmittedNothing, EmptySeq DEF Vm!EndStraight, Abreast, Agreed
  <2> QED
    BY <1>1, <1>3, <2>1, <2>3, <2>4, AbreastReturn
<1> QED
  BY <1>1, <1>2, <1>3

(* The frames of the two have the same operation and the same count of     *)
(* iterations.                                                             *)
LEMMA VmLoop ==
  ASSUME Core, Abreast, status = "running"
  PROVE  /\ Vm!Top.op = Top.op /\ Vm!Top.count = Top.count /\ Vm!Top.end = Top.end
         /\ Top.count \in Nat /\ Vm!AtScopeEnd = AtScopeEnd
         /\ <<>> \in Seq(OutputCall) /\ vmOut = Emitted(<<>>)
BY VmCursor, AtCursor, FrameFields, EmptySeq, EmittedNothing DEF Matches, Abreast, Agreed

LEMMA AbreastEndWhile ==
  ASSUME Core, Abreast, Next, Alike, prog \in Programs, Vm!EndWhile
  PROVE  Abreast'
<1> DEFINE c == Top.count
<1>1. status = "running"
  BY DEF Vm!EndWhile, Vm!AtScopeEnd, Vm!Running, Abreast, Agreed
<1>2. /\ AtScopeEnd /\ Top.op.tag = "while" /\ c \in Nat /\ Limit \in Nat
      /\ <<>> \in Seq(OutputCall) /\ vmOut = Emitted(<<>>)
  BY <1>1, VmLoop, LimitAssumption DEF Vm!EndWhile
<1>3. /\ CASE c >= Limit -> Fail("LoopLimit") /\ UNCHANGED out
           [] c < Limit /\ Holds(Top.op.cond, env) -> Iterate(c + 1) /\ UNCHANGED out
           [] OTHER -> Return(<<>>)
      /\ UNCHANGED env
  BY <1>2, WalkerAtEnd DEF EndWhile
<1>4. /\ CASE c < Limit /\ Holds(Top.op.cond, env) -> Vm!Iterate(c + 1)
           [] c >= Limit -> Vm!Fail("LoopLimit")
           [] OTHER -> Vm!PopAndGoOn
      /\ UNCHANGED <<vmEnv, vmOut>>
  BY <1>1, VmLoop, VmReading DEF Vm!EndWhile, Abreast, Agreed
<1>5. vmEnv' = env' /\ vmOut = out /\ vmOut' = out /\ vmOut' = Emitted(<<>>)
  BY <1>2, <1>3, <1>4 DEF Abreast, Agreed
<1>6. CASE c >= Limit
  BY <1>2, <1>3, <1>4, <1>5, <1>6, AbreastFail
<1>7. CASE c < Limit /\ Holds(Top.op.cond, env)
  <2>1. Iterate(c + 1) /\ Vm!Iterate(c + 1) /\ out' = out /\ c + 1 \in Nat
    BY <1>2, <1>3, <1>4, <1>7
  <2> QED
    BY <1>1, <1>5, <2>1, AbreastIterate
<1>8. CASE c < Limit /\ ~Holds(Top.op.cond, env)
  <2>1. Return(<<>>) /\ Vm!PopAndGoOn /\ Top.op.tag # "none"
    BY <1>2, <1>3, <1>4, <1>8
  <2> QED
    BY <1>1, <1>2, <1>5, <2>1, AbreastReturn
<1> QED
  BY <1>2, <1>6, <1>7, <1>8

LEMMA AbreastEndLoop ==
  ASSUME Core, Abreast, Next, Vm!EndLoop
  PROVE  Abreast'
<1> DEFINE c == Top.count + 1
<1>1. status = "running"
  BY DEF Vm!EndLoop, Vm!AtScopeEnd, Vm!Running, Abreast, Agreed
<1>2. AtScopeEnd /\ Top.op.tag = "loop" /\ c \in Nat
  <2>1. AtScopeEnd /\ Top.op.tag = "loop" /\ Top.count \in Nat
    BY <1>1, VmLoop DEF Vm!EndLoop
  <2> QED
    BY <2>1
<1>3. (IF c >= Limit THEN Fail("LoopLimit") ELSE Iterate(c)) /\ UNCHANGED <<env, out>>
  BY <1>2, WalkerAtEnd DEF EndLoop
<1>4. (IF c >= Limit THEN Vm!Fail("LoopLimit") ELSE Vm!Iterate(c)) /\ UNCHANGED <<vmEnv, vmOut>>
  BY <1>1, VmLoop DEF Vm!EndLoop
<1>5. vmEnv' = env' /\ vmOut' = out'
  BY <1>3, <1>4 DEF Abreast, Agreed
<1> QED
  BY <1>1, <1>2, <1>3, <1>4, <1>5, AbreastFail, AbreastIterate

LEMMA AbreastEndRepeat ==
  ASSUME Core, Abreast, Next, Alike, prog \in Programs, Vm!EndRepeat
  PROVE  Abreast'
<1> DEFINE c == Top.count + 1
<1>1. status = "running"
  BY DEF Vm!EndRepeat, Vm!AtScopeEnd, Vm!Running, Abreast, Agreed
<1>2. /\ AtScopeEnd /\ Top.op.tag = "repeat" /\ c \in Nat /\ Limit \in Nat
      /\ <<>> \in Seq(OutputCall) /\ vmOut = Emitted(<<>>)
  <2>1. AtScopeEnd /\ Top.op.tag = "repeat" /\ Top.count \in Nat
    BY <1>1, VmLoop DEF Vm!EndRepeat
  <2> QED
    BY <1>1, <2>1, VmLoop, LimitAssumption
<1>3. \/ c >= Limit /\ Fail("LoopLimit") /\ UNCHANGED <<env, out>>
      \/ c < Limit /\ ~CanRead(Top.op.cond.lhs, env) /\ Fail("Undefined") /\ UNCHANGED <<env, out>>
      \/ /\ c < Limit /\ CanRead(Top.op.cond.lhs, env)
         /\ env' = AfterReading({Top.op.cond.lhs.var}, env)
         /\ IF Holds(Top.op.cond, env) THEN Return(<<>>) ELSE Iterate(c) /\ UNCHANGED out
  BY <1>2, WalkerAtEnd DEF EndRepeat
<1>4. /\ CASE c >= Limit -> Vm!Fail("LoopLimit") /\ UNCHANGED vmEnv
           [] c < Limit /\ ~CanRead(Top.op.cond.lhs, env) -> Vm!Fail("Undefined") /\ UNCHANGED vmEnv
           [] OTHER -> /\ vmEnv' = AfterReading({Top.op.cond.lhs.var}, env)
                       /\ IF Holds(Top.op.cond, env) THEN Vm!PopAndGoOn ELSE Vm!Iterate(c)
      /\ UNCHANGED vmOut
  BY <1>1, VmLoop, VmReading DEF Vm!EndRepeat, Abreast, Agreed
<1>5. vmEnv = env /\ vmOut = out /\ vmOut' = out /\ vmOut' = Emitted(<<>>)
  BY <1>2, <1>4 DEF Abreast, Agreed
<1>6. CASE c >= Limit
  BY <1>2, <1>3, <1>4, <1>5, <1>6, AbreastFail
<1>7. CASE c < Limit /\ ~CanRead(Top.op.cond.lhs, env)
  BY <1>2, <1>3, <1>4, <1>5, <1>7, AbreastFail
<1>8. CASE c < Limit /\ CanRead(Top.op.cond.lhs, env)
  <2>1. vmEnv' = env' /\ Top.op.tag # "none"
    BY <1>2, <1>3, <1>4, <1>8
  <2>2. CASE Holds(Top.op.cond, env)
    <3>1. Return(<<>>) /\ Vm!PopAndGoOn
      BY <1>2, <1>3, <1>4, <1>8, <2>2
    <3> QED
      BY <1>1, <1>2, <1>5, <2>1, <3>1, AbreastReturn
  <2>3. CASE ~Holds(Top.op.cond, env)
    <3>1. Iterate(c) /\ Vm!Iterate(c) /\ out' = out
      BY <1>2, <1>3, <1>4, <1>8, <2>3
    <3> QED
      BY <1>1, <1>2, <1>5, <2>1, <3>1, AbreastIterate
  <2> QED
    BY <2>2, <2>3
<1> QED
  BY <1>2, <1>6, <1>7, <1>8

LEMMA AbreastEndFor ==
  ASSUME Core, Abreast, Next, Alike, prog \in Programs, Vm!EndFor
  PROVE  Abreast'
<1> DEFINE v    == Top.op.var
           x    == env[v] + 1
           call == <<Change(v, x)>>
<1>1. status = "running"
  BY DEF Vm!EndFor, Vm!AtScopeEnd, Vm!Running, Abreast, Agreed
<1>2. AtScopeEnd /\ Top.op.tag = "for" /\ Top.count \in Nat /\ Top.end \in Int
  BY <1>1, VmLoop, AtCursor, FrameFields DEF Vm!EndFor
<1>3. v \in Vars /\ env[v] \in Int
  <2>1. Len(stack) \in DOMAIN stack /\ Top = stack[Len(stack)]
    BY <1>1, AtCursor, LenProperties, EmptySeq DEF Core, Scoped
  <2> QED
    BY <1>2, <2>1 DEF Core, Counting
<1>4. /\ env' = [env EXCEPT ![v] = x]
      /\ IF x > Top.end THEN Return(call) ELSE Iterate(Top.count) /\ out' = Emitted(call)
  BY <1>2, WalkerAtEnd DEF EndFor
<1>5. /\ vmEnv' = [env EXCEPT ![v] = x] /\ vmOut' = Emitted(call)
      /\ IF x <= Top.end THEN Vm!Iterate(Top.count) ELSE Vm!PopAndGoOn
  BY <1>1, VmLoop, VmCursor, VmNames DEF Vm!EndFor, Abreast, Agreed
<1>6. call \in Seq(OutputCall)
  BY <1>3, ValueCalls
<1>7. x \in Int
  BY <1>3
<1> HIDE DEF call, x
<1>8. CASE x > Top.end
  <2>1. Return(call) /\ Vm!PopAndGoOn /\ Top.op.tag # "none"
    BY <1>2, <1>4, <1>5, <1>7, <1>8
  <2> QED
    BY <1>1, <1>4, <1>5, <1>6, <2>1, AbreastReturn
<1>9. CASE x <= Top.end
  <2>1. Iterate(Top.count) /\ Vm!Iterate(Top.count) /\ out' = Emitted(call)
    BY <1>2, <1>4, <1>5, <1>7, <1>9
  <2> QED
    BY <1>1, <1>2, <1>4, <1>5, <2>1, AbreastIterate
<1> QED
  BY <1>2, <1>7, <1>8, <1>9

-----------------------------------------------------------------------------
(* Jumps and the end of the program.                                       *)

LEMMA VmLanding ==
  ASSUME Core, Abreast, status = "running"
  PROVE  Vm!Destination = Destination /\ Vm!JumpFailure = JumpFailure
<1>1. \A p, s, i, arm : Vm!ResolveJump(p, s, i, arm) = ResolveJump(p, s, i, arm)
  BY DEF Vm!ResolveJump, ResolveJump, Vm!Targets, Targets, Vm!Min, Min, Vm!Max, Max
<1>2. Vm!Top.scope = Top.scope /\ Vm!Top.index = Top.index
  BY VmCursor DEF Matches
<1> QED
  BY <1>1, <1>2 DEF Vm!Destination, Destination, Vm!JumpFailure, JumpFailure, Abreast, Agreed

LEMMA FrameJumpsKeeps ==
  ASSUME NEW g \in Frame, NEW j \in Nat
  PROVE  /\ [g EXCEPT !.jumps = j] \in Frame
         /\ [g EXCEPT !.jumps = j].scope = g.scope /\ [g EXCEPT !.jumps = j].op = g.op
         /\ [g EXCEPT !.jumps = j].index = g.index /\ [g EXCEPT !.jumps = j].jumps = j
         /\ [g EXCEPT !.jumps = j].count = g.count /\ [g EXCEPT !.jumps = j].end = g.end
BY DEF Frame

(* The limit may stop the VM at a jump that the walker still takes.        *)
LEMMA AbreastJump ==
  ASSUME Core, Abreast, Next, Vm!TakeJump
  PROVE  Abreast' \/ (vmStatus' = "LoopLimit" /\ vmOut' = out')
<1> DEFINE n  == Len(vmStack)
           d  == Destination
           jw == IF d <= Top.index THEN Top.jumps + 1 ELSE Top.jumps
           jv == IF d <= Top.index THEN vmStack[n].jumps + 1 ELSE vmStack[n].jumps
           f0 == [vmStack[n] EXCEPT !.index = d]
           g0 == [Top EXCEPT !.index = d]
           f  == [f0 EXCEPT !.jumps = jv]
           g  == [g0 EXCEPT !.jumps = jw]
<1>1. status = "running" /\ flow.tag = "jump" /\ d # 0
  BY VmLanding DEF Vm!TakeJump, Abreast, Agreed
<1>2. TakeJump
  BY <1>1, WalkerUnwinding
<1>3. /\ stack # <<>> /\ stack \in Seq(Frame) /\ Top \in Frame /\ Top = stack[Len(stack)]
      /\ vmStack \in Seq(Frame) /\ vmStack # <<>> /\ Matches(vmStack[n], Top)
      /\ Vm!Top = vmStack[n] /\ Len(stack) = n
  BY <1>1, AtCursor, VmCursor DEF Core, Scoped, Abreast, AheadOf
<1>4. /\ Top.jumps \in Nat /\ vmStack[n].jumps \in Nat /\ Top.jumps <= vmStack[n].jumps
      /\ vmStack[n] \in Frame /\ vmStack[n].index = Top.index /\ Top.index \in Nat
  BY <1>3, FrameFields DEF Matches
<1>5. d \in Nat \ {0}
  <2>1. flow.arm \in Arm /\ Top.scope \in Scopes /\ prog \in [Scopes -> Seq(Block)]
    BY <1>1, AtCursor DEF Core, Flow, IsProgram
  <2>2. d = 0 \/ d \in 1..Len(prog[Top.scope])
    BY <1>4, <2>1, ResolveJumpProps DEF Destination, Core
  <2>3. Len(prog[Top.scope]) \in Nat
    BY <2>1, LenProperties
  <2> QED
    BY <1>1, <2>2, <2>3
<1>6. IF d <= Top.index /\ jw >= Limit THEN Fail("LoopLimit")
      ELSE stack' = TopAt(d, jw) /\ flow' = Continue /\ UNCHANGED <<prog, jumpScopes, seen, status>>
  BY <1>2 DEF TakeJump
<1>7. UNCHANGED <<env, out, vmEnv, vmOut>>
  BY <1>2 DEF TakeJump, Vm!TakeJump
<1>8. IF d <= Top.index /\ jv >= Limit THEN Vm!Fail("LoopLimit")
      ELSE /\ vmStack' = Vm!TopAt(d, jv) /\ vmFlow' = Continue
           /\ UNCHANGED <<prog, vmScopes, vmSeen, vmStatus>>
  <2>1. Vm!Destination = d /\ Vm!Top.index = Top.index
    BY <1>1, <1>3, <1>4, VmLanding
  <2> QED
    BY <1>3, <2>1, VmNames DEF Vm!TakeJump
<1>9. CASE d <= Top.index /\ jv >= Limit
  <2>1. vmStatus' = "LoopLimit" /\ vmOut' = out'
    BY <1>7, <1>8, <1>9 DEF Vm!Fail, Abreast, Agreed
  <2> QED
    BY <2>1
<1>10. CASE ~(d <= Top.index /\ jv >= Limit)
  <2>1. jw \in Nat /\ jv \in Nat /\ jw <= jv
    BY <1>4, <1>5
  <2>2. ~(d <= Top.index /\ jw >= Limit)
    BY <1>10, <2>1, LimitAssumption
  <2> HIDE DEF jw, jv, d
  <2>3. stack' = [stack EXCEPT ![Len(stack)] = g] /\ vmStack' = [vmStack EXCEPT ![n] = f]
    BY <1>3, <1>6, <1>8, <1>10, <2>2 DEF TopAt, Vm!TopAt
  <2>4. /\ g0 \in Frame /\ g0.index = d /\ g0.scope = Top.scope /\ g0.op = Top.op
        /\ g0.count = Top.count /\ g0.end = Top.end
        /\ f0 \in Frame /\ f0.index = d /\ f0.scope = vmStack[n].scope /\ f0.op = vmStack[n].op
        /\ f0.count = vmStack[n].count /\ f0.end = vmStack[n].end
    BY <1>3, <1>4, <1>5, FrameIndexKeeps
  <2> HIDE DEF f0, g0
  <2>5. /\ g.index = d /\ g.jumps = jw /\ g.scope = Top.scope /\ g.op = Top.op
        /\ g.count = Top.count /\ g.end = Top.end
        /\ f \in Frame /\ f.index = d /\ f.jumps = jv /\ f.scope = vmStack[n].scope
        /\ f.op = vmStack[n].op /\ f.count = vmStack[n].count /\ f.end = vmStack[n].end
    BY <2>1, <2>4, FrameJumpsKeeps
  <2> HIDE DEF f, g
  <2>6. Matches(f, g)
    BY <1>3, <2>1, <2>5 DEF Matches
  <2>7. AheadOf([vmStack EXCEPT ![n] = f], [stack EXCEPT ![Len(stack)] = g])
    BY <1>3, <2>6, AheadSet DEF Abreast
  <2>8. Agreed'
    BY <1>6, <1>7, <1>8, <1>10, <2>2 DEF Abreast, Agreed
  <2> QED
    BY <2>3, <2>7, <2>8 DEF Abreast
<1> QED
  BY <1>9, <1>10

LEMMA AbreastUnwind ==
  ASSUME Core, Abreast, Alike, prog \in Programs, status = "running",
         NEW ending, LeaveScope(ending), Vm!PopFrame(ending)
  PROVE  Abreast'
<1>1. stack \in Seq(Frame) /\ stack # <<>> /\ Len(vmStack) = Len(stack)
  BY VmCursor, AtCursor DEF Core, Scoped
<1>2. out' = out
  BY NothingBehind, EmittedNothing DEF LeaveScope
<1>3. Agreed'
  BY <1>1, <1>2, VmNames DEF LeaveScope, Vm!PopFrame, Abreast, Agreed
<1>4. stack' = Front(stack) /\ vmStack' = Front(vmStack)
  BY VmNames DEF LeaveScope, Vm!PopFrame
<1>5. AheadOf(vmStack', stack')
  BY <1>1, <1>4, AheadFront DEF Abreast
<1> QED
  BY <1>3, <1>5 DEF Abreast

LEMMA AbreastUnwinding ==
  ASSUME Core, Abreast, Next, Alike, prog \in Programs, Vm!Propagate \/ Vm!PopAll
  PROVE  Abreast'
<1>1. status = "running" /\ flow.tag \in {"jump", "end"}
  BY DEF Vm!Propagate, Vm!PopAll, Abreast, Agreed
<1>2. CASE Vm!Propagate
  <2>1. Propagate /\ Vm!PopFrame(JumpFailure)
    BY <1>1, <1>2, VmLanding, WalkerUnwinding DEF Vm!Propagate, Abreast, Agreed
  <2> QED
    BY <1>1, <2>1, AbreastUnwind DEF Propagate
<1>3. CASE Vm!PopAll
  <2>1. UnwindEnd /\ Vm!PopFrame("done")
    BY <1>1, <1>3, WalkerUnwinding DEF Vm!PopAll, Abreast, Agreed
  <2> QED
    BY <1>1, <2>1, AbreastUnwind DEF UnwindEnd
<1> QED
  BY <1>2, <1>3

(* A step of both keeps them abreast, unless the limit stops the VM.       *)
LEMMA AbreastStep ==
  ASSUME Core, Abreast, Alike, prog \in Programs, Next, Vm!Next
  PROVE  Abreast' \/ (vmStatus' = "LoopLimit" /\ vmOut' = out')
<1>1. CASE Vm!ExecLeaf
  BY <1>1, AbreastPlain, AbreastStatement, AbreastJumps DEF Vm!ExecLeaf
<1>2. CASE Vm!EnterBody
  <2>1. Limit > 0
    BY DEF Alike
  <2> QED
    BY <1>2, <2>1, AbreastIf, AbreastWhile, AbreastLoop, AbreastFor DEF Vm!EnterBody
<1>3. CASE Vm!ScopeEnd
  BY <1>3, AbreastEndStraight, AbreastEndWhile, AbreastEndLoop, AbreastEndRepeat, AbreastEndFor
     DEF Vm!ScopeEnd
<1>4. CASE Vm!TakeJump
  BY <1>4, AbreastJump
<1>5. CASE Vm!Propagate \/ Vm!PopAll
  BY <1>5, AbreastUnwinding
<1> QED
  BY <1>1, <1>2, <1>3, <1>4, <1>5 DEF Vm!Next

-----------------------------------------------------------------------------
(* The walker going on alone: its output only grows.                       *)

LEMMA PrefixElements ==
  ASSUME NEW S, NEW s \in Seq(S), NEW t \in Seq(S)
  PROVE  IsPrefix(s, t) <=> Len(s) <= Len(t) /\ \A i \in 1..Len(s) : s[i] = t[i]
<1>1. Len(s) \in Nat /\ Len(t) \in Nat
  BY LenProperties
<1>2. SubSeq(s, 1, Len(s)) = [i \in 1..Len(s) |-> s[i]]
  BY <1>1
<1>3. Len(s) <= Len(t) => SubSeq(t, 1, Len(s)) = [i \in 1..Len(s) |-> t[i]]
  BY <1>1
<1> QED
  BY <1>1, <1>2, <1>3 DEF IsPrefix

LEMMA PrefixChain ==
  ASSUME NEW S, NEW s \in Seq(S), NEW t \in Seq(S), NEW u \in Seq(S), IsPrefix(s, t), IsPrefix(t, u)
  PROVE  IsPrefix(s, u)
<1>1. Len(s) \in Nat /\ Len(t) \in Nat /\ Len(u) \in Nat
  BY LenProperties
<1>2. Len(s) <= Len(t) /\ \A i \in 1..Len(s) : s[i] = t[i]
  BY PrefixElements
<1>3. Len(t) <= Len(u) /\ \A i \in 1..Len(t) : t[i] = u[i]
  BY PrefixElements
<1>4. Len(s) <= Len(u) /\ \A i \in 1..Len(s) : s[i] = u[i]
  BY <1>1, <1>2, <1>3
<1> QED
  BY <1>4, PrefixElements

Grown == out \in Seq(OutputCall) /\ out' \in Seq(OutputCall) /\ IsPrefix(out, out')

LEMMA GrownBy ==
  ASSUME out \in Seq(OutputCall), NEW calls \in Seq(OutputCall), out' = out \/ out' = Emitted(calls)
  PROVE  Grown
<1>1. CASE out' = out
  BY <1>1, LenProperties, PrefixElements DEF Grown
<1>2. CASE out' = out \o calls
  <2>1. /\ out' \in Seq(OutputCall) /\ Len(out) <= Len(out')
        /\ \A i \in 1..Len(out) : out'[i] = out[i]
    BY <1>2, ConcatProperties, LenProperties
  <2> QED
    BY <2>1, PrefixElements DEF Grown
<1> QED
  BY <1>1, <1>2 DEF Emitted

LEMMA GrownRow ==
  ASSUME Core, status = "running", NEW calls \in Seq(OutputCall),
         \/ out' = Emitted(<<StartRow(Here)>>)
         \/ out' = Emitted(<<StartRow(Here)>> \o calls)
         \/ out' = Emitted(<<StartRow(Here)>> \o CommentAt(Here))
         \/ out' = Emitted(<<StartRow(Here)>> \o calls \o CommentAt(Here))
  PROVE  Grown
<1>1. /\ <<StartRow(Here)>> \in Seq(OutputCall) /\ CommentAt(Here) \in Seq(OutputCall)
      /\ out \in Seq(OutputCall)
  BY AtCursor, LineCalls DEF Core
<1>2. /\ <<StartRow(Here)>> \o calls \in Seq(OutputCall)
      /\ <<StartRow(Here)>> \o CommentAt(Here) \in Seq(OutputCall)
      /\ (<<StartRow(Here)>> \o calls) \o CommentAt(Here) \in Seq(OutputCall)
  BY <1>1, ConcatProperties
<1> QED
  BY <1>1, <1>2, GrownBy

LEMMA GrownQuietly ==
  ASSUME Core, out' = out
  PROVE  Grown
BY EmptySeq, GrownBy DEF Core

LEMMA GrownReturn ==
  ASSUME Core, status = "running", Top.op.tag # "none", NEW calls \in Seq(OutputCall), Return(calls)
  PROVE  Grown
<1>1. CommentAt(Caller) \in Seq(OutputCall)
  BY CallerFacts, LineCalls
<1>2. calls \o CommentAt(Caller) \in Seq(OutputCall)
  BY <1>1, ConcatProperties
<1> QED
  BY <1>2, GrownBy DEF Return, Core

LEMMA LeafGrown ==
  ASSUME Core, ExecLeaf
  PROVE  Grown
<1>1. status = "running" /\ AtBlock /\ HereOp \in Op
  BY AtBlockFacts DEF ExecLeaf, ExecPlain, ExecStatement, ExecJumps
<1>2. CASE ExecPlain \/ ExecJumps
  <2>1. <<>> \in Seq(OutputCall)
    BY EmptySeq
  <2> QED
    BY <1>1, <1>2, <2>1, GrownRow DEF ExecPlain, Finish, ExecJumps, FailReading
<1>3. CASE ExecStatement
  <2> DEFINE env1  == AfterReading({HereOp.expr.var}, env)
             calls == AssignmentCalls(HereOp, env1)
  <2>1. \/ out' = Emitted(<<StartRow(Here)>> \o <<>>)
        \/ out' = Emitted(<<StartRow(Here)>> \o calls \o CommentAt(Here))
    BY <1>3 DEF ExecStatement, FailReading
  <2>2. calls \in Seq(OutputCall)
    <3>1. env1 \in Env
      BY Reading DEF Core
    <3> HIDE DEF env1
    <3>2. ValueOf(HereOp.expr, env1) \in Int
      BY <1>1, <3>1, ValueType, OpFields
    <3>3. HereOp.var \in Vars \cup Axes \cup {NoVar}
      BY <1>1, OpFields
    <3>4. CASE HereOp.var \in Vars
      <4>1. calls = <<Change(HereOp.var, ValueOf(HereOp.expr, env1))>>
        BY <3>4, ProgramsAssumption DEF AssignmentCalls
      <4> QED
        BY <3>2, <3>4, <4>1, ValueCalls
    <3>5. CASE HereOp.var \notin Vars /\ HereOp.var \in Axes
      <4>1. calls = <<Cell(HereOp.var, ValueOf(HereOp.expr, env1))>>
        BY <3>5 DEF AssignmentCalls
      <4> QED
        BY <3>2, <3>5, <4>1, ValueCalls
    <3>6. CASE HereOp.var \notin Vars /\ HereOp.var \notin Axes
      BY <3>6, EmptySeq DEF AssignmentCalls
    <3> QED
      BY <3>4, <3>5, <3>6
  <2> HIDE DEF calls
  <2> QED
    BY <1>1, <2>1, <2>2, EmptySeq, GrownRow
<1> QED
  BY <1>2, <1>3 DEF ExecLeaf

LEMMA ForGrown ==
  ASSUME Core, EnterFor
  PROVE  Grown
<1> DEFINE env1  == AfterReading({HereOp.expr.var}, env)
           calls == <<Change(HereOp.var, ValueOf(HereOp.expr, env1))>>
<1>1. status = "running" /\ HereOp \in Op /\ HereOp.var \in Vars \cup Axes
  BY AtBlockFacts DEF EnterFor
<1>2. \/ out' = Emitted(<<StartRow(Here)>> \o <<>>)
      \/ out' = Emitted(<<StartRow(Here)>> \o calls)
      \/ out' = Emitted(<<StartRow(Here)>> \o calls \o CommentAt(Here))
  BY DEF EnterFor, FailReading, Skip, Finish, Descend
<1>3. calls \in Seq(OutputCall)
  <2>1. env1 \in Env
    BY Reading DEF Core
  <2> HIDE DEF env1
  <2>2. ValueOf(HereOp.expr, env1) \in Int
    BY <1>1, <2>1, ValueType, OpFields
  <2> QED
    BY <1>1, <2>2, ValueCalls
<1> HIDE DEF calls
<1> QED
  BY <1>1, <1>2, <1>3, EmptySeq, GrownRow

LEMMA EnterGrown ==
  ASSUME Core, EnterIf \/ EnterWhile \/ EnterLoop
  PROVE  Grown
<1>1. status = "running" /\ <<>> \in Seq(OutputCall)
  BY AtBlockFacts, EmptySeq DEF EnterIf, EnterWhile, EnterLoop
<1>2. FailReading(<<>>) \/ Skip(<<>>) \/ (\E f : Descend(f, <<>>)) \/ out' = Emitted(<<StartRow(Here)>>)
  BY DEF EnterIf, EnterWhile, EnterLoop
<1>3. \/ out' = Emitted(<<StartRow(Here)>>)
      \/ out' = Emitted(<<StartRow(Here)>> \o <<>>)
      \/ out' = Emitted(<<StartRow(Here)>> \o <<>> \o CommentAt(Here))
  BY <1>2 DEF FailReading, Skip, Finish, Descend
<1> QED
  BY <1>1, <1>3, GrownRow

LEMMA EndGrown ==
  ASSUME Core, EndOfBody
  PROVE  Grown
<1>1. status = "running" /\ Top.op.tag # "none" /\ <<>> \in Seq(OutputCall)
  BY EmptySeq DEF EndOfBody, EndIf, EndWhile, EndLoop, EndRepeat, EndFor, AtScopeEnd, Running
<1>2. CASE EndIf \/ EndWhile \/ EndLoop \/ EndRepeat
  <2>1. Return(<<>>) \/ out' = out
    BY <1>2 DEF EndIf, EndWhile, EndLoop, EndRepeat
  <2> QED
    BY <1>1, <2>1, GrownReturn, GrownQuietly
<1>3. CASE EndFor
  <2> DEFINE v == Top.op.var
             x == env[v] + 1
  <2>1. v \in Vars /\ env[v] \in Int
    <3>1. Len(stack) \in DOMAIN stack /\ Top = stack[Len(stack)] /\ Top.op.tag = "for"
      BY <1>1, <1>3, AtCursor, LenProperties, EmptySeq DEF EndFor, Core, Scoped
    <3> QED
      BY <3>1 DEF Core, Counting
  <2>2. Return(<<Change(v, x)>>) \/ out' = Emitted(<<Change(v, x)>>)
    BY <1>3 DEF EndFor
  <2>3. x \in Int
    BY <2>1
  <2> HIDE DEF v, x
  <2>4. <<Change(v, x)>> \in Seq(OutputCall)
    BY <2>1, <2>3, ValueCalls
  <2> QED
    BY <1>1, <2>2, <2>4, GrownReturn, GrownBy DEF Core
<1> QED
  BY <1>2, <1>3 DEF EndOfBody

LEMMA UnwindingGrown ==
  ASSUME Core, Propagate \/ UnwindEnd
  PROVE  Grown
<1>1. status = "running"
  BY DEF Propagate, UnwindEnd
<1>2. out' = out \/ (Len(stack) # 1 /\ out' = Emitted(CommentAt(Caller)))
  BY DEF Propagate, UnwindEnd, LeaveScope
<1>3. Len(stack) # 1 => CommentAt(Caller) \in Seq(OutputCall)
  BY <1>1, CallerAbove, LineCalls
<1> QED
  BY <1>2, <1>3, GrownBy, GrownQuietly DEF Core

LEMMA NextGrown == Core /\ Next => Grown
BY LeafGrown, EnterGrown, ForGrown, EndGrown, UnwindingGrown, GrownQuietly
   DEF Next, EnterBody, EndProgramText, TakeJump

-----------------------------------------------------------------------------
(* Both, with the pauses of the VM.                                        *)

LEMMA InitInStep == ParityInit => InStep
<1> SUFFICES ASSUME ParityInit PROVE InStep
  OBVIOUS
<1> DEFINE f == NewFrame(Root, Nop, 0, 0)
<1>1. Core /\ prog \in Programs /\ saved = <<>>
  BY InitCore DEF ParityInit, Init
<1>2. Vm!NewFrame(Root, Vm!Nop, 0, 0) = f
  BY VmNames DEF Vm!Nop, Nop, Vm!NoExpr, NoExpr, Vm!Always, Always
<1> HIDE DEF f
<1>3. vmStack = <<f>> /\ stack = <<f>>
  BY <1>2 DEF ParityInit, Init, Vm!Init, f
<1>4. Agreed
  BY VmNames, VmReading DEF ParityInit, Init, Vm!Init, Agreed
<1>5. Matches(f, f) /\ f \in Frame
  <2>1. f \in Frame
    <3>1. stack \in Seq(Frame) /\ stack # <<>>
      BY <1>1, <1>3 DEF Core, Scoped
    <3> QED
      BY <1>3, <3>1, ElementOfSeq
  <2> QED
    BY <2>1, FrameFields DEF Matches
<1>6. AheadOf(<<f>>, <<f>>)
  BY <1>5 DEF AheadOf
<1> QED
  BY <1>1, <1>3, <1>4, <1>6 DEF InStep, Abreast

LEMMA RunKeeps ==
  ASSUME InStep, Alike, Run
  PROVE  InStep'
<1>1. Core /\ prog \in Programs /\ saved = <<>> /\ prog' = prog
  BY DEF InStep, Run
<1>2. Core'
  <2>1. [Next]_vars
    BY <1>1 DEF Run, WalkerStep, walkerVars, vars
  <2> QED
    BY <1>1, <2>1, NextCore
<1>3. Abreast' \/ StoppedEarly'
  <2>1. CASE Abreast /\ status = "running"
    <3>1. Next /\ Vm!Next
      BY <2>1 DEF Run, WalkerStep, VmStep, Abreast, Agreed
    <3>2. Abreast' \/ (vmStatus' = "LoopLimit" /\ vmOut' = out')
      BY <1>1, <2>1, <3>1, AbreastStep
    <3>3. out' \in Seq(OutputCall) /\ IsPrefix(out', out')
      <4>1. out' \in Seq(OutputCall)
        BY <1>2 DEF Core
      <4> QED
        BY <4>1, PrefixElements, LenProperties
    <3> QED
      BY <3>2, <3>3 DEF StoppedEarly
  <2>2. CASE Abreast /\ status # "running"
    <3>1. UNCHANGED <<walkerVars, vmVars>>
      BY <2>2 DEF Run, WalkerStep, VmStep, Abreast, Agreed
    <3> QED
      BY <2>2, <3>1 DEF Abreast, AheadOf, Agreed, walkerVars, vmVars
  <2>3. CASE StoppedEarly
    <3>1. vmStatus' = "LoopLimit" /\ vmOut' = vmOut
      BY <2>3 DEF StoppedEarly, Run, VmStep, vmVars
    <3>2. Grown
      <4>1. CASE status = "running"
        BY <1>1, <4>1, NextGrown DEF Run, WalkerStep
      <4>2. CASE status # "running"
        BY <1>1, <4>2, GrownQuietly DEF Run, WalkerStep, walkerVars
      <4> QED
        BY <4>1, <4>2
    <3>3. IsPrefix(vmOut, out')
      BY <2>3, <3>2, PrefixChain DEF StoppedEarly, Grown
    <3> QED
      BY <2>3, <3>1, <3>3 DEF StoppedEarly
  <2> QED
    BY <2>1, <2>2, <2>3 DEF InStep
<1>4. saved' # <<>> => vmStatus' = "running" /\ vmFlow' = Continue /\ saved' = <<Snapshot'>>
  BY <1>1, VmNames DEF Run, VmStep, Pauses
<1> QED
  BY <1>1, <1>2, <1>3, <1>4 DEF InStep

(* A resumed VM is the VM that was paused.                                 *)
LEMMA NewCallKeeps ==
  ASSUME InStep, GoOn \/ Resume
  PROVE  InStep'
<1>1. UNCHANGED <<prog, walkerVars>> /\ saved' = <<>>
  BY DEF GoOn, Resume
<1>2. UNCHANGED vmVars
  <2>1. CASE GoOn
    BY <2>1 DEF GoOn
  <2>2. CASE Resume
    <3>1. saved # <<>> /\ vmStatus = "running" /\ vmFlow = Continue /\ saved[1] = Snapshot
      BY <2>2 DEF Resume, InStep
    <3> QED
      BY <2>2, <3>1, VmNames DEF Resume, Snapshot, vmVars
  <2> QED
    BY <2>1, <2>2
<1>3. Core'
  <2>1. [Next]_vars
    BY <1>1 DEF walkerVars, vars
  <2> QED
    BY <2>1, NextCore DEF InStep
<1>4. Abreast' \/ StoppedEarly'
  BY <1>1, <1>2 DEF InStep, Abreast, AheadOf, Agreed, StoppedEarly, walkerVars, vmVars
<1> QED
  BY <1>1, <1>3, <1>4 DEF InStep

LEMMA StepsInStep == Alike /\ InStep /\ [ParityNext]_parityVars => InStep'
<1> SUFFICES ASSUME Alike, InStep, [ParityNext]_parityVars PROVE InStep'
  OBVIOUS
<1>1. CASE UNCHANGED parityVars
  <2>1. UNCHANGED <<prog, walkerVars, vmVars, saved>>
    BY <1>1 DEF parityVars, pauseVars
  <2>2. Core'
    <3>1. [Next]_vars
      BY <2>1 DEF walkerVars, vars
    <3> QED
      BY <3>1, NextCore DEF InStep
  <2>3. Abreast' \/ StoppedEarly'
    BY <2>1 DEF InStep, Abreast, AheadOf, Agreed, StoppedEarly, walkerVars, vmVars
  <2>4. Snapshot' = Snapshot
    BY <2>1 DEF Snapshot, vmVars
  <2> QED
    BY <2>1, <2>2, <2>3, <2>4 DEF InStep, vmVars
<1> QED
  BY <1>1, RunKeeps, NewCallKeeps DEF ParityNext

LEMMA InStepImplies == InStep => AgreeOffLimit /\ RowsPrefix
<1> SUFFICES ASSUME InStep PROVE AgreeOffLimit /\ RowsPrefix
  OBVIOUS
<1>1. CASE Abreast
  <2>1. out \in Seq(OutputCall) /\ vmOut = out
    BY <1>1 DEF InStep, Core, Abreast, Agreed
  <2>2. IsPrefix(vmOut, out)
    BY <2>1, PrefixElements, LenProperties
  <2> QED
    BY <1>1, <2>2 DEF Abreast, Agreed, AgreeOffLimit, RowsPrefix
<1>2. CASE StoppedEarly
  BY <1>2 DEF StoppedEarly, AgreeOffLimit, RowsPrefix
<1> QED
  BY <1>1, <1>2 DEF InStep

(* A run of the VM that the iteration limit does not stop (vm.rs, run and  *)
(* step_until) ends like the walker's, with the same calls to the output   *)
(* and the same variables, whatever jumps and loops the program takes and  *)
(* however often it is paused, snapshot and resumed - on programs without  *)
(* comments behind control statements, FORs counting with variables.       *)
THEOREM DriversAgree == Alike => (ParitySpec => []AgreeOffLimit)
<1> SUFFICES ASSUME Alike PROVE ParitySpec => []AgreeOffLimit
  OBVIOUS
<1>1. InStep /\ [ParityNext]_parityVars => InStep'
  BY StepsInStep
<1> QED
  BY <1>1, InitInStep, InStepImplies, PTL DEF ParitySpec

(* On the same programs, where the limit stops the VM before the walker,   *)
(* the rows it has produced are the walker's first rows.                   *)
THEOREM RowsAgree == Alike => (ParitySpec => []RowsPrefix)
<1> SUFFICES ASSUME Alike PROVE ParitySpec => []RowsPrefix
  OBVIOUS
<1>1. InStep /\ [ParityNext]_parityVars => InStep'
  BY StepsInStep
<1> QED
  BY <1>1, InitInStep, InStepImplies, PTL DEF ParitySpec
=============================================================================
