--------------------------- MODULE CursorVm_proofs ---------------------------
(***************************************************************************)
(* What holds of every run of the VM, and on which programs its steps are  *)
(* the walker's, for all programs of that kind.                            *)
(***************************************************************************)
EXTENDS CursorVm, NcBlocks_proofs

-----------------------------------------------------------------------------
(* The ways the VM changes its stack.                                      *)

LEMMA VmPushStep ==
  ASSUME Core, AtBlock, Kept, NEW calls \in Seq(OutputCall),
         NEW s \in Bodies(HereOp), NEW c \in Nat, NEW e \in Int,
         HereOp.tag = "for" => HereOp.var \in Vars /\ env'[HereOp.var] \in Int,
         Push(NewFrame(s, HereOp, c, e), calls)
  PROVE  Core'
<1> DEFINE f == NewFrame(s, HereOp, c, e)
<1>1. s \in Scopes /\ HereOp \in Op /\ status = "running"
  BY AtBlockFacts
<1>2. f \in Frame /\ f.scope = s /\ f.op = HereOp
  BY <1>1, NewFrameType
<1>3. Enter(f) /\ out' \in Seq(OutputCall)
  BY <1>1, RowHere DEF Push
<1> HIDE DEF f
<1> QED
  BY <1>2, <1>3, EnterStep

LEMMA VmPushUnbounded ==
  ASSUME Core, AtBlock, Kept, HereOp.tag # "for",
         NEW s \in Bodies(HereOp), NEW c \in Nat, Push(NewFrame(s, HereOp, c, 0), <<>>)
  PROVE  Core'
<1>1. <<>> \in Seq(OutputCall) /\ 0 \in Int
  BY EmptySeq
<1>2. HereOp.tag = "for" => HereOp.var \in Vars /\ env'[HereOp.var] \in Int
  OBVIOUS
<1> QED
  BY <1>1, <1>2, VmPushStep

LEMMA VmSkipStep ==
  ASSUME Core, AtBlock, Kept, NEW calls \in Seq(OutputCall), Skip(calls)
  PROVE  Core'
<1>1. status = "running"
  BY AtBlockFacts
<1> QED
  BY <1>1, RowHere, AdvanceStep DEF Skip, Finish

(* The frame of a loop that goes round.                                    *)
Again(c) == [Top EXCEPT !.index = 1, !.count = c]

LEMMA FrameCount ==
  ASSUME NEW g \in Frame, NEW c \in Nat
  PROVE  /\ [g EXCEPT !.count = c] \in Frame
         /\ [g EXCEPT !.count = c].scope = g.scope /\ [g EXCEPT !.count = c].op = g.op
         /\ [g EXCEPT !.count = c].index = g.index /\ [g EXCEPT !.count = c].jumps = g.jumps
         /\ [g EXCEPT !.count = c].end = g.end /\ [g EXCEPT !.count = c].count = c
BY DEF Frame

LEMMA FrameIndexRest ==
  ASSUME NEW g \in Frame, NEW i \in Nat \ {0}
  PROVE  /\ [g EXCEPT !.index = i].jumps = g.jumps /\ [g EXCEPT !.index = i].end = g.end
         /\ [g EXCEPT !.index = i].count = g.count
BY SMT DEF Frame

LEMMA FrameEqual ==
  ASSUME NEW f \in Frame, NEW g \in Frame, f.scope = g.scope, f.index = g.index,
         f.jumps = g.jumps, f.op = g.op, f.count = g.count, f.end = g.end
  PROVE  f = g
BY SMT DEF Frame

LEMMA AgainProps ==
  ASSUME Core, status = "running", NEW c \in Nat, Iterate(c)
  PROVE  /\ Again(c) \in Frame /\ Again(c).scope = Top.scope /\ Again(c).op = Top.op
         /\ stack' = [stack EXCEPT ![Len(stack)] = Again(c)]
<1>1. Top \in Frame /\ Top = stack[Len(stack)]
  BY AtCursor
<1> DEFINE g == [Top EXCEPT !.index = 1]
<1>2. g \in Frame /\ g.scope = Top.scope /\ g.op = Top.op
  <2>1. 1 \in Nat \ {0}
    OBVIOUS
  <2> QED
    BY <1>1, <2>1, FrameIndex
<1>3. Again(c) = [g EXCEPT !.count = c]
  BY DEF Again
<1> HIDE DEF g
<1>4. Again(c) \in Frame /\ Again(c).scope = Top.scope /\ Again(c).op = Top.op
  BY <1>2, <1>3, FrameCount
<1>5. stack' = [stack EXCEPT ![Len(stack)] = Again(c)]
  BY <1>1 DEF Iterate, Again
<1> QED
  BY <1>4, <1>5

LEMMA AgainFields ==
  ASSUME Top \in Frame, NEW c \in Nat
  PROVE  /\ Again(c).jumps = Top.jumps /\ Again(c).op = Top.op
         /\ Top.jumps = 0 => Again(c) = NewFrame(Top.scope, Top.op, c, Top.end)
<1> DEFINE g == [Top EXCEPT !.index = 1]
<1>1. 1 \in Nat \ {0} /\ 0 \in Nat
  OBVIOUS
<1>2. /\ g \in Frame /\ g.scope = Top.scope /\ g.op = Top.op /\ g.index = 1
      /\ g.jumps = Top.jumps /\ g.end = Top.end
  BY <1>1, FrameIndex, FrameIndexRest
<1>3. Again(c) = [g EXCEPT !.count = c]
  BY DEF Again
<1> HIDE DEF g
<1>4. /\ Again(c) \in Frame /\ Again(c).scope = Top.scope /\ Again(c).op = Top.op
      /\ Again(c).index = 1 /\ Again(c).jumps = Top.jumps /\ Again(c).end = Top.end
      /\ Again(c).count = c
  BY <1>2, <1>3, FrameCount
<1>5. ASSUME Top.jumps = 0 PROVE Again(c) = NewFrame(Top.scope, Top.op, c, Top.end)
  <2> DEFINE f == NewFrame(Top.scope, Top.op, c, Top.end)
  <2>1. /\ f.scope = Top.scope /\ f.index = 1 /\ f.jumps = 0 /\ f.op = Top.op
        /\ f.count = c /\ f.end = Top.end
    BY DEF NewFrame
  <2>2. f \in Frame
    BY FrameFields, NewFrameType
  <2> HIDE DEF f
  <2>3. Again(c) = f
    BY <1>4, <1>5, <2>1, <2>2, FrameEqual
  <2> QED
    BY <2>3 DEF f
<1> QED
  BY <1>4, <1>5

LEMMA VmIterateStep ==
  ASSUME Core, status = "running", Kept, out' \in Seq(OutputCall), NEW c \in Nat, Iterate(c)
  PROVE  Core'
<1>1. flow' \in Flow
  BY DEF Iterate, Core
<1> QED
  BY <1>1, AgainProps, ReplaceStep DEF Iterate

(* The bottom frame opens no body.                                         *)
LEMMA BottomFrame ==
  ASSUME Core, status = "running"
  PROVE  /\ Len(stack) = 1 => /\ Top.op = Nop /\ Top.op.tag = "none"
                              /\ Front(stack) = <<>> /\ Front(jumpScopes) = <<>>
         /\ Len(stack) # 1 => Top.op.tag # "none"
<1>1. /\ stack # <<>> /\ stack \in Seq(Frame) /\ Top = stack[Len(stack)]
      /\ Len(stack) \in Nat \ {0} /\ DOMAIN stack = 1..Len(stack)
  BY AtCursor, FrontProps, LenProperties DEF Core, Scoped
<1>2. ASSUME Len(stack) = 1
      PROVE  /\ Top.op = Nop /\ Top.op.tag = "none"
             /\ Front(stack) = <<>> /\ Front(jumpScopes) = <<>>
  <2>1. Top.op = Nop /\ Top.op.tag = "none"
    BY <1>1, <1>2 DEF Core, Scoped, NestedIn, Nop
  <2>2. jumpScopes = [k \in 1..1 |-> ScanTargets(prog, stack[k].scope)]
    BY <1>1, <1>2 DEF Core, Scoped
  <2>3. Len(jumpScopes) = 1
    BY <2>2
  <2> QED
    BY <1>2, <2>1, <2>3 DEF Front
<1>3. ASSUME Len(stack) # 1 PROVE Top.op.tag # "none"
  <2>1. \A n \in Nat \ {0} : n # 1 => n \in 2..n
    OBVIOUS
  <2>2. Len(stack) \in 2..Len(stack)
    BY <1>1, <1>3, <2>1
  <2>3. Top.scope \in Bodies(Top.op)
    BY <1>1, <2>2 DEF Core, Scoped, NestedIn
  <2> QED
    BY <2>3 DEF Bodies, Loops
<1> QED
  BY <1>2, <1>3

LEMMA VmPopAndGoOn ==
  ASSUME Core, status = "running", Top.op.tag # "none", Kept, out' \in Seq(OutputCall), PopAndGoOn
  PROVE  Core'
<1>1. Len(stack) # 1
  BY BottomFrame
<1>2. stack' = Advanced(Front(stack)) /\ jumpScopes' = Front(jumpScopes)
      /\ UNCHANGED <<prog, flow, seen, status>>
  BY <1>1 DEF PopAndGoOn, PopAndAdvance
<1> QED
  BY <1>1, <1>2, ReturnStep

LEMMA VmFailStep ==
  ASSUME Core, Kept, out' \in Seq(OutputCall), NEW e \in Endings, Fail(e)
  PROVE  Core'
BY StayStep DEF Fail, Core

-----------------------------------------------------------------------------
(* The actions that enter a body.                                          *)

LEMMA VmEnterIf ==
  ASSUME Core, EnterIf
  PROVE  Core'
<1>1. /\ AtBlock /\ status = "running" /\ HereOp \in Op /\ HereOp.tag = "if"
      /\ HereOp.body \in Bodies(HereOp)
      /\ HereOp.alt # NoScope => HereOp.alt \in Bodies(HereOp)
  BY AtBlockFacts DEF EnterIf, Bodies, Loops
<1>2. CASE ~CanRead(HereOp.cond.lhs, env)
  BY <1>1, <1>2, SameKeeps, EmptySeq, FailReadingStep DEF EnterIf
<1>3. CASE CanRead(HereOp.cond.lhs, env)
  <2>1. Kept
    BY <1>3, ReadingKeeps DEF EnterIf
  <2>2. \/ Push(NewFrame(HereOp.body, HereOp, 0, 0), <<>>)
        \/ HereOp.alt # NoScope /\ Push(NewFrame(HereOp.alt, HereOp, 0, 0), <<>>)
        \/ Skip(<<>>)
    BY <1>3 DEF EnterIf
  <2> QED
    BY <1>1, <2>1, <2>2, EmptySeq, VmSkipStep, VmPushUnbounded
<1> QED
  BY <1>2, <1>3

LEMMA VmEnterWhile ==
  ASSUME Core, EnterWhile
  PROVE  Core'
<1>1. /\ AtBlock /\ status = "running" /\ HereOp \in Op /\ HereOp.tag = "while"
      /\ HereOp.body \in Bodies(HereOp)
  BY AtBlockFacts DEF EnterWhile, Bodies, Loops
<1>2. CASE ~CanRead(HereOp.cond.lhs, env)
  BY <1>1, <1>2, SameKeeps, EmptySeq, FailReadingStep DEF EnterWhile
<1>3. CASE CanRead(HereOp.cond.lhs, env)
  <2>1. Kept
    BY <1>3, ReadingKeeps DEF EnterWhile
  <2>2. Push(NewFrame(HereOp.body, HereOp, 1, 0), <<>>) \/ Skip(<<>>)
    BY <1>3 DEF EnterWhile
  <2> QED
    BY <1>1, <2>1, <2>2, EmptySeq, VmSkipStep, VmPushUnbounded
<1> QED
  BY <1>2, <1>3

LEMMA VmEnterLoop ==
  ASSUME Core, EnterLoop
  PROVE  Core'
<1>1. AtBlock /\ HereOp.tag \in {"loop", "repeat"} /\ Kept
  BY SameKeeps DEF EnterLoop
<1>2. HereOp.body \in Bodies(HereOp)
  BY <1>1 DEF Bodies, Loops
<1>3. Push(NewFrame(HereOp.body, HereOp, 0, 0), <<>>)
  BY DEF EnterLoop
<1> QED
  BY <1>1, <1>2, <1>3, VmPushUnbounded

LEMMA VmEnterFor ==
  ASSUME Core, EnterFor
  PROVE  Core'
<1> DEFINE env1  == AfterReading({HereOp.expr.var}, env)
           env2  == Assigned(HereOp, env1)
           env3  == AfterReading({HereOp.to.var}, env2)
           calls == <<Change(HereOp.var, ValueOf(HereOp.expr, env1))>>
           end   == ValueOf(HereOp.to, env2)
<1>1. /\ AtBlock /\ status = "running" /\ HereOp \in Op /\ HereOp.tag = "for"
      /\ HereOp.var \in Vars \cup Axes /\ HereOp.body \in Bodies(HereOp)
  BY AtBlockFacts DEF EnterFor, Bodies, Loops
<1>2. CASE ~CanRead(HereOp.expr, env)
  BY <1>1, <1>2, SameKeeps, EmptySeq, FailReadingStep DEF EnterFor
<1>3. CASE CanRead(HereOp.expr, env)
  <2>1. \/ FailReading(calls) /\ env' = env2
        \/ env' = env3 /\ Fail("Panic") /\ out' = Emitted(<<StartRow(Here)>> \o calls)
        \/ env' = env3 /\ HereOp.var \in Vars /\ Push(NewFrame(HereOp.body, HereOp, 0, end), calls)
        \/ env' = env3 /\ Skip(calls)
    BY <1>3 DEF EnterFor
  <2>2. env1 \in Env /\ \A v \in Vars : env[v] \in Int => env1[v] \in Int
    BY Reading DEF Core
  <2>3. calls \in Seq(OutputCall)
    <3>1. ValueOf(HereOp.expr, env1) \in Int
      BY <1>1, <2>2, ValueType, OpFields
    <3> QED
      BY <1>1, <3>1, ValueCalls
  <2> HIDE DEF env1, calls
  <2>4. /\ env2 \in Env /\ \A v \in Vars : env[v] \in Int => env2[v] \in Int
        /\ HereOp.var \in Vars => env2[HereOp.var] \in Int
    BY <1>1, <2>2, Assigning
  <2> HIDE DEF env2
  <2>5. /\ env3 \in Env /\ \A v \in Vars : env[v] \in Int => env3[v] \in Int
        /\ HereOp.var \in Vars => env3[HereOp.var] \in Int
    BY <2>4, Reading
  <2>6. end \in Int
    BY <1>1, <2>4, ValueType, OpFields
  <2> HIDE DEF env3, end
  <2>7. CASE FailReading(calls) /\ env' = env2
    BY <1>1, <2>3, <2>4, <2>7, FailReadingStep DEF Kept
  <2>8. CASE env' = env3 /\ Fail("Panic") /\ out' = Emitted(<<StartRow(Here)>> \o calls)
    <3>1. Kept /\ out' \in Seq(OutputCall) /\ "Panic" \in Endings
      BY <1>1, <2>3, <2>5, <2>8, RowHere DEF Kept, Endings
    <3> QED
      BY <2>8, <3>1, VmFailStep
  <2>9. CASE env' = env3 /\ HereOp.var \in Vars /\ Push(NewFrame(HereOp.body, HereOp, 0, end), calls)
    <3>1. Kept /\ env'[HereOp.var] \in Int
      BY <2>5, <2>9 DEF Kept
    <3> QED
      BY <1>1, <2>3, <2>6, <2>9, <3>1, VmPushStep
  <2>10. CASE env' = env3 /\ Skip(calls)
    <3>1. Kept
      BY <2>5, <2>10 DEF Kept
    <3> QED
      BY <1>1, <2>3, <2>10, <3>1, VmSkipStep
  <2> QED
    BY <2>1, <2>7, <2>8, <2>9, <2>10
<1> QED
  BY <1>2, <1>3

-----------------------------------------------------------------------------
(* The end of a scope.                                                     *)

LEMMA VmEndStraight ==
  ASSUME Core, EndStraight
  PROVE  Core'
<1>1. status = "running" /\ Kept /\ out' \in Seq(OutputCall)
  BY SameKeeps DEF EndStraight, AtScopeEnd, Running, Core
<1>2. CASE Len(stack) = 1
  <2>1. /\ stack' = Front(stack) /\ jumpScopes' = Front(jumpScopes)
        /\ status' \in Endings /\ UNCHANGED <<prog, flow, seen>>
    BY <1>1, <1>2, BottomFrame DEF EndStraight, PopAndAdvance, Endings
  <2> QED
    BY <1>1, <1>2, <2>1, PopStep
<1>3. CASE Len(stack) # 1
  <2>1. Top.op.tag # "none" /\ PopAndGoOn
    BY <1>1, <1>3, BottomFrame DEF EndStraight, PopAndGoOn
  <2> QED
    BY <1>1, <2>1, VmPopAndGoOn
<1> QED
  BY <1>2, <1>3

LEMMA VmEndLoops ==
  ASSUME Core, EndWhile \/ EndLoop \/ EndRepeat
  PROVE  Core'
<1>1. /\ status = "running" /\ Top.op.tag # "none" /\ out' \in Seq(OutputCall)
      /\ "LoopLimit" \in Endings /\ "Undefined" \in Endings
  BY DEF EndWhile, EndLoop, EndRepeat, AtScopeEnd, Running, Core, Endings
<1>2. Top.count + 1 \in Nat
  BY <1>1, AtCursor, FrameFields
<1>3. Kept
  BY SameKeeps, ReadingKeeps DEF EndWhile, EndLoop, EndRepeat
<1>4. Fail("LoopLimit") \/ Fail("Undefined") \/ Iterate(Top.count + 1) \/ PopAndGoOn
  BY <1>2, LimitAssumption DEF EndWhile, EndLoop, EndRepeat
<1> QED
  BY <1>1, <1>2, <1>3, <1>4, VmFailStep, VmIterateStep, VmPopAndGoOn

LEMMA VmEndFor ==
  ASSUME Core, EndFor
  PROVE  Core'
<1> DEFINE v    == Top.op.var
           call == <<Change(v, env[v] + 1)>>
<1>1. /\ status = "running" /\ Top.op.tag = "for" /\ Top.op.tag # "none"
      /\ Top = stack[Len(stack)] /\ Top.count \in Nat
  BY AtCursor, FrameFields DEF EndFor, AtScopeEnd, Running
<1>2. v \in Vars /\ env[v] \in Int /\ env[v] + 1 \in Int
  <2>1. Len(stack) \in DOMAIN stack
    BY <1>1, AtCursor, LenProperties, EmptySeq DEF Core, Scoped
  <2> QED
    BY <1>1, <2>1 DEF Core, Counting
<1>3. env' = [env EXCEPT ![v] = env[v] + 1] /\ out' = Emitted(call)
      /\ (Iterate(Top.count) \/ PopAndGoOn)
  BY DEF EndFor
<1>4. Kept
  BY <1>2, <1>3 DEF Kept, Core, Env
<1>5. out' \in Seq(OutputCall)
  <2>1. call \in Seq(OutputCall)
    BY <1>2, ValueCalls
  <2> HIDE DEF call
  <2> QED
    BY <1>3, <2>1, EmittedType DEF Core
<1> QED
  BY <1>1, <1>3, <1>4, <1>5, VmIterateStep, VmPopAndGoOn

LEMMA VmPopFrame ==
  ASSUME Core, status = "running", NEW ending \in Endings, PopFrame(ending)
  PROVE  Core'
<1>1. Kept /\ out' \in Seq(OutputCall)
  BY SameKeeps DEF PopFrame, Core
<1>2. /\ stack' = Front(stack) /\ jumpScopes' = Front(jumpScopes)
      /\ IF Len(stack) = 1 THEN status' \in Endings ELSE status' = status
      /\ UNCHANGED <<prog, flow, seen>>
  BY DEF PopFrame
<1> QED
  BY <1>1, <1>2, PopStep

LEMMA VmNextCore == Core /\ [Next]_vars => Core'
<1> SUFFICES ASSUME Core, [Next]_vars PROVE Core'
  OBVIOUS
<1>1. CASE ExecLeaf
  BY <1>1, PlainStep, StatementStep, JumpsStep DEF ExecLeaf
<1>2. CASE EnterBody
  BY <1>2, VmEnterIf, VmEnterWhile, VmEnterLoop, VmEnterFor DEF EnterBody
<1>3. CASE ScopeEnd
  BY <1>3, VmEndStraight, VmEndLoops, VmEndFor DEF ScopeEnd
<1>4. CASE TakeJump
  BY <1>4, TakeJumpStep
<1>5. CASE Propagate
  <2>1. status = "running" /\ PopFrame(JumpFailure) /\ JumpFailure \in Endings
    BY <1>5 DEF Propagate, JumpFailure, Endings
  <2> QED
    BY <2>1, VmPopFrame
<1>6. CASE PopAll
  <2>1. status = "running" /\ PopFrame("done") /\ "done" \in Endings
    BY <1>6 DEF PopAll, Endings
  <2> QED
    BY <2>1, VmPopFrame
<1>7. CASE UNCHANGED vars
  <2>1. Kept /\ out' \in Seq(OutputCall) /\ flow' \in Flow
    BY <1>7, SameKeeps DEF vars, Core
  <2> QED
    BY <1>7, <2>1, StayStep DEF vars
<1> QED
  BY <1>1, <1>2, <1>3, <1>4, <1>5, <1>6, <1>7 DEF Next

LEMMA VmCoreHolds == Spec => []Core
BY InitCore, VmNextCore, PTL DEF Spec

(* The VM's own stack keeps the static nesting, too.                       *)
THEOREM VmNestingCorrect == Spec => []Nested
BY VmCoreHolds, CoreImplies, PTL

(* The VM's jump_scopes are the targets of the frames of its stack.        *)
THEOREM VmVisibleTargets == Spec => []ScopesMirrorStack
BY VmCoreHolds, CoreImplies, PTL

-----------------------------------------------------------------------------
(* The deciding arm is one of the arms.                                    *)
LEMMA ArmIndex ==
  ASSUME NEW op \in Op, DecidingArm(op) # 0
  PROVE  DecidingArm(op) \in DOMAIN op.arms
<1> DEFINE hits == {i \in DOMAIN op.arms :
                     Holds(op.arms[i].cond, env) /\ (op.tag = "case" \/ ~Suppressed(op.arms[i]))}
<1>1. DecidingArm(op) = Min(hits) /\ hits # {}
  BY DEF DecidingArm
<1>2. hits \subseteq DOMAIN op.arms /\ DOMAIN op.arms \subseteq Nat
  BY OpFields, LenProperties
<1>3. hits \subseteq Nat
  BY <1>2
<1> HIDE DEF hits
<1>4. Min(hits) \in hits
  BY <1>1, <1>3, MinInSet
<1> QED
  BY <1>1, <1>2, <1>4

-----------------------------------------------------------------------------
(* The operators of the walker are those of the VM.                        *)

LEMMA SameReading ==
  /\ \A p, pos : Walker!BlockAt(p, pos) = BlockAt(p, pos)
  /\ \A p, s : Walker!ScanTargets(p, s) = ScanTargets(p, s)
  /\ \A e, t : Walker!CanRead(e, t) = CanRead(e, t)
  /\ \A vs, t : Walker!AfterReading(vs, t) = AfterReading(vs, t)
  /\ \A e, t : Walker!ValueOf(e, t) = ValueOf(e, t)
  /\ \A c, t : Walker!Holds(c, t) = Holds(c, t)
  /\ \A op, t : Walker!Assigned(op, t) = Assigned(op, t)
BY DEF Walker!BlockAt, BlockAt, Walker!ScanTargets, ScanTargets, Walker!CanRead, CanRead,
       Walker!AfterReading, AfterReading, Walker!ValueOf, ValueOf, Walker!Holds, Holds,
       Walker!Assigned, Assigned

LEMMA SameLog ==
  /\ \A line : Walker!StartRow(line) = StartRow(line)
  /\ \A n, v : Walker!Change(n, v) = Change(n, v)
  /\ \A calls : Walker!Emitted(calls) = Emitted(calls)
  /\ \A line : Walker!CommentAt(line) = CommentAt(line)
BY DEF Walker!StartRow, StartRow, Walker!Change, Change, Walker!Emitted, Emitted,
       Walker!CommentAt, CommentAt, Walker!Comment, Comment, Walker!BlockAt, BlockAt

LEMMA SameCursor ==
  /\ Walker!Top = Top /\ Walker!Here = Here /\ Walker!HereOp = HereOp
  /\ Walker!AtBlock = AtBlock /\ Walker!AtScopeEnd = AtScopeEnd
  /\ \A s : Walker!Advanced(s) = Advanced(s)
  /\ \A s : Walker!Front(s) = Front(s)
  /\ \A s, op, c, e : Walker!NewFrame(s, op, c, e) = NewFrame(s, op, c, e)
BY DEF Walker!Top, Top, Walker!Last, Last, Walker!Here, Here, Walker!HereOp, HereOp,
       Walker!BlockAt, BlockAt, Walker!AtBlock, AtBlock, Walker!AtScopeEnd, AtScopeEnd,
       Walker!Running, Running, Walker!Advanced, Advanced, Walker!Front, Front,
       Walker!NewFrame, NewFrame

LEMMA SameLeaf == Walker!ExecLeaf <=> ExecLeaf
BY DEF Walker!ExecLeaf, ExecLeaf, Walker!ExecPlain, ExecPlain, Walker!ExecStatement, ExecStatement,
       Walker!ExecJumps, ExecJumps, Walker!Top, Top, Walker!Last, Last, Walker!Here, Here,
       Walker!HereOp, HereOp, Walker!BlockAt, BlockAt, Walker!AtBlock, AtBlock, Walker!Running, Running,
       Walker!Advanced, Advanced, Walker!Finish, Finish, Walker!Emitted, Emitted,
       Walker!StartRow, StartRow, Walker!CommentAt, CommentAt, Walker!Comment, Comment,
       Walker!CanRead, CanRead, Walker!AfterReading, AfterReading, Walker!Assigned, Assigned,
       Walker!ValueOf, ValueOf, Walker!AssignmentCalls, AssignmentCalls, Walker!Change, Change,
       Walker!Cell, Cell, Walker!EndFlow, EndFlow, Walker!Jump, Jump, Walker!FailReading, FailReading,
       Walker!Fail, Fail, Walker!DecidingArm, DecidingArm, Walker!Holds, Holds,
       Walker!Suppressed, Suppressed, Walker!JumpTargetVisible, JumpTargetVisible,
       Walker!Evaluated, Evaluated, Walker!Min, Min

LEMMA SameJump == (Walker!TakeJump <=> TakeJump) /\ Walker!Destination = Destination
                   /\ Walker!JumpFailure = JumpFailure
BY DEF Walker!TakeJump, TakeJump, Walker!Destination, Destination, Walker!ResolveJump, ResolveJump,
       Walker!Targets, Targets, Walker!Min, Min, Walker!Max, Max, Walker!Top, Top, Walker!Last, Last,
       Walker!Fail, Fail, Walker!TopAt, TopAt, Walker!Continue, Continue,
       Walker!JumpFailure, JumpFailure

-----------------------------------------------------------------------------
(* On mirrorable programs no loop body is cycled by jumps: the count of    *)
(* backward jumps, which the VM carries into the next iteration, stays     *)
(* zero there, as it is in the walker's fresh call.                        *)

Uncycled(f) == f.op.tag \in Loops => f.jumps = 0
AllUncycled(st) == \A k \in DOMAIN st : Uncycled(st[k])

Mirroring ==
  /\ prog \in Programs
  /\ status = "running" => AllUncycled(stack)
  /\ (status = "running" /\ flow.tag = "jump") =>
       flow.arm \in Arms(prog, Here) /\ Top.index <= Len(prog[Top.scope])

LEMMA UncycledTop ==
  ASSUME NEW st \in Seq(Frame), st # <<>>, AllUncycled(st), NEW f \in Frame, Uncycled(f)
  PROVE  AllUncycled([st EXCEPT ![Len(st)] = f])
<1> DEFINE st1 == [st EXCEPT ![Len(st)] = f]
<1>1. Len(st) \in Nat \ {0}
  BY FrontProps
<1>2. DOMAIN st1 = DOMAIN st /\ \A k \in DOMAIN st : st1[k] = IF k = Len(st) THEN f ELSE st[k]
  BY <1>1, LenProperties
<1> QED
  BY <1>2 DEF AllUncycled

LEMMA UncycledAdvanced ==
  ASSUME NEW st \in Seq(Frame), st # <<>>, AllUncycled(st)
  PROVE  AllUncycled(Advanced(st))
<1> DEFINE t == st[Len(st)]
           f == [t EXCEPT !.index = t.index + 1]
<1>1. t \in Frame /\ Len(st) \in DOMAIN st
  BY FrontProps, LenProperties
<1>2. t.index + 1 \in Nat \ {0}
  BY <1>1, FrameFields
<1>3. f \in Frame /\ f.op = t.op
  BY <1>1, <1>2, FrameIndex
<1>4. f.jumps = t.jumps
  BY <1>1 DEF Frame
<1>5. Uncycled(f)
  BY <1>1, <1>3, <1>4 DEF AllUncycled, Uncycled
<1>6. Advanced(st) = [st EXCEPT ![Len(st)] = f]
  BY DEF Advanced
<1> HIDE DEF f
<1> QED
  BY <1>3, <1>5, <1>6, UncycledTop

LEMMA UncycledFront ==
  ASSUME NEW st \in Seq(Frame), st # <<>>, AllUncycled(st)
  PROVE  Front(st) \in Seq(Frame) /\ AllUncycled(Front(st))
<1>1. /\ Front(st) \in Seq(Frame) /\ Len(st) \in Nat \ {0} /\ Len(Front(st)) = Len(st) - 1
      /\ \A i \in 1..(Len(st) - 1) : Front(st)[i] = st[i]
  BY FrontProps
<1>2. DOMAIN Front(st) = 1..(Len(st) - 1) /\ DOMAIN st = 1..Len(st)
  BY <1>1, LenProperties
<1>3. \A i \in 1..(Len(st) - 1) : i \in 1..Len(st)
  BY <1>1
<1> QED
  BY <1>1, <1>2, <1>3 DEF AllUncycled

LEMMA UncycledAppend ==
  ASSUME NEW st \in Seq(Frame), AllUncycled(st), NEW f, f.jumps = 0
  PROVE  AllUncycled(Append(st, f))
<1>1. /\ DOMAIN Append(st, f) = 1..(Len(st) + 1) /\ DOMAIN st = 1..Len(st) /\ Len(st) \in Nat
      /\ \A i \in 1..(Len(st) + 1) : Append(st, f)[i] = IF i = Len(st) + 1 THEN f ELSE st[i]
  BY LenProperties
<1>2. \A i \in 1..(Len(st) + 1) : i # Len(st) + 1 => i \in 1..Len(st)
  BY <1>1
<1> QED
  BY <1>1, <1>2 DEF AllUncycled, Uncycled

(* The block a scope hangs on, which a mirrorable program leaves without a *)
(* comment.                                                                *)
LEMMA CallerBlock ==
  ASSUME Core, status = "running", Len(stack) # 1
  PROVE  /\ Walker!Caller \in Positions(prog)
         /\ BlockAt(prog, Walker!Caller).op = Top.op
         /\ Top.scope \in Bodies(Top.op)
         /\ Walker!Caller[2] <= Len(prog[Walker!Caller[1]])
         /\ Last(Front(stack)).scope = Walker!Caller[1]
         /\ Last(Front(stack)).index = Walker!Caller[2]
<1> DEFINE n == Len(stack)
           f == stack[n - 1]
<1>1. stack \in Seq(Frame) /\ stack # <<>> /\ Top = stack[n]
  BY AtCursor DEF Core, Scoped
<1>2. n \in Nat \ {0} /\ n # 1
  BY <1>1, FrontProps
<1>3. n \in 2..n /\ n - 1 \in 1..n /\ n - 1 \in 1..(n - 1)
  <2>1. \A m \in Nat \ {0} : m # 1 => m \in 2..m /\ m - 1 \in 1..m /\ m - 1 \in 1..(m - 1)
    OBVIOUS
  <2> QED
    BY <1>2, <2>1
<1>4. /\ f.index <= Len(prog[f.scope])
      /\ stack[n].op = prog[f.scope][f.index].op
      /\ stack[n].scope \in Bodies(stack[n].op)
  BY <1>1, <1>3 DEF Core, Scoped, NestedIn
<1>5. f \in Frame
  BY <1>1, <1>3, ElementOfSeq
<1>6. f.scope \in Scopes /\ f.index \in Nat \ {0} /\ Len(prog[f.scope]) \in Nat
  BY <1>5, FrameFields, LenProperties DEF Core, IsProgram
<1>7. f.index \in 1..Len(prog[f.scope])
  BY <1>4, <1>6
<1>8. Walker!Caller = <<f.scope, f.index>> /\ Walker!Caller \in Positions(prog)
  BY <1>6, <1>7 DEF Walker!Caller, Positions
<1>9. BlockAt(prog, Walker!Caller).op = Top.op
  BY <1>1, <1>4, <1>8 DEF BlockAt
<1>10. Last(Front(stack)) = f
  <2>1. /\ Front(stack) \in Seq(Frame) /\ Len(Front(stack)) = n - 1
        /\ \A i \in 1..(n - 1) : Front(stack)[i] = stack[i]
    BY <1>1, FrontProps
  <2>2. Front(stack) # <<>>
    BY <1>2, <2>1, EmptySeq
  <2> QED
    BY <1>3, <2>1, <2>2, FrontProps
<1> QED
  BY <1>1, <1>4, <1>8, <1>9, <1>10

LEMMA NoCallerComment ==
  ASSUME Core, Mirroring, Mirrorable, status = "running", Len(stack) # 1
  PROVE  CommentAt(Walker!Caller) = <<>>
<1>1. /\ Walker!Caller \in Positions(prog)
      /\ BlockAt(prog, Walker!Caller).op = Top.op /\ Top.scope \in Bodies(Top.op)
  BY CallerBlock
<1>2. ~BlockAt(prog, Walker!Caller).comment
  BY <1>1 DEF Mirroring, Mirrorable
<1> QED
  BY <1>2 DEF CommentAt

LEMMA NothingEmitted ==
  ASSUME Core
  PROVE  /\ Emitted(<<>>) = out /\ Emitted(<<>> \o <<>>) = out
         /\ \A calls \in Seq(OutputCall) : calls \o <<>> = calls
BY EmptySeq DEF Core, Emitted

-----------------------------------------------------------------------------
(* A jump inside a loop's body leads ahead or out.                         *)
LEMMA LoopJumpsAhead ==
  ASSUME Core, Mirroring, Mirrorable, TakeJump, Top.op.tag \in Loops
  PROVE  Destination > Top.index
<1>1. status = "running" /\ flow.tag = "jump" /\ Destination # 0
  BY DEF TakeJump
<1>2. flow.arm \in Arms(prog, Here) /\ Top.index <= Len(prog[Top.scope]) /\ prog \in Programs
  BY <1>1 DEF Mirroring
<1>3. Len(stack) # 1
  BY <1>1, BottomFrame DEF Loops
<1>4. /\ Walker!Caller \in Positions(prog) /\ BlockAt(prog, Walker!Caller).op = Top.op
      /\ Top.scope \in Bodies(Top.op)
  BY <1>1, <1>3, CallerBlock
<1>5. Top.scope = Top.op.body
  BY <1>4 DEF Bodies, Loops
<1>6. Top.index \in 1..Len(prog[Top.scope])
  <2>1. Top.index \in Nat \ {0} /\ Top.scope \in Scopes
    BY <1>1, AtCursor
  <2>2. Len(prog[Top.scope]) \in Nat
    BY <2>1, LenProperties DEF Core, IsProgram
  <2> QED
    BY <1>2, <2>1, <2>2
<1>7. \A i \in 1..Len(prog[Top.op.body]) : \A arm \in Arms(prog, <<Top.op.body, i>>) :
        LET dest == ResolveJump(prog, Top.op.body, i, arm) IN dest = 0 \/ dest > i
  BY <1>2, <1>4 DEF Mirrorable
<1> QED
  BY <1>1, <1>2, <1>5, <1>6, <1>7 DEF Destination, Here

LEMMA UncycledJump ==
  ASSUME Core, Mirroring, Mirrorable, TakeJump, status' = "running"
  PROVE  AllUncycled(stack')
<1> DEFINE d     == Destination
           taken == IF d <= Top.index THEN Top.jumps + 1 ELSE Top.jumps
<1>1. status = "running" /\ flow.tag = "jump" /\ d # 0
  BY DEF TakeJump
<1>2. CASE Fail("LoopLimit")
  BY <1>2 DEF Fail
<1>3. CASE stack' = TopAt(d, taken)
  <2>1. /\ Top \in Frame /\ Top = stack[Len(stack)] /\ Top.scope \in Scopes
        /\ Top.index \in Nat /\ Top.jumps \in Nat /\ stack \in Seq(Frame) /\ stack # <<>>
    BY <1>1, AtCursor, FrameFields DEF Core, Scoped
  <2>2. d \in Nat \ {0}
    <3>1. flow.arm \in Arm
      BY <1>1 DEF Core, Flow
    <3>2. Len(prog[Top.scope]) \in Nat
      BY <2>1, LenProperties DEF Core, IsProgram
    <3> QED
      BY <1>1, <2>1, <3>1, <3>2, ResolveJumpProps DEF Destination, Core
  <2>3. taken \in Nat /\ (Top.op.tag \in Loops => taken = Top.jumps)
    BY <2>1, <2>2, LoopJumpsAhead
  <2> DEFINE g == [Top EXCEPT !.index = d]
             f == [g EXCEPT !.jumps = taken]
  <2>4. g \in Frame /\ g.op = Top.op
    BY <2>1, <2>2, FrameIndex
  <2>5. f \in Frame /\ f.op = Top.op
    <3> HIDE DEF g, taken
    <3> QED
      BY <2>3, <2>4, FrameJumps
  <2>6. f.jumps = taken
    <3> HIDE DEF taken, d
    <3> QED
      BY <2>1 DEF Frame
  <2>7. Uncycled(Top) /\ AllUncycled(stack)
    BY <1>1, <2>1, FrontProps, LenProperties DEF Mirroring, AllUncycled
  <2>8. Uncycled(f)
    BY <2>3, <2>5, <2>6, <2>7 DEF Uncycled
  <2>9. stack' = [stack EXCEPT ![Len(stack)] = f]
    BY <1>3, <2>1 DEF TopAt
  <2> HIDE DEF f
  <2> QED
    BY <2>1, <2>5, <2>7, <2>8, <2>9, UncycledTop
<1> QED
  BY <1>2, <1>3 DEF TakeJump

LEMMA UncycledStep ==
  ASSUME Core, Mirroring, Mirrorable, Next, status' = "running"
  PROVE  AllUncycled(stack')
<1>1. /\ status = "running" /\ AllUncycled(stack) /\ stack \in Seq(Frame) /\ stack # <<>>
  BY AtCursor
     DEF Mirroring, Core, Scoped, Next, ExecLeaf, ExecPlain, ExecStatement, ExecJumps, EnterBody,
         EnterIf, EnterWhile, EnterLoop, EnterFor, ScopeEnd, EndStraight, EndWhile, EndLoop, EndRepeat,
         EndFor, TakeJump, Propagate, PopAll, AtBlock, AtScopeEnd, Running
<1>2. CASE ExecLeaf
  BY <1>1, <1>2, UncycledAdvanced
     DEF ExecLeaf, ExecPlain, ExecStatement, ExecJumps, FailReading, Fail, Finish
<1>3. CASE EnterBody
  <2>1. \/ stack' = stack \/ stack' = Advanced(stack)
        \/ \E f : f.jumps = 0 /\ stack' = Append(stack, f)
    BY <1>3 DEF EnterBody, EnterIf, EnterWhile, EnterLoop, EnterFor, Skip, Finish, Push, Enter,
                FailReading, Fail, NewFrame
  <2> QED
    BY <1>1, <2>1, UncycledAdvanced, UncycledAppend
<1>4. ASSUME NEW c \in Nat, Iterate(c) PROVE AllUncycled(stack')
  <2>1. Again(c) \in Frame /\ stack' = [stack EXCEPT ![Len(stack)] = Again(c)]
    BY <1>1, <1>4, AgainProps
  <2>2. Top = stack[Len(stack)] /\ Top \in Frame /\ Uncycled(Top)
    BY <1>1, AtCursor, FrontProps, LenProperties DEF AllUncycled
  <2>3. Again(c).jumps = Top.jumps /\ Again(c).op = Top.op
    BY <2>2, AgainFields
  <2>4. Uncycled(Again(c))
    BY <2>2, <2>3 DEF Uncycled
  <2> QED
    BY <1>1, <2>1, <2>4, UncycledTop
<1>5. ASSUME PopAndAdvance PROVE AllUncycled(stack')
  <2>1. Front(stack) \in Seq(Frame) /\ AllUncycled(Front(stack))
    BY <1>1, UncycledFront
  <2>2. CASE Len(stack) = 1
    BY <1>5, <2>2, EmptySeq DEF PopAndAdvance, AllUncycled
  <2>3. CASE Len(stack) # 1
    <3>1. Front(stack) # <<>>
      BY <1>1, <2>3, Popped DEF Core
    <3> QED
      BY <1>5, <2>1, <2>3, <3>1, UncycledAdvanced DEF PopAndAdvance
  <2> QED
    BY <2>2, <2>3
<1>6. CASE ScopeEnd
  <2>1. Top.count \in Nat /\ Top.count + 1 \in Nat
    BY <1>1, AtCursor, FrameFields
  <2>2. \/ PopAndAdvance \/ Iterate(Top.count) \/ Iterate(Top.count + 1)
        \/ stack' = stack
    BY <1>6 DEF ScopeEnd, EndStraight, EndWhile, EndLoop, EndRepeat, EndFor, PopAndGoOn, Fail
  <2> QED
    BY <1>1, <1>4, <1>5, <2>1, <2>2
<1>7. CASE TakeJump
  BY <1>7, UncycledJump
<1>8. CASE Propagate \/ PopAll
  BY <1>1, <1>8, UncycledFront DEF Propagate, PopAll, PopFrame
<1> QED
  BY <1>2, <1>3, <1>6, <1>7, <1>8 DEF Next

(* What is written inside a body's block is written inside the body.       *)
LEMMA InsideClimbs ==
  ASSUME NEW p, NEW pos \in Positions(p), NEW s \in Bodies(BlockAt(p, pos).op)
  PROVE  Inside(p, s) \subseteq Inside(p, pos[1])
BY DEF Inside

LEMMA CallerPair == Walker!Caller = <<Walker!Caller[1], Walker!Caller[2]>>
BY DEF Walker!Caller

(* The jumps of a block in a body are jumps of the block that opens it.    *)
LEMMA ArmsClimb ==
  ASSUME Core, status = "running", Len(stack) # 1, Top.index <= Len(prog[Top.scope])
  PROVE  Arms(prog, Here) \subseteq Arms(prog, Walker!Caller)
<1>1. /\ Walker!Caller \in Positions(prog) /\ BlockAt(prog, Walker!Caller).op = Top.op
      /\ Top.scope \in Bodies(Top.op)
  BY CallerBlock
<1>2. Here \in Positions(prog) /\ Here[1] = Top.scope
  <2>1. Top.scope \in Scopes /\ Top.index \in Nat \ {0}
    BY AtCursor
  <2>2. Len(prog[Top.scope]) \in Nat
    BY <2>1, LenProperties DEF Core, IsProgram
  <2> QED
    BY <2>1, <2>2 DEF Here, Positions
<1>3. Top.scope \in Inside(prog, Top.scope)
  BY AtCursor DEF Inside
<1>4. \A q \in Written(prog, Here) : q \in Positions(prog) /\ q[1] \in Inside(prog, Top.scope)
  BY <1>2, <1>3, InsideClimbs DEF Written
<1>5. Written(prog, Here) \subseteq Written(prog, Walker!Caller)
  BY <1>1, <1>4 DEF Written
<1> QED
  BY <1>5 DEF Arms

LEMMA JumpStep ==
  ASSUME Core, Mirroring, Next, status' = "running", flow'.tag = "jump"
  PROVE  flow'.arm \in Arms(prog, Here') /\ Top'.index <= Len(prog[Top'.scope])
<1>1. CASE ExecJumps
  <2>1. AtBlock /\ status = "running" /\ HereOp \in Op /\ Here \in Positions(prog)
        /\ Top.index <= Len(prog[Top.scope])
    BY <1>1, AtBlockFacts DEF ExecJumps
  <2> DEFINE k == DecidingArm(HereOp)
  <2>2. k # 0 /\ flow' = Jump(HereOp.arms[k]) /\ stack' = stack
    BY <1>1 DEF ExecJumps, FailReading, Fail, AtBlock, Running
  <2>3. k \in DOMAIN HereOp.arms
    BY <2>1, <2>2, ArmIndex
  <2>4. HereOp.arms[k] \in Arms(prog, Here)
    <3> HIDE DEF k
    <3> QED
      BY <2>1, <2>3 DEF Arms, Written, HereOp
  <2>5. Top' = Top
    BY <2>2 DEF Top
  <2> QED
    BY <2>1, <2>2, <2>4, <2>5 DEF Jump, Here
<1>2. CASE Propagate
  <2>1. status = "running" /\ flow.tag = "jump" /\ flow' = flow /\ stack' = Front(stack) /\ Len(stack) # 1
    BY <1>2 DEF Propagate, PopFrame, JumpFailure
  <2>2. /\ Last(Front(stack)).scope = Walker!Caller[1] /\ Last(Front(stack)).index = Walker!Caller[2]
        /\ Walker!Caller[2] <= Len(prog[Walker!Caller[1]])
    BY <2>1, CallerBlock
  <2>3. Top' = Last(Front(stack))
    BY <2>1 DEF Top
  <2>4. Here' = Walker!Caller
    BY <2>2, <2>3, CallerPair DEF Here
  <2>5. flow.arm \in Arms(prog, Walker!Caller)
    BY <2>1, ArmsClimb DEF Mirroring
  <2> QED
    BY <2>1, <2>2, <2>3, <2>4, <2>5
<1>3. CASE Next /\ ~ExecJumps /\ ~Propagate
  <2>1. CASE ExecLeaf
    BY <1>3, <2>1 DEF ExecLeaf, ExecPlain, ExecStatement, FailReading, Fail, AtBlock, Running, Continue, EndFlow
  <2>2. CASE EnterBody
    BY <2>2 DEF EnterBody, EnterIf, EnterWhile, EnterLoop, EnterFor, Push, Enter, Skip, FailReading, Fail,
                AtBlock, Running, Continue
  <2>3. CASE ScopeEnd
    BY <2>3 DEF ScopeEnd, EndStraight, EndWhile, EndLoop, EndRepeat, EndFor, PopAndGoOn, PopAndAdvance,
                Iterate, FailReading, Fail, AtScopeEnd, Running, Continue
  <2>4. CASE TakeJump
    BY <2>4 DEF TakeJump, Fail, Continue
  <2>5. CASE PopAll
    BY <2>5 DEF PopAll, PopFrame
  <2> QED
    BY <1>3, <2>1, <2>2, <2>3, <2>4, <2>5 DEF Next
<1> QED
  BY <1>1, <1>2, <1>3

LEMMA NextMirroring == Mirrorable /\ Core /\ Mirroring /\ [Next]_vars => Mirroring'
<1> SUFFICES ASSUME Mirrorable, Core, Mirroring, [Next]_vars PROVE Mirroring'
  OBVIOUS
<1>1. CASE UNCHANGED vars
  BY <1>1 DEF vars, Mirroring, Top, Here
<1>2. CASE Next
  <2>1. prog' = prog
    BY <1>2 DEF Next, ExecLeaf, ExecPlain, ExecStatement, ExecJumps, FailReading, Fail, EnterBody, EnterIf,
                EnterWhile, EnterLoop, EnterFor, Push, Enter, Skip, ScopeEnd, EndStraight, EndWhile,
                EndLoop, EndRepeat, EndFor, PopAndGoOn, PopAndAdvance, Iterate, TakeJump, Propagate,
                PopAll, PopFrame
  <2> QED
    BY <1>2, <2>1, UncycledStep, JumpStep DEF Mirroring
<1> QED
  BY <1>1, <1>2

LEMMA InitMirroring == Init => Mirroring
<1> SUFFICES ASSUME Init PROVE Mirroring
  OBVIOUS
<1>1. NewFrame(Root, Nop, 0, 0).jumps = 0
  BY DEF NewFrame
<1> QED
  BY <1>1 DEF Init, Mirroring, AllUncycled, Uncycled, Continue

-----------------------------------------------------------------------------
(* The actions of the VM as actions of the walker.                         *)

LEMMA SameMoves ==
  /\ \A frame, calls : Walker!Descend(frame, calls) <=> Push(frame, calls)
  /\ \A calls : Walker!Skip(calls) <=> Skip(calls)
  /\ \A calls : Walker!FailReading(calls) <=> FailReading(calls)
  /\ \A ending : Walker!Fail(ending) <=> Fail(ending)
BY SameLog, SameCursor, SameReading
   DEF Walker!Descend, Push, Walker!Skip, Skip, Walker!FailReading, FailReading, Walker!Fail, Fail,
       Walker!Enter, Enter, Walker!Finish, Finish

LEMMA MirrorIf ==
  ASSUME Core, EnterIf
  PROVE  Walker!EnterIf
<1>1. AtBlock /\ HereOp.tag = "if" /\ HereOp.body # NoScope
  BY AtBlockFacts DEF EnterIf
<1>2. CASE ~CanRead(HereOp.cond.lhs, env)
  BY <1>1, <1>2, SameMoves, SameCursor, SameReading DEF EnterIf, Walker!EnterIf
<1>3. CASE CanRead(HereOp.cond.lhs, env) /\ Holds(HereOp.cond, env)
  BY <1>1, <1>3, SameMoves, SameCursor, SameReading DEF EnterIf, Walker!EnterIf
<1>4. CASE CanRead(HereOp.cond.lhs, env) /\ ~Holds(HereOp.cond, env)
  <2>1. /\ env' = AfterReading({HereOp.cond.lhs.var}, env)
        /\ IF HereOp.alt # NoScope THEN Push(NewFrame(HereOp.alt, HereOp, 0, 0), <<>>) ELSE Skip(<<>>)
    BY <1>4 DEF EnterIf
  <2> QED
    BY <1>1, <1>4, <2>1, SameMoves, SameCursor, SameReading DEF Walker!EnterIf
<1> QED
  BY <1>2, <1>3, <1>4

LEMMA MirrorWhile ==
  ASSUME Core, Mirrorable, EnterWhile
  PROVE  Walker!EnterWhile
<1>1. Limit > 0 /\ ~(Limit = 0)
  BY LimitAssumption DEF Mirrorable
<1> QED
  BY <1>1, SameMoves, SameCursor, SameReading DEF EnterWhile, Walker!EnterWhile

LEMMA MirrorLoop ==
  ASSUME EnterLoop
  PROVE  Walker!EnterLoop
BY SameMoves, SameCursor DEF EnterLoop, Walker!EnterLoop

LEMMA MirrorFor ==
  ASSUME Core, Mirroring, Mirrorable, EnterFor
  PROVE  Walker!EnterFor
<1>1. AtBlock /\ HereOp.tag = "for" /\ Here \in Positions(prog)
  BY AtBlockFacts DEF EnterFor
<1>2. HereOp.var \in Vars
  BY <1>1 DEF Mirrorable, Mirroring, HereOp
<1> DEFINE env1  == AfterReading({HereOp.expr.var}, env)
           env2  == Assigned(HereOp, env1)
           calls == <<Change(HereOp.var, ValueOf(HereOp.expr, env1))>>
           end   == ValueOf(HereOp.to, env2)
<1>3. CASE ~CanRead(HereOp.expr, env)
  BY <1>1, <1>3, SameMoves, SameCursor, SameReading DEF EnterFor, Walker!EnterFor
<1>4. CASE CanRead(HereOp.expr, env) /\ ~CanRead(HereOp.to, env2)
  <2>1. FailReading(calls) /\ env' = env2
    BY <1>4 DEF EnterFor
  <2> QED
    BY <1>1, <1>4, <2>1, SameMoves, SameCursor, SameReading, SameLog DEF Walker!EnterFor
<1>5. CASE CanRead(HereOp.expr, env) /\ CanRead(HereOp.to, env2)
  <2>1. /\ env' = AfterReading({HereOp.to.var}, env2)
        /\ IF env2[HereOp.var] <= end THEN Push(NewFrame(HereOp.body, HereOp, 0, end), calls)
           ELSE Skip(calls)
    BY <1>2, <1>5 DEF EnterFor
  <2> QED
    BY <1>1, <1>2, <1>5, <2>1, SameMoves, SameCursor, SameReading, SameLog DEF Walker!EnterFor
<1> QED
  BY <1>3, <1>4, <1>5

-----------------------------------------------------------------------------
(* Going round, and leaving a body.                                        *)

LEMMA MirrorIterate ==
  ASSUME Core, Mirroring, status = "running", Top.op.tag \in Loops, NEW c \in Nat, Iterate(c)
  PROVE  Walker!Iterate(c)
<1>1. Top \in Frame /\ Top.jumps = 0
  <2>1. stack \in Seq(Frame) /\ stack # <<>> /\ Top = stack[Len(stack)] /\ Top \in Frame
    BY AtCursor DEF Core, Scoped
  <2> QED
    BY <2>1, FrontProps, LenProperties DEF Mirroring, AllUncycled, Uncycled
<1>2. stack' = [stack EXCEPT ![Len(stack)] = NewFrame(Top.scope, Top.op, c, Top.end)]
  BY <1>1, AgainProps, AgainFields
<1> QED
  BY <1>2, SameCursor DEF Iterate, Walker!Iterate

LEMMA MirrorReturn ==
  ASSUME Core, Mirroring, Mirrorable, status = "running", Top.op.tag # "none", PopAndGoOn,
         NEW calls \in Seq(OutputCall), out' = Emitted(calls)
  PROVE  Walker!Return(calls)
<1>1. Len(stack) # 1
  BY BottomFrame
<1>2. CommentAt(Walker!Caller) = <<>> /\ calls \o <<>> = calls
  BY <1>1, NoCallerComment, NothingEmitted
<1>3. out' = Emitted(calls \o CommentAt(Walker!Caller))
  BY <1>2
<1> QED
  BY <1>1, <1>3, SameCursor, SameLog DEF PopAndGoOn, PopAndAdvance, Walker!Return

LEMMA MirrorReturnSilent ==
  ASSUME Core, Mirroring, Mirrorable, status = "running", Top.op.tag # "none", PopAndGoOn, out' = out
  PROVE  Walker!Return(<<>>)
<1>1. out' = Emitted(<<>>) /\ <<>> \in Seq(OutputCall)
  BY NothingEmitted, EmptySeq
<1> QED
  BY <1>1, MirrorReturn

LEMMA MirrorStraight ==
  ASSUME Core, Mirroring, Mirrorable, EndStraight
  PROVE  Walker!EndProgramText \/ Walker!EndIf
<1>1. status = "running" /\ AtScopeEnd
  BY DEF EndStraight, AtScopeEnd, Running
<1>2. CASE Len(stack) = 1
  <2>1. /\ stack' = <<>> /\ jumpScopes' = <<>> /\ status' = "done"
        /\ UNCHANGED <<prog, flow, env, seen, out>>
    BY <1>1, <1>2, BottomFrame DEF EndStraight, PopAndAdvance
  <2> QED
    BY <1>1, <1>2, <2>1, SameCursor DEF Walker!EndProgramText
<1>3. CASE Len(stack) # 1
  <2>1. Top.op.tag = "if" /\ PopAndGoOn /\ out' = out /\ env' = env
    BY <1>1, <1>3, BottomFrame DEF EndStraight, PopAndGoOn
  <2>2. Walker!Return(<<>>)
    BY <1>1, <2>1, MirrorReturnSilent
  <2> QED
    BY <1>1, <2>1, <2>2, SameCursor DEF Walker!EndIf
<1> QED
  BY <1>2, <1>3

LEMMA MirrorEndWhile ==
  ASSUME Core, Mirroring, Mirrorable, EndWhile
  PROVE  Walker!EndWhile
<1>1. /\ status = "running" /\ AtScopeEnd /\ Top.op.tag = "while" /\ env' = env /\ out' = out
      /\ Top.op.tag \in Loops /\ Top.op.tag # "none"
  BY DEF EndWhile, AtScopeEnd, Running, Loops
<1>2. Top.count \in Nat /\ Top.count + 1 \in Nat
  BY <1>1, AtCursor, FrameFields
<1>3. CASE Top.count >= Limit
  <2>1. Fail("LoopLimit")
    BY <1>2, <1>3, LimitAssumption DEF EndWhile
  <2> QED
    BY <1>1, <1>2, <1>3, <2>1, SameMoves, SameCursor, SameReading, LimitAssumption DEF Walker!EndWhile
<1>4. CASE Top.count < Limit /\ Holds(Top.op.cond, env)
  <2> ~(Top.count >= Limit)
    BY <1>2, <1>4, LimitAssumption
  <2> Iterate(Top.count + 1)
    BY <1>4 DEF EndWhile
  <2>1. Walker!Iterate(Top.count + 1)
    BY <1>1, <1>2, MirrorIterate
  <2> QED
    BY <1>1, <1>2, <1>4, <2>1, SameMoves, SameCursor, SameReading, LimitAssumption DEF Walker!EndWhile
<1>5. CASE Top.count < Limit /\ ~Holds(Top.op.cond, env)
  <2>1. PopAndGoOn
    BY <1>2, <1>5, LimitAssumption DEF EndWhile
  <2>2. Walker!Return(<<>>)
    BY <1>1, <2>1, MirrorReturnSilent
  <2> QED
    BY <1>1, <1>2, <1>5, <2>2, SameMoves, SameCursor, SameReading, LimitAssumption DEF Walker!EndWhile
<1> QED
  BY <1>2, <1>3, <1>4, <1>5, LimitAssumption

LEMMA MirrorEndLoop ==
  ASSUME Core, Mirroring, EndLoop
  PROVE  Walker!EndLoop
<1>1. status = "running" /\ Top.op.tag = "loop" /\ Top.op.tag \in Loops
  BY DEF EndLoop, AtScopeEnd, Running, Loops
<1>2. Top.count + 1 \in Nat
  BY <1>1, AtCursor, FrameFields
<1>3. IF Top.count + 1 >= Limit THEN Walker!Fail("LoopLimit") ELSE Walker!Iterate(Top.count + 1)
  BY <1>1, <1>2, SameMoves, MirrorIterate DEF EndLoop
<1> QED
  BY <1>3, SameCursor DEF EndLoop, Walker!EndLoop

LEMMA MirrorEndRepeat ==
  ASSUME Core, Mirroring, Mirrorable, EndRepeat
  PROVE  Walker!EndRepeat
<1>1. /\ status = "running" /\ AtScopeEnd /\ Top.op.tag = "repeat" /\ out' = out
      /\ Top.op.tag \in Loops /\ Top.op.tag # "none"
  BY DEF EndRepeat, AtScopeEnd, Running, Loops
<1>2. Top.count + 1 \in Nat
  BY <1>1, AtCursor, FrameFields
<1>3. CASE Top.count + 1 >= Limit
  <2>1. Fail("LoopLimit") /\ env' = env
    BY <1>2, <1>3, LimitAssumption DEF EndRepeat
  <2> QED
    BY <1>1, <1>2, <1>3, <2>1, SameMoves, SameCursor, SameReading, LimitAssumption DEF Walker!EndRepeat
<1>4. CASE Top.count + 1 < Limit /\ ~CanRead(Top.op.cond.lhs, env)
  <2>1. Fail("Undefined") /\ env' = env
    BY <1>2, <1>4, LimitAssumption DEF EndRepeat
  <2> QED
    BY <1>1, <1>2, <1>4, <2>1, SameMoves, SameCursor, SameReading, LimitAssumption DEF Walker!EndRepeat
<1>5. CASE Top.count + 1 < Limit /\ CanRead(Top.op.cond.lhs, env)
  <2>1. /\ env' = AfterReading({Top.op.cond.lhs.var}, env)
        /\ IF Holds(Top.op.cond, env) THEN PopAndGoOn ELSE Iterate(Top.count + 1)
    BY <1>2, <1>5, LimitAssumption DEF EndRepeat
  <2>2. IF Holds(Top.op.cond, env) THEN Walker!Return(<<>>) ELSE Walker!Iterate(Top.count + 1)
    BY <1>1, <1>2, <2>1, MirrorReturnSilent, MirrorIterate
  <2> QED
    BY <1>1, <1>2, <1>5, <2>1, <2>2, SameMoves, SameCursor, SameReading, LimitAssumption
       DEF Walker!EndRepeat
<1> QED
  BY <1>2, <1>3, <1>4, <1>5, LimitAssumption

LEMMA MirrorEndFor ==
  ASSUME Core, Mirroring, Mirrorable, EndFor
  PROVE  Walker!EndFor
<1> DEFINE v    == Top.op.var
           call == <<Change(v, env[v] + 1)>>
<1>1. /\ status = "running" /\ AtScopeEnd /\ Top.op.tag = "for" /\ Top.op.tag # "none"
      /\ Top = stack[Len(stack)] /\ Top.count \in Nat /\ Top.end \in Int /\ Top.op.tag \in Loops
  BY AtCursor, FrameFields DEF EndFor, AtScopeEnd, Running, Loops
<1>2. v \in Vars /\ env[v] \in Int /\ env[v] + 1 \in Int
  <2>1. Len(stack) \in DOMAIN stack
    BY <1>1, AtCursor, LenProperties, EmptySeq DEF Core, Scoped
  <2> QED
    BY <1>1, <2>1 DEF Core, Counting
<1>3. call \in Seq(OutputCall)
  BY <1>2, ValueCalls
<1>4. /\ env' = [env EXCEPT ![v] = env[v] + 1] /\ out' = Emitted(call)
      /\ IF env[v] + 1 <= Top.end THEN Iterate(Top.count) ELSE PopAndGoOn
  BY DEF EndFor
<1>5. IF env[v] + 1 > Top.end THEN Walker!Return(call) ELSE Walker!Iterate(Top.count)
  <2> HIDE DEF call
  <2> QED
    BY <1>1, <1>2, <1>3, <1>4, MirrorReturn, MirrorIterate
<1> QED
  BY <1>1, <1>4, <1>5, SameCursor, SameLog DEF Walker!EndFor

LEMMA MirrorLeave ==
  ASSUME Core, Mirroring, Mirrorable, status = "running", NEW ending, PopFrame(ending)
  PROVE  Walker!LeaveScope(ending)
<1>1. CASE Len(stack) = 1
  BY <1>1, SameCursor DEF PopFrame, Walker!LeaveScope
<1>2. CASE Len(stack) # 1
  <2>1. Emitted(CommentAt(Walker!Caller)) = out
    BY <1>2, NoCallerComment, NothingEmitted
  <2> QED
    BY <1>2, <2>1, SameCursor, SameLog DEF PopFrame, Walker!LeaveScope
<1> QED
  BY <1>1, <1>2

LEMMA NextMirrors == Mirrorable /\ Core /\ Mirroring /\ [Next]_vars => [Walker!Next]_vars
<1> SUFFICES ASSUME Mirrorable, Core, Mirroring, Next PROVE Walker!Next
  OBVIOUS
<1>1. CASE ExecLeaf
  BY <1>1, SameLeaf DEF Walker!Next
<1>2. CASE EnterBody
  BY <1>2, MirrorIf, MirrorWhile, MirrorLoop, MirrorFor DEF EnterBody, Walker!Next, Walker!EnterBody
<1>3. CASE ScopeEnd
  BY <1>3, MirrorStraight, MirrorEndWhile, MirrorEndLoop, MirrorEndRepeat, MirrorEndFor
     DEF ScopeEnd, Walker!Next, Walker!EndOfBody
<1>4. CASE TakeJump
  BY <1>4, SameJump DEF Walker!Next
<1>5. CASE Propagate
  BY <1>5, MirrorLeave, SameJump DEF Propagate, Walker!Propagate, Walker!Next
<1>6. CASE PopAll
  BY <1>6, MirrorLeave DEF PopAll, Walker!UnwindEnd, Walker!Next
<1> QED
  BY <1>1, <1>2, <1>3, <1>4, <1>5, <1>6 DEF Next

(* On every mirrorable program the VM takes the walker's steps and no      *)
(* others (vm.rs: a behaviour-preserving reification of the walker).       *)
THEOREM VmMirrorsWalker == Mirrorable => (Spec => MirrorsWalker)
<1> SUFFICES ASSUME Mirrorable PROVE Spec => MirrorsWalker
  OBVIOUS
<1>1. Core /\ Mirroring /\ [Next]_vars => (Core /\ Mirroring)'
  BY VmNextCore, NextMirroring
<1>2. Core /\ Mirroring /\ [Next]_vars => [Walker!Next]_vars
  BY NextMirrors
<1> QED
  BY <1>1, <1>2, InitCore, InitMirroring, PTL DEF Spec, MirrorsWalker

=============================================================================
